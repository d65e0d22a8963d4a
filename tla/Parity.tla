--------------------------------- MODULE Parity ---------------------------------
(***************************************************************************)
(* The check that host.wit and what a host registers agree                 *)
(* (src/parity.rs, HCV-06).                                                *)
(*                                                                         *)
(* host.wit, once parsed, is a set of worlds, each of this package or of   *)
(* one it uses, with the items it exports.  A host reports registrations.  *)
(***************************************************************************)
EXTENDS Integers

CONSTANT Interfaces  \* names with their version; a name that cannot be built is NoName

NoName == "no name"

ASSUME ParityAssumption == NoName \notin Interfaces

ExportedItem == [interface : BOOLEAN, name : Interfaces \union {NoName}]
World        == [own : BOOLEAN, exports : SUBSET ExportedItem]
HostWit      == [parses : BOOLEAN, worlds : SUBSET World]
Registration == [interface : Interfaces, kind : {"real", "stub"}]

\* Fault: the worlds of used packages count as well.
ParseHostWitAllWorlds(wit) ==
  {e.name : e \in {x \in UNION {w.exports : w \in wit.worlds} : x.interface /\ x.name /= NoName}}

\* parse_host_wit
ParseHostWit(wit) ==
  LET own == {w \in wit.worlds : w.own}
  IN {e.name : e \in {x \in UNION {w.exports : w \in own} : x.interface /\ x.name /= NoName}}

\* check; the violations are counted by kind and interface.
Check(wit, registrations) ==
  LET declared   == ParseHostWit(wit)
      registered == {r.interface : r \in registrations}
  IN IF ~wit.parses
       THEN {<<"wit", NoName>>}
       ELSE {<<"declared", i>> : i \in declared \ registered}
              \union {<<"registered", i>> : i \in registered \ declared}
              \union {<<"stubbed", r.interface>> : r \in {x \in registrations : x.kind = "stub"}}
=============================================================================
