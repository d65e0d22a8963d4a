----------------------------- MODULE MCComposition -----------------------------
(***************************************************************************)
(* Model checking of Composition over all deployments made of a bridge     *)
(* interface, an envelope interface, an interface of the host's own, an    *)
(* ambient one, a foreign one and the guest's own, at up to three          *)
(* versions.  In most of them what has to be joined fits; in a smaller     *)
(* family each way of failing to is tried with every other.                *)
(***************************************************************************)
EXTENDS Composition

CONSTANTS store, sockets, routing, clock, foreign, handler

MCPaths == {store, sockets, routing, clock, foreign, handler}
MCAmbient == {clock}
MCBridgeReachable == {clock, routing, sockets}

V(a, b, c) == [major |-> a, minor |-> b, patch |-> c]
MCVersions == {V(0, 1, 0), V(0, 1, 1), V(1, 0, 1), V(1, 1, 0)}

Ref(p, v) == [path |-> p, version |-> v]
Key(p)    == Ref(p, NoVersion)

Store010   == Ref(store, V(0, 1, 0))
Store110   == Ref(store, V(1, 1, 0))
Sockets010 == Ref(sockets, V(0, 1, 0))
Sockets011 == Ref(sockets, V(0, 1, 1))
Routing101 == Ref(routing, V(1, 0, 1))
Routing110 == Ref(routing, V(1, 1, 0))

Candidates == {Store010, Store110, Sockets010, Sockets011, Routing101, Key(clock)}
GuestImports == {{i, j} : i, j \in Candidates} \union {{}}

Provided == {<<>>, <<Sockets010>>, <<Routing101>>, <<Routing110, Sockets011>>, <<Store010>>,
             <<Key(foreign), Routing101>>}
Envelopes == {<<>>, <<Sockets010>>}

Component(imports, exports) ==
  [valid |-> TRUE, imports |-> imports, exports |-> exports, own |-> InSeq(exports)]
Files ==
  {[valid |-> FALSE, imports |-> {}, exports |-> <<>>, own |-> {}],
   Component({}, <<Store010>>),
   Component({Key(clock)}, <<Store110, Store010>>),
   Component({Sockets010}, <<Store010>>),
   Component({Routing101, Ref(foreign, NoVersion)}, <<Store010>>),
   Component({Routing101}, <<Sockets010, Store010>>)}

B(key, file) == [key |-> key, file |-> file]
Bridges ==
  {<<>>}
  \union {<<B(k, f)>> : k \in {Key(store), Store110, Key(sockets)}, f \in Files}
  \union {<<B(Key(sockets), f), B(Key(store), g)>> : f, g \in Files}
  \union {<<B(Key(store), f), B(Store010, f)>> : f \in Files}
  \union {<<B(Key(clock), Component({}, <<Ref(clock, v)>>))>> : v \in {V(0, 1, 0), NoVersion}}

Handler == {Key(handler)}

\* What has to be joined fits, unless the guest does not even load.
Fitting ==
  [guestLoads : {TRUE}, imports : GuestImports, exports : {Handler}, own : {Handler},
   typesFit : {TRUE}, composedLoads : {TRUE},
   provided : Provided, envelopes : Envelopes, bridges : Bridges]
  \union
  [guestLoads : {FALSE}, imports : {{}}, exports : {{}}, own : {{}},
   typesFit : {TRUE}, composedLoads : {TRUE},
   provided : {<<>>}, envelopes : {<<>>}, bridges : {<<>>}]

\* A bridge at a newer patch than the guest asks for, and one whose export was misreported.
StoreFiles ==
  {Component({}, <<Store010>>),
   Component({}, <<Ref(store, V(0, 1, 1))>>),
   [Component({}, <<Store010>>) EXCEPT !.own = {}]}

Failing ==
  [guestLoads : {TRUE}, imports : {{}, {Store010}, {Store010, Ref(store, V(0, 1, 1))}},
   exports : {{}, Handler}, own : {{}, Handler}, typesFit : BOOLEAN, composedLoads : BOOLEAN,
   provided : {<<>>}, envelopes : {<<>>},
   bridges : {<<>>} \union {<<B(Key(store), f)>> : f \in StoreFiles}]

MCDeployments == Fitting \union Failing
=============================================================================
