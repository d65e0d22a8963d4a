--------------------------------- MODULE Config ---------------------------------
(***************************************************************************)
(* host.toml (src/config.rs): which configurations parse accepts, with     *)
(* what error it refuses the others, and how sizes and durations are read. *)
(*                                                                         *)
(* TOML itself is read by a library.  What is left of a text, blanks       *)
(* aside, is a number and the letters after it.                            *)
(***************************************************************************)
EXTENDS Integers, SequencesExt

CONSTANTS
  MaxU64,  \* the largest u64
  Kibi     \* 1024, scaled down with MaxU64

ASSUME ConfigAssumption == MaxU64 \in Nat /\ Kibi \in Nat \ {0}

NoNumber == -1
Refused  == -2
Panic    == [secs |-> -1, millis |-> 0]

Text == [digits : Nat \union {NoNumber}, unit : Seq({"K", "M", "G", "k", "g", "h", "m", "s"})]

IsU64(n) == n \in 0..MaxU64

-----------------------------------------------------------------------------
(* Sizes *)

\* Upper and lower case mean the same.
SizeFactor ==
  [K |-> Kibi, M |-> Kibi * Kibi, G |-> Kibi * Kibi * Kibi,
   k |-> Kibi, m |-> Kibi * Kibi, g |-> Kibi * Kibi * Kibi]

\* Fault: the product is taken modulo the width, as the * operator does in a release build.
MultipliedWrapping(n, factor) == (n * factor) % (MaxU64 + 1)

\* checked_mul
Multiplied(n, factor) == IF IsU64(n * factor) THEN n * factor ELSE Refused

\* parse_size
ParseSize(t) ==
  LET suffixed == t.unit /= <<>> /\ Last(t.unit) \in DOMAIN SizeFactor
      rest     == IF suffixed THEN Front(t.unit) ELSE t.unit
      factor   == IF suffixed THEN SizeFactor[Last(t.unit)] ELSE 1
  IN IF rest = <<>> /\ IsU64(t.digits) THEN Multiplied(t.digits, factor) ELSE Refused

-----------------------------------------------------------------------------
(* Durations *)

\* Fault: the short suffixes are tried first.
DurationSuffixesShortFirst == <<<<"s">>, <<"m">>, <<"h">>, <<"m", "s">>>>

\* In the order in which they are tried.
DurationSuffixes == <<<<"m", "s">>, <<"s">>, <<"m">>, <<"h">>>>

Duration(secs, millis) == [secs |-> secs, millis |-> millis]

\* The product is not checked: a debug build panics, a release build wraps.
FromSecs(n) == IF IsU64(n) THEN {Duration(n, 0)} ELSE {Panic, Duration(n % (MaxU64 + 1), 0)}

\* The position of the first of them that a text ends in, or 0.
FirstFitting(unit) == SelectInSeq(DurationSuffixes, LAMBDA s : IsSuffix(s, unit))

SecondsPer == [s |-> 1, m |-> 60, h |-> 3600]

\* parse_duration, by the outcomes it can have; none is a refusal.
ParseDuration(t) ==
  LET first == FirstFitting(t.unit)
  IN IF first = 0 \/ t.unit /= DurationSuffixes[first] \/ ~IsU64(t.digits)
       THEN {}
       ELSE IF t.unit = <<"m", "s">>
              THEN {Duration(t.digits \div 1000, t.digits % 1000)}
              ELSE FromSecs(t.digits * SecondsPer[t.unit[1]])

-----------------------------------------------------------------------------
(* Configurations: which blocks and required keys are missing, what deployment-mode says, *)
(* and the values of [runtime], each in a set that is empty where the key is absent.       *)

Required == {"[host]", "[guest]", "[host] name", "[host] version", "[host] component-model",
             "[guest] name", "[guest] wasm", "[guest] world"}
Modes == {"", "development", "staging", "production", "other"}

\* The values an optional key can have.
Optional(values) == {s \in SUBSET values : \A x, y \in s : x = y}

RawConfig ==
  [missing : SUBSET Required, mode : Modes,
   memoryMax : Optional(Text), epochInterval : Optional(Text), instanceIdle : Optional(Text),
   instancesMin : Optional(Nat), instancesMax : Optional(Nat)]

Given(s, default) == IF s = {} THEN default ELSE CHOOSE x \in s : TRUE

InstancesMin(raw) == Given(raw.instancesMin, 8)
InstancesMax(raw) == Given(raw.instancesMax, 128)

\* Fault: a pool without a single instance passes when its floor is zero as well.
ChecksFloorOnly ==
  <<"[host]", "[guest]", "deployment-mode", "[host] name", "[host] version",
    "[host] component-model", "[guest] name", "[guest] wasm", "[guest] world", "memory-max",
    "epoch-interval", "instance-idle", "instances-min">>

\* In the order of parse.
Checks ==
  <<"[host]", "[guest]", "deployment-mode", "[host] name", "[host] version",
    "[host] component-model", "[guest] name", "[guest] wasm", "[guest] world", "memory-max",
    "epoch-interval", "instance-idle", "instances-min", "instances-max">>

Fails(raw, check) ==
  CASE check \in Required          -> check \in raw.missing
    [] check = "deployment-mode"   -> raw.mode = "other"
    [] check = "memory-max"        -> \E t \in raw.memoryMax : ParseSize(t) = Refused
    [] check = "epoch-interval"    -> \E t \in raw.epochInterval : ParseDuration(t) = {}
    [] check = "instance-idle"     -> \E t \in raw.instanceIdle : ParseDuration(t) = {}
    [] check = "instances-min"     -> InstancesMin(raw) > InstancesMax(raw)
    [] check = "instances-max"     -> InstancesMax(raw) = 0

\* parse: the first check that fails is the error.
Parse(raw) ==
  LET first == SelectInSeq(Checks, LAMBDA check : Fails(raw, check))
  IN IF first = 0 THEN "accepted" ELSE Checks[first]
=============================================================================
