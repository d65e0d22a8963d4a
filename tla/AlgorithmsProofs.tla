---------------------------- MODULE AlgorithmsProofs ----------------------------
(***************************************************************************)
(* Theorems about Algorithms, for every text, configuration, log record    *)
(* and host.wit, and for integers of every width.                          *)
(***************************************************************************)
EXTENDS Algorithms, DataLemmas

\* What is computed from the input, and that it is an input.
InputOK ==
  /\ task.on = "size" => task.text \in SizeTexts
  /\ task.on = "duration" => task.text \in DurationTexts
  /\ task.on = "config" => task.raw \in Configurations
  /\ task.on = "log" => task.records \in LogRecords
  /\ task.on = "parity" => task.wit \in HostWits /\ task.registrations \in SUBSET Registration

ResultOK ==
  result /= {} =>
    /\ task.on = "size" => result = {ParseSize(task.text)}
    /\ task.on = "duration" => result = {ParseDuration(task.text)}
    /\ task.on = "config" => result = {Parse(task.raw)}
    /\ task.on = "log" => result = {Stream(task.level, task.records)}
    /\ task.on = "parity" => result = {Check(task.wit, task.registrations)}

AInv == InputOK /\ ResultOK

LEMMA Computed == Spec => []AInv
<1>1. Init => AInv
  BY DEF Init, AInv, InputOK, ResultOK
<1>2. AInv /\ [Next]_vars => AInv'
  <2> SUFFICES ASSUME AInv, [Next]_vars PROVE AInv'
    OBVIOUS
  <2>1. task' = task
    BY DEF Next, Compute, vars
  <2>2. ResultOK'
    <3> USE <2>1 DEF AInv, ResultOK, Compute
    <3>1. CASE task.on = "size" /\ Compute("size", ParseSize(task.text))
      BY <3>1
    <3>2. CASE task.on = "duration" /\ Compute("duration", ParseDuration(task.text))
      BY <3>2
    <3>3. CASE task.on = "config" /\ Compute("config", Parse(task.raw))
      BY <3>3
    <3>4. CASE task.on = "log" /\ Compute("log", Stream(task.level, task.records))
      BY <3>4
    <3>5. CASE task.on = "parity" /\ Compute("parity", Check(task.wit, task.registrations))
      BY <3>5
    <3>6. CASE UNCHANGED vars
      BY <3>6 DEF vars
    <3> QED
      BY <3>1, <3>2, <3>3, <3>4, <3>5, <3>6 DEF Next
  <2> QED
    BY <2>1, <2>2 DEF AInv, InputOK
<1> QED
  BY <1>1, <1>2, PTL DEF Spec

-----------------------------------------------------------------------------
(* host.wit *)

\* The check passes exactly when what its own worlds export is what is really served.
LEMMA CheckPasses ==
  ASSUME NEW wit \in HostWit, NEW registrations \in SUBSET Registration
  PROVE  Check(wit, registrations) = {} <=>
           /\ wit.parses
           /\ \A i \in Interfaces :
                /\ [interface |-> i, kind |-> "stub"] \notin registrations
                /\ (\E w \in wit.worlds : w.own /\ [interface |-> TRUE, name |-> i] \in w.exports)
                     <=> [interface |-> i, kind |-> "real"] \in registrations
<1> DEFINE declared   == ParseHostWit(wit)
           registered == {r.interface : r \in registrations}
           Declares(i) ==
             \E w \in wit.worlds : w.own /\ [interface |-> TRUE, name |-> i] \in w.exports
           Has(i, kind) == [interface |-> i, kind |-> kind] \in registrations
<1>1. \A w \in wit.worlds : w \in World /\ w.exports \subseteq ExportedItem
  BY DEF HostWit, World
<1>2. declared \subseteq Interfaces
  BY <1>1 DEF ParseHostWit, ExportedItem
<1>3. ASSUME NEW i \in Interfaces PROVE i \in declared <=> Declares(i)
  <2>1. ASSUME i \in declared PROVE Declares(i)
    <3>1. PICK w \in wit.worlds : w.own /\ \E x \in w.exports : x.interface /\ x.name = i
      BY <2>1 DEF ParseHostWit
    <3>2. PICK x \in w.exports : x.interface /\ x.name = i
      BY <3>1
    <3>3. x \in ExportedItem
      BY <1>1
    <3>4. x = [interface |-> TRUE, name |-> i]
      BY <3>2, <3>3 DEF ExportedItem
    <3> QED
      BY <3>1, <3>2, <3>4
  <2>2. ASSUME Declares(i) PROVE i \in declared
    <3>1. PICK w \in wit.worlds : w.own /\ [interface |-> TRUE, name |-> i] \in w.exports
      BY <2>2
    <3> QED
      BY <3>1, ParityAssumption DEF ParseHostWit
  <2> QED
    BY <2>1, <2>2
<1>4. \A r \in registrations :
        /\ r.interface \in Interfaces
        /\ r = [interface |-> r.interface, kind |-> "real"] \/ r.kind = "stub"
        /\ r.kind = "stub" => r = [interface |-> r.interface, kind |-> "stub"]
  BY DEF Registration
<1>5. registered \subseteq Interfaces
  BY <1>4
<1>6. ASSUME NEW i \in Interfaces PROVE i \in registered <=> Has(i, "real") \/ Has(i, "stub")
  <2>1. ASSUME i \in registered PROVE Has(i, "real") \/ Has(i, "stub")
    <3>1. PICK r \in registrations : r.interface = i
      BY <2>1
    <3> QED
      BY <3>1, <1>4
  <2> QED
    BY <2>1
<1>7. {x \in registrations : x.kind = "stub"} = {} <=> \A i \in Interfaces : ~Has(i, "stub")
  <2>1. ASSUME \A i \in Interfaces : ~Has(i, "stub"), NEW x \in registrations
        PROVE  x.kind /= "stub"
    BY <2>1, <1>4
  <2>2. ASSUME NEW i \in Interfaces, Has(i, "stub")
        PROVE  {x \in registrations : x.kind = "stub"} /= {}
    BY <2>2
  <2> QED
    BY <2>1, <2>2
<1> DEFINE stubs == {x \in registrations : x.kind = "stub"}
<1>8. Check(wit, registrations) = {} <=>
        wit.parses /\ declared = registered /\ stubs = {}
  <2>1. Check(wit, registrations) =
          IF ~wit.parses
            THEN {<<"wit", NoName>>}
            ELSE {<<"declared", i>> : i \in declared \ registered}
                   \union {<<"registered", i>> : i \in registered \ declared}
                   \union {<<"stubbed", r.interface>> : r \in stubs}
    BY DEF Check
  <2> HIDE DEF declared, registered, stubs
  <2> QED
    BY <2>1
<1>9. declared = registered <=> \A i \in Interfaces : i \in declared <=> i \in registered
  BY <1>2, <1>5
<1> HIDE DEF declared, registered, stubs, Declares, Has
<1>10. Check(wit, registrations) = {} <=>
         wit.parses /\ \A i \in Interfaces : ~Has(i, "stub") /\ (Declares(i) <=> Has(i, "real"))
  BY <1>3, <1>6, <1>7, <1>8, <1>9 DEF stubs
<1> QED
  BY <1>10 DEF Declares, Has

\* The parity check of a host passes exactly when every interface its own worlds export is
\* served by a working implementation, and nothing else is (HCV-06).
THEOREM ParityIsServed == Spec => []ParityMeansServed
<1>1. AInv => ParityMeansServed
  <2> SUFFICES ASSUME AInv, Done("parity") PROVE ParityMeansServed
    BY DEF ParityMeansServed
  <2>1. task.wit \in HostWit /\ task.registrations \in SUBSET Registration
    BY InputsAssumption DEF AInv, InputOK, Done
  <2>2. Result = Check(task.wit, task.registrations)
    BY DEF AInv, ResultOK, Done, Result
  <2> QED
    BY <2>1, <2>2, CheckPasses DEF ParityMeansServed
<1> QED
  BY Computed, <1>1, PTL

-----------------------------------------------------------------------------
(* host.toml *)

\* A value that is given is the only one there is.
LEMMA GivenIsOnly ==
  ASSUME NEW S, NEW s \in Optional(S), NEW default \in S
  PROVE  /\ Given(s, default) \in S
         /\ \A x \in s \union (IF s = {} THEN {default} ELSE {}) : x = Given(s, default)
  BY DEF Optional, Given

\* A configuration is accepted only if no check fails.
LEMMA AcceptedPasses ==
  ASSUME NEW raw, Parse(raw) = "accepted"
  PROVE  \A k \in 1..14 : ~Fails(raw, Checks[k])
<1> DEFINE I == {k \in 1..Len(Checks) : Fails(raw, Checks[k])}
           first == IF I /= {} THEN Min(I) ELSE 0
<1>1. Len(Checks) = 14 /\ \A k \in 1..14 : Checks[k] /= "accepted"
  BY DEF Checks
<1>2. Parse(raw) = IF first = 0 THEN "accepted" ELSE Checks[first]
  BY DEF Parse, SelectInSeq
<1>3. I \in SUBSET (1..14) /\ I \in SUBSET Nat
  BY <1>1
<1>4. I /= {} => Min(I) \in 1..14
  BY <1>3, LeastPosition
<1>5. I = {}
  BY <1>1, <1>2, <1>4
<1> QED
  BY <1>1, <1>5

\* The bounds that a host accepts make a pool that can serve: room for one instance at least,
\* and a floor that is no higher than the ceiling, as InstancePool assumes.
THEOREM PoolCanServe == Spec => []AcceptedFitsPool
<1>1. AInv => AcceptedFitsPool
  <2> SUFFICES ASSUME AInv, Done("config"), Result = "accepted" PROVE AcceptedFitsPool
    BY DEF AcceptedFitsPool
  <2> DEFINE raw == task.raw
  <2>1. raw \in RawConfig /\ Parse(raw) = "accepted"
    BY InputsAssumption DEF AInv, InputOK, ResultOK, Done, Result
  <2>2. raw.instancesMin \in Optional(Nat) /\ raw.instancesMax \in Optional(Nat)
    BY <2>1 DEF RawConfig
  <2>3. ~Fails(raw, "instances-min") /\ ~Fails(raw, "instances-max")
    <3>1. Checks[13] = "instances-min" /\ Checks[14] = "instances-max"
      BY DEF Checks
    <3>2. ~Fails(raw, Checks[13]) /\ ~Fails(raw, Checks[14])
      BY <2>1, AcceptedPasses
    <3> QED
      BY <3>1, <3>2
  <2>4. InstancesMin(raw) <= InstancesMax(raw) /\ InstancesMax(raw) > 0
    <3>1. InstancesMin(raw) \in Nat /\ InstancesMax(raw) \in Nat
      BY <2>2, GivenIsOnly DEF InstancesMin, InstancesMax
    <3> QED
      BY <2>3, <3>1 DEF Fails, Required
  <2>5. \A x \in raw.instancesMin \union (IF raw.instancesMin = {} THEN {8} ELSE {}) :
          x = InstancesMin(raw)
    BY <2>2, GivenIsOnly DEF InstancesMin
  <2>6. \A x \in raw.instancesMax \union (IF raw.instancesMax = {} THEN {128} ELSE {}) :
          x = InstancesMax(raw)
    BY <2>2, GivenIsOnly DEF InstancesMax
  <2> QED
    BY <2>4, <2>5, <2>6 DEF AcceptedFitsPool
<1> QED
  BY Computed, <1>1, PTL

-----------------------------------------------------------------------------
(* Sizes *)

Letters == {"K", "M", "G", "k", "g", "h", "m", "s"}

\* A unit of one letter is that letter.
LEMMA LetterAlone ==
  ASSUME NEW x
  PROVE  <<x>> /= <<>> /\ Last(<<x>>) = x
BY DEF Last

LEMMA OneLetter ==
  ASSUME NEW u \in Seq(Letters), u /= <<>>
  PROVE  Front(u) = <<>> <=> u = <<Last(u)>>
<1>1. Len(u) \in Nat /\ Len(u) > 0
  OBVIOUS
<1>2. Len(SubSeq(u, 1, Len(u) - 1)) = Len(u) - 1
  <2> DEFINE n == Len(u) - 1
  <2>1. n \in Nat /\ \A k \in 1..n : u[k] \in Letters
    BY <1>1
  <2> HIDE DEF n
  <2>2. Len(SubSeq(u, 1, n)) = IF 1 <= n THEN n - 1 + 1 ELSE 0
    BY <2>1, SubSeqProperties
  <2>3. Len(SubSeq(u, 1, n)) = n
    BY <2>1, <2>2
  <2> QED
    BY <2>3 DEF n
<1>3. ASSUME Front(u) = <<>> PROVE u = <<Last(u)>>
  <2>1. Len(u) = 1
    <3>1. Len(Front(u)) = Len(u) - 1
      BY <1>2 DEF Front
    <3>2. Len(Front(u)) = 0
      BY <1>3
    <3> QED
      BY <1>1, <3>1, <3>2
  <2>2. u = <<u[1]>>
    BY <2>1
  <2> QED
    BY <2>1, <2>2 DEF Last
<1>4. ASSUME u = <<Last(u)>> PROVE Front(u) = <<>>
  <2>1. Len(u) = 1
    BY <1>4
  <2>2. Front(u) \in Seq(Letters) /\ Len(Front(u)) = 0
    BY <2>1 DEF Front
  <2> QED
    BY <2>2
<1> QED
  BY <1>3, <1>4

\* The bytes a text stands for.
Bytes(n, u) ==
  CASE u = <<>>                -> n
    [] u \in {<<"K">>, <<"k">>} -> n * Kibi
    [] u \in {<<"M">>, <<"m">>} -> n * (Kibi * Kibi)
    [] u \in {<<"G">>, <<"g">>} -> n * (Kibi * Kibi * Kibi)
    [] OTHER                   -> NoNumber

LEMMA SizeIsRead ==
  ASSUME NEW t \in Text
  PROVE  ParseSize(t) =
           IF IsU64(t.digits) /\ IsU64(Bytes(t.digits, t.unit)) THEN Bytes(t.digits, t.unit)
                                                                ELSE Refused
<1> DEFINE n == t.digits
           u == t.unit
<1>1. n \in Int /\ u \in Seq(Letters)
  BY DEF Text, Letters, NoNumber
<1>2. DOMAIN SizeFactor = {"K", "M", "G", "k", "m", "g"}
  BY DEF SizeFactor
<1>3. ~IsU64(NoNumber)
  BY ConfigAssumption DEF IsU64, NoNumber
<1>4. CASE u = <<>>
  <2>1. Bytes(n, u) = n
    BY <1>4 DEF Bytes
  <2>2. ParseSize(t) = IF IsU64(n) THEN Multiplied(n, 1) ELSE Refused
    BY <1>4 DEF ParseSize
  <2>3. n * 1 = n
    BY <1>1
  <2> QED
    BY <2>1, <2>2, <2>3 DEF Multiplied
<1>5. CASE u /= <<>> /\ Last(u) \in DOMAIN SizeFactor
  <2>1. ParseSize(t) = IF Front(u) = <<>> /\ IsU64(n) THEN Multiplied(n, SizeFactor[Last(u)])
                                                      ELSE Refused
    BY <1>5 DEF ParseSize
  <2>2. CASE u = <<Last(u)>>
    <3>1. Bytes(n, u) = n * SizeFactor[Last(u)]
      <4>1. CASE Last(u) \in {"K", "k"}
        <5>1. u \in {<<"K">>, <<"k">>}
          BY <2>2, <4>1
        <5> QED
          BY <4>1, <5>1 DEF Bytes, SizeFactor
      <4>2. CASE Last(u) \in {"M", "m"}
        <5>1. u \in {<<"M">>, <<"m">>} /\ u \notin {<<"K">>, <<"k">>}
          BY <2>2, <4>2, LetterAlone
        <5> QED
          BY <1>5, <4>2, <5>1 DEF Bytes, SizeFactor
      <4>3. CASE Last(u) \in {"G", "g"}
        <5>1. /\ u \in {<<"G">>, <<"g">>}
              /\ u \notin {<<"K">>, <<"k">>}
              /\ u \notin {<<"M">>, <<"m">>}
          BY <2>2, <4>3, LetterAlone
        <5> QED
          BY <1>5, <4>3, <5>1 DEF Bytes, SizeFactor
      <4> QED
        BY <1>2, <1>5, <4>1, <4>2, <4>3
    <3>2. Front(u) = <<>>
      BY <1>1, <1>5, <2>2, OneLetter
    <3> QED
      BY <2>1, <3>1, <3>2 DEF Multiplied
  <2>3. CASE u /= <<Last(u)>>
    <3>1. Front(u) /= <<>>
      BY <1>1, <1>5, <2>3, OneLetter
    <3>2. \A x : u /= <<x>>
      BY <2>3, LetterAlone
    <3>3. Bytes(n, u) = NoNumber
      BY <1>5, <3>2 DEF Bytes
    <3> QED
      BY <1>3, <2>1, <3>1, <3>3
  <2> QED
    BY <2>2, <2>3
<1>6. CASE u /= <<>> /\ Last(u) \notin DOMAIN SizeFactor
  <2>1. ParseSize(t) = Refused
    BY <1>6 DEF ParseSize
  <2>2. \A x \in DOMAIN SizeFactor : u /= <<x>>
    BY <1>6, LetterAlone
  <2>3. Bytes(n, u) = NoNumber
    BY <1>2, <1>6, <2>2 DEF Bytes
  <2> QED
    BY <1>3, <2>1, <2>3
<1> QED
  BY <1>4, <1>5, <1>6

\* Every size is read as the exact number of bytes it stands for, or refused when that does not
\* fit: at no width does it come out smaller than it was written.
THEOREM SizesAreExact == Spec => []SizesExact
<1>1. AInv => SizesExact
  <2> SUFFICES ASSUME AInv, Done("size") PROVE SizesExact
    BY DEF SizesExact
  <2>1. task.text \in Text
    BY InputsAssumption DEF AInv, InputOK, Done
  <2>2. Result = ParseSize(task.text)
    BY DEF AInv, ResultOK, Done, Result
  <2> QED
    BY <2>1, <2>2, SizeIsRead DEF SizesExact, Bytes
<1> QED
  BY Computed, <1>1, PTL

-----------------------------------------------------------------------------
(* Durations *)

\* The suffix a text of one unit is found by is that unit, although "ms" ends in "s".
LEMMA UnitIsFound ==
  ASSUME NEW u
  PROVE  /\ FirstFitting(u) /= 0 => FirstFitting(u) \in 1..4
         /\ u \in {<<"m", "s">>, <<"s">>, <<"m">>, <<"h">>} =>
              FirstFitting(u) /= 0 /\ DurationSuffixes[FirstFitting(u)] = u
<1> DEFINE I == {k \in 1..Len(DurationSuffixes) : IsSuffix(DurationSuffixes[k], u)}
           first == FirstFitting(u)
<1>1. /\ Len(DurationSuffixes) = 4
      /\ DurationSuffixes[1] = <<"m", "s">>
      /\ DurationSuffixes[2] = <<"s">>
      /\ DurationSuffixes[3] = <<"m">>
      /\ DurationSuffixes[4] = <<"h">>
  BY DEF DurationSuffixes
<1>2. first = IF I /= {} THEN Min(I) ELSE 0
  BY DEF FirstFitting, SelectInSeq
<1>3. I \in SUBSET (1..4)
  BY <1>1
<1>12. /\ 1 \in I <=> IsSuffix(<<"m", "s">>, u)
       /\ 2 \in I <=> IsSuffix(<<"s">>, u)
       /\ 3 \in I <=> IsSuffix(<<"m">>, u)
       /\ 4 \in I <=> IsSuffix(<<"h">>, u)
  BY <1>1
<1> HIDE DEF I, first
<1>4. I /= {} => first \in I /\ \A k \in I : first <= k
  <2>1. I \in SUBSET Nat
    BY <1>3
  <2> QED
    BY <1>2, <2>1, LeastPosition
<1>5. first /= 0 => first \in 1..4
  BY <1>2, <1>3, <1>4
<1>6. ASSUME NEW a, NEW b
      PROVE  /\ IsSuffix(<<a>>, <<a>>)
             /\ IsSuffix(<<b>>, <<a>>) => b = a
             /\ IsSuffix(<<b, a>>, <<b, a>>)
  <2>1. Reverse(<<a>>) = <<a>> /\ Reverse(<<b>>) = <<b>> /\ Reverse(<<b, a>>) = <<a, b>>
    BY DEF Reverse
  <2>2. SubSeq(<<a>>, 1, 1)[1] = a /\ SubSeq(<<b>>, 1, 1)[1] = b
    <3>1. \A x : \A i \in 1..1 : <<x>>[i] \in {x}
      OBVIOUS
    <3> QED
      BY <3>1, SubSeqProperties
  <2> QED
    BY <2>1, <2>2 DEF IsSuffix, IsPrefix
<1>7. ASSUME NEW a PROVE ~IsSuffix(<<"m", "s">>, <<a>>)
  <2>1. Len(Reverse(<<"m", "s">>)) = 2 /\ Len(Reverse(<<a>>)) = 1
    BY DEF Reverse
  <2> QED
    BY <2>1 DEF IsSuffix, IsPrefix
<1>8. CASE u = <<"m", "s">>
  <2>1. 1 \in I
    BY <1>12, <1>6, <1>8
  <2>2. first = 1
    <3>1. first \in I /\ first <= 1
      BY <1>4, <2>1
    <3>2. first \in 1..4
      BY <1>3, <3>1
    <3> QED
      BY <2>1, <3>1, <3>2
  <2> QED
    BY <1>1, <1>8, <2>2 DEF first
<1>9. CASE u = <<"s">>
  <2>1. 1 \notin I /\ 2 \in I
    BY <1>12, <1>6, <1>7, <1>9
  <2>2. first = 2
    <3>1. first \in I /\ first <= 2
      BY <1>4, <2>1
    <3>2. first \in 1..4
      BY <1>3, <3>1
    <3> QED
      BY <2>1, <3>1, <3>2
  <2> QED
    BY <1>1, <1>9, <2>2 DEF first
<1>10. CASE u = <<"m">>
  <2>1. 1 \notin I /\ 2 \notin I /\ 3 \in I
    BY <1>12, <1>6, <1>7, <1>10
  <2>2. first = 3
    <3>1. first \in I /\ first <= 3
      BY <1>4, <2>1
    <3>2. first \in 1..4
      BY <1>3, <3>1
    <3> QED
      BY <2>1, <3>1, <3>2
  <2> QED
    BY <1>1, <1>10, <2>2 DEF first
<1>11. CASE u = <<"h">>
  <2>1. 1 \notin I /\ 2 \notin I /\ 3 \notin I /\ 4 \in I
    BY <1>12, <1>6, <1>7, <1>11
  <2>2. first = 4
    <3>1. first \in I /\ first <= 4
      BY <1>4, <2>1
    <3>2. first \in 1..4
      BY <1>3, <3>1
    <3> QED
      BY <2>1, <3>1, <3>2
  <2> QED
    BY <1>1, <1>11, <2>2 DEF first
<1> QED
  BY <1>5, <1>8, <1>9, <1>10, <1>11 DEF first

\* Every unit means what it says, in whole seconds and the rest, as long as the seconds fit.
THEOREM DurationsAreExact == Spec => []DurationsExact
<1>1. AInv => DurationsExact
  <2> SUFFICES ASSUME AInv, Done("duration") PROVE DurationsExact
    BY DEF DurationsExact
  <2> DEFINE t == task.text
             n == t.digits
             u == t.unit
             first == FirstFitting(u)
             known == {<<"m", "s">>, <<"s">>, <<"m">>, <<"h">>}
  <2>1. t \in Text /\ n \in Int
    BY InputsAssumption DEF AInv, InputOK, Done, Text, NoNumber
  <2>2. Result = ParseDuration(t)
    BY DEF AInv, ResultOK, Done, Result
  <2>3. first /= 0 => DurationSuffixes[first] \in known
    BY UnitIsFound DEF DurationSuffixes
  <2>4. u \in known => first /= 0 /\ DurationSuffixes[first] = u
    BY UnitIsFound
  <2>5. CASE u \notin known \/ ~IsU64(n)
    <3>1. ParseDuration(t) = {}
      BY <2>3, <2>4, <2>5 DEF ParseDuration
    <3> QED
      BY <2>2, <2>5, <3>1 DEF DurationsExact
  <2>6. CASE u \in known /\ IsU64(n)
    <3>1. first /= 0 /\ u = DurationSuffixes[first]
      BY <2>4, <2>6
    <3>2. Result = IF u = <<"m", "s">> THEN {Duration(n \div 1000, n % 1000)}
                                       ELSE FromSecs(n * SecondsPer[u[1]])
      BY <2>2, <2>6, <3>1 DEF ParseDuration
    <3>3. /\ u = <<"m", "s">> => Result = {Duration(n \div 1000, n % 1000)}
          /\ u = <<"s">> => Result = FromSecs(n * 1)
          /\ u = <<"m">> => Result = FromSecs(n * 60)
          /\ u = <<"h">> => Result = FromSecs(n * 3600)
      BY <3>2 DEF SecondsPer
    <3>4. \A k \in Int : IsU64(k) => FromSecs(k) = {Duration(k, 0)}
      BY DEF FromSecs
    <3>5. 1 * n = n /\ n * 1 = n /\ 60 * n = n * 60 /\ 3600 * n = n * 3600 /\ n * 60 \in Int /\ n * 3600 \in Int
      BY <2>1
    <3>6. ASSUME u = <<"m", "s">>
          PROVE  \E d \in Result :
                   Result = {d} /\ d.millis \in 0..999 /\ 1000 * d.secs + d.millis = n
      <4> DEFINE d == Duration(n \div 1000, n % 1000)
      <4>1. d.millis \in 0..999 /\ 1000 * d.secs + d.millis = n
        <5>1. d.secs = n \div 1000 /\ d.millis = n % 1000
          BY DEF Duration
        <5> HIDE DEF d, n
        <5> QED
          BY <2>1, <5>1, SecondsAndRest
      <4>2. Result = {d}
        BY <3>3, <3>6
      <4> HIDE DEF d
      <4> QED
        BY <4>1, <4>2
    <3> QED
      BY <2>1, <2>6, <3>3, <3>4, <3>5, <3>6 DEF DurationsExact
  <2> QED
    BY <2>5, <2>6
<1> QED
  BY Computed, <1>1, PTL

-----------------------------------------------------------------------------
(* The log: the reader, a character at a time *)

\* The states of the reader through the first n characters of a text: f, as a recursive function.
Reading(s, text, n, f) ==
  f = [k \in 0..n |-> IF k = 0 THEN s ELSE Read(f[k - 1], text[k])]

LEMMA ReadingAt ==
  ASSUME NEW s, NEW text, NEW n, NEW f, Reading(s, text, n, f), NEW k \in 0..n
  PROVE  f[k] = IF k = 0 THEN s ELSE Read(f[k - 1], text[k])
<1> DEFINE step(j) == IF j = 0 THEN s ELSE Read(f[j - 1], text[j])
<1>1. f = [j \in 0..n |-> step(j)]
  BY DEF Reading
<1> HIDE DEF step
<1>2. f[k] = step(k)
  BY <1>1
<1> QED
  BY <1>2 DEF step

LEMMA ReadingExists ==
  ASSUME NEW s, NEW text, NEW n \in Nat
  PROVE  \E f : Reading(s, text, n, f)
<1> DEFINE S == {k \in Nat : \E f : Reading(s, text, k, f)}
<1>1. 0 \in S
  <2> DEFINE f == [k \in 0..0 |-> s]
  <2>1. f = [k \in 0..0 |-> IF k = 0 THEN s ELSE Read(f[k - 1], text[k])]
    OBVIOUS
  <2>2. Reading(s, text, 0, f)
    BY <2>1 DEF Reading
  <2> QED
    BY <2>2
<1>2. ASSUME NEW k \in S PROVE k + 1 \in S
  <2>1. k \in Nat /\ \E f : Reading(s, text, k, f)
    OBVIOUS
  <2>2. PICK f : Reading(s, text, k, f)
    BY <2>1
  <2> DEFINE step(i) == IF i = 0 THEN s ELSE Read(f[i - 1], text[i])
             g == [i \in 0..(k + 1) |-> step(i)]
  <2>3. \A i \in 0..k : g[i] = f[i]
    BY <2>1, <2>2, ReadingAt
  <2>4. ASSUME NEW i \in 0..(k + 1)
        PROVE  step(i) = IF i = 0 THEN s ELSE Read(g[i - 1], text[i])
    <3>1. i /= 0 => i - 1 \in 0..k
      BY <2>1
    <3> QED
      BY <2>3, <3>1
  <2>5. g = [i \in 0..(k + 1) |-> IF i = 0 THEN s ELSE Read(g[i - 1], text[i])]
    <3> HIDE DEF step
    <3>1. g = [i \in 0..(k + 1) |-> step(i)]
      OBVIOUS
    <3> HIDE DEF g
    <3> QED
      BY <2>4, <3>1
  <2>6. Reading(s, text, k + 1, g)
    BY <2>5 DEF Reading
  <2> QED
    BY <2>1, <2>6
<1> QED
  BY <1>1, <1>2, Induction

LEMMA AfterSteps ==
  ASSUME NEW s, NEW text, Len(text) \in Nat
  PROVE  \E f : Reading(s, text, Len(text), f) /\ After(s, text) = f[Len(text)]
<1> DEFINE F == CHOOSE f : Reading(s, text, Len(text), f)
<1>1. Reading(s, text, Len(text), F)
  BY ReadingExists
<1>2. After(s, text) = F[Len(text)]
  BY DEF After, Reading
<1> QED
  BY <1>1, <1>2

LEMMA AfterNothing ==
  ASSUME NEW s
  PROVE  After(s, <<>>) = s
<1>1. Len(<<>>) = 0
  OBVIOUS
<1>2. PICK f : Reading(s, <<>>, 0, f) /\ After(s, <<>>) = f[0]
  BY <1>1, AfterSteps
<1> QED
  BY <1>2, ReadingAt

LEMMA AfterOneMore ==
  ASSUME NEW s, NEW X, NEW t \in Seq(X), NEW c \in X
  PROVE  After(s, Append(t, c)) = Read(After(s, t), c)
<1> DEFINE n == Len(t)
           all == Append(t, c)
<1>1. n \in Nat /\ Len(all) = n + 1 /\ all[n + 1] = c /\ \A i \in 1..n : all[i] = t[i]
  OBVIOUS
<1> HIDE DEF all, n
<1>2. PICK f : Reading(s, t, n, f) /\ After(s, t) = f[n]
  BY <1>1, AfterSteps DEF n
<1>3. PICK g : Reading(s, all, n + 1, g) /\ After(s, all) = g[n + 1]
  BY <1>1, AfterSteps
<1> DEFINE S == {k \in Nat : k <= n => g[k] = f[k]}
<1>4. 0 \in S /\ S \in SUBSET Nat
  <2>1. 0 \in 0..n /\ 0 \in 0..(n + 1)
    BY <1>1
  <2>2. f[0] = s /\ g[0] = s
    BY <1>2, <1>3, <2>1, ReadingAt
  <2> QED
    BY <2>2
<1>5. ASSUME NEW k \in S PROVE k + 1 \in S
  <2> SUFFICES ASSUME k + 1 <= n PROVE g[k + 1] = f[k + 1]
    OBVIOUS
  <2>1. k \in Nat /\ g[k] = f[k] /\ k + 1 - 1 = k /\ k + 1 /= 0 /\ all[k + 1] = t[k + 1]
        /\ k + 1 \in 0..n /\ k + 1 \in 0..(n + 1)
    BY <1>1
  <2>2. f[k + 1] = Read(f[k], t[k + 1]) /\ g[k + 1] = Read(g[k], all[k + 1])
    BY <1>2, <1>3, <2>1, ReadingAt
  <2> QED
    BY <2>1, <2>2
<1>6. g[n] = f[n]
  <2>1. S = Nat
    <3> HIDE DEF S
    <3> QED
      BY <1>4, <1>5, Induction
  <2> QED
    BY <1>1, <2>1
<1>7. g[n + 1] = Read(g[n], c)
  <2>1. n + 1 \in 0..(n + 1) /\ n + 1 /= 0 /\ n + 1 - 1 = n
    BY <1>1
  <2> QED
    BY <1>1, <1>3, <2>1, ReadingAt
<1> QED
  BY <1>2, <1>3, <1>6, <1>7 DEF all

\* The reader goes on from where it got to.
LEMMA AfterBoth ==
  ASSUME NEW s, NEW X, NEW t \in Seq(X), NEW u \in Seq(X)
  PROVE  After(s, t \o u) = After(After(s, t), u)
<1> DEFINE P == {v \in Seq(X) : After(s, t \o v) = After(After(s, t), v)}
<1>1. <<>> \in P
  BY AfterNothing, ConcatEmptySeq
<1>2. ASSUME NEW v \in P, NEW c \in X PROVE Append(v, c) \in P
  <2>1. v \in Seq(X) /\ t \o v \in Seq(X) /\ Append(v, c) \in Seq(X)
    OBVIOUS
  <2>2. t \o Append(v, c) = Append(t \o v, c)
    BY <2>1
  <2>3. After(s, Append(t \o v, c)) = Read(After(s, t \o v), c)
    <3> DEFINE both == t \o v
    <3>1. both \in Seq(X)
      BY <2>1
    <3> HIDE DEF both
    <3>2. After(s, Append(both, c)) = Read(After(s, both), c)
      BY <3>1, AfterOneMore
    <3> QED
      BY <3>2 DEF both
  <2>4. After(After(s, t), Append(v, c)) = Read(After(After(s, t), v), c)
    BY <2>1, AfterOneMore
  <2> QED
    BY <2>1, <2>2, <2>3, <2>4
<1>3. P = Seq(X)
  <2>1. P \in SUBSET Seq(X)
    OBVIOUS
  <2> HIDE DEF P
  <2> QED
    BY <1>1, <1>2, <2>1, SequenceInduction
<1> QED
  BY <1>3

LEMMA AfterThree ==
  ASSUME NEW s, NEW X, NEW t \in Seq(X), NEW u \in Seq(X), NEW v \in Seq(X)
  PROVE  After(s, (t \o u) \o v) = After(After(After(s, t), u), v)
<1> DEFINE tu == t \o u
<1>1. tu \in Seq(X)
  OBVIOUS
<1>2. After(s, tu) = After(After(s, t), u)
  BY AfterBoth
<1> HIDE DEF tu
<1>3. After(s, tu \o v) = After(After(s, tu), v)
  BY <1>1, AfterBoth
<1> QED
  BY <1>2, <1>3 DEF tu

LEMMA AfterOne ==
  ASSUME NEW s, NEW c
  PROVE  After(s, <<c>>) = Read(s, c)
<1>1. <<>> \in Seq({c}) /\ c \in {c}
  OBVIOUS
<1>2. After(s, Append(<<>>, c)) = Read(After(s, <<>>), c)
  BY <1>1, AfterOneMore
<1>3. Append(<<>>, c) = <<c>>
  OBVIOUS
<1> QED
  BY <1>2, <1>3, AfterNothing

\* A state of the reader.
State(mode, key, value, pairs, lines) ==
  [mode |-> mode, key |-> key, value |-> value, pairs |-> pairs, lines |-> lines]

\* What lines are made of.
Printed == Characters \union DOMAIN Severity \union {"level", "component", "message", "_"}

LEMMA PrintedCharacters ==
  /\ \A c \in Characters : c \in Printed /\ <<c>> \in Seq(Printed)
  /\ {"qt", "bs", "eq", "sp", "nl"} \subseteq Characters
  /\ Seq(Printed \ {"eq"}) \subseteq Seq(Printed)
<1>1. {"qt", "bs", "eq", "sp", "nl"} \subseteq Characters /\ Characters \subseteq Printed
  BY DEF Characters, Printed
<1>2. \A c \in Printed : <<c>> \in Seq(Printed)
  OBVIOUS
<1>3. Seq(Printed \ {"eq"}) \subseteq Seq(Printed)
  OBVIOUS
<1> QED
  BY <1>1, <1>2, <1>3

\* Anything but "=" is read into the key.
LEMMA KeyIsRead ==
  ASSUME NEW key \in Seq(Printed \ {"eq"}), NEW p, NEW l
  PROVE  After(State("key", <<>>, <<>>, p, l), key) = State("key", key, <<>>, p, l)
<1> DEFINE X == Printed \ {"eq"}
           s == State("key", <<>>, <<>>, p, l)
           P == {t \in Seq(X) : After(s, t) = State("key", t, <<>>, p, l)}
<1>1. <<>> \in P
  BY AfterNothing
<1>2. ASSUME NEW t \in Seq(X), NEW c \in X, After(s, t) = State("key", t, <<>>, p, l)
      PROVE  After(s, Append(t, c)) = State("key", Append(t, c), <<>>, p, l)
  <2>1. After(s, Append(t, c)) = Read(After(s, t), c)
    <3> HIDE DEF X, s
    <3> QED
      BY AfterOneMore
  <2>2. Read(State("key", t, <<>>, p, l), c) = State("key", Append(t, c), <<>>, p, l)
    BY DEF Read, State
  <2> QED
    BY <1>2, <2>1, <2>2
<1>3. P = Seq(X)
  <2>1. P \in SUBSET Seq(X) /\ \A t \in P : \A c \in X : Append(t, c) \in P
    BY <1>2
  <2> HIDE DEF P, X
  <2> QED
    BY <1>1, <2>1, SequenceInduction
<1> QED
  BY <1>3

\* Anything that needs no quotes is read into the value.
LEMMA PlainIsRead ==
  ASSUME NEW text \in Seq(Printed \ Separators), NEW k, NEW p, NEW l
  PROVE  text /= <<>> =>
           After(State("value", k, <<>>, p, l), text) = State("plain", k, text, p, l)
<1> DEFINE X == Printed \ Separators
           s == State("value", k, <<>>, p, l)
           P == {t \in Seq(X) : t /= <<>> => After(s, t) = State("plain", k, t, p, l)}
<1>1. <<>> \in P
  OBVIOUS
<1>2. ASSUME NEW t \in Seq(X), NEW c \in X, t /= <<>> => After(s, t) = State("plain", k, t, p, l)
      PROVE  After(s, Append(t, c)) = State("plain", k, Append(t, c), p, l)
  <2>1. After(s, Append(t, c)) = Read(After(s, t), c)
    <3> HIDE DEF X, s
    <3> QED
      BY AfterOneMore
  <2>2. CASE t = <<>>
    <3>1. After(s, t) = State("value", k, t, p, l)
      BY <2>2, AfterNothing
    <3>2. Read(State("value", k, t, p, l), c) = State("plain", k, Append(t, c), p, l)
      BY DEF Read, State, Separators
    <3> QED
      BY <2>1, <3>1, <3>2
  <2>3. CASE t /= <<>>
    <3>1. Read(State("plain", k, t, p, l), c) = State("plain", k, Append(t, c), p, l)
      BY DEF Read, State, Separators
    <3> QED
      BY <1>2, <2>1, <2>3, <3>1
  <2> QED
    BY <2>2, <2>3
<1>3. P = Seq(X)
  <2>1. P \in SUBSET Seq(X) /\ \A t \in P : \A c \in X : Append(t, c) \in P
    BY <1>2
  <2> HIDE DEF P, X
  <2> QED
    BY <1>1, <2>1, SequenceInduction
<1> QED
  BY <1>3

\* What Replace makes of each character.
Replaced(X, c, by) == [x \in X |-> IF x = c THEN by ELSE <<x>>]

LEMMA ReplacedType ==
  ASSUME NEW X, NEW c, NEW by \in Seq(X)
  PROVE  Replaced(X, c, by) \in [X -> Seq(X)]
BY DEF Replaced

LEMMA ReplaceFlattens ==
  ASSUME NEW X, NEW c, NEW by \in Seq(X), NEW t \in Seq(X)
  PROVE  Replace(t, c, by) = FlattenSeq(Mapped(Replaced(X, c, by), t))
<1>1. Mapped(Replaced(X, c, by), t) = [k \in 1..Len(t) |-> IF t[k] = c THEN by ELSE <<t[k]>>]
  BY DEF Mapped, Replaced
<1> QED
  BY <1>1 DEF Replace

LEMMA ReplaceType ==
  ASSUME NEW X, NEW c, NEW by \in Seq(X)
  PROVE  /\ Replace(<<>>, c, by) = <<>>
         /\ \A t \in Seq(X) : Replace(t, c, by) \in Seq(X)
<1> DEFINE m == Replaced(X, c, by)
<1>1. m \in [X -> Seq(X)]
  BY ReplacedType
<1>2. ASSUME NEW t \in Seq(X) PROVE Replace(t, c, by) \in Seq(X)
  <2> HIDE DEF m
  <2>1. FlattenSeq(Mapped(m, t)) \in Seq(X)
    BY <1>1, FlattenMappedType
  <2>2. Replace(t, c, by) = FlattenSeq(Mapped(m, t))
    BY ReplaceFlattens DEF m
  <2> QED
    BY <2>1, <2>2
<1>3. Replace(<<>>, c, by) = <<>>
  <2>1. <<>> \in Seq(X)
    OBVIOUS
  <2>2. Replace(<<>>, c, by) = FlattenSeq(Mapped(m, <<>>))
    BY <2>1, ReplaceFlattens
  <2> QED
    BY <2>2, FlattenMappedNothing
<1> QED
  BY <1>2, <1>3

LEMMA ReplaceOneMore ==
  ASSUME NEW X, NEW c, NEW by \in Seq(X), NEW t \in Seq(X), NEW x \in X
  PROVE  Replace(Append(t, x), c, by) = Replace(t, c, by) \o Replaced(X, c, by)[x]
<1> DEFINE m == Replaced(X, c, by)
<1>1. m \in [X -> Seq(X)]
  BY ReplacedType
<1>3. Append(t, x) \in Seq(X)
  OBVIOUS
<1>4. Replace(t, c, by) = FlattenSeq(Mapped(m, t))
  BY ReplaceFlattens, Zenon
<1>5. Replace(Append(t, x), c, by) = FlattenSeq(Mapped(m, Append(t, x)))
  BY <1>3, ReplaceFlattens, Zenon
<1> HIDE DEF m
<1>6. FlattenSeq(Mapped(m, Append(t, x))) = FlattenSeq(Mapped(m, t)) \o m[x]
  BY <1>1, FlattenMappedOneMore, Zenon
<1> QED
  BY <1>4, <1>5, <1>6, Zenon DEF m

\* A backslash and a quote are escaped by a backslash each, and nothing else is touched.
LEMMA EscapeGrows ==
  /\ Escape(<<>>) = <<>>
  /\ \A t \in Seq(Printed) : Escape(t) \in Seq(Printed)
  /\ \A t \in Seq(Printed) :
       /\ Escape(Append(t, "bs")) = Append(Append(Escape(t), "bs"), "bs")
       /\ Escape(Append(t, "qt")) = Append(Append(Escape(t), "bs"), "qt")
       /\ \A c \in Printed \ {"bs", "qt"} : Escape(Append(t, c)) = Append(Escape(t), c)
<1> DEFINE X == Printed
           B(t) == Replace(t, "bs", <<"bs", "bs">>)
           Q(t) == Replace(t, "qt", <<"bs", "qt">>)
<1>1. "bs" \in X /\ "qt" \in X /\ <<"bs", "bs">> \in Seq(X) /\ <<"bs", "qt">> \in Seq(X)
  BY DEF Printed, Characters
<1> HIDE DEF X
<1>2. /\ B(<<>>) = <<>> /\ Q(<<>>) = <<>>
      /\ \A t \in Seq(X) : B(t) \in Seq(X) /\ Q(t) \in Seq(X)
  BY <1>1, ReplaceType
<1> DEFINE b == Replaced(X, "bs", <<"bs", "bs">>)
           q == Replaced(X, "qt", <<"bs", "qt">>)
<1>3. ASSUME NEW t \in Seq(X), NEW x \in X
      PROVE  B(Append(t, x)) = B(t) \o b[x] /\ Q(Append(t, x)) = Q(t) \o q[x]
  <2>1. B(Append(t, x)) = B(t) \o b[x]
    BY <1>1, ReplaceOneMore, Zenon
  <2>2. Q(Append(t, x)) = Q(t) \o q[x]
    BY <1>1, ReplaceOneMore, Zenon
  <2> QED
    BY <2>1, <2>2
<1>4. \A t : Escape(t) = Q(B(t))
  BY DEF Escape
<1> HIDE DEF B, Q
<1>5. ASSUME NEW t \in Seq(X), NEW x, NEW y
      PROVE  /\ t \o <<x, y>> = Append(Append(t, x), y)
             /\ t \o <<x>> = Append(t, x)
  OBVIOUS
<1>6. ASSUME NEW t \in Seq(X), NEW x \in X
      PROVE  /\ x = "bs" => B(Append(t, x)) = Append(Append(B(t), "bs"), "bs")
             /\ x /= "bs" => B(Append(t, x)) = Append(B(t), x)
             /\ x = "qt" => Q(Append(t, x)) = Append(Append(Q(t), "bs"), "qt")
             /\ x /= "qt" => Q(Append(t, x)) = Append(Q(t), x)
  <2>1. B(t) \in Seq(X) /\ Q(t) \in Seq(X)
    BY <1>2
  <2>2. /\ B(t) \o <<"bs", "bs">> = Append(Append(B(t), "bs"), "bs")
        /\ Q(t) \o <<"bs", "qt">> = Append(Append(Q(t), "bs"), "qt")
        /\ B(t) \o <<x>> = Append(B(t), x)
        /\ Q(t) \o <<x>> = Append(Q(t), x)
    BY <1>5, <2>1
  <2>3. /\ x = "bs" => b[x] = <<"bs", "bs">>
        /\ x /= "bs" => b[x] = <<x>>
        /\ x = "qt" => q[x] = <<"bs", "qt">>
        /\ x /= "qt" => q[x] = <<x>>
    BY DEF Replaced
  <2> HIDE DEF b, q
  <2> QED
    BY <1>3, <2>2, <2>3
<1>7. ASSUME NEW t \in Seq(X), NEW c \in X \ {"bs", "qt"}
      PROVE  Q(B(Append(t, c))) = Append(Q(B(t)), c)
  BY <1>2, <1>6
<1>8. ASSUME NEW t \in Seq(X)
      PROVE  Q(B(Append(t, "qt"))) = Append(Append(Q(B(t)), "bs"), "qt")
  <2>1. B(t) \in Seq(X)
    BY <1>2
  <2>2. B(Append(t, "qt")) = Append(B(t), "qt")
    BY <1>1, <1>6
  <2>3. Q(Append(B(t), "qt")) = Append(Append(Q(B(t)), "bs"), "qt")
    BY <1>1, <1>6, <2>1
  <2> QED
    BY <2>2, <2>3
<1>9. ASSUME NEW t \in Seq(X)
      PROVE  Q(B(Append(t, "bs"))) = Append(Append(Q(B(t)), "bs"), "bs")
  <2>1. B(t) \in Seq(X) /\ Append(B(t), "bs") \in Seq(X)
    BY <1>1, <1>2
  <2>2. B(Append(t, "bs")) = Append(Append(B(t), "bs"), "bs")
    BY <1>1, <1>6
  <2>3. Q(Append(B(t), "bs")) = Append(Q(B(t)), "bs")
    BY <1>1, <1>6, <2>1
  <2>4. Q(Append(Append(B(t), "bs"), "bs")) = Append(Q(Append(B(t), "bs")), "bs")
    BY <1>1, <1>6, <2>1
  <2> QED
    BY <2>2, <2>3, <2>4
<1> QED
  BY <1>2, <1>4, <1>7, <1>8, <1>9 DEF X

\* After the opening quote, what was escaped is read back.
LEMMA QuotedIsRead ==
  ASSUME NEW text \in Seq(Printed), NEW k, NEW p, NEW l
  PROVE  After(State("quoted", k, <<>>, p, l), Escape(text)) = State("quoted", k, text, p, l)
<1> DEFINE X == Printed
           s == State("quoted", k, <<>>, p, l)
           P == {t \in Seq(X) : After(s, Escape(t)) = State("quoted", k, t, p, l)}
<1>1. <<>> \in P
  BY AfterNothing, EscapeGrows
<1>2. ASSUME NEW t \in Seq(X), NEW c \in X, After(s, Escape(t)) = State("quoted", k, t, p, l)
      PROVE  After(s, Escape(Append(t, c))) = State("quoted", k, Append(t, c), p, l)
  <2> DEFINE e == Escape(t)
  <2>1. e \in Seq(X) /\ "bs" \in X /\ "qt" \in X /\ Append(e, "bs") \in Seq(X)
    <3>1. e \in Seq(X) /\ "bs" \in X /\ "qt" \in X
      BY EscapeGrows, PrintedCharacters
    <3> HIDE DEF e, X
    <3> QED
      BY <3>1
  <2>2. ASSUME NEW u \in Seq(X), NEW x \in X
        PROVE  After(s, Append(u, x)) = Read(After(s, u), x)
    <3> HIDE DEF s, X
    <3> QED
      BY AfterOneMore, Zenon
  <2>3. After(s, e) = State("quoted", k, t, p, l)
    BY <1>2
  <2> HIDE DEF s, e
  <2>4. CASE c \notin {"bs", "qt"}
    <3>1. Escape(Append(t, c)) = Append(e, c)
      BY <2>4, EscapeGrows DEF e
    <3>2. After(s, Append(e, c)) = Read(After(s, e), c)
      BY <2>1, <2>2
    <3>3. Read(State("quoted", k, t, p, l), c) = State("quoted", k, Append(t, c), p, l)
      BY <2>4 DEF Read, State
    <3> QED
      BY <2>3, <3>1, <3>2, <3>3
  <2>5. CASE c \in {"bs", "qt"}
    <3>1. Escape(Append(t, c)) = Append(Append(e, "bs"), c)
      BY <2>5, EscapeGrows DEF e
    <3>2. After(s, Append(e, "bs")) = Read(After(s, e), "bs")
      BY <2>1, <2>2
    <3>3. After(s, Append(Append(e, "bs"), c)) = Read(After(s, Append(e, "bs")), c)
      BY <2>1, <2>2
    <3>4. Read(State("quoted", k, t, p, l), "bs") = State("escaped", k, t, p, l)
      BY DEF Read, State
    <3>5. Read(State("escaped", k, t, p, l), c) = State("quoted", k, Append(t, c), p, l)
      BY DEF Read, State
    <3> QED
      BY <2>3, <3>1, <3>2, <3>3, <3>4, <3>5
  <2> QED
    BY <2>4, <2>5
<1>3. P = Seq(X)
  <2>1. P \in SUBSET Seq(X) /\ \A t \in P : \A c \in X : Append(t, c) \in P
    BY <1>2
  <2> HIDE DEF P, X
  <2> QED
    BY <1>1, <2>1, SequenceInduction
<1> QED
  BY <1>3

LEMMA QuoteType ==
  ASSUME NEW text \in Seq(Printed)
  PROVE  Quote(text) \in Seq(Printed)
<1>1. Escape(text) \in Seq(Printed) /\ <<"qt">> \in Seq(Printed)
  BY EscapeGrows, PrintedCharacters
<1> DEFINE a == <<"qt">>
           e == Escape(text)
<1>2. Quote(text) \in {a \o e \o a, text}
  BY DEF Quote
<1> HIDE DEF a, e
<1>3. a \o e \o a \in Seq(Printed)
  BY <1>1 DEF a, e
<1> QED
  BY <1>2, <1>3

\* A value is read back whether it had to be quoted or not.
LEMMA ValueIsRead ==
  ASSUME NEW text \in Seq(Printed), NEW k, NEW p, NEW l
  PROVE  After(State("value", k, <<>>, p, l), Quote(text)) = State("plain", k, text, p, l)
<1> DEFINE s == State("value", k, <<>>, p, l)
<1>1. CASE text = <<>> \/ \E i \in 1..Len(text) : text[i] \in Separators
  <2> DEFINE a == <<"qt">>
             e == Escape(text)
  <2>1. a \in Seq(Printed) /\ e \in Seq(Printed)
    BY EscapeGrows, PrintedCharacters
  <2>2. Quote(text) = (a \o e) \o a
    BY <1>1 DEF Quote
  <2>3. After(s, a) = State("quoted", k, <<>>, p, l)
    <3>1. Read(s, "qt") = State("quoted", k, <<>>, p, l)
      BY DEF Read, State
    <3> QED
      BY <3>1, AfterOne
  <2>4. After(State("quoted", k, <<>>, p, l), e) = State("quoted", k, text, p, l)
    BY QuotedIsRead
  <2>5. After(State("quoted", k, text, p, l), a) = State("plain", k, text, p, l)
    <3>1. Read(State("quoted", k, text, p, l), "qt") = State("plain", k, text, p, l)
      BY DEF Read, State
    <3> QED
      BY <3>1, AfterOne
  <2> HIDE DEF s, a, e
  <2>6. After(s, (a \o e) \o a) = After(After(After(s, a), e), a)
    BY <2>1, AfterThree
  <2>7. After(s, Quote(text)) = State("plain", k, text, p, l)
    BY <2>2, <2>3, <2>4, <2>5, <2>6
  <2> QED
    BY <2>7 DEF s
<1>2. CASE text /= <<>> /\ \A i \in 1..Len(text) : text[i] \notin Separators
  <2>1. text \in Seq(Printed \ Separators)
    BY <1>2
  <2> QED
    BY <1>2, <2>1, PlainIsRead DEF Quote
<1> QED
  BY <1>1, <1>2

\* At the beginning of a field, the reader takes the key and the value of it.
LEMMA FieldIsRead ==
  ASSUME NEW key \in Seq(Printed \ {"eq"}), NEW text \in Seq(Printed), NEW p, NEW l
  PROVE  After(State("key", <<>>, <<>>, p, l), Field(key, Quote(text)))
           = State("plain", key, text, p, l)
<1> DEFINE s == State("key", <<>>, <<>>, p, l)
           e == <<"eq">>
           v == Quote(text)
<1>1. key \in Seq(Printed) /\ v \in Seq(Printed) /\ e \in Seq(Printed)
  BY QuoteType, PrintedCharacters
<1>2. Field(key, v) = (key \o e) \o v
  BY DEF Field
<1>3. After(s, key) = State("key", key, <<>>, p, l)
  BY KeyIsRead
<1>4. After(State("key", key, <<>>, p, l), e) = State("value", key, <<>>, p, l)
  <2>1. Read(State("key", key, <<>>, p, l), "eq") = State("value", key, <<>>, p, l)
    BY DEF Read, State
  <2> QED
    BY <2>1, AfterOne
<1>5. After(State("value", key, <<>>, p, l), v) = State("plain", key, text, p, l)
  BY ValueIsRead
<1> HIDE DEF s, e, v
<1>6. After(s, (key \o e) \o v) = After(After(After(s, key), e), v)
  BY <1>1, AfterThree
<1>7. After(s, Field(key, v)) = State("plain", key, text, p, l)
  BY <1>2, <1>3, <1>4, <1>5, <1>6
<1> QED
  BY <1>7 DEF s, v

LEMMA FieldType ==
  ASSUME NEW key \in Seq(Printed \ {"eq"}), NEW text \in Seq(Printed)
  PROVE  Field(key, Quote(text)) \in Seq(Printed)
<1>1. key \in Seq(Printed) /\ Quote(text) \in Seq(Printed) /\ <<"eq">> \in Seq(Printed)
  BY QuoteType, PrintedCharacters
<1> QED
  BY <1>1 DEF Field

\* A key and its value.
Pair == Seq(Printed) \X Seq(Printed)

\* A line begins; the lines before it are l.
Start(l) == State("key", <<>>, <<>>, <<>>, l)

\* The pairs ps of a line have been read, the last one not to its end.
HasRead(s, ps, l) ==
  \E k, v \in Seq(Printed) : \E p \in Seq(Pair) :
    s = State("plain", k, v, p, l) /\ ps = Append(p, <<k, v>>)

LEMMA HasReadType ==
  ASSUME NEW s, NEW ps, NEW l, HasRead(s, ps, l)
  PROVE  ps \in Seq(Pair)
<1>1. PICK k \in Seq(Printed), v \in Seq(Printed), p \in Seq(Pair) : ps = Append(p, <<k, v>>)
  BY DEF HasRead
<1>2. <<k, v>> \in Pair
  BY DEF Pair
<1> QED
  BY <1>1, <1>2

LEMMA FirstFieldIsRead ==
  ASSUME NEW key \in Seq(Printed \ {"eq"}), NEW text \in Seq(Printed), NEW l
  PROVE  HasRead(After(Start(l), Field(key, Quote(text))), <<<<key, text>>>>, l)
<1>1. After(Start(l), Field(key, Quote(text))) = State("plain", key, text, <<>>, l)
  BY FieldIsRead, Zenon DEF Start
<1>2. key \in Seq(Printed) /\ <<>> \in Seq(Pair) /\ <<<<key, text>>>> = Append(<<>>, <<key, text>>)
  BY PrintedCharacters
<1> QED
  BY <1>1, <1>2 DEF HasRead

LEMMA NextFieldIsRead ==
  ASSUME NEW s, NEW ps, NEW l, HasRead(s, ps, l),
         NEW key \in Seq(Printed \ {"eq"}), NEW text \in Seq(Printed)
  PROVE  HasRead(After(After(s, <<"sp">>), Field(key, Quote(text))), Append(ps, <<key, text>>), l)
<1>1. PICK k \in Seq(Printed), v \in Seq(Printed), p \in Seq(Pair) :
        s = State("plain", k, v, p, l) /\ ps = Append(p, <<k, v>>)
  BY DEF HasRead
<1>2. After(s, <<"sp">>) = State("key", <<>>, <<>>, ps, l)
  <2>1. Read(s, "sp") = State("key", <<>>, <<>>, ps, l)
    BY <1>1 DEF Read, State, EndOfPair
  <2> QED
    BY <2>1, AfterOne
<1>3. After(After(s, <<"sp">>), Field(key, Quote(text))) = State("plain", key, text, ps, l)
  BY <1>2, FieldIsRead, Zenon
<1>4. key \in Seq(Printed) /\ ps \in Seq(Pair)
  BY PrintedCharacters, HasReadType
<1> QED
  BY <1>3, <1>4 DEF HasRead

LEMMA LineIsRead ==
  ASSUME NEW s, NEW ps, NEW l, HasRead(s, ps, l)
  PROVE  After(s, <<"nl">>) = Start(Append(l, ps))
<1>1. PICK k, v, p : s = State("plain", k, v, p, l) /\ ps = Append(p, <<k, v>>)
  BY DEF HasRead
<1>2. Read(s, "nl") = Start(Append(l, ps))
  BY <1>1 DEF Read, State, Start, EndOfPair, EndOfLine
<1> QED
  BY <1>2, AfterOne

\* What render writes of a field, and what is to be read of it.
FieldText == [f \in LogField |-> <<"sp">> \o Field(SanitizeKey(f.key), Quote(f.value))]
FieldPair == [f \in LogField |-> <<SanitizeKey(f.key), f.value>>]

\* A key has no "=" left in it.
LEMMA SanitizedType ==
  ASSUME NEW key \in Seq(Characters)
  PROVE  SanitizeKey(key) \in Seq(Printed \ {"eq"})
<1>1. Characters \subseteq Printed /\ "_" \in Printed
  BY DEF Printed
<1>2. \A k \in 1..Len(key) : key[k] \in Characters
  OBVIOUS
<1> DEFINE X == Printed \ {"eq"}
           w(k) == IF key[k] \in Separators THEN "_" ELSE key[k]
<1>3. ASSUME NEW k \in 1..Len(key) PROVE w(k) \in X
  <2>1. CASE key[k] \in Separators
    BY <1>1, <2>1
  <2>2. CASE key[k] \notin Separators
    BY <1>1, <1>2, <2>2 DEF Separators
  <2> QED
    BY <2>1, <2>2
<1>6. Len(key) \in Nat
  OBVIOUS
<1>4. SanitizeKey(key) = [k \in 1..Len(key) |-> w(k)]
  BY DEF SanitizeKey
<1>5. SanitizeKey(key) \in Seq(X)
  <2> HIDE DEF w, X
  <2> QED
    BY <1>3, <1>4, <1>6
<1> QED
  BY <1>5

LEMMA FieldTypes ==
  /\ \A f \in LogField : SanitizeKey(f.key) \in Seq(Printed \ {"eq"}) /\ f.value \in Seq(Printed)
  /\ FieldText \in [LogField -> Seq(Printed)]
  /\ FieldPair \in [LogField -> Pair]
<1>1. ASSUME NEW f \in LogField
      PROVE  SanitizeKey(f.key) \in Seq(Printed \ {"eq"}) /\ f.value \in Seq(Printed)
  <2>1. f.key \in Seq(Characters) /\ f.value \in Seq(Characters)
    BY DEF LogField
  <2>3. SanitizeKey(f.key) \in Seq(Printed \ {"eq"})
    BY <2>1, SanitizedType
  <2>4. f.value \in Seq(Printed)
    <3>1. Characters \subseteq Printed
      BY DEF Printed
    <3> QED
      BY <2>1, <3>1, SeqMonotonic
  <2> QED
    BY <2>3, <2>4
<1>2. ASSUME NEW f \in LogField
      PROVE  <<"sp">> \o Field(SanitizeKey(f.key), Quote(f.value)) \in Seq(Printed)
  <2>1. Field(SanitizeKey(f.key), Quote(f.value)) \in Seq(Printed)
    BY <1>1, FieldType
  <2>2. <<"sp">> \in Seq(Printed)
    BY PrintedCharacters
  <2> QED
    BY <2>1, <2>2
<1>3. \A f \in LogField : <<SanitizeKey(f.key), f.value>> \in Pair
  BY <1>1, PrintedCharacters DEF Pair
<1> QED
  BY <1>1, <1>2, <1>3 DEF FieldText, FieldPair

LEMMA FieldsAreRead ==
  ASSUME NEW s, NEW ps, NEW l, HasRead(s, ps, l), NEW fields \in Seq(LogField)
  PROVE  HasRead(After(s, FlattenSeq(Mapped(FieldText, fields))), ps \o Mapped(FieldPair, fields), l)
<1> DEFINE Told(fs) == FlattenSeq(Mapped(FieldText, fs))
           P == {fs \in Seq(LogField) :
                   HasRead(After(s, Told(fs)), ps \o Mapped(FieldPair, fs), l)}
<1>1. <<>> \in P
  <2>1. Told(<<>>) = <<>> /\ Mapped(FieldPair, <<>>) = <<>>
    BY FlattenMappedNothing DEF Mapped
  <2>2. After(s, <<>>) = s /\ ps \o <<>> = ps
    BY AfterNothing, HasReadType, ConcatEmptySeq
  <2>3. HasRead(After(s, Told(<<>>)), ps \o Mapped(FieldPair, <<>>), l)
    BY <2>1, <2>2, Zenon
  <2>4. <<>> \in Seq(LogField)
    OBVIOUS
  <2> QED
    BY <2>3, <2>4, Zenon
<1>2. ASSUME NEW fs \in Seq(LogField), NEW f \in LogField,
             HasRead(After(s, Told(fs)), ps \o Mapped(FieldPair, fs), l)
      PROVE  HasRead(After(s, Told(Append(fs, f))), ps \o Mapped(FieldPair, Append(fs, f)), l)
  <2> DEFINE t == Told(fs)
             b == <<"sp">>
             v == Field(SanitizeKey(f.key), Quote(f.value))
             m == Mapped(FieldPair, fs)
             pair == <<SanitizeKey(f.key), f.value>>
  <2>1. /\ SanitizeKey(f.key) \in Seq(Printed \ {"eq"})
        /\ f.value \in Seq(Printed)
        /\ v \in Seq(Printed) /\ b \in Seq(Printed) /\ t \in Seq(Printed)
    BY FieldTypes, FieldType, FlattenMappedType, PrintedCharacters
  <2>2. m \in Seq(Pair) /\ pair \in Pair /\ ps \in Seq(Pair)
    <3>1. m \in Seq(Pair)
      BY FieldTypes, MappedType
    <3>2. FieldPair[f] = pair /\ FieldPair[f] \in Pair
      BY FieldTypes DEF FieldPair
    <3> QED
      BY <3>1, <3>2, HasReadType
  <2>3. Told(Append(fs, f)) = t \o (b \o v)
    <3>1. FieldText[f] = b \o v
      BY DEF FieldText
    <3>2. FlattenSeq(Mapped(FieldText, Append(fs, f))) = t \o FieldText[f]
      BY FieldTypes, FlattenMappedOneMore
    <3> HIDE DEF t, b, v
    <3> QED
      BY <3>1, <3>2
  <2>4. Mapped(FieldPair, Append(fs, f)) = Append(m, pair)
    <3>1. FieldPair[f] = pair
      BY DEF FieldPair
    <3>2. Mapped(FieldPair, Append(fs, f)) = Append(m, FieldPair[f])
      BY FieldTypes, MappedOneMore
    <3> HIDE DEF m, pair
    <3> QED
      BY <3>1, <3>2
  <2>5. HasRead(After(After(After(s, t), b), v), Append(ps \o m, pair), l)
    <3>1. HasRead(After(s, t), ps \o m, l)
      BY <1>2
    <3> QED
      BY <2>1, <3>1, NextFieldIsRead
  <2> HIDE DEF Told, t, b, v, m, pair
  <2>7. After(s, t \o (b \o v)) = After(After(After(s, t), b), v)
    <3> DEFINE bv == b \o v
    <3>1. bv \in Seq(Printed)
      BY <2>1
    <3>2. After(After(s, t), bv) = After(After(After(s, t), b), v)
      BY <2>1, AfterBoth
    <3> HIDE DEF bv
    <3>3. After(s, t \o bv) = After(After(s, t), bv)
      BY <2>1, <3>1, AfterBoth
    <3> QED
      BY <3>2, <3>3 DEF bv
  <2>8. ps \o Append(m, pair) = Append(ps \o m, pair)
    BY <2>2
  <2> QED
    BY <2>3, <2>4, <2>5, <2>7, <2>8
<1>3. P = Seq(LogField)
  <2>1. P \in SUBSET Seq(LogField) /\ \A fs \in P : \A f \in LogField : Append(fs, f) \in P
    BY <1>2
  <2> HIDE DEF P
  <2> QED
    BY <1>1, <2>1, SequenceInduction
<1> QED
  BY <1>3

LEMMA LevelPlain ==
  ASSUME NEW level \in DOMAIN Severity
  PROVE  /\ Quote(<<level>>) = <<level>>
         /\ <<level>> \in Seq(Printed)
<1>1. level \notin Separators /\ level \in Printed
  BY DEF Severity, Separators, Printed
<1>2. <<level>> /= <<>> /\ \A k \in 1..Len(<<level>>) : <<level>>[k] = level
  OBVIOUS
<1>3. ~ \E k \in 1..Len(<<level>>) : <<level>>[k] \in Separators
  BY <1>1, <1>2
<1> QED
  BY <1>1, <1>2, <1>3 DEF Quote

\* A record is read back from the line that is made of it.
LEMMA RenderedIsRead ==
  ASSUME NEW r \in LogRecord, NEW l
  PROVE  HasRead(After(Start(l), Render(r)), Pairs(r), l) /\ Render(r) \in Seq(Printed)
<1> DEFINE s == Start(l)
           b == <<"sp">>
           t1 == Field(<<"level">>, <<r.level>>)
           c == Field(<<"component">>, Quote(r.component))
           m == Field(<<"message">>, Quote(r.message))
           f == FlattenSeq(Mapped(FieldText, r.fields))
           p1 == <<<<"level">>, <<r.level>>>>
           p2 == <<<<"component">>, r.component>>
           p3 == <<<<"message">>, r.message>>
           ps == Mapped(FieldPair, r.fields)
<1>1. /\ r.level \in DOMAIN Severity /\ r.component \in Seq(Characters)
      /\ r.message \in Seq(Characters) /\ r.fields \in Seq(LogField)
  BY DEF LogRecord
<1>2. r.component \in Seq(Printed) /\ r.message \in Seq(Printed)
  <2>1. Characters \subseteq Printed
    BY DEF Printed
  <2> QED
    BY <1>1, <2>1, SeqMonotonic
<1>3. /\ <<"level">> \in Seq(Printed \ {"eq"})
      /\ <<"component">> \in Seq(Printed \ {"eq"})
      /\ <<"message">> \in Seq(Printed \ {"eq"})
  BY DEF Printed
<1>4. /\ <<r.level>> \in Seq(Printed)
      /\ t1 = Field(<<"level">>, Quote(<<r.level>>))
  BY <1>1, LevelPlain
<1>5. t1 \in Seq(Printed)
  BY <1>3, <1>4, FieldType
<1>6. c \in Seq(Printed) /\ m \in Seq(Printed) /\ b \in Seq(Printed)
  BY <1>2, <1>3, FieldType, PrintedCharacters
<1>7. f \in Seq(Printed)
  BY <1>1, FieldTypes, FlattenMappedType
<1>8. \A k \in 1..Len(r.fields) : r.fields[k] \in LogField
  BY <1>1
<1>9. /\ Render(r) = ((((t1 \o b) \o c) \o b) \o m) \o f
      /\ Pairs(r) = <<p1, p2, p3>> \o ps
  BY <1>8 DEF Render, Pairs, Mapped, FieldText, FieldPair
<1>10. HasRead(After(s, t1), <<p1>>, l)
  BY <1>3, <1>4, FirstFieldIsRead, Zenon
<1>11. \A x, qs : HasRead(x, qs, l) => HasRead(After(After(x, b), c), Append(qs, p2), l)
  BY <1>2, <1>3, NextFieldIsRead, Zenon
<1>12. \A x, qs : HasRead(x, qs, l) => HasRead(After(After(x, b), m), Append(qs, p3), l)
  BY <1>2, <1>3, NextFieldIsRead, Zenon
<1>13. \A x, qs : HasRead(x, qs, l) => HasRead(After(x, f), qs \o ps, l)
  BY <1>1, FieldsAreRead, Zenon
<1> HIDE DEF s, b, t1, c, m, f, p1, p2, p3, ps
<1>14. Append(Append(<<p1>>, p2), p3) = <<p1, p2, p3>>
  <2>1. ASSUME NEW x, NEW y, NEW z PROVE Append(Append(<<x>>, y), z) = <<x, y, z>>
    <3> DEFINE X == {x, y, z}
               u == <<x>>
               v == <<x, y>>
               w == <<x, y, z>>
    <3>1. /\ u \in Seq(X) /\ v \in Seq(X) /\ w \in Seq(X) /\ y \in X /\ z \in X
          /\ Len(v) = Len(u) + 1 /\ Len(w) = Len(v) + 1
          /\ \A i \in 1..Len(u) : v[i] = u[i]
          /\ \A i \in 1..Len(v) : w[i] = v[i]
          /\ v[Len(v)] = y /\ w[Len(w)] = z
      OBVIOUS
    <3> HIDE DEF X, u, v, w
    <3>2. v = Append(u, y) /\ w = Append(v, z)
      BY <3>1, OneMore
    <3> QED
      BY <3>2 DEF u, w
  <2> QED
    BY <2>1
<1> DEFINE t2 == (t1 \o b) \o c
           t3 == (t2 \o b) \o m
<1>15. t2 \in Seq(Printed) /\ t3 \in Seq(Printed)
  BY <1>5, <1>6
<1>16. After(s, t2) = After(After(After(s, t1), b), c)
  BY <1>5, <1>6, AfterThree
<1>17. HasRead(After(s, t2), Append(<<p1>>, p2), l)
  BY <1>10, <1>11, <1>16
<1> HIDE DEF t2
<1>18. After(s, t3) = After(After(After(s, t2), b), m)
  BY <1>6, <1>15, AfterThree
<1>19. HasRead(After(s, t3), <<p1, p2, p3>>, l)
  BY <1>12, <1>14, <1>17, <1>18
<1> HIDE DEF t3
<1>20. After(s, t3 \o f) = After(After(s, t3), f) /\ t3 \o f \in Seq(Printed)
  BY <1>7, <1>15, AfterBoth
<1>21. HasRead(After(s, t3 \o f), <<p1, p2, p3>> \o ps, l)
  BY <1>13, <1>19, <1>20
<1>22. Render(r) = t3 \o f
  BY <1>9 DEF t2, t3
<1> QED
  BY <1>9, <1>20, <1>21, <1>22 DEF s

\* What a reader is to find of a record.
Kept(r, least) == IF Severity[r.level] >= least THEN <<Pairs(r)>> ELSE <<>>

LEMMA EmittedIsRead ==
  ASSUME NEW level, NEW r \in LogRecord, NEW l \in Seq(Seq(Pair))
  PROVE  /\ Emit(level, r) \in Seq(Printed)
         /\ Kept(r, Severity[ParseLevel(level)]) \in Seq(Seq(Pair))
         /\ After(Start(l), Emit(level, r)) = Start(l \o Kept(r, Severity[ParseLevel(level)]))
<1> DEFINE least == Severity[ParseLevel(level)]
           t == Render(r)
           b == <<"nl">>
<1>1. least \in Int /\ Severity[r.level] \in Int
  <2>1. ParseLevel(level) \in DOMAIN Severity
    BY DEF ParseLevel, Severity
  <2>2. r.level \in DOMAIN Severity
    BY DEF LogRecord
  <2> QED
    BY <2>1, <2>2 DEF Severity
<1>2. HasRead(After(Start(l), t), Pairs(r), l) /\ t \in Seq(Printed) /\ b \in Seq(Printed)
  BY RenderedIsRead, PrintedCharacters
<1>3. Pairs(r) \in Seq(Pair)
  BY <1>2, HasReadType
<1>4. Append(t, "nl") = t \o b
  BY <1>2
<1>5. After(After(Start(l), t), b) = Start(Append(l, Pairs(r)))
  BY <1>2, LineIsRead, Zenon
<1>6. l \o <<Pairs(r)>> = Append(l, Pairs(r)) /\ l \o <<>> = l
  <2> DEFINE q == Pairs(r)
             Y == Seq(Pair)
  <2>1. q \in Y
    BY <1>3
  <2> HIDE DEF q, Y
  <2>2. l \o <<q>> = Append(l, q) /\ l \o <<>> = l
    BY <2>1 DEF Y
  <2> QED
    BY <2>2 DEF q
<1>7. CASE Severity[r.level] < least
  <2>1. Emit(level, r) = <<>> /\ Kept(r, least) = <<>>
    BY <1>1, <1>7 DEF Emit, Kept
  <2>2. After(Start(l), <<>>) = Start(l)
    BY AfterNothing
  <2> QED
    BY <1>6, <2>1, <2>2
<1>8. CASE ~(Severity[r.level] < least)
  <2>1. Emit(level, r) = t \o b /\ Kept(r, least) = <<Pairs(r)>>
    BY <1>1, <1>4, <1>8 DEF Emit, Kept
  <2> DEFINE s == Start(l)
  <2> HIDE DEF t, b, s, least
  <2>2. After(s, t \o b) = After(After(s, t), b) /\ t \o b \in Seq(Printed)
    BY <1>2, AfterBoth
  <2>3. <<Pairs(r)>> \in Seq(Seq(Pair))
    BY <1>3
  <2> QED
    BY <1>5, <1>6, <2>1, <2>2, <2>3 DEF s, least
<1> QED
  BY <1>7, <1>8

\* From the stream of records emitted one after another, those that are not dropped are read.
LEMMA StreamIsRead ==
  ASSUME NEW level, NEW records \in Seq(LogRecord)
  PROVE  ReadLines(Stream(level, records))
           = FlattenSeq([k \in 1..Len(records) |-> Kept(records[k], Severity[ParseLevel(level)])])
<1> DEFINE least == Severity[ParseLevel(level)]
           emitted == [r \in LogRecord |-> Emit(level, r)]
           kept == [r \in LogRecord |-> Kept(r, least)]
           Told(rs) == FlattenSeq(Mapped(emitted, rs))
           Told2(rs) == FlattenSeq(Mapped(kept, rs))
           P == {rs \in Seq(LogRecord) : After(Start(<<>>), Told(rs)) = Start(Told2(rs))}
<1>1. emitted \in [LogRecord -> Seq(Printed)] /\ kept \in [LogRecord -> Seq(Seq(Pair))]
  <2>1. <<>> \in Seq(Seq(Pair))
    OBVIOUS
  <2> QED
    BY <2>1, EmittedIsRead
<1>2. <<>> \in P
  BY FlattenMappedNothing, AfterNothing
<1>3. ASSUME NEW rs \in Seq(LogRecord), NEW r \in LogRecord,
             After(Start(<<>>), Told(rs)) = Start(Told2(rs))
      PROVE  After(Start(<<>>), Told(Append(rs, r))) = Start(Told2(Append(rs, r)))
  <2> DEFINE t == Told(rs)
             e == Emit(level, r)
             q == Told2(rs)
             k == Kept(r, least)
             s == Start(<<>>)
  <2>1. t \in Seq(Printed) /\ q \in Seq(Seq(Pair))
    BY <1>1, FlattenMappedType
  <2>2. e \in Seq(Printed) /\ After(Start(q), e) = Start(q \o k)
    BY <2>1, EmittedIsRead
  <2>3. Told(Append(rs, r)) = t \o e
    <3>1. emitted[r] = e
      OBVIOUS
    <3> HIDE DEF e, emitted
    <3>2. FlattenSeq(Mapped(emitted, Append(rs, r))) = FlattenSeq(Mapped(emitted, rs)) \o emitted[r]
      BY <1>1, FlattenMappedOneMore, Zenon
    <3> QED
      BY <3>1, <3>2, Zenon
  <2>4. Told2(Append(rs, r)) = q \o k
    <3>1. kept[r] = k
      OBVIOUS
    <3> HIDE DEF k, kept
    <3>2. FlattenSeq(Mapped(kept, Append(rs, r))) = FlattenSeq(Mapped(kept, rs)) \o kept[r]
      BY <1>1, FlattenMappedOneMore, Zenon
    <3> QED
      BY <3>1, <3>2, Zenon
  <2>5. After(s, t) = Start(q)
    BY <1>3
  <2> HIDE DEF Told, Told2, t, e, q, k, s
  <2>6. After(s, t \o e) = After(After(s, t), e)
    BY <2>1, <2>2, AfterBoth
  <2> QED
    BY <2>2, <2>3, <2>4, <2>5, <2>6 DEF s
<1>4. P = Seq(LogRecord)
  <2>1. P \in SUBSET Seq(LogRecord) /\ \A rs \in P : \A r \in LogRecord : Append(rs, r) \in P
    BY <1>3
  <2> HIDE DEF P
  <2> QED
    BY <1>2, <2>1, SequenceInduction
<1>5. After(Start(<<>>), Told(records)) = Start(Told2(records))
  BY <1>4
<1>6. \A k \in 1..Len(records) : records[k] \in LogRecord
  OBVIOUS
<1>7. Stream(level, records) = Told(records)
  BY <1>6 DEF Stream, Mapped
<1>8. Told2(records) = FlattenSeq([k \in 1..Len(records) |-> Kept(records[k], least)])
  BY <1>6 DEF Mapped
<1>9. Reader = Start(<<>>) /\ \A x : Start(x).lines = x
  BY DEF Reader, Start, State
<1> HIDE DEF Told, Told2, least
<1>10. ReadLines(Stream(level, records)) = Told2(records)
  BY <1>5, <1>7, <1>9 DEF ReadLines
<1> QED
  BY <1>8, <1>10 DEF least

\* From the stream a reader recovers every record at or above the level, with all its fields and
\* nothing else, however many records and fields there are and whatever they are made of.
THEOREM StreamIsReadBack == Spec => []StreamReadsBack
<1>1. AInv => StreamReadsBack
  <2> SUFFICES ASSUME AInv, Done("log") PROVE StreamReadsBack
    BY DEF StreamReadsBack
  <2> DEFINE least == CASE task.level = "warning" -> 3
                        [] task.level \in DOMAIN Severity -> Severity[task.level]
                        [] OTHER -> 2
  <2>1. task.records \in Seq(LogRecord)
    BY InputsAssumption DEF AInv, InputOK, Done
  <2>2. Result = Stream(task.level, task.records)
    BY DEF AInv, ResultOK, Done, Result
  <2>3. least = Severity[ParseLevel(task.level)]
    BY DEF ParseLevel, Severity
  <2> HIDE DEF least
  <2>4. ReadLines(Result)
          = FlattenSeq([k \in 1..Len(task.records) |-> Kept(task.records[k], least)])
    BY <2>1, <2>2, <2>3, StreamIsRead, Zenon
  <2> QED
    BY <2>4 DEF StreamReadsBack, Kept, least
<1> QED
  BY Computed, <1>1, PTL
=============================================================================
