------------------------ MODULE CompositionVerdictProofs ------------------------
(***************************************************************************)
(* Theorems about the verdict of a build, for every set of interfaces and  *)
(* versions and every deployment: what an accepted guest can be left       *)
(* without, and for which reasons one that can run is refused.             *)
(***************************************************************************)
EXTENDS CompositionProofs, DataLemmas

\* The checks of build_composition, as conditions on the deployment alone.
BridgesFound(d)   == \A b \in BridgesOf(d) : Discovered(b)
BridgesChecked(d) == \A b \in BridgesOf(d) : ReachesOnlyAllowed(b) /\ VersionMatchesKey(b)
GuestComposes(d)  == Composes(d, WantedBridges(d))
ResultComplies(d) == Violations(d, ComposedImports(d, WantedBridges(d))) = {}

AllChecks(d) ==
  /\ d.guestLoads
  /\ BridgesFound(d)
  /\ BridgesChecked(d)
  /\ Unsatisfied(d) = {}
  /\ GuestComposes(d)
  /\ d.composedLoads
  /\ ResultComplies(d)

\* A build has passed the checks that are behind it.
Passed ==
  /\ stage \notin {"load", "failed"} => deployment.guestLoads
  /\ stage \notin {"load", "discover", "failed"} => BridgesFound(deployment)
  /\ stage \notin BeforeCheck \union {"failed"} => BridgesChecked(deployment)
  /\ stage \notin BeforeCheck \union {"capabilities", "failed"} => Unsatisfied(deployment) = {}
  /\ stage \notin BeforeCompose \union {"failed"} => GuestComposes(deployment)
  /\ stage \notin BeforeLoad \union {"failed"} => deployment.composedLoads
  /\ stage \in {"fill", "serving", "published"} => ResultComplies(deployment)

\* A build that was refused has not passed the check its error is for.
Refused ==
  /\ error = "Config" => ~deployment.guestLoads
  /\ error = "BridgeDiscovery" => ~(BridgesFound(deployment) /\ BridgesChecked(deployment))
  /\ error = "Validation" => ~(Unsatisfied(deployment) = {} /\ ResultComplies(deployment))
  /\ error = "Composition" => ~(GuestComposes(deployment) /\ deployment.composedLoads)

VerdictInv == CIInv /\ Passed /\ Refused

-----------------------------------------------------------------------------
(* References and sequences of them *)

\* A reference will do for itself.
LEMMA MeetsItself ==
  ASSUME NEW r \in Reference
  PROVE  Meets(r, r)
<1>1. CASE r.version = NoVersion
  BY <1>1 DEF Meets
<1>2. CASE r.version \in Version
  BY <1>2 DEF Meets, SameSeries, AtLeast, Version
<1> QED
  BY <1>1, <1>2, ReferencesAssumption DEF Reference

\* What a bridge is wired by has the path of its key, and is a reference.
LEMMA ExportIsOfKey ==
  ASSUME NEW d \in Deployments, NEW b \in BridgesOf(d), Discovered(b)
  PROVE  ExportOf(b) \in Reference /\ ExportOf(b).path = b.key.path /\ b.key \in Reference
<1>1. d.bridges \in Seq(Bridge)
  BY DeploymentsAssumption DEF Deployment
<1>2. b \in Bridge
  BY <1>1 DEF BridgesOf, InSeq
<1>3. b.file.exports \in Seq(Reference) /\ b.key \in Reference
  BY <1>2 DEF Bridge, File
<1> DEFINE P == Positions(b.file.exports, b.key.path)
<1>4. P \in SUBSET Nat /\ P /= {}
  BY <1>3 DEF Discovered, Named, InSeq, Positions
<1>5. Min(P) \in P
  BY <1>4, LeastPosition
<1>6. /\ Min(P) \in 1..Len(b.file.exports)
      /\ b.file.exports[Min(P)].path = b.key.path
  BY <1>5 DEF Positions
<1> QED
  BY <1>3, <1>6 DEF ExportOf

\* The entries of two sequences one behind the other.
LEMMA EntriesOfBoth ==
  ASSUME NEW R, NEW s \in Seq(R), NEW t \in Seq(R)
  PROVE  /\ s \o t \in Seq(R)
         /\ Len(s) \in Nat
         /\ Len(t) \in Nat
         /\ Len(s \o t) = Len(s) + Len(t)
         /\ \A k \in 1..Len(s) : (s \o t)[k] = s[k]
         /\ \A k \in 1..Len(t) : (s \o t)[Len(s) + k] = t[k]
         /\ InSeq(s \o t) = InSeq(s) \union InSeq(t)
<1>1. s \o t \in Seq(R) /\ Len(s) \in Nat /\ Len(t) \in Nat /\ Len(s \o t) = Len(s) + Len(t)
  OBVIOUS
<1>2. \A k \in 1..Len(s) : (s \o t)[k] = s[k]
  OBVIOUS
<1>3. \A k \in 1..Len(t) : (s \o t)[Len(s) + k] = t[k]
  OBVIOUS
<1>4. ASSUME NEW k \in 1..Len(s \o t) PROVE (s \o t)[k] \in InSeq(s) \union InSeq(t)
  BY <1>1 DEF InSeq
<1>5. \A k \in 1..Len(s) : k \in 1..Len(s \o t)
  BY <1>1
<1>6. \A k \in 1..Len(t) : Len(s) + k \in 1..Len(s \o t)
  BY <1>1
<1>7. ASSUME NEW k \in 1..Len(s) PROVE s[k] \in InSeq(s \o t)
  BY <1>2, <1>5 DEF InSeq
<1>8. ASSUME NEW k \in 1..Len(t) PROVE t[k] \in InSeq(s \o t)
  BY <1>3, <1>6 DEF InSeq
<1>9. InSeq(s \o t) \subseteq InSeq(s) \union InSeq(t)
  <2> SUFFICES ASSUME NEW k \in 1..Len(s \o t) PROVE (s \o t)[k] \in InSeq(s) \union InSeq(t)
    BY DEF InSeq
  <2> QED
    BY <1>4
<1>10. InSeq(s) \union InSeq(t) \subseteq InSeq(s \o t)
  <2>1. InSeq(s) \subseteq InSeq(s \o t)
    <3> SUFFICES ASSUME NEW k \in 1..Len(s) PROVE s[k] \in InSeq(s \o t)
      BY DEF InSeq
    <3> QED
      BY <1>7
  <2>2. InSeq(t) \subseteq InSeq(s \o t)
    <3> SUFFICES ASSUME NEW k \in 1..Len(t) PROVE t[k] \in InSeq(s \o t)
      BY DEF InSeq
    <3> QED
      BY <1>8
  <2> QED
    BY <2>1, <2>2
<1>11. InSeq(s \o t) = InSeq(s) \union InSeq(t)
  BY <1>9, <1>10
<1> QED
  BY <1>1, <1>2, <1>3, <1>11

\* What the host offers of its own comes before the keys of the bridges.
Hosted(d) == InSeq(d.provided) \union InSeq(d.envelopes)

LEMMA AvailableParts ==
  ASSUME NEW d \in Deployments, NEW n, n = Len(d.provided \o d.envelopes)
  PROVE  /\ n \in Nat
         /\ Len(d.bridges) \in Nat
         /\ Available(d) \in Seq(Reference)
         /\ Len(Available(d)) = n + Len(d.bridges)
         /\ Hosted(d) = {Available(d)[k] : k \in 1..n}
         /\ \A k \in 1..Len(d.bridges) : Available(d)[n + k] = d.bridges[k].key
<1> DEFINE keys == [k \in 1..Len(d.bridges) |-> d.bridges[k].key]
           own == d.provided \o d.envelopes
<1>1. /\ d.provided \in Seq(Reference)
      /\ d.envelopes \in Seq(Reference)
      /\ d.bridges \in Seq(Bridge)
  BY DeploymentsAssumption DEF Deployment
<1>2. keys \in Seq(Reference) /\ Len(keys) = Len(d.bridges) /\ Len(d.bridges) \in Nat
  <2>1. Len(d.bridges) \in Nat /\ \A k \in 1..Len(d.bridges) : d.bridges[k] \in Bridge
    BY <1>1
  <2>2. \A k \in 1..Len(d.bridges) : d.bridges[k].key \in Reference
    BY <2>1 DEF Bridge
  <2> QED
    BY <2>1, <2>2
<1>3. own \in Seq(Reference) /\ Len(own) = n /\ InSeq(own) = Hosted(d)
  BY <1>1, EntriesOfBoth DEF Hosted
<1>4. \A k \in 1..Len(d.bridges) : keys[k] = d.bridges[k].key
  OBVIOUS
<1>5. Available(d) = own \o keys
  BY DEF Available
<1> HIDE DEF keys, own
<1>6. /\ own \o keys \in Seq(Reference)
      /\ Len(own) \in Nat
      /\ Len(own \o keys) = Len(own) + Len(keys)
      /\ \A k \in 1..Len(own) : (own \o keys)[k] = own[k]
      /\ \A k \in 1..Len(keys) : (own \o keys)[Len(own) + k] = keys[k]
  <2>1. own \in Seq(Reference) /\ keys \in Seq(Reference)
    BY <1>2, <1>3
  <2> QED
    BY ONLY <2>1, EntriesOfBoth
<1>7. Hosted(d) = {Available(d)[k] : k \in 1..n}
  BY <1>3, <1>5, <1>6 DEF InSeq
<1> QED
  BY <1>2, <1>3, <1>4, <1>5, <1>6, <1>7

-----------------------------------------------------------------------------
(* Sources of a path *)

\* What the host offers, and the keys of the bridges, are all available.
LEMMA AllAvailable ==
  ASSUME NEW d \in Deployments
  PROVE  /\ InSeq(Available(d)) \subseteq Reference
         /\ InSeq(Available(d)) = Hosted(d) \union {b.key : b \in BridgesOf(d)}
<1> DEFINE n == Len(d.provided \o d.envelopes)
           m == Len(d.bridges)
           s == Available(d)
<1>1. /\ n \in Nat
      /\ m \in Nat
      /\ s \in Seq(Reference)
      /\ Len(s) = n + m
      /\ Hosted(d) = {s[k] : k \in 1..n}
      /\ \A k \in 1..m : s[n + k] = d.bridges[k].key
  BY AvailableParts
<1>2. {b.key : b \in BridgesOf(d)} = {d.bridges[k].key : k \in 1..m}
  BY DEF BridgesOf, InSeq
<1> HIDE DEF n, m, s
<1>3. InSeq(s) \subseteq Reference
  BY <1>1 DEF InSeq
<1>4. ASSUME NEW k \in 1..Len(s)
      PROVE  s[k] \in Hosted(d) \union {b.key : b \in BridgesOf(d)}
  <2>1. CASE k <= n
    BY <2>1, <1>1
  <2>2. CASE k > n
    <3>1. k - n \in 1..m /\ n + (k - n) = k
      BY <2>2, <1>1
    <3>2. s[k] = d.bridges[k - n].key
      BY <3>1, <1>1
    <3> QED
      BY <3>1, <3>2, <1>2
  <2> QED
    BY <2>1, <2>2, <1>1
<1>5. ASSUME NEW k \in 1..n PROVE s[k] \in InSeq(s)
  BY <1>1 DEF InSeq
<1>6. ASSUME NEW k \in 1..m PROVE d.bridges[k].key \in InSeq(s)
  <2>1. n + k \in 1..Len(s) /\ s[n + k] = d.bridges[k].key
    BY <1>1
  <2> QED
    BY <2>1 DEF InSeq
<1>7. InSeq(s) \subseteq Hosted(d) \union {b.key : b \in BridgesOf(d)}
  <2> SUFFICES ASSUME NEW r \in InSeq(s)
               PROVE  r \in Hosted(d) \union {b.key : b \in BridgesOf(d)}
    OBVIOUS
  <2>1. PICK k \in 1..Len(s) : r = s[k]
    BY DEF InSeq
  <2> QED
    BY <2>1, <1>4
<1>8. Hosted(d) \union {b.key : b \in BridgesOf(d)} \subseteq InSeq(s)
  BY <1>1, <1>2, <1>5, <1>6
<1> QED
  BY <1>3, <1>7, <1>8 DEF s

\* check_compliance keeps the last reference of a path, which is one of those there are.
LEMMA RegisteredIsAvailable ==
  ASSUME NEW d \in Deployments, NEW path, Named(InSeq(Available(d)), path) /= {}
  PROVE  Registered(d, path) \in InSeq(Available(d)) /\ Registered(d, path).path = path
<1> DEFINE n == Len(Available(d))
           P == Positions(Available(d), path)
<1>1. n \in Nat
  BY AvailableParts
<1>2. P \in SUBSET (1..n) /\ P /= {}
  BY DEF Positions, Named, InSeq
<1>3. Max(P) \in P
  <2> HIDE DEF n, P
  <2> QED
    BY <1>1, <1>2, GreatestPosition
<1>4. Max(P) \in 1..n /\ Available(d)[Max(P)].path = path
  BY <1>3 DEF Positions
<1> QED
  BY <1>4 DEF Registered, InSeq

\* Where a path has one source, that is it.
LEMMA RegisteredIsSource ==
  ASSUME NEW d \in Deployments, OneSource(d), NEW r \in InSeq(Available(d))
  PROVE  Registered(d, r.path) = r
<1>1. PICK j \in 1..Len(Available(d)) : r = Available(d)[j]
  BY DEF InSeq
<1>2. Positions(Available(d), r.path) = {j}
  BY <1>1 DEF Positions, OneSource
<1>3. j \in Nat
  BY <1>1, AvailableParts
<1> QED
  BY <1>1, <1>2, <1>3, OnlyPosition DEF Registered

\* A bridge is no second source: neither what the host offers nor another bridge has its path.
LEMMA BridgeIsOnlySource ==
  ASSUME NEW d \in Deployments, OneSource(d), NEW k \in 1..Len(d.bridges)
  PROVE  /\ \A o \in Hosted(d) : o.path /= d.bridges[k].key.path
         /\ \A j \in 1..Len(d.bridges) : d.bridges[j].key.path = d.bridges[k].key.path => j = k
<1> DEFINE n == Len(d.provided \o d.envelopes)
           m == Len(d.bridges)
           s == Available(d)
<1>1. /\ n \in Nat
      /\ m \in Nat
      /\ Len(s) = n + m
      /\ Hosted(d) = {s[i] : i \in 1..n}
      /\ \A i \in 1..m : s[n + i] = d.bridges[i].key
  BY AvailableParts
<1>2. \A i, j \in 1..Len(s) : s[i].path = s[j].path => i = j
  BY DEF OneSource
<1>3. k \in 1..m
  OBVIOUS
<1> HIDE DEF n, m, s
<1>4. n + k \in 1..Len(s) /\ s[n + k] = d.bridges[k].key
  BY <1>1, <1>3
<1>5. ASSUME NEW i \in 1..n PROVE s[i].path /= d.bridges[k].key.path
  <2>1. i \in 1..Len(s) /\ i /= n + k
    BY <1>1, <1>3
  <2> QED
    BY <2>1, <1>2, <1>4
<1>6. ASSUME NEW j \in 1..m, d.bridges[j].key.path = d.bridges[k].key.path
      PROVE  j = k
  <2>1. n + j \in 1..Len(s) /\ s[n + j] = d.bridges[j].key
    BY <1>1
  <2>2. n + j = n + k
    BY <2>1, <1>2, <1>4, <1>6
  <2> QED
    BY <2>2, <1>1, <1>3
<1> QED
  BY <1>1, <1>5, <1>6 DEF m

\* Where a path has one source, what is offered passes the load-time check.
LEMMA OfferedComplies ==
  ASSUME NEW d \in Deployments, OneSource(d), NEW I \in SUBSET Reference, NEW i \in I,
         Offered(d, i)
  PROVE  i \notin Violations(d, I)
<1>1. PICK o \in Hosted(d) : o.path = i.path /\ Meets(o, i)
  BY DEF Offered, Hosted
<1>2. o \in InSeq(Available(d)) /\ o \in Reference
  BY AllAvailable
<1>3. Registered(d, i.path) = o
  BY <1>1, <1>2, RegisteredIsSource
<1>4. Compatible(o, i)
  BY <1>1, <1>2, RulesAgree
<1>5. Named(InSeq(Available(d)), i.path) /= {}
  BY <1>1, <1>2 DEF Named
<1> QED
  BY <1>3, <1>4, <1>5 DEF Violations

\* What passes the load-time check is offered, or has the path of a bridge's key.
LEMMA CompliantIsOffered ==
  ASSUME NEW d \in Deployments, NEW I \in SUBSET Reference, NEW i \in I,
         i \notin Violations(d, I),
         i.path \notin {b.key.path : b \in BridgesOf(d)}
  PROVE  Granted(d, i)
<1> SUFFICES ASSUME i.path \notin Ambient PROVE Offered(d, i)
  BY DEF Granted
<1> DEFINE o == Registered(d, i.path)
<1>1. Named(InSeq(Available(d)), i.path) /= {} /\ Compatible(o, i)
  BY DEF Violations
<1>2. o \in InSeq(Available(d)) /\ o.path = i.path
  BY <1>1, RegisteredIsAvailable
<1> HIDE DEF o
<1>3. o \in Hosted(d) /\ o \in Reference
  BY <1>2, AllAvailable
<1>4. Meets(o, i)
  BY <1>1, <1>3, RulesAgree
<1> QED
  BY <1>2, <1>3, <1>4 DEF Offered, Hosted

-----------------------------------------------------------------------------
(* The checks and whether a guest can run *)

\* Everything the composed component imports is there.
Complete(d) == \A i \in ComposedImports(d, WantedBridges(d)) : Granted(d, i)

\* The bridges that are composed in are those whose interface the guest imports.
LEMMA WantedIsNeeded ==
  ASSUME NEW d \in Deployments
  PROVE  /\ WantedBridges(d) \in SUBSET (1..Len(d.bridges))
         /\ Needed(d) = {d.bridges[k] : k \in WantedBridges(d)}
         /\ ComposedImports(d, WantedBridges(d)) \in SUBSET Reference
<1>1. WantedBridges(d) \in SUBSET (1..Len(d.bridges))
  BY DEF WantedBridges
<1>2. ASSUME NEW b \in Needed(d) PROVE \E k \in WantedBridges(d) : b = d.bridges[k]
  <2>1. PICK k \in 1..Len(d.bridges) : b = d.bridges[k]
    BY DEF Needed, BridgesOf, InSeq
  <2> QED
    BY <2>1 DEF Needed, WantedBridges, PathsOf
<1>3. ASSUME NEW k \in WantedBridges(d) PROVE d.bridges[k] \in Needed(d)
  BY DeploymentParts DEF Needed, WantedBridges, PathsOf
<1> QED
  BY <1>1, <1>2, <1>3, ComposedImportsType

\* A guest that passes all checks, and whose composition is complete, can run.
LEMMA ChecksSuffice ==
  ASSUME NEW d \in Deployments, AllChecks(d), Complete(d)
  PROVE  Runnable(d)
<1> DEFINE W == WantedBridges(d)
           C == ComposedImports(d, W)
<1>1. W \in SUBSET (1..Len(d.bridges)) /\ Needed(d) = {d.bridges[k] : k \in W}
  BY WantedIsNeeded
<1>2. ASSUME NEW b \in BridgesOf(d)
      PROVE  /\ Discovered(b) /\ ReachesOnlyAllowed(b) /\ Meets(ExportOf(b), b.key)
             /\ ExportOf(b) \in Reference /\ ExportOf(b).path = b.key.path
  <2>1. Discovered(b) /\ ReachesOnlyAllowed(b) /\ VersionMatchesKey(b)
    BY DEF AllChecks, BridgesFound, BridgesChecked
  <2> QED
    BY <2>1, ExportIsOfKey, RulesAgree DEF VersionMatchesKey
<1>3. W /= {} => Joins(d, W)
  BY DEF AllChecks, GuestComposes, Composes
<1>4. ASSUME NEW i \in d.imports
      PROVE  \/ Granted(d, i)
             \/ \E b \in Needed(d) : b.key.path = i.path /\ Meets(ExportOf(b), i)
  <2>1. CASE i \in Wired(d, W)
    <3>1. PICK k \in W : i = ExportOf(d.bridges[k])
      BY <2>1 DEF Wired
    <3>2. d.bridges[k] \in Needed(d) /\ d.bridges[k] \in BridgesOf(d)
      BY <1>1 DEF Needed
    <3> QED
      BY <3>1, <3>2, <1>2, MeetsItself
  <2>2. CASE i \notin Wired(d, W)
    BY <2>2 DEF Complete, ComposedImports
  <2> QED
    BY <2>1, <2>2
<1>5. ASSUME NEW b \in Needed(d)
      PROVE  ExportOf(b) \in b.file.own /\ \A i \in b.file.imports : Granted(d, i)
  <2>1. PICK k \in W : b = d.bridges[k]
    BY <1>1
  <2>2. ExportOf(b) \in b.file.own
    BY <2>1, <1>3 DEF Joins
  <2>3. b.file.imports \subseteq C
    BY <2>1 DEF ComposedImports
  <2> QED
    BY <2>2, <2>3 DEF Complete
<1>6. Needed(d) /= {} => d.typesFit
  BY <1>1, <1>3 DEF Joins
<1>7. d.guestLoads /\ d.composedLoads
  BY DEF AllChecks
<1> QED
  BY <1>2, <1>4, <1>5, <1>6, <1>7 DEF Runnable

\* A guest that can run passes all checks if every path has one source, the bridges' interfaces
\* have the same names on both sides, and its exports were reported as they are.
LEMMA ChecksPass ==
  ASSUME NEW d \in Deployments, OneSource(d), NamedAlike(d), ReportedRight(d), Runnable(d)
  PROVE  AllChecks(d)
<1> DEFINE W == WantedBridges(d)
           C == ComposedImports(d, W)
<1>1. /\ W \in SUBSET (1..Len(d.bridges))
      /\ Needed(d) = {d.bridges[k] : k \in W}
      /\ C \in SUBSET Reference
  BY WantedIsNeeded
<1>2. ASSUME NEW b \in BridgesOf(d)
      PROVE  Discovered(b) /\ ReachesOnlyAllowed(b) /\ VersionMatchesKey(b)
  <2>1. Discovered(b) /\ ReachesOnlyAllowed(b) /\ Meets(ExportOf(b), b.key)
    BY DEF Runnable
  <2> QED
    BY <2>1, ExportIsOfKey, RulesAgree DEF VersionMatchesKey
<1>3. ASSUME NEW i \in d.imports
      PROVE  Granted(d, i) \/ \E b \in BridgesOf(d) : b.key.path = i.path
  BY DEF Runnable, Needed
<1>4. Unsatisfied(d) = {}
  <2> SUFFICES ASSUME NEW i \in d.imports PROVE i.path \in Ambient \union SatisfiedPaths(d)
    BY DEF Unsatisfied
  <2>1. CASE Granted(d, i)
    BY <2>1 DEF Granted, Offered, SatisfiedPaths, PathsOf
  <2>2. CASE \E b \in BridgesOf(d) : b.key.path = i.path
    BY <2>2 DEF SatisfiedPaths
  <2> QED
    BY <2>1, <2>2, <1>3
<1>5. ASSUME NEW k \in W
      PROVE  d.bridges[k] \in Needed(d) /\ ExportOf(d.bridges[k]) \in d.imports
  <2>1. d.bridges[k] \in Needed(d)
    BY <1>1
  <2>2. PICK i \in d.imports : i.path = d.bridges[k].key.path
    BY DEF WantedBridges
  <2> QED
    BY <2>1, <2>2 DEF Needed, NamedAlike
<1>6. GuestComposes(d)
  <2> SUFFICES ASSUME W /= {} PROVE Joins(d, W)
    BY DEF GuestComposes, Composes
  <2>1. Wired(d, W) \subseteq d.imports
    BY <1>5 DEF Wired
  <2>2. \A j, k \in W : d.bridges[j].key.path = d.bridges[k].key.path => j = k
    BY <1>1, BridgeIsOnlySource
  <2>3. \A k \in W : ExportOf(d.bridges[k]) \in d.bridges[k].file.own
    BY <1>5 DEF Runnable
  <2>4. d.typesFit
    BY <1>5 DEF Runnable
  <2> QED
    BY <2>1, <2>2, <2>3, <2>4 DEF Joins, ReportedRight
<1>7. ResultComplies(d)
  <2> SUFFICES ASSUME NEW i \in C PROVE i \notin Violations(d, C)
    BY DEF ResultComplies, Violations
  <2>1. Granted(d, i)
    <3>1. CASE i \in d.imports \ Wired(d, W)
      <4> SUFFICES ASSUME NEW b \in Needed(d), b.key.path = i.path PROVE FALSE
        BY <3>1 DEF Runnable
      <4>1. PICK k \in W : b = d.bridges[k]
        BY <1>1
      <4>2. i = ExportOf(b)
        BY <3>1 DEF NamedAlike, Needed
      <4> QED
        BY <3>1, <4>1, <4>2 DEF Wired
    <3>2. CASE \E k \in W : i \in d.bridges[k].file.imports
      BY <3>2, <1>5 DEF Runnable
    <3> QED
      BY <3>1, <3>2 DEF ComposedImports
  <2>2. CASE i.path \in Ambient
    BY <2>2 DEF Violations
  <2>3. CASE Offered(d, i)
    BY <2>3, <1>1, OfferedComplies
  <2> QED
    BY <2>1, <2>2, <2>3 DEF Granted
<1>8. d.guestLoads /\ d.composedLoads
  BY DEF Runnable
<1> QED
  BY <1>2, <1>4, <1>6, <1>7, <1>8 DEF AllChecks, BridgesFound, BridgesChecked

\* What the checks of build_composition decide.  Passing them is enough to run only together
\* with a complete composition, which they do not establish (lib.rs:330).  To pass them it is
\* not enough to be able to run: paths with two sources, names that differ by a version that
\* would do (bridge.rs:129) and misreported exports can stand in the way, and nothing else.
THEOREM ChecksDecide ==
  ASSUME NEW d \in Deployments
  PROVE  /\ AllChecks(d) /\ Complete(d) => Runnable(d)
         /\ Runnable(d) /\ OneSource(d) /\ NamedAlike(d) /\ ReportedRight(d) => AllChecks(d)
BY ChecksSuffice, ChecksPass

-----------------------------------------------------------------------------
(* The invariant *)

LEMMA InitVerdict == Init => VerdictInv
<1> SUFFICES ASSUME Init PROVE VerdictInv
  OBVIOUS
<1>1. CIInv
  BY InitDecided
<1> QED
  BY <1>1 DEF Init, VerdictInv, Passed, Refused, BeforeCheck, BeforeCompose, BeforeLoad

\* Every step that moves on passes a check, and every step that fails has failed it.
LEMMA StepVerdict ==
  ASSUME VerdictInv, [Next]_vars
  PROVE  VerdictInv'
<1>1. CIInv'
  BY StepDecided DEF VerdictInv
<1>2. stage /= "failed" => error = "none"
  BY DEF VerdictInv, CIInv, CompositionTypeOK
<1>3. deployment' = deployment
  BY DEF Next, LoadGuest, DiscoverBridges, CheckBridges, CheckCapabilities, Compose,
         LoadComposed, ValidateGuest, FillPool, EmitManifest, Proceed, Fail, vars
<1>4. Passed' /\ Refused'
  <2> USE <1>2, <1>3 DEF VerdictInv, Passed, Refused, Proceed, Fail, Built,
                         BeforeCheck, BeforeCompose, BeforeLoad
  <2>1. CASE LoadGuest
    BY <2>1 DEF LoadGuest
  <2>2. CASE DiscoverBridges
    BY <2>2 DEF DiscoverBridges, BridgesFound
  <2>3. CASE CheckBridges
    BY <2>3 DEF CheckBridges, BridgesChecked
  <2>4. CASE CheckCapabilities
    BY <2>4 DEF CheckCapabilities
  <2>5. CASE Compose
    <3>1. wanted = WantedBridges(deployment)
      BY <2>5 DEF Compose, CIInv, Decided
    <3> QED
      BY <2>5, <3>1 DEF Compose, GuestComposes
  <2>6. CASE LoadComposed
    BY <2>6 DEF LoadComposed
  <2>7. CASE ValidateGuest
    <3>1. needs = ComposedImports(deployment, WantedBridges(deployment))
      BY <2>7 DEF ValidateGuest, CIInv, Decided
    <3> QED
      BY <2>7, <3>1 DEF ValidateGuest, ResultComplies
  <2>8. CASE FillPool
    BY <2>8 DEF FillPool
  <2>9. CASE EmitManifest
    BY <2>9 DEF EmitManifest
  <2>10. CASE UNCHANGED vars
    BY <2>10 DEF vars
  <2> QED
    BY <2>1, <2>2, <2>3, <2>4, <2>5, <2>6, <2>7, <2>8, <2>9, <2>10 DEF Next
<1> QED
  BY <1>1, <1>4 DEF VerdictInv

LEMMA VerdictAlways == Spec => []VerdictInv
<1>1. VerdictInv /\ [Next]_vars => VerdictInv'
  BY StepVerdict
<1> QED
  BY InitVerdict, <1>1, PTL DEF Spec

-----------------------------------------------------------------------------
(* The properties *)

\* What an accepted guest can be left without has the path of a key of [bridges]: everything
\* else its composition imports is there in a version that will do, also where a path has
\* several sources of which check_compliance looks at one (validate.rs:133).
THEOREM OpenOnlyByKeys == Spec => []LeftOpenOnlyByKeys
<1>1. VerdictInv => LeftOpenOnlyByKeys
  <2> SUFFICES ASSUME VerdictInv, Accepted, NEW i \in needs,
                      i.path \notin {b.key.path : b \in BridgesOf(deployment)}
               PROVE  Granted(deployment, i)
    BY DEF LeftOpenOnlyByKeys
  <2>1. deployment \in Deployments /\ needs \in SUBSET Reference
    BY DEF VerdictInv, CIInv, CompositionTypeOK
  <2>2. needs = ComposedImports(deployment, WantedBridges(deployment))
    BY DEF VerdictInv, CIInv, Decided, Accepted, BeforeCheck, BeforeCompose, BeforeLoad
  <2>3. i \notin Violations(deployment, needs)
    BY <2>2 DEF VerdictInv, Passed, Accepted, ResultComplies
  <2> QED
    BY <2>1, <2>3, CompliantIsOffered
<1> QED
  BY VerdictAlways, <1>1, PTL

\* A guest that can run is refused by a check only where a path has two sources, a bridge's
\* interface has two names, or an export was misreported.
THEOREM WronglyRefusedOnlyByNames == Spec => []RefusedOnlyByNames
<1>1. VerdictInv => RefusedOnlyByNames
  <2> SUFFICES ASSUME VerdictInv, error \in Errors \ {"none", "Runtime"}, Runnable(deployment),
                      OneSource(deployment), NamedAlike(deployment), ReportedRight(deployment)
               PROVE  FALSE
    BY DEF RefusedOnlyByNames
  <2>1. deployment \in Deployments
    BY DEF VerdictInv, CIInv, CompositionTypeOK
  <2>2. AllChecks(deployment)
    BY <2>1, ChecksPass
  <2> QED
    BY <2>2 DEF VerdictInv, Refused, Errors, AllChecks
<1> QED
  BY VerdictAlways, <1>1, PTL
=============================================================================
