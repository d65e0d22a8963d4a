------------------------------- MODULE HostProofs -------------------------------
(***************************************************************************)
(* Theorems about Host, for any number of clients, reloaders, monitors and *)
(* publishers, any envelopes, any ceiling and any number of compositions.  *)
(***************************************************************************)
EXTENDS Host, FiniteSetTheorems, TLAPS

\* A reloader in one of these has a composition in hand that never served.
FreshPCs == {"installing", "recording", "swapping"}

\* Numbers in use were given out by fetch_add.
NumbersGivenOut ==
  /\ composed < generation
  /\ reloadedTo < generation
  /\ \A g \in retired : g < generation
  /\ \A t \in Threads : mine[t] < generation

\* A composition that is built and does not serve yet is in one reloader's hand only.
FreshIsPrivate ==
  \A t \in Reloaders :
    pc[t] \in FreshPCs =>
      /\ mine[t] /= NoGeneration
      /\ mine[t] /= composed
      /\ mine[t] \notin retired
      /\ \A s \in Reloaders \ {t} : pc[s] \in FreshPCs \union {"retiring"} => mine[s] /= mine[t]

\* It was checked with the envelopes that are registered.
FreshKnowsEnvelopes ==
  \A t \in Reloaders : pc[t] \in FreshPCs => builtWith[mine[t]] = envelopes

\* What a reload is about to close does not serve.
RetiringIsSuperseded ==
  \A t \in Reloaders : pc[t] = "retiring" => mine[t] /= composed \/ mine[t] = NoGeneration

\* While the first composition is made nothing serves and no reload runs.
ComposesAlone ==
  \A t \in Reloaders :
    pc[t] \in {"composing", "installing"} =>
      /\ composed = NoGeneration
      /\ \A s \in Reloaders \ {t} : pc[s] = "idle"

\* reload_state is a mutex.
OneStateHolder == \A t, s \in StateHolders : t = s

\* The reload that was recorded last has swapped, or holds reload_state and is about to.
RecordedServes ==
  /\ \A t \in Reloaders : pc[t] = "swapping" => mine[t] = reloadedTo
  /\ (\A t \in Reloaders : pc[t] /= "swapping") => reloadedTo \in {NoGeneration, composed}

\* Nobody swaps under a reader.
ReadersSeeServing == \A t \in Readers : mine[t] = composed

\* A client that uses a pool knows which.
ClientsHavePools == \A c \in Clients : pc[c] \in {"inPool", "busy"} => mine[c] /= NoGeneration

\* shutdown consumes the host.
NoCallsAfterShutdown == ~Up => \A t \in Threads : pc[t] \in OutsidePCs

HInv ==
  /\ HostTypeOK
  /\ NumbersGivenOut
  /\ FreshIsPrivate
  /\ FreshKnowsEnvelopes
  /\ RetiringIsSuperseded
  /\ ComposesAlone
  /\ OneStateHolder
  /\ RecordedServes
  /\ ReadersSeeServing
  /\ ClientsHavePools
  /\ NoCallsAfterShutdown
  /\ ServingPoolOpen
  /\ SupersededPoolsClose
  /\ EnvelopesOfServing

-----------------------------------------------------------------------------
(* What a step leaves alone *)

\* Only thread t moved.
OnlyMoves(t) ==
  /\ \A s \in Threads \ {t} : pc'[s] = pc[s] /\ mine'[s] = mine[s]
  /\ pc' \in [Threads -> ClientPCs \union ReloaderPCs \union MonitorPCs \union PublisherPCs]
  /\ mine' \in [Threads -> Generations \union {NoGeneration}]

\* Threads of different kinds are different threads.
LEMMA KindsDiffer ==
  /\ \A c \in Clients : c \in Threads /\ c \notin Reloaders /\ c \notin Monitors /\ c \notin Publishers
  /\ \A r \in Reloaders : r \in Threads /\ r \notin Clients /\ r \notin Monitors /\ r \notin Publishers
  /\ \A m \in Monitors : m \in Threads /\ m \notin Reloaders /\ m \notin Clients /\ m \notin Publishers
  /\ \A p \in Publishers : p \in Threads /\ p \notin Reloaders /\ p \notin Monitors /\ p \notin Clients
  BY ThreadsAssumption DEF Threads

\* Clients and monitors change nothing but their own counters and what they hold.
LEMMA ClientMoves ==
  ASSUME HostTypeOK, NEW c \in Clients, ClientStep(c)
  PROVE  /\ OnlyMoves(c)
         /\ pc'[c] \in ClientPCs
         /\ UNCHANGED <<shared, reloadedTo>>
  BY KindsDiffer
  DEF HostTypeOK, ClientStep, CheckoutStart, CheckoutClones, CheckoutHandsOut, CheckoutRefused,
      CheckoutErrs, DropGuard, OnlyMoves, ClientPCs, At, Go, Take

LEMMA MonitorMoves ==
  ASSUME HostTypeOK, NEW m \in Monitors, MonitorStep(m)
  PROVE  /\ OnlyMoves(m)
         /\ pc'[m] \in MonitorPCs
         /\ UNCHANGED <<shared, reloadedTo>>
  BY KindsDiffer
  DEF HostTypeOK, MonitorStep, HealthStart, HealthReadsPool, HealthReturns, OnlyMoves, MonitorPCs,
      At, Go, Take, shared

\* A publisher writes the manifest.
LEMMA PublisherMoves ==
  ASSUME HostTypeOK, NEW p \in Publishers, PublisherStep(p)
  PROVE  /\ OnlyMoves(p)
         /\ pc'[p] \in PublisherPCs
         /\ manifest' \in Generations \union {NoGeneration}
         /\ UNCHANGED <<composed, generation, retired, lastReload, phase, registry, reloadedTo>>
  BY KindsDiffer
  DEF HostTypeOK, PublisherStep, PublishStart, PublishReads, PublishWrites, OnlyMoves,
      PublisherPCs, At, Go, Take, shared

LEMMA ReloaderMoves ==
  ASSUME HostTypeOK, NEW t \in Reloaders, ReloaderStep(t)
  PROVE  /\ OnlyMoves(t)
         /\ pc'[t] \in ReloaderPCs
         /\ UNCHANGED <<manifest, phase, envelopes>>
<1> USE HostAssumption, KindsDiffer DEF HostTypeOK, OnlyMoves, ReloaderPCs, At, Go, Take
<1>1. CASE ComposeStart(t) \/ ReloadStart(t)
  BY <1>1 DEF ComposeStart, ReloadStart, shared, registry
<1>2. CASE ComposeBuilt(t) \/ ReloadBuilt(t)
  <2>1. Take(t, generation) /\ generation \in Generations
    BY <1>2 DEF ComposeBuilt, ReloadBuilt, Built, Generations
  <2>2. Go(t, "installing") \/ Go(t, "recording")
    BY <1>2 DEF ComposeBuilt, ReloadBuilt, Built
  <2>3. UNCHANGED <<manifest, phase, envelopes>>
    BY <1>2 DEF ComposeBuilt, ReloadBuilt, Built
  <2> QED
    BY <2>1, <2>2, <2>3
<1>3. CASE ComposeFails(t) \/ ReloadBuildFails(t)
  BY <1>3 DEF ComposeFails, ReloadBuildFails, BuildFails, registry
<1>4. CASE ComposeInstalls(t) \/ ReloadSwaps(t)
  BY <1>4 DEF ComposeInstalls, ReloadSwaps, registry
<1>5. CASE ReloadRecords(t) \/ ReloadRecordsFailure(t) \/ ReloadRetires(t)
  BY <1>5 DEF ReloadRecords, ReloadRecordsFailure, ReloadRetires, registry
<1> QED
  BY <1>1, <1>2, <1>3, <1>4, <1>5 DEF ReloaderStep

-----------------------------------------------------------------------------
(* Types *)

LEMMA TypeInit == Init => HostTypeOK
  BY HostAssumption, KindsDiffer
  DEF Init, HostTypeOK, ClientPCs, ReloaderPCs, MonitorPCs, PublisherPCs, Generations

\* A reloader's step, the only one that gives out numbers.
LEMMA ReloaderType ==
  ASSUME HostTypeOK, NEW t \in Reloaders, ReloaderStep(t)
  PROVE  HostTypeOK'
<1>1. /\ OnlyMoves(t)
      /\ pc'[t] \in ReloaderPCs
      /\ UNCHANGED <<manifest, phase, envelopes>>
  BY ReloaderMoves
<1>2. /\ composed' \in Generations \union {NoGeneration}
      /\ generation' \in 0..MaxGenerations
      /\ retired' \subseteq Generations
      /\ lastReload' \in {"none", "ok", "failed"}
      /\ reloadedTo' \in Generations \union {NoGeneration}
      /\ builtWith' \in [Generations -> SUBSET Envelopes]
  <2> USE HostAssumption, KindsDiffer DEF HostTypeOK
  <2>1. CASE ComposeStart(t) \/ ReloadStart(t)
    BY <2>1 DEF ComposeStart, ReloadStart, shared, registry
  <2>2. CASE ComposeBuilt(t) \/ ReloadBuilt(t)
    <3>1. generation \in Generations /\ generation' = generation + 1 /\ generation' \in 0..MaxGenerations
      BY <2>2 DEF ComposeBuilt, ReloadBuilt, Built, Generations
    <3>2. builtWith' \in [Generations -> SUBSET Envelopes]
      BY <2>2, <3>1 DEF ComposeBuilt, ReloadBuilt, Built
    <3> QED
      BY <2>2, <3>1, <3>2 DEF ComposeBuilt, ReloadBuilt, Built
  <2>3. CASE ComposeFails(t) \/ ReloadBuildFails(t)
    BY <2>3 DEF ComposeFails, ReloadBuildFails, BuildFails, registry
  <2>4. CASE ComposeInstalls(t) \/ ReloadSwaps(t)
    BY <2>4 DEF ComposeInstalls, ReloadSwaps, registry
  <2>5. CASE ReloadRecords(t) \/ ReloadRecordsFailure(t) \/ ReloadRetires(t)
    BY <2>5 DEF ReloadRecords, ReloadRecordsFailure, ReloadRetires, registry
  <2> QED
    BY <1>1, <2>1, <2>2, <2>3, <2>4, <2>5 DEF ReloaderStep
<1> QED
  BY <1>1, <1>2, KindsDiffer DEF HostTypeOK, OnlyMoves

\* Steps of no thread: the pcs stay where they are.
LEMMA HostMoves ==
  ASSUME HostTypeOK, ShutdownStep \/ \E e \in Envelopes : RegisterEnvelope(e)
  PROVE  /\ HostTypeOK'
         /\ UNCHANGED <<composed, generation, lastReload, manifest, pc, mine, reloadedTo, builtWith>>
  BY DEF HostTypeOK, ShutdownStep, ShutdownStart, ShutdownLoopEnds, ShutdownCounts,
         RegisterEnvelope, registry

LEMMA TypeNext == HostTypeOK /\ [Next]_vars => HostTypeOK'
<1> SUFFICES ASSUME HostTypeOK, [Next]_vars PROVE HostTypeOK'
  OBVIOUS
<1>1. ASSUME NEW c \in Clients, ClientStep(c) PROVE HostTypeOK'
  BY <1>1, ClientMoves, KindsDiffer DEF HostTypeOK, OnlyMoves, shared, registry
<1>2. ASSUME NEW t \in Reloaders, ReloaderStep(t) PROVE HostTypeOK'
  BY <1>2, ReloaderType
<1>3. ASSUME NEW m \in Monitors, MonitorStep(m) PROVE HostTypeOK'
  BY <1>3, MonitorMoves, KindsDiffer DEF HostTypeOK, OnlyMoves, shared, registry
<1>4. ASSUME NEW p \in Publishers, PublisherStep(p) PROVE HostTypeOK'
  BY <1>4, PublisherMoves, KindsDiffer DEF HostTypeOK, OnlyMoves, registry
<1>5. CASE ShutdownStep \/ \E e \in Envelopes : RegisterEnvelope(e)
  BY <1>5, HostMoves
<1>6. CASE UNCHANGED vars
  BY <1>6 DEF vars, HostTypeOK
<1> QED
  BY <1>1, <1>2, <1>3, <1>4, <1>5, <1>6 DEF Next

\* Every variable of the host keeps to its kind.
THEOREM HostTypeCorrect == Spec => []HostTypeOK
  BY TypeInit, TypeNext, PTL DEF Spec

-----------------------------------------------------------------------------
(* The inductive invariant *)

\* What reloaders, and the compositions they make, depend on: steps of others keep it.
ReloadInv ==
  /\ FreshIsPrivate
  /\ FreshKnowsEnvelopes
  /\ RetiringIsSuperseded
  /\ ComposesAlone
  /\ OneStateHolder
  /\ RecordedServes
  /\ ServingPoolOpen
  /\ EnvelopesOfServing

LEMMA OthersKeepReloadInv ==
  ASSUME HostTypeOK, ReloadInv, NEW s \in Threads \ Reloaders, OnlyMoves(s),
         pc'[s] \in ClientPCs \union MonitorPCs \union PublisherPCs,
         UNCHANGED <<composed, generation, retired, phase, registry, reloadedTo>>
  PROVE  ReloadInv'
<1>1. \A t \in Reloaders : pc'[t] = pc[t] /\ mine'[t] = mine[t]
  BY KindsDiffer DEF OnlyMoves
<1>2. StateHolders' = StateHolders
  <2>1. s \notin StateHolders
    BY KindsDiffer DEF HostTypeOK, StateHolders, Threads, ClientPCs, MonitorPCs, PublisherPCs
  <2>2. s \notin StateHolders'
    BY DEF StateHolders, ClientPCs, MonitorPCs, PublisherPCs
  <2> QED
    BY <2>1, <2>2 DEF StateHolders, OnlyMoves
<1>3. FreshIsPrivate' /\ FreshKnowsEnvelopes' /\ RetiringIsSuperseded'
  BY <1>1 DEF ReloadInv, FreshIsPrivate, FreshKnowsEnvelopes, RetiringIsSuperseded, registry
<1>4. ComposesAlone' /\ RecordedServes'
  BY <1>1 DEF ReloadInv, ComposesAlone, RecordedServes
<1>5. OneStateHolder' /\ ServingPoolOpen' /\ EnvelopesOfServing'
  BY <1>2 DEF ReloadInv, OneStateHolder, ServingPoolOpen, EnvelopesOfServing, registry, Up
<1> QED
  BY <1>3, <1>4, <1>5 DEF ReloadInv

LEMMA HInitHolds == Init => HInv
<1> SUFFICES ASSUME Init PROVE HInv
  OBVIOUS
<1>1. \A t \in Threads : pc[t] = "idle" /\ mine[t] = NoGeneration
  BY DEF Init
<1>2. HostTypeOK
  BY TypeInit
<1>3. ReloadInv
  BY <1>1, KindsDiffer
  DEF Init, ReloadInv, FreshIsPrivate, FreshKnowsEnvelopes, RetiringIsSuperseded, ComposesAlone,
      OneStateHolder, RecordedServes, ServingPoolOpen, EnvelopesOfServing, FreshPCs, StateHolders
<1>4. NumbersGivenOut /\ ReadersSeeServing /\ ClientsHavePools /\ NoCallsAfterShutdown
  BY <1>1, KindsDiffer
  DEF Init, NumbersGivenOut, ReadersSeeServing, ClientsHavePools, NoCallsAfterShutdown, Readers,
      NoGeneration, Up
<1>5. SupersededPoolsClose
  BY <1>1, KindsDiffer DEF Init, SupersededPoolsClose
<1> QED
  BY <1>2, <1>3, <1>4, <1>5 DEF HInv, ReloadInv

LEMMA ClientKeeps ==
  ASSUME HInv, NEW c \in Clients, ClientStep(c)
  PROVE  HInv'
<1>1. HostTypeOK /\ HostTypeOK'
  BY TypeNext DEF HInv, Next
<1>2. /\ OnlyMoves(c)
      /\ pc'[c] \in ClientPCs
      /\ UNCHANGED <<composed, generation, retired, phase, registry, reloadedTo>>
  BY <1>1, ClientMoves DEF shared
<1>3. ReloadInv'
  BY <1>1, <1>2, OthersKeepReloadInv, KindsDiffer DEF HInv, ReloadInv
<1>4. c \in Threads /\ \A s \in Threads \ {c} : pc'[s] = pc[s] /\ mine'[s] = mine[s]
  BY <1>2, KindsDiffer DEF OnlyMoves
<1>5. mine'[c] \in {mine[c], composed, NoGeneration}
  BY <1>1, <1>4
  DEF ClientStep, CheckoutStart, CheckoutClones, CheckoutHandsOut, CheckoutRefused, CheckoutErrs,
      DropGuard, Take, HostTypeOK
<1>6. NumbersGivenOut'
  BY <1>1, <1>2, <1>4, <1>5 DEF HInv, HostTypeOK, NumbersGivenOut, NoGeneration, Generations
<1>7. ReadersSeeServing'
  BY <1>1, <1>2, <1>4 DEF HInv, HostTypeOK, ReadersSeeServing, Readers, ClientPCs
<1>8. /\ pc'[c] \in {"inPool", "busy"} =>
           \/ mine'[c] = mine[c] /\ pc[c] = "inPool"
           \/ mine'[c] = composed /\ composed /= NoGeneration /\ pc'[c] = "inPool"
      /\ pc[c] \notin {"idle", "shutdownError", "busy"} \/ Up \/ pc'[c] = "idle"
  BY <1>1, <1>4
  DEF ClientStep, CheckoutStart, CheckoutClones, CheckoutHandsOut, CheckoutRefused, CheckoutErrs,
      DropGuard, Take, Go, At, HostTypeOK
<1>9. ClientsHavePools'
  BY <1>2, <1>4, <1>8, KindsDiffer DEF HInv, ClientsHavePools
<1>10. NoCallsAfterShutdown'
  BY <1>1, <1>2, <1>4, <1>8 DEF HInv, NoCallsAfterShutdown, OutsidePCs, Up, HostTypeOK
<1>11. SupersededPoolsClose'
  BY <1>2, <1>4, <1>8, KindsDiffer DEF HInv, SupersededPoolsClose
<1> QED
  BY <1>1, <1>3, <1>6, <1>7, <1>9, <1>10, <1>11 DEF HInv, ReloadInv

\* Monitors and publishers: what they read is what serves.
LEMMA ReaderKeeps ==
  ASSUME HInv, NEW s \in Monitors \union Publishers, HostTypeOK', OnlyMoves(s),
         pc'[s] \in MonitorPCs \union PublisherPCs,
         mine'[s] \in {mine[s], composed, NoGeneration},
         pc'[s] \in {"healthState", "writing"} => mine'[s] = composed,
         Up,
         UNCHANGED <<composed, generation, retired, phase, registry, reloadedTo>>
  PROVE  HInv'
<1>1. /\ s \in Threads \ Reloaders
      /\ s \notin Clients
      /\ \A r \in Threads \ {s} : pc'[r] = pc[r] /\ mine'[r] = mine[r]
  BY KindsDiffer DEF OnlyMoves
<1>2. ReloadInv'
  BY <1>1, OthersKeepReloadInv DEF HInv, ReloadInv
<1>3. NumbersGivenOut'
  BY <1>1 DEF HInv, HostTypeOK, NumbersGivenOut, NoGeneration, Generations
<1>4. ReadersSeeServing'
  BY <1>1 DEF HInv, ReadersSeeServing, Readers
<1>5. ClientsHavePools' /\ SupersededPoolsClose'
  BY <1>1, KindsDiffer DEF HInv, ClientsHavePools, SupersededPoolsClose
<1>6. NoCallsAfterShutdown'
  BY DEF Up, NoCallsAfterShutdown
<1> QED
  BY <1>2, <1>3, <1>4, <1>5, <1>6 DEF HInv, ReloadInv

LEMMA MonitorKeeps ==
  ASSUME HInv, NEW m \in Monitors, MonitorStep(m)
  PROVE  HInv'
<1>1. HostTypeOK /\ HostTypeOK'
  BY TypeNext DEF HInv, Next
<1>2. /\ OnlyMoves(m)
      /\ pc'[m] \in MonitorPCs
      /\ UNCHANGED <<composed, generation, retired, phase, registry, reloadedTo>>
  BY <1>1, MonitorMoves DEF shared
<1>3. /\ mine'[m] \in {mine[m], composed, NoGeneration}
      /\ pc'[m] \in {"healthState", "writing"} => mine'[m] = composed
  BY <1>1, KindsDiffer
  DEF MonitorStep, HealthStart, HealthReadsPool, HealthReturns, Take, Go, HostTypeOK
<1>4. Up
  BY <1>1, KindsDiffer
  DEF MonitorStep, HealthStart, HealthReadsPool, HealthReturns, At, HInv, NoCallsAfterShutdown,
      OutsidePCs
<1> QED
  BY <1>1, <1>2, <1>3, <1>4, ReaderKeeps

LEMMA PublisherKeeps ==
  ASSUME HInv, NEW p \in Publishers, PublisherStep(p)
  PROVE  HInv'
<1>1. HostTypeOK /\ HostTypeOK'
  BY TypeNext DEF HInv, Next
<1>2. /\ OnlyMoves(p)
      /\ pc'[p] \in PublisherPCs
      /\ UNCHANGED <<composed, generation, retired, phase, registry, reloadedTo>>
  BY <1>1, PublisherMoves
<1>3. /\ mine'[p] \in {mine[p], composed, NoGeneration}
      /\ pc'[p] \in {"healthState", "writing"} => mine'[p] = composed
  BY <1>1, KindsDiffer
  DEF PublisherStep, PublishStart, PublishReads, PublishWrites, Take, Go, HostTypeOK
<1>4. Up
  BY <1>1, KindsDiffer
  DEF PublisherStep, PublishStart, PublishReads, PublishWrites, At, HInv, NoCallsAfterShutdown,
      OutsidePCs
<1> QED
  BY <1>1, <1>2, <1>3, <1>4, ReaderKeeps

LEMMA RegisterKeeps ==
  ASSUME HInv, NEW e \in Envelopes, RegisterEnvelope(e)
  PROVE  HInv'
<1>1. HostTypeOK'
  BY TypeNext DEF HInv, Next
<1>2. /\ UNCHANGED <<composed, generation, retired, phase, pc, mine, reloadedTo, builtWith>>
      /\ composed = NoGeneration
      /\ \A t \in Threads : pc[t] \in OutsidePCs
  BY DEF RegisterEnvelope
<1>3. FreshKnowsEnvelopes' /\ EnvelopesOfServing'
  BY <1>2, KindsDiffer DEF FreshKnowsEnvelopes, EnvelopesOfServing, FreshPCs, OutsidePCs
<1>4. /\ NumbersGivenOut' /\ FreshIsPrivate' /\ RetiringIsSuperseded' /\ ComposesAlone'
      /\ RecordedServes' /\ ServingPoolOpen'
  BY <1>2
  DEF HInv, NumbersGivenOut, FreshIsPrivate, RetiringIsSuperseded, ComposesAlone, RecordedServes,
      ServingPoolOpen, Up
<1>5. /\ OneStateHolder' /\ ReadersSeeServing' /\ ClientsHavePools' /\ NoCallsAfterShutdown'
      /\ SupersededPoolsClose'
  BY <1>2
  DEF HInv, OneStateHolder, StateHolders, ReadersSeeServing, Readers, ClientsHavePools,
      NoCallsAfterShutdown, SupersededPoolsClose, Up
<1> QED
  BY <1>1, <1>3, <1>4, <1>5 DEF HInv

\* Shutdown closes the pool that serves, if there is one, and swaps nothing.
LEMMA ShutdownKeeps ==
  ASSUME HInv, ShutdownStep
  PROVE  HInv'
<1>1. HostTypeOK /\ HostTypeOK'
  BY TypeNext DEF HInv, Next
<1>2. /\ UNCHANGED <<composed, generation, registry, pc, mine, reloadedTo>>
      /\ retired' \in {retired, retired \union {composed}}
      /\ composed = NoGeneration => retired' = retired
      /\ ~Up'
  BY DEF ShutdownStep, ShutdownStart, ShutdownLoopEnds, ShutdownCounts, Up
<1>3. \A t \in Threads : pc[t] \in OutsidePCs
  BY DEF ShutdownStep, ShutdownStart, ShutdownLoopEnds, ShutdownCounts, Up, HInv,
         NoCallsAfterShutdown
<1>4. \A t \in Reloaders : pc[t] = "idle"
  BY <1>1, <1>3, KindsDiffer DEF HostTypeOK, OutsidePCs, ReloaderPCs
<1>5. NumbersGivenOut'
  BY <1>2 DEF HInv, NumbersGivenOut
<1>6. /\ FreshIsPrivate' /\ FreshKnowsEnvelopes' /\ RetiringIsSuperseded' /\ ComposesAlone'
  BY <1>2, <1>4
  DEF FreshIsPrivate, FreshKnowsEnvelopes, RetiringIsSuperseded, ComposesAlone, FreshPCs
<1>7. OneStateHolder' /\ RecordedServes' /\ ReadersSeeServing' /\ ClientsHavePools'
  BY <1>2
  DEF HInv, OneStateHolder, StateHolders, RecordedServes, ReadersSeeServing, Readers,
      ClientsHavePools
<1>8. NoCallsAfterShutdown' /\ ServingPoolOpen' /\ EnvelopesOfServing'
  BY <1>2, <1>3
  DEF HInv, NoCallsAfterShutdown, ServingPoolOpen, EnvelopesOfServing, registry
<1>9. SupersededPoolsClose'
  BY <1>2 DEF HInv, SupersededPoolsClose
<1> QED
  BY <1>1, <1>5, <1>6, <1>7, <1>8, <1>9 DEF HInv

\* What every reloader's step keeps of the others' part, given that nobody swaps under a reader.
LEMMA ReloaderKeepsOthers ==
  ASSUME HInv, NEW t \in Reloaders, ReloaderStep(t)
  PROVE  /\ HostTypeOK' /\ OnlyMoves(t) /\ t \in Threads /\ Up /\ Up'
         /\ \A s \in Threads \ {t} : pc'[s] = pc[s] /\ mine'[s] = mine[s]
         /\ \A c \in Clients : pc'[c] = pc[c] /\ mine'[c] = mine[c]
         /\ envelopes' = envelopes
         /\ composed' = composed \/ MayWrite => ReadersSeeServing'
         /\ ClientsHavePools' /\ NoCallsAfterShutdown'
<1>1. HostTypeOK /\ HostTypeOK'
  BY TypeNext DEF HInv, Next
<1>2. /\ OnlyMoves(t)
      /\ pc'[t] \in ReloaderPCs
      /\ UNCHANGED <<manifest, phase, envelopes>>
  BY <1>1, ReloaderMoves
<1>3. /\ t \in Threads
      /\ \A s \in Threads \ {t} : pc'[s] = pc[s] /\ mine'[s] = mine[s]
      /\ \A c \in Clients : pc'[c] = pc[c] /\ mine'[c] = mine[c]
  BY <1>2, KindsDiffer DEF OnlyMoves
<1>4. Up
  BY <1>3
  DEF HInv, NoCallsAfterShutdown, OutsidePCs, ReloaderStep, At, ComposeStart, ComposeBuilt,
      ComposeFails, ComposeInstalls, ReloadStart, ReloadBuilt, ReloadBuildFails, ReloadRecords,
      ReloadRecordsFailure, ReloadSwaps, ReloadRetires
<1>5. composed' = composed \/ MayWrite => ReadersSeeServing'
  <2>1. t \notin Readers /\ t \notin Readers'
    BY <1>1, <1>2 DEF Readers, HostTypeOK, ReloaderPCs
  <2>2. Readers' = Readers
    BY <1>3, <2>1 DEF Readers
  <2> QED
    BY <1>3, <2>1, <2>2 DEF HInv, ReadersSeeServing, MayWrite, Readers
<1>6. Up' /\ NoCallsAfterShutdown'
  BY <1>2, <1>4 DEF Up, NoCallsAfterShutdown
<1>7. ClientsHavePools'
  BY <1>3 DEF HInv, ClientsHavePools
<1> QED
  BY <1>1, <1>2, <1>3, <1>4, <1>5, <1>6, <1>7

\* A reloader sets out, or gives up.
LEMMA StartsKeep ==
  ASSUME HInv, NEW t \in Reloaders,
         \/ ComposeStart(t) \/ ReloadStart(t) \/ ComposeFails(t) \/ ReloadBuildFails(t)
         \/ ReloadRecordsFailure(t)
  PROVE  HInv'
<1>1. /\ HostTypeOK' /\ t \in Threads
      /\ \A s \in Threads \ {t} : pc'[s] = pc[s]
      /\ \A c \in Clients : pc'[c] = pc[c] /\ mine'[c] = mine[c]
      /\ ReadersSeeServing' /\ ClientsHavePools' /\ NoCallsAfterShutdown'
  <2>1. composed' = composed
    BY DEF ComposeStart, ReloadStart, ComposeFails, ReloadBuildFails, BuildFails,
           ReloadRecordsFailure, shared
  <2> QED
    BY <2>1, ReloaderKeepsOthers DEF ReloaderStep
<1>2. /\ UNCHANGED <<composed, retired, phase, mine, reloadedTo, registry>>
      /\ generation' \in Int /\ generation' >= generation
      /\ pc[t] \in {"idle", "composing", "reloading", "failing"}
      /\ pc'[t] \in {"idle", "composing", "reloading", "failing"}
      /\ pc'[t] = "composing" => composed = NoGeneration /\ \A r \in Reloaders : pc[r] = "idle"
      /\ pc'[t] /= "idle" => \A r \in Reloaders \ {t} : pc[r] \notin {"composing", "installing"}
  <2>1. HostTypeOK
    BY DEF HInv
  <2>2. CASE ComposeStart(t) \/ ReloadStart(t) \/ ReloadRecordsFailure(t)
    BY <1>1, <2>1, <2>2
    DEF HostTypeOK, ComposeStart, ReloadStart, ReloadRecordsFailure, At, Go, shared, registry
  <2>3. CASE ComposeFails(t) \/ ReloadBuildFails(t)
    <3>1. \A r \in Reloaders \ {t} : pc[r] \notin {"composing", "installing"}
      BY <2>3 DEF HInv, ComposesAlone, ComposeFails, ReloadBuildFails, At
    <3> QED
      BY <1>1, <2>1, <2>3, <3>1
      DEF HostTypeOK, ComposeFails, ReloadBuildFails, BuildFails, At, Go, registry
  <2> QED
    BY <2>2, <2>3
<1>3. NumbersGivenOut'
  BY <1>2 DEF HInv, HostTypeOK, NumbersGivenOut, Generations, NoGeneration
<1>4. FreshIsPrivate' /\ FreshKnowsEnvelopes' /\ RetiringIsSuperseded'
  BY <1>1, <1>2, KindsDiffer
  DEF HInv, FreshIsPrivate, FreshKnowsEnvelopes, RetiringIsSuperseded, FreshPCs, registry
<1>5. ComposesAlone'
  BY <1>1, <1>2, KindsDiffer DEF HInv, ComposesAlone
<1>6. OneStateHolder'
  <2>1. StateHolders' = StateHolders
    BY <1>1, <1>2 DEF StateHolders
  <2> QED
    BY <2>1 DEF HInv, OneStateHolder
<1>7. RecordedServes' /\ SupersededPoolsClose'
  BY <1>1, <1>2, KindsDiffer DEF HInv, RecordedServes, SupersededPoolsClose
<1>8. ServingPoolOpen' /\ EnvelopesOfServing'
  BY <1>2 DEF HInv, ServingPoolOpen, EnvelopesOfServing, registry, Up
<1> QED
  BY <1>1, <1>3, <1>4, <1>5, <1>6, <1>7, <1>8 DEF HInv

\* The number a new composition gets is nobody else's.
LEMMA BuiltKeeps ==
  ASSUME HInv, NEW t \in Reloaders, ComposeBuilt(t) \/ ReloadBuilt(t)
  PROVE  HInv'
<1>1. /\ HostTypeOK' /\ t \in Threads
      /\ \A s \in Threads \ {t} : pc'[s] = pc[s] /\ mine'[s] = mine[s]
      /\ \A c \in Clients : pc'[c] = pc[c] /\ mine'[c] = mine[c]
      /\ ReadersSeeServing' /\ ClientsHavePools' /\ NoCallsAfterShutdown'
  <2>1. composed' = composed
    BY DEF ComposeBuilt, ReloadBuilt, Built
  <2> QED
    BY <2>1, ReloaderKeepsOthers DEF ReloaderStep
<1>2. /\ UNCHANGED <<composed, retired, phase, reloadedTo, envelopes>>
      /\ generation \in Generations /\ generation' = generation + 1
      /\ builtWith' = [builtWith EXCEPT ![generation] = envelopes]
      /\ mine'[t] = generation
  BY <1>1, HostAssumption
  DEF HInv, HostTypeOK, ComposeBuilt, ReloadBuilt, Built, Take, Generations
<1>3. \/ pc[t] = "composing" /\ pc'[t] = "installing"
      \/ pc[t] = "reloading" /\ pc'[t] = "recording"
  BY <1>1 DEF HInv, HostTypeOK, ComposeBuilt, ReloadBuilt, Built, At, Go
<1>4. /\ generation /= NoGeneration /\ generation /= composed /\ generation \notin retired
      /\ \A s \in Threads : mine[s] /= generation
  BY <1>2 DEF HInv, HostTypeOK, NumbersGivenOut, Generations, NoGeneration
<1>5. NumbersGivenOut'
  BY <1>1, <1>2 DEF HInv, HostTypeOK, NumbersGivenOut, Generations, NoGeneration
<1>6. FreshIsPrivate'
  BY <1>1, <1>2, <1>3, <1>4, KindsDiffer DEF HInv, FreshIsPrivate, FreshPCs
<1>7. FreshKnowsEnvelopes'
  <2> SUFFICES ASSUME NEW r \in Reloaders, pc'[r] \in FreshPCs
               PROVE  builtWith'[mine'[r]] = envelopes
    BY <1>2 DEF FreshKnowsEnvelopes
  <2>1. CASE r = t
    BY <1>2, <2>1 DEF HInv, HostTypeOK
  <2>2. CASE r /= t
    <3>1. /\ mine'[r] = mine[r] /\ mine[r] /= generation
          /\ mine[r] /= NoGeneration /\ builtWith[mine[r]] = envelopes
      BY <1>1, <1>4, <2>2, KindsDiffer DEF HInv, FreshIsPrivate, FreshKnowsEnvelopes
    <3> QED
      BY <1>2, <3>1, KindsDiffer DEF HInv, HostTypeOK
  <2> QED
    BY <2>1, <2>2
<1>8. RetiringIsSuperseded' /\ ComposesAlone' /\ RecordedServes'
  BY <1>1, <1>2, <1>3, KindsDiffer
  DEF HInv, RetiringIsSuperseded, ComposesAlone, RecordedServes
<1>9. OneStateHolder'
  <2>1. StateHolders' = StateHolders
    BY <1>1, <1>3 DEF StateHolders
  <2> QED
    BY <2>1 DEF HInv, OneStateHolder
<1>10. SupersededPoolsClose'
  BY <1>1, <1>2, <1>3, KindsDiffer DEF HInv, SupersededPoolsClose
<1>11. ServingPoolOpen' /\ EnvelopesOfServing'
  BY <1>2, <1>4 DEF HInv, HostTypeOK, ServingPoolOpen, EnvelopesOfServing, Up
<1> QED
  BY <1>1, <1>5, <1>6, <1>7, <1>8, <1>9, <1>10, <1>11 DEF HInv

\* The first composition serves: no other thread of the kind is under way.
LEMMA InstallsKeep ==
  ASSUME HInv, NEW t \in Reloaders, ComposeInstalls(t)
  PROVE  HInv'
<1>1. /\ HostTypeOK' /\ t \in Threads /\ Up /\ Up'
      /\ \A s \in Threads \ {t} : pc'[s] = pc[s] /\ mine'[s] = mine[s]
      /\ \A c \in Clients : pc'[c] = pc[c] /\ mine'[c] = mine[c]
      /\ ReadersSeeServing' /\ ClientsHavePools' /\ NoCallsAfterShutdown'
  BY ReloaderKeepsOthers DEF ReloaderStep, ComposeInstalls
<1>2. /\ UNCHANGED <<generation, retired, reloadedTo, registry>>
      /\ composed' = mine[t] /\ mine'[t] = NoGeneration
      /\ pc[t] = "installing" /\ pc'[t] = "idle"
  BY <1>1 DEF HInv, HostTypeOK, ComposeInstalls, At, Go, Take
<1>3. /\ composed = NoGeneration
      /\ \A s \in Reloaders : pc'[s] = "idle"
      /\ \A s \in Reloaders \ {t} : pc[s] = "idle"
  BY <1>1, <1>2, KindsDiffer DEF HInv, ComposesAlone
<1>4. NumbersGivenOut'
  BY <1>1, <1>2, KindsDiffer DEF HInv, HostTypeOK, NumbersGivenOut, Generations, NoGeneration
<1>5. /\ FreshIsPrivate' /\ FreshKnowsEnvelopes' /\ RetiringIsSuperseded' /\ ComposesAlone'
  BY <1>3 DEF FreshIsPrivate, FreshKnowsEnvelopes, RetiringIsSuperseded, ComposesAlone, FreshPCs
<1>6. OneStateHolder'
  BY <1>1, <1>2 DEF HInv, OneStateHolder, StateHolders
<1>7. RecordedServes'
  BY <1>2, <1>3 DEF HInv, RecordedServes
<1>8. SupersededPoolsClose'
  BY <1>1, <1>2, <1>3 DEF HInv, SupersededPoolsClose, ClientsHavePools
<1>9. ServingPoolOpen' /\ EnvelopesOfServing'
  BY <1>2
  DEF HInv, FreshIsPrivate, FreshKnowsEnvelopes, FreshPCs, ServingPoolOpen, EnvelopesOfServing,
      registry
<1> QED
  BY <1>1, <1>4, <1>5, <1>6, <1>7, <1>8, <1>9 DEF HInv

\* A successful reload is recorded, and reload_state kept.
LEMMA RecordsKeep ==
  ASSUME HInv, NEW t \in Reloaders, ReloadRecords(t)
  PROVE  HInv'
<1>1. /\ HostTypeOK' /\ t \in Threads
      /\ \A s \in Threads \ {t} : pc'[s] = pc[s]
      /\ ReadersSeeServing' /\ ClientsHavePools' /\ NoCallsAfterShutdown'
      /\ \A c \in Clients : pc'[c] = pc[c]
  BY ReloaderKeepsOthers DEF ReloaderStep, ReloadRecords
<1>2. /\ UNCHANGED <<composed, generation, retired, phase, mine, registry>>
      /\ reloadedTo' = mine[t]
      /\ pc[t] = "recording" /\ pc'[t] = "swapping"
      /\ StateFree
  BY <1>1 DEF HInv, HostTypeOK, ReloadRecords, At, Go
<1>3. \A s \in Threads \ {t} : pc'[s] \notin {"swapping", "retiring"}
  BY <1>1, <1>2 DEF StateFree, StateHolders
<1>4. NumbersGivenOut'
  BY <1>1, <1>2 DEF HInv, NumbersGivenOut
<1>5. FreshIsPrivate' /\ FreshKnowsEnvelopes'
  BY <1>1, <1>2, <1>3, KindsDiffer
  DEF HInv, FreshIsPrivate, FreshKnowsEnvelopes, FreshPCs, registry
<1>6. RetiringIsSuperseded' /\ ComposesAlone'
  BY <1>1, <1>2, <1>3, KindsDiffer DEF HInv, RetiringIsSuperseded, ComposesAlone
<1>7. OneStateHolder' /\ RecordedServes'
  BY <1>2, <1>3, KindsDiffer DEF OneStateHolder, StateHolders, RecordedServes
<1>8. SupersededPoolsClose'
  BY <1>1, <1>2, KindsDiffer DEF HInv, SupersededPoolsClose
<1>9. ServingPoolOpen' /\ EnvelopesOfServing'
  BY <1>2 DEF HInv, ServingPoolOpen, EnvelopesOfServing, registry, Up
<1> QED
  BY <1>1, <1>4, <1>5, <1>6, <1>7, <1>8, <1>9 DEF HInv

\* What was built serves, and what served is the reloader's to close.
LEMMA SwapsKeep ==
  ASSUME HInv, NEW t \in Reloaders, ReloadSwaps(t)
  PROVE  HInv'
<1>1. /\ HostTypeOK' /\ t \in Threads /\ Up /\ Up'
      /\ \A s \in Threads \ {t} : pc'[s] = pc[s] /\ mine'[s] = mine[s]
      /\ \A c \in Clients : pc'[c] = pc[c] /\ mine'[c] = mine[c]
      /\ ReadersSeeServing' /\ ClientsHavePools' /\ NoCallsAfterShutdown'
  BY ReloaderKeepsOthers DEF ReloaderStep, ReloadSwaps
<1>2. /\ UNCHANGED <<generation, retired, reloadedTo, registry>>
      /\ composed' = mine[t] /\ mine'[t] = composed
      /\ pc[t] = "swapping" /\ pc'[t] = "retiring"
  BY <1>1 DEF HInv, HostTypeOK, ReloadSwaps, At, Go, Take
<1>3. /\ mine[t] /= NoGeneration /\ mine[t] /= composed /\ mine[t] \notin retired
      /\ \A s \in Reloaders \ {t} : pc[s] \in FreshPCs \union {"retiring"} => mine[s] /= mine[t]
      /\ builtWith[mine[t]] = envelopes
      /\ mine[t] = reloadedTo
  BY <1>2 DEF HInv, FreshIsPrivate, FreshKnowsEnvelopes, RecordedServes, FreshPCs
<1>4. \A s \in Threads \ {t} : pc'[s] \notin {"swapping", "retiring"}
  BY <1>1, <1>2 DEF HInv, OneStateHolder, StateHolders
<1>5. NumbersGivenOut'
  BY <1>1, <1>2 DEF HInv, NumbersGivenOut
<1>6. FreshIsPrivate' /\ FreshKnowsEnvelopes'
  BY <1>1, <1>2, <1>3, <1>4, KindsDiffer
  DEF HInv, FreshIsPrivate, FreshKnowsEnvelopes, FreshPCs, registry
<1>7. RetiringIsSuperseded' /\ OneStateHolder' /\ RecordedServes'
  BY <1>2, <1>3, <1>4, KindsDiffer
  DEF RetiringIsSuperseded, OneStateHolder, StateHolders, RecordedServes
<1>8. ComposesAlone'
  BY <1>1, <1>2, KindsDiffer DEF HInv, ComposesAlone
<1>9. SupersededPoolsClose'
  BY <1>1, <1>2, KindsDiffer DEF HInv, SupersededPoolsClose
<1>10. ServingPoolOpen' /\ EnvelopesOfServing'
  BY <1>2, <1>3 DEF ServingPoolOpen, EnvelopesOfServing, registry
<1> QED
  BY <1>1, <1>5, <1>6, <1>7, <1>8, <1>9, <1>10 DEF HInv

\* It is closed, and nobody's work in progress is.
LEMMA RetiresKeep ==
  ASSUME HInv, NEW t \in Reloaders, ReloadRetires(t)
  PROVE  HInv'
<1>1. /\ HostTypeOK' /\ t \in Threads /\ Up /\ Up'
      /\ \A s \in Threads \ {t} : pc'[s] = pc[s] /\ mine'[s] = mine[s]
      /\ \A c \in Clients : pc'[c] = pc[c] /\ mine'[c] = mine[c]
      /\ ReadersSeeServing' /\ ClientsHavePools' /\ NoCallsAfterShutdown'
  BY ReloaderKeepsOthers DEF ReloaderStep, ReloadRetires
<1>2. /\ UNCHANGED <<composed, generation, reloadedTo, registry>>
      /\ retired' = retired \union ({mine[t]} \ {NoGeneration})
      /\ mine'[t] = NoGeneration
      /\ pc[t] = "retiring" /\ pc'[t] = "idle"
  BY <1>1 DEF HInv, HostTypeOK, ReloadRetires, At, Go, Take
<1>3. NumbersGivenOut'
  BY <1>1, <1>2 DEF HInv, HostTypeOK, NumbersGivenOut, NoGeneration
<1>4. FreshIsPrivate' /\ FreshKnowsEnvelopes'
  BY <1>1, <1>2, KindsDiffer
  DEF HInv, FreshIsPrivate, FreshKnowsEnvelopes, FreshPCs, registry
<1>5. RetiringIsSuperseded' /\ RecordedServes' /\ ComposesAlone'
  BY <1>1, <1>2, KindsDiffer DEF HInv, RetiringIsSuperseded, RecordedServes, ComposesAlone
<1>6. OneStateHolder'
  BY <1>1, <1>2 DEF HInv, OneStateHolder, StateHolders
<1>7. SupersededPoolsClose'
  BY <1>1, <1>2, KindsDiffer DEF HInv, SupersededPoolsClose, ClientsHavePools
<1>8. ServingPoolOpen' /\ EnvelopesOfServing'
  BY <1>1, <1>2 DEF HInv, RetiringIsSuperseded, ServingPoolOpen, EnvelopesOfServing, registry
<1> QED
  BY <1>1, <1>3, <1>4, <1>5, <1>6, <1>7, <1>8 DEF HInv

LEMMA HNext == HInv /\ [Next]_vars => HInv'
<1> SUFFICES ASSUME HInv, [Next]_vars PROVE HInv'
  OBVIOUS
<1>1. ASSUME NEW c \in Clients, ClientStep(c) PROVE HInv'
  BY <1>1, ClientKeeps
<1>2. ASSUME NEW t \in Reloaders, ReloaderStep(t) PROVE HInv'
  BY <1>2, StartsKeep, BuiltKeeps, InstallsKeep, RecordsKeep, SwapsKeep, RetiresKeep
  DEF ReloaderStep
<1>3. ASSUME NEW m \in Monitors, MonitorStep(m) PROVE HInv'
  BY <1>3, MonitorKeeps
<1>4. ASSUME NEW p \in Publishers, PublisherStep(p) PROVE HInv'
  BY <1>4, PublisherKeeps
<1>5. ASSUME NEW e \in Envelopes, RegisterEnvelope(e) PROVE HInv'
  BY <1>5, RegisterKeeps
<1>6. CASE ShutdownStep
  BY <1>6, ShutdownKeeps
<1>7. CASE UNCHANGED vars
  <2>1. /\ HostTypeOK' /\ NumbersGivenOut' /\ FreshIsPrivate' /\ FreshKnowsEnvelopes'
        /\ RetiringIsSuperseded' /\ ComposesAlone' /\ RecordedServes' /\ ClientsHavePools'
    BY <1>7
    DEF HInv, vars, HostTypeOK, NumbersGivenOut, FreshIsPrivate, FreshKnowsEnvelopes,
        RetiringIsSuperseded, ComposesAlone, RecordedServes, ClientsHavePools
  <2>2. /\ OneStateHolder' /\ ReadersSeeServing' /\ NoCallsAfterShutdown' /\ ServingPoolOpen'
        /\ SupersededPoolsClose' /\ EnvelopesOfServing'
    BY <1>7
    DEF HInv, vars, OneStateHolder, StateHolders, ReadersSeeServing, Readers,
        NoCallsAfterShutdown, Up, ServingPoolOpen, SupersededPoolsClose, EnvelopesOfServing
  <2> QED
    BY <2>1, <2>2 DEF HInv
<1> QED
  BY <1>1, <1>2, <1>3, <1>4, <1>5, <1>6, <1>7 DEF Next

LEMMA HAlways == Spec => []HInv
  BY HInitHolds, HNext, PTL DEF Spec

-----------------------------------------------------------------------------
(* Theorems *)

\* No reload closes the pool that serves, however reloads overlap.
THEOREM ServingStaysOpen == Spec => []ServingPoolOpen
  BY HAlways, PTL DEF HInv

\* Whatever pool a client uses serves, is closed, or is about to be closed.
THEOREM NoPoolForgotten == Spec => []SupersededPoolsClose
  BY HAlways, PTL DEF HInv

\* The bridges that serve were checked against exactly the envelopes registered.
THEOREM EnvelopesAgree == Spec => []EnvelopesOfServing
  BY HAlways, PTL DEF HInv

\* The report a health call returns is of one moment: with reload_state free no recorded
\* reload is still to swap, so the last one recorded is what serves, and what was read.
THEOREM HealthIsConsistent == Spec => ReportIsOneMoment
<1>1. ASSUME HInv, NEW m \in Monitors, HealthReturns(m), reloadedTo /= NoGeneration
      PROVE  mine[m] = reloadedTo
  <2>1. mine[m] = composed
    BY <1>1, KindsDiffer DEF HealthReturns, At, HInv, ReadersSeeServing, Readers
  <2>2. \A t \in Reloaders : pc[t] /= "swapping"
    BY <1>1, KindsDiffer DEF HealthReturns, StateFree, StateHolders
  <2> QED
    BY <1>1, <2>1, <2>2 DEF HInv, RecordedServes
<1>2. HInv => [\A m \in Monitors :
                 HealthReturns(m) /\ reloadedTo /= NoGeneration => mine[m] = reloadedTo]_vars
  BY <1>1
<1> QED
  BY <1>2, HAlways, PTL DEF Spec, ReportIsOneMoment

-----------------------------------------------------------------------------
(* The host is a Service *)

\* A step of the host, as its users see it.
ServiceStep == Serving!ServiceNext \/ UNCHANGED Serving!serviceVars

\* What each step has to say about what users see, but for the variables themselves.
LEMMA SameFormer ==
  ASSUME UNCHANGED <<composed, retired>>,
         \A t \in Reloaders :
           /\ pc'[t] = "retiring" <=> pc[t] = "retiring"
           /\ pc[t] = "retiring" => mine'[t] = mine[t]
  PROVE  Former' = Former
<1>1. \A t \in Reloaders : pc'[t] = "retiring" => mine'[t] = mine[t]
  OBVIOUS
<1> QED
  BY <1>1 DEF Former

LEMMA SameRunning ==
  ASSUME \A c \in Clients :
           /\ pc'[c] = "busy" <=> pc[c] = "busy"
           /\ pc[c] = "busy" => mine'[c] = mine[c]
  PROVE  Running' = Running
BY DEF Running

\* A call is under way only while the host is up, and then what serves is open.
LEMMA InCallUp ==
  ASSUME HInv, NEW t \in Threads, pc[t] \notin OutsidePCs
  PROVE  Up /\ composed \notin retired
BY DEF HInv, HostTypeOK, NoCallsAfterShutdown, ServingPoolOpen, NoGeneration, Generations

\* A pool that is handed out from and is not closed serves, or is not closed yet.
LEMMA ClientServed ==
  ASSUME HInv, NEW c \in Clients, ClientStep(c)
  PROVE  ServiceStep
<1>1. /\ c \in Threads
      /\ \A t \in Threads \ {c} : pc'[t] = pc[t] /\ mine'[t] = mine[t]
      /\ UNCHANGED <<composed, retired, manifest, phase>>
  BY ClientMoves, KindsDiffer DEF HInv, OnlyMoves, shared
<1>2. Former' = Former
  BY <1>1, SameFormer, KindsDiffer
<1>3. CASE CheckoutHandsOut(c)
  <2>1. pc[c] = "inPool" /\ pc'[c] = "busy" /\ mine'[c] = mine[c] /\ mine[c] \notin retired
    BY <1>1, <1>3 DEF CheckoutHandsOut, At, Go, HInv, HostTypeOK
  <2>2. phase = "up"
    BY <1>1, <2>1, InCallUp DEF OutsidePCs, Up
  <2>3. mine[c] \in (Former \union {composed}) \ (retired \union {NoGeneration})
    <3>1. mine[c] /= NoGeneration
      BY <2>1 DEF HInv, ClientsHavePools
    <3>2. mine[c] = composed \/ \E t \in Reloaders : pc[t] = "retiring" /\ mine[t] = mine[c]
      BY <2>1 DEF HInv, SupersededPoolsClose
    <3> QED
      BY <2>1, <3>1, <3>2 DEF Former
  <2>4. Running[c] = NoGeneration /\ Running' = [Running EXCEPT ![c] = mine[c]]
    BY <1>1, <2>1, KindsDiffer DEF Running
  <2>5. Serving!Begin(c)
    BY <1>1, <1>2, <2>2, <2>3, <2>4 DEF Serving!Begin
  <2> QED
    BY <2>5 DEF ServiceStep, Serving!ServiceNext
<1>4. CASE DropGuard(c)
  <2>1. pc'[c] = "idle"
    BY <1>1, <1>4 DEF DropGuard, Go, HInv, HostTypeOK
  <2>2. Running' = [Running EXCEPT ![c] = NoGeneration]
    BY <1>1, <2>1, KindsDiffer DEF Running
  <2>3. Serving!End(c)
    BY <1>1, <1>2, <2>2 DEF Serving!End
  <2> QED
    BY <2>3 DEF ServiceStep, Serving!ServiceNext
<1>5. CASE CheckoutStart(c) \/ CheckoutClones(c) \/ CheckoutRefused(c) \/ CheckoutErrs(c)
  <2>1. pc[c] /= "busy" /\ pc'[c] /= "busy"
    BY <1>1, <1>5
    DEF CheckoutStart, CheckoutClones, CheckoutRefused, CheckoutErrs, At, Go, HInv, HostTypeOK
  <2>2. Running' = Running
    BY <1>1, <2>1, SameRunning, KindsDiffer
  <2> QED
    BY <1>1, <1>2, <2>2 DEF ServiceStep, Serving!serviceVars
<1> QED
  BY <1>3, <1>4, <1>5 DEF ClientStep

\* compose and reload serve a composition that never did, and close what they took out.
LEMMA ReloaderServed ==
  ASSUME HInv, NEW t \in Reloaders, ReloaderStep(t)
  PROVE  ServiceStep
<1>1. /\ t \in Threads
      /\ \A s \in Threads \ {t} : pc'[s] = pc[s] /\ mine'[s] = mine[s]
      /\ UNCHANGED <<manifest, phase>>
  BY ReloaderMoves, KindsDiffer DEF HInv, OnlyMoves
<1>2. Running' = Running
  BY <1>1, SameRunning, KindsDiffer
<1>3. CASE ComposeInstalls(t) \/ ReloadSwaps(t)
  <2>1. /\ pc[t] \in {"installing", "swapping"}
        /\ composed' = mine[t] /\ retired' = retired
        /\ \/ pc'[t] = "retiring" /\ mine'[t] = composed
           \/ pc'[t] = "idle" /\ composed = NoGeneration
    BY <1>1, <1>3
    DEF ComposeInstalls, ReloadSwaps, At, Go, Take, HInv, HostTypeOK, ComposesAlone
  <2>2. phase = "up" /\ composed \notin retired
    BY <1>1, <2>1, InCallUp DEF OutsidePCs, Up
  <2>3. /\ mine[t] \in Generations
        /\ mine[t] \notin retired \union {composed}
        /\ \A s \in Reloaders \ {t} : pc[s] = "retiring" => mine[s] /= mine[t]
    BY <1>1, <2>1 DEF HInv, HostTypeOK, FreshIsPrivate, FreshPCs
  <2>4. mine[t] \notin Former \union {composed}
    BY <2>1, <2>3 DEF Former, NoGeneration, Generations
  <2>5. Former' = Former \union ({composed} \ {NoGeneration})
    <3>1. retired \ {composed} = retired /\ retired' \ {composed'} = retired
      BY <2>1, <2>2, <2>3
    <3>2. \A s \in Reloaders \ {t} : pc'[s] = pc[s] /\ mine'[s] = mine[s]
      BY <1>1, KindsDiffer
    <3>3. {mine[s] : s \in {r \in Reloaders : pc[r] = "retiring"}}' \ {NoGeneration}
            = ({mine[s] : s \in {r \in Reloaders : pc[r] = "retiring"}} \union {composed})
                \ {NoGeneration}
      BY <2>1, <3>2
    <3> QED
      BY <3>1, <3>3 DEF Former
  <2>6. Serving!Serve(mine[t])
    BY <1>1, <1>2, <2>1, <2>2, <2>4, <2>5 DEF Serving!Serve
  <2> QED
    BY <2>3, <2>6 DEF ServiceStep, Serving!ServiceNext
<1>4. CASE ReloadRetires(t)
  <2>1. /\ pc[t] = "retiring" /\ pc'[t] = "idle"
        /\ composed' = composed
        /\ retired' = retired \union ({mine[t]} \ {NoGeneration})
        /\ mine[t] /= composed \/ mine[t] = NoGeneration
    BY <1>1, <1>4 DEF ReloadRetires, At, Go, HInv, HostTypeOK, RetiringIsSuperseded
  <2>2. \A s \in Reloaders \ {t} : pc'[s] = pc[s] /\ mine'[s] = mine[s]
    BY <1>1, KindsDiffer
  <2>3. {mine[s] : s \in {r \in Reloaders : pc[r] = "retiring"}}
          = {mine[s] : s \in {r \in Reloaders : pc[r] = "retiring"}}' \union {mine[t]}
    BY <2>1, <2>2
  <2>4. Former' = Former
    BY <2>1, <2>3 DEF Former
  <2>5. CASE mine[t] = NoGeneration
    BY <1>1, <1>2, <2>1, <2>4, <2>5 DEF ServiceStep, Serving!serviceVars
  <2>6. CASE mine[t] /= NoGeneration
    <3>1. mine[t] \in Former /\ mine[t] \in Generations
      BY <1>1, <2>1, <2>6 DEF Former, HInv, HostTypeOK
    <3>2. Serving!CloseFormer(mine[t])
      BY <1>1, <1>2, <2>1, <2>4, <2>6, <3>1 DEF Serving!CloseFormer
    <3> QED
      BY <3>1, <3>2 DEF ServiceStep, Serving!ServiceNext
  <2> QED
    BY <2>5, <2>6
<1>5. CASE \/ ComposeStart(t) \/ ComposeBuilt(t) \/ ComposeFails(t)
           \/ ReloadStart(t) \/ ReloadBuilt(t) \/ ReloadBuildFails(t) \/ ReloadRecords(t)
           \/ ReloadRecordsFailure(t)
  <2>1. UNCHANGED <<composed, retired>> /\ pc[t] /= "retiring" /\ pc'[t] /= "retiring"
    BY <1>1, <1>5
    DEF ComposeStart, ComposeBuilt, ComposeFails, ReloadStart, ReloadBuilt, ReloadBuildFails,
        ReloadRecords, ReloadRecordsFailure, Built, BuildFails, At, Go, HInv, HostTypeOK, shared
  <2>2. Former' = Former
    BY <1>1, <2>1, SameFormer, KindsDiffer
  <2> QED
    BY <1>1, <1>2, <2>1, <2>2 DEF ServiceStep, Serving!serviceVars
<1> QED
  BY <1>3, <1>4, <1>5 DEF ReloaderStep

\* The manifest is written under the read lock, for what was read under it.
LEMMA PublisherServed ==
  ASSUME HInv, NEW p \in Publishers, PublisherStep(p)
  PROVE  ServiceStep
<1>1. /\ p \in Threads
      /\ \A t \in Threads \ {p} : pc'[t] = pc[t] /\ mine'[t] = mine[t]
      /\ UNCHANGED <<composed, retired, phase>>
  BY PublisherMoves, KindsDiffer DEF HInv, OnlyMoves
<1>2. Former' = Former /\ Running' = Running
  BY <1>1, SameFormer, SameRunning, KindsDiffer
<1>3. CASE UNCHANGED manifest
  BY <1>1, <1>2, <1>3 DEF ServiceStep, Serving!serviceVars
<1>4. CASE PublishWrites(p) /\ manifest' /= manifest
  <2>1. pc[p] = "writing" /\ manifest' \in {mine[p], NoGeneration}
    BY <1>4 DEF PublishWrites, At
  <2>2. mine[p] = composed
    BY <1>1, <2>1 DEF HInv, ReadersSeeServing, Readers
  <2>3. phase = "up"
    BY <1>1, <2>1, InCallUp DEF OutsidePCs, Up
  <2>4. Serving!Describe
    BY <1>1, <1>2, <2>1, <2>2, <2>3 DEF Serving!Describe
  <2> QED
    BY <2>4 DEF ServiceStep, Serving!ServiceNext
<1> QED
  BY <1>3, <1>4 DEF PublisherStep, PublishStart, PublishReads, shared

\* shutdown only drains a pool that it took out.
DrainingServed == phase \in {"draining", "counting"} => composed /= NoGeneration

LEMMA DrainingKept ==
  ASSUME HInv, DrainingServed, [Next]_vars
  PROVE  DrainingServed'
<1>1. ASSUME UNCHANGED <<composed, phase>> PROVE DrainingServed'
  BY <1>1 DEF DrainingServed
<1>2. ASSUME NEW t \in Reloaders, ReloaderStep(t), phase \in {"draining", "counting"}
      PROVE  UNCHANGED composed
  <2>1. pc[t] \in {"idle", "busy", "shutdownError"}
    BY <1>2, KindsDiffer DEF HInv, NoCallsAfterShutdown, OutsidePCs, Up
  <2> QED
    BY <1>2, <2>1
    DEF ReloaderStep, ComposeStart, ComposeBuilt, ComposeFails, ComposeInstalls, ReloadStart,
        ReloadBuilt, ReloadBuildFails, ReloadRecords, ReloadRecordsFailure, ReloadSwaps,
        ReloadRetires, At, shared
<1>3. ASSUME NEW t \in Reloaders, ReloaderStep(t) PROVE DrainingServed'
  BY <1>2, <1>3, ReloaderMoves DEF HInv, DrainingServed
<1>4. CASE ShutdownStep
  BY <1>4 DEF ShutdownStep, ShutdownStart, ShutdownLoopEnds, ShutdownCounts, DrainingServed
<1> QED
  BY <1>1, <1>3, <1>4, ClientMoves, MonitorMoves, PublisherMoves, HostMoves
  DEF Next, vars, HInv, shared, RegisterEnvelope

LEMMA ShutdownServed ==
  ASSUME HInv, DrainingServed, ShutdownStep
  PROVE  ServiceStep
<1>1. UNCHANGED <<composed, manifest, pc, mine>>
  BY HostMoves DEF HInv
<1>2. Running' = Running
  BY <1>1, SameRunning
<1>3. CASE ShutdownStart
  <2>1. /\ phase = "up"
        /\ retired' = retired \union ({composed} \ {NoGeneration})
        /\ phase' = IF composed = NoGeneration THEN "drained" ELSE "draining"
    BY <1>3 DEF ShutdownStart, Up
  <2>2. retired' \ {composed} = retired \ {composed}
    BY <2>1
  <2>3. Former' = Former
    BY <1>1, <2>2 DEF Former
  <2>4. Serving!Stop
    BY <1>1, <1>2, <2>1, <2>3 DEF Serving!Stop
  <2> QED
    BY <2>4 DEF ServiceStep, Serving!ServiceNext
<1>4. CASE ShutdownLoopEnds
  <2>1. UNCHANGED retired /\ phase = "draining" /\ phase' = "counting"
    BY <1>4 DEF ShutdownLoopEnds
  <2>2. Former' = Former
    BY <1>1, <2>1, SameFormer
  <2> QED
    BY <1>1, <1>2, <2>1, <2>2 DEF ServiceStep, Serving!serviceVars
<1>5. CASE ShutdownCounts
  <2>1. UNCHANGED retired
    BY <1>5 DEF ShutdownCounts
  <2>2. Former' = Former
    BY <1>1, <2>1, SameFormer
  <2>3. composed /= NoGeneration
    BY <1>5 DEF ShutdownCounts, DrainingServed
  <2>4. Serving!RunningOn(composed) = HoldersOf(composed)
    BY <2>3 DEF Serving!RunningOn, Running, HoldersOf
  <2>5. Serving!Stopped
    BY <1>1, <1>2, <1>5, <2>1, <2>2, <2>4 DEF Serving!Stopped, ShutdownCounts
  <2> QED
    BY <2>5 DEF ServiceStep, Serving!ServiceNext
<1> QED
  BY <1>3, <1>4, <1>5 DEF ShutdownStep

\* Locks, builds and overlapping reloads do not show: one composition serves at a time, is
\* replaced as a whole by one that never served, and every invocation begins on one that is
\* open; the manifest is that of the composition that serves; shutdown tells the truth.
THEOREM ServiceKept == Spec => ServesAsPromised
<1>1. Init => Serving!ServiceInit
  BY KindsDiffer DEF Init, Serving!ServiceInit, Former, Running
<1>2. (Init => DrainingServed) /\ (HInv /\ DrainingServed /\ [Next]_vars => DrainingServed')
  BY DrainingKept DEF Init, DrainingServed
<1>3. HInv /\ DrainingServed /\ [Next]_vars => [Serving!ServiceNext]_(Serving!serviceVars)
  <2> SUFFICES ASSUME HInv, DrainingServed, [Next]_vars PROVE ServiceStep
    BY DEF ServiceStep
  <2>1. ASSUME NEW m \in Monitors, MonitorStep(m) PROVE ServiceStep
    <3>1. /\ \A t \in Threads \ {m} : pc'[t] = pc[t] /\ mine'[t] = mine[t]
          /\ UNCHANGED <<composed, retired, manifest, phase>>
      BY <2>1, MonitorMoves DEF HInv, OnlyMoves, shared
    <3>2. Former' = Former /\ Running' = Running
      BY <2>1, <3>1, SameFormer, SameRunning, KindsDiffer
    <3> QED
      BY <3>1, <3>2 DEF ServiceStep, Serving!serviceVars
  <2>2. CASE UNCHANGED vars \/ \E e \in Envelopes : RegisterEnvelope(e)
    <3>1. UNCHANGED <<composed, retired, manifest, phase, pc, mine>>
      BY <2>2 DEF vars, RegisterEnvelope
    <3>2. Former' = Former /\ Running' = Running
      BY <3>1, SameFormer, SameRunning
    <3> QED
      BY <3>1, <3>2 DEF ServiceStep, Serving!serviceVars
  <2> QED
    BY <2>1, <2>2, ClientServed, ReloaderServed, PublisherServed, ShutdownServed DEF Next
<1> QED
  BY <1>1, <1>2, <1>3, HAlways, PTL DEF Spec, ServesAsPromised, Serving!ServiceSpec

=============================================================================
