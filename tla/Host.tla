---------------------------------- MODULE Host ----------------------------------
(***************************************************************************)
(* The host: composition, reload, checkout, health, manifest and shutdown  *)
(* (src/lib.rs, struct Host).                                              *)
(*                                                                         *)
(* Host::composed is an RwLock around the current composition and its      *)
(* pool; Host::reload_state is a Mutex.  Every composition is known by the *)
(* number fetch_add gave its pool, its generation.  A pool is taken at its *)
(* promise, LeasePool: a call of its checkout that is under way ends in a  *)
(* guard, in a refusal once the pool is closed, or in an error.            *)
(*                                                                         *)
(* A step is what a thread does between two points at which it may have to *)
(* wait for a lock, for a build, for a file or for a pool.  Who holds a    *)
(* lock is read off the program counters.                                  *)
(***************************************************************************)
EXTENDS Integers, FiniteSets

CONSTANTS
  Clients,         \* threads that call checkout and drop the guard
  Reloaders,       \* threads that call compose and reload
  Monitors,        \* threads that call health
  Publishers,      \* threads that call emit_manifest
  Envelopes,       \* the interfaces the concrete host may register envelopes for
  InstancesMax,    \* the ceiling of every pool
  MaxGenerations,  \* bound: compositions that are built in a behaviour
  WriterFirst      \* whether a waiting writer holds new readers back, as std's RwLock does

Threads == Clients \union Reloaders \union Monitors \union Publishers

NoGeneration == -1
Generations  == 0..(MaxGenerations - 1)

\* Threads of different kinds are different threads, and none is mistaken for NoGeneration.
ASSUME ThreadsAssumption ==
  /\ IsFiniteSet(Threads)
  /\ NoGeneration \notin Threads
  /\ Clients \intersect (Reloaders \union Monitors \union Publishers) = {}
  /\ Reloaders \intersect (Monitors \union Publishers) = {}
  /\ Monitors \intersect Publishers = {}

ASSUME HostAssumption ==
  /\ InstancesMax \in Nat \ {0}
  /\ MaxGenerations \in Nat
  /\ WriterFirst \in BOOLEAN

VARIABLES
  composed,    \* the generation in Host::composed, or NoGeneration
  generation,  \* Host::generation, the number of the next composition
  retired,     \* the generations whose pool is closed
  lastReload,  \* Host::reload_state: how the last reload ended
  envelopes,   \* Host::envelopes: the interfaces registered
  manifest,    \* the generation the manifest file describes, or NoGeneration
  phase,       \* of the host itself: in use, or how far shutdown is
  pc,          \* where each thread is
  mine,        \* the generation each thread has in hand: the pool a client uses, what
               \* a reloader built or has to close, what a monitor or publisher read
  reloadedTo,  \* history: the generation the last successful reload recorded
  builtWith    \* history: the envelopes each generation was checked and built with

registry == <<envelopes, builtWith>>
shared   == <<composed, generation, retired, lastReload, manifest, phase, registry>>
vars     == <<composed, generation, retired, lastReload, manifest, phase, pc, mine, reloadedTo,
              envelopes, builtWith>>

-----------------------------------------------------------------------------
ClientPCs    == {"idle", "checkout", "inPool", "busy", "shutdownError"}
ReloaderPCs  == {"idle", "composing", "installing", "reloading", "recording", "failing",
                 "swapping", "retiring"}
MonitorPCs   == {"idle", "health", "healthState"}
PublisherPCs == {"idle", "publish", "writing"}

\* Between calls of the host; a guard is no call.
OutsidePCs == {"idle", "busy", "shutdownError"}

At(t, label) == pc[t] = label
Go(t, label) == pc' = [pc EXCEPT ![t] = label]
Take(t, g)   == mine' = [mine EXCEPT ![t] = g]

\* Fault: emit_manifest lets go of the read lock before it writes.
ReadersButPublishers == {t \in Threads : pc[t] = "healthState"}

\* Fault: reload lets go of reload_state as soon as it is written.
StateHoldersNotSwapping == {t \in Threads : pc[t] = "retiring"}

\* The locks.
Readers        == {t \in Threads : pc[t] \in {"healthState", "writing"}}
WaitingWriters == {t \in Threads : pc[t] \in {"installing", "swapping"}}
MayRead        == ~WriterFirst \/ WaitingWriters = {}
MayWrite       == Readers = {}
StateHolders   == {t \in Threads : pc[t] \in {"swapping", "retiring"}}
StateFree      == StateHolders = {}

HoldersOf(g) == {c \in Clients : pc[c] = "busy" /\ mine[c] = g}

Init ==
  /\ composed = NoGeneration
  /\ generation = 0
  /\ retired = {}
  /\ lastReload = "none"
  /\ manifest = NoGeneration
  /\ phase = "up"
  /\ pc = [t \in Threads |-> "idle"]
  /\ mine = [t \in Threads |-> NoGeneration]
  /\ reloadedTo = NoGeneration
  /\ envelopes = {}
  /\ builtWith = [g \in Generations |-> {}]

Up == phase = "up"

(* register_envelope: borrows the host exclusively, so no call is under way *)

\* Fault: it may be called at any time.
RegisterEnvelopeLate(e) ==
  /\ Up
  /\ \A t \in Threads : pc[t] \in OutsidePCs
  /\ e \notin envelopes
  /\ envelopes' = envelopes \union {e}
  /\ UNCHANGED <<composed, generation, retired, lastReload, manifest, phase, pc, mine, reloadedTo,
                 builtWith>>

\* After compose, and for an interface that has one, it is an error and changes nothing.
RegisterEnvelope(e) ==
  /\ Up
  /\ \A t \in Threads : pc[t] \in OutsidePCs
  /\ composed = NoGeneration
  /\ e \notin envelopes
  /\ envelopes' = envelopes \union {e}
  /\ UNCHANGED <<composed, generation, retired, lastReload, manifest, phase, pc, mine, reloadedTo,
                 builtWith>>

-----------------------------------------------------------------------------
(* build_composition: no lock is held, so builds overlap.  The number is taken when *)
(* everything but filling the pool has succeeded.                                    *)

Built(t, label) ==
  /\ generation < MaxGenerations
  /\ generation' = generation + 1
  /\ builtWith' = [builtWith EXCEPT ![generation] = envelopes]
  /\ Take(t, generation)
  /\ Go(t, label)
  /\ UNCHANGED <<composed, retired, lastReload, manifest, phase, reloadedTo, envelopes>>

BuildFails(t, label) ==
  /\ generation' \in {generation, generation + 1} \intersect 0..MaxGenerations
  /\ Go(t, label)
  /\ UNCHANGED <<registry, composed, retired, lastReload, manifest, phase, mine, reloadedTo>>

(* compose: callers finish it, at startup, before they reload (CH-02) *)

ComposeStart(t) ==
  /\ Up
  /\ At(t, "idle")
  /\ composed = NoGeneration
  /\ \A r \in Reloaders : pc[r] = "idle"
  /\ Go(t, "composing")
  /\ UNCHANGED <<shared, reloadedTo, mine>>

ComposeBuilt(t) == At(t, "composing") /\ Built(t, "installing")
ComposeFails(t) == At(t, "composing") /\ BuildFails(t, "idle")

ComposeInstalls(t) ==
  /\ At(t, "installing")
  /\ MayWrite
  /\ composed' = mine[t]
  /\ Take(t, NoGeneration)
  /\ Go(t, "idle")
  /\ UNCHANGED <<registry, generation, retired, lastReload, manifest, phase, reloadedTo>>

(* reload *)

ReloadStart(t) ==
  /\ Up
  /\ At(t, "idle")
  /\ \A r \in Reloaders : pc[r] \notin {"composing", "installing"}
  /\ Go(t, "reloading")
  /\ UNCHANGED <<shared, reloadedTo, mine>>

ReloadBuilt(t)      == At(t, "reloading") /\ Built(t, "recording")
ReloadBuildFails(t) == At(t, "reloading") /\ BuildFails(t, "failing")

\* reload_state is taken and, on success, kept to the end of the call.
ReloadRecords(t) ==
  /\ At(t, "recording")
  /\ StateFree
  /\ lastReload' = "ok"
  /\ reloadedTo' = mine[t]
  /\ Go(t, "swapping")
  /\ UNCHANGED <<registry, composed, generation, retired, manifest, phase, mine>>

ReloadRecordsFailure(t) ==
  /\ At(t, "failing")
  /\ StateFree
  /\ lastReload' = "failed"
  /\ Go(t, "idle")
  /\ UNCHANGED <<registry, composed, generation, retired, manifest, phase, mine, reloadedTo>>

\* Fault: the previous composition is overwritten, as compose does.
ReloadSwapsForgetting(t) ==
  /\ At(t, "swapping")
  /\ MayWrite
  /\ composed' = mine[t]
  /\ Take(t, NoGeneration)
  /\ Go(t, "retiring")
  /\ UNCHANGED <<registry, generation, retired, lastReload, manifest, phase, reloadedTo>>

\* composed.write().replace(next)
ReloadSwaps(t) ==
  /\ At(t, "swapping")
  /\ MayWrite
  /\ composed' = mine[t]
  /\ Take(t, composed)
  /\ Go(t, "retiring")
  /\ UNCHANGED <<registry, generation, retired, lastReload, manifest, phase, reloadedTo>>

\* Fault: the pool closed is the one in Host::composed.
ReloadRetiresServing(t) ==
  /\ At(t, "retiring")
  /\ retired' = retired \union {composed}
  /\ Take(t, NoGeneration)
  /\ Go(t, "idle")
  /\ UNCHANGED <<registry, composed, generation, lastReload, manifest, phase, reloadedTo>>

\* Fault: a previous composition is taken for granted.
ReloadRetiresUnwrapping(t) ==
  /\ At(t, "retiring")
  /\ retired' = retired \union {mine[t]}
  /\ Take(t, NoGeneration)
  /\ Go(t, "idle")
  /\ UNCHANGED <<registry, composed, generation, lastReload, manifest, phase, reloadedTo>>

\* previous.pool.close(), if there was one, and reload_state is released.
ReloadRetires(t) ==
  /\ At(t, "retiring")
  /\ retired' = retired \union ({mine[t]} \ {NoGeneration})
  /\ Take(t, NoGeneration)
  /\ Go(t, "idle")
  /\ UNCHANGED <<registry, composed, generation, lastReload, manifest, phase, reloadedTo>>

-----------------------------------------------------------------------------
(* checkout, and the guard *)

CheckoutStart(c) ==
  /\ Up
  /\ pc[c] \in {"idle", "shutdownError"}
  /\ Go(c, "checkout")
  /\ UNCHANGED <<shared, reloadedTo, mine>>

\* The pool is cloned under the read lock, and used after it.
CheckoutClones(c) ==
  /\ At(c, "checkout")
  /\ MayRead
  /\ Take(c, composed)
  /\ Go(c, IF composed = NoGeneration THEN "idle" ELSE "inPool")
  /\ UNCHANGED <<shared, reloadedTo>>

CheckoutHandsOut(c) ==
  /\ At(c, "inPool")
  /\ mine[c] \notin retired
  /\ Cardinality(HoldersOf(mine[c])) < InstancesMax
  /\ Go(c, "busy")
  /\ UNCHANGED <<shared, reloadedTo, mine>>

\* PoolError::Closed becomes HostError::Shutdown.
CheckoutRefused(c) ==
  /\ At(c, "inPool")
  /\ mine[c] \in retired
  /\ Take(c, NoGeneration)
  /\ Go(c, "shutdownError")
  /\ UNCHANGED <<shared, reloadedTo>>

\* PoolError::Exhausted or PoolError::Runtime.
CheckoutErrs(c) ==
  /\ At(c, "inPool")
  /\ Take(c, NoGeneration)
  /\ Go(c, "idle")
  /\ UNCHANGED <<shared, reloadedTo>>

DropGuard(c) ==
  /\ At(c, "busy")
  /\ Take(c, NoGeneration)
  /\ Go(c, "idle")
  /\ UNCHANGED <<shared, reloadedTo>>

-----------------------------------------------------------------------------
(* health: reload_state is read while composed is still held *)

HealthStart(m) ==
  /\ Up
  /\ At(m, "idle")
  /\ Go(m, "health")
  /\ UNCHANGED <<shared, reloadedTo, mine>>

HealthReadsPool(m) ==
  /\ At(m, "health")
  /\ MayRead
  /\ Take(m, composed)
  /\ Go(m, "healthState")
  /\ UNCHANGED <<shared, reloadedTo>>

HealthReturns(m) ==
  /\ At(m, "healthState")
  /\ StateFree
  /\ Take(m, NoGeneration)
  /\ Go(m, "idle")
  /\ UNCHANGED <<registry, composed, generation, retired, lastReload, manifest, phase, reloadedTo>>

(* emit_manifest: the file is written while composed is still held *)

PublishStart(p) ==
  /\ Up
  /\ At(p, "idle")
  /\ Go(p, "publish")
  /\ UNCHANGED <<shared, reloadedTo, mine>>

PublishReads(p) ==
  /\ At(p, "publish")
  /\ MayRead
  /\ Take(p, composed)
  /\ Go(p, IF composed = NoGeneration THEN "idle" ELSE "writing")
  /\ UNCHANGED <<shared, reloadedTo>>

\* The write may fail, with the old file in place or with no whole file at all.
PublishWrites(p) ==
  /\ At(p, "writing")
  /\ manifest' \in {mine[p], manifest, NoGeneration}
  /\ Take(p, NoGeneration)
  /\ Go(p, "idle")
  /\ UNCHANGED <<registry, composed, generation, retired, lastReload, phase, reloadedTo>>

-----------------------------------------------------------------------------
(* shutdown consumes the host: no other call can be under way, guards can be out.  *)
(* `composed` goes on naming the pool that shutdown took out of Host::composed.      *)

ShutdownStart ==
  /\ Up
  /\ \A t \in Threads : pc[t] \in OutsidePCs
  /\ phase' = IF composed = NoGeneration THEN "drained" ELSE "draining"
  /\ retired' = IF composed = NoGeneration THEN retired ELSE retired \union {composed}
  /\ UNCHANGED <<registry, composed, generation, lastReload, manifest, pc, mine, reloadedTo>>

\* Fault: there is no deadline.
ShutdownLoopEndsWhenIdle ==
  /\ phase = "draining"
  /\ HoldersOf(composed) = {}
  /\ phase' = "counting"
  /\ UNCHANGED <<registry, composed, generation, retired, lastReload, manifest, pc, mine,
                 reloadedTo>>

\* The loop ends when it finds no guard out, and at the deadline, which may be any time.
ShutdownLoopEnds ==
  /\ phase = "draining"
  /\ phase' = "counting"
  /\ UNCHANGED <<registry, composed, generation, retired, lastReload, manifest, pc, mine,
                 reloadedTo>>

\* The guards out are counted anew: one dropped since the loop's last look is not missed.
ShutdownCounts ==
  /\ phase = "counting"
  /\ phase' = IF HoldersOf(composed) = {} THEN "drained" ELSE "stranded"
  /\ UNCHANGED <<registry, composed, generation, retired, lastReload, manifest, pc, mine,
                 reloadedTo>>

-----------------------------------------------------------------------------
ClientStep(c) ==
  \/ CheckoutStart(c) \/ CheckoutClones(c) \/ CheckoutHandsOut(c)
  \/ CheckoutRefused(c) \/ CheckoutErrs(c) \/ DropGuard(c)

ReloaderStep(t) ==
  \/ ComposeStart(t) \/ ComposeBuilt(t) \/ ComposeFails(t) \/ ComposeInstalls(t)
  \/ ReloadStart(t) \/ ReloadBuilt(t) \/ ReloadBuildFails(t) \/ ReloadRecords(t)
  \/ ReloadRecordsFailure(t) \/ ReloadSwaps(t) \/ ReloadRetires(t)

MonitorStep(m)   == HealthStart(m) \/ HealthReadsPool(m) \/ HealthReturns(m)
PublisherStep(p) == PublishStart(p) \/ PublishReads(p) \/ PublishWrites(p)
ShutdownStep     == ShutdownStart \/ ShutdownLoopEnds \/ ShutdownCounts

Next ==
  \/ \E c \in Clients : ClientStep(c)
  \/ \E t \in Reloaders : ReloaderStep(t)
  \/ \E m \in Monitors : MonitorStep(m)
  \/ \E p \in Publishers : PublisherStep(p)
  \/ \E e \in Envelopes : RegisterEnvelope(e)
  \/ ShutdownStep

Spec == Init /\ [][Next]_vars

\* A call under way goes on: builds and writes end, shutdown's deadline passes, a pool
\* answers a checkout (InstancePool!EveryCheckoutReturns), and a thread that a lock would
\* admit from some point on gets it.  No call is promised, nor that guards are dropped.
Fairness ==
  /\ \A c \in Clients :
       WF_vars(CheckoutClones(c) \/ CheckoutHandsOut(c) \/ CheckoutRefused(c) \/ CheckoutErrs(c))
  /\ \A t \in Reloaders :
       WF_vars(\/ ComposeBuilt(t) \/ ComposeFails(t) \/ ComposeInstalls(t)
               \/ ReloadBuilt(t) \/ ReloadBuildFails(t) \/ ReloadRecords(t)
               \/ ReloadRecordsFailure(t) \/ ReloadSwaps(t) \/ ReloadRetires(t))
  /\ \A m \in Monitors : WF_vars(HealthReadsPool(m) \/ HealthReturns(m))
  /\ \A p \in Publishers : WF_vars(PublishReads(p) \/ PublishWrites(p))
  /\ WF_vars(ShutdownLoopEnds \/ ShutdownCounts)

FairSpec == Spec /\ Fairness

-----------------------------------------------------------------------------
(* Properties *)

\* Every variable holds a value of its kind (struct Host, the threads).
HostTypeOK ==
  /\ composed \in Generations \union {NoGeneration}
  /\ generation \in 0..MaxGenerations
  /\ retired \subseteq Generations
  /\ lastReload \in {"none", "ok", "failed"}
  /\ manifest \in Generations \union {NoGeneration}
  /\ phase \in {"up", "draining", "counting", "drained", "stranded"}
  /\ pc \in [Threads -> ClientPCs \union ReloaderPCs \union MonitorPCs \union PublisherPCs]
  /\ \A c \in Clients : pc[c] \in ClientPCs
  /\ \A t \in Reloaders : pc[t] \in ReloaderPCs
  /\ \A m \in Monitors : pc[m] \in MonitorPCs
  /\ \A p \in Publishers : pc[p] \in PublisherPCs
  /\ mine \in [Threads -> Generations \union {NoGeneration}]
  /\ reloadedTo \in Generations \union {NoGeneration}
  /\ envelopes \subseteq Envelopes
  /\ builtWith \in [Generations -> SUBSET Envelopes]

\* The pool new checkouts go to is open: no reload, however it overlaps with others,
\* closes the pool that serves (lib.rs, reload).
ServingPoolOpen == Up /\ composed /= NoGeneration => composed \notin retired

\* A pool some client uses serves, or is closed, or is about to be closed by the reload
\* that superseded it: none keeps pooling instances of a component on its way out
\* (CLNH-52).
SupersededPoolsClose ==
  \A c \in Clients :
    pc[c] \in {"inPool", "busy"} =>
      \/ mine[c] \in retired \union {composed}
      \/ \E t \in Reloaders : pc[t] = "retiring" /\ mine[t] = mine[c]

\* What health returns belongs together: once a successful reload has been recorded, the
\* pool it read before reload_state is that reload's pool, failed reloads since or not.
ReportIsOneMoment ==
  [][\A m \in Monitors :
       HealthReturns(m) /\ reloadedTo /= NoGeneration => mine[m] = reloadedTo]_vars

\* The bridges of the composition that serves, reloads included, were checked against exactly
\* the envelopes the host has: none is registered unnoticed later (lib.rs, register_envelope).
EnvelopesOfServing == composed /= NoGeneration => builtWith[composed] = envelopes

\* Threads, locks and builds do not show: the host is a Service.  A composition served before
\* if its pool is closed, or a reload that took it out has yet to close it.
Former == (retired \ {composed}) \union
            ({mine[t] : t \in {r \in Reloaders : pc[r] = "retiring"}} \ {NoGeneration})
Running == [c \in Clients |-> IF pc[c] = "busy" THEN mine[c] ELSE NoGeneration]
Serving == INSTANCE Service
             WITH Compositions <- Generations,
                  phase <- IF phase = "counting" THEN "draining" ELSE phase,
                  Nothing <- NoGeneration,
                  serving <- composed,
                  former <- Former,
                  closed <- retired,
                  running <- Running,
                  described <- manifest
ServesAsPromised == Serving!ServiceSpec

\* health has composed and waits for reload_state, a reload has that and waits for composed.
LockedOut ==
  /\ \E m \in Monitors : pc[m] = "healthState"
  /\ \E t \in Reloaders : pc[t] = "swapping"

\* Every call of the host returns, unless health and reload lock each other out: no thread is
\* inside one for ever in any other way.  Shutdown, which has the host for itself, returns in
\* any case.
EveryCallReturns ==
  /\ \A t \in Threads : []<>(pc[t] \in OutsidePCs \/ LockedOut)
  /\ []<>(phase \notin {"draining", "counting"})

\* pool.rs: checkout takes an idle instance immediately or blocks a bounded time.
CheckoutReturns == \A c \in Clients : pc[c] = "checkout" ~> pc[c] /= "checkout"

\* lib.rs, shutdown: in-flight work is drained before success is reported.
DrainedMeansNothingInFlight == phase = "drained" => \A c \in Clients : pc[c] /= "busy"
=============================================================================
