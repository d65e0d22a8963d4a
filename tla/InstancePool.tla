----------------------------- MODULE InstancePool -----------------------------
(***************************************************************************)
(* The instance pool of clean-host-core (src/pool.rs).                     *)
(*                                                                         *)
(* A pool hands out WebAssembly instances of one composed component.  Its  *)
(* state sits behind one Mutex with one Condvar, `available`.  Every       *)
(* stretch of code between taking and releasing that mutex is one action   *)
(* here: checkout instantiates and give_back resets while holding it.  The *)
(* notifications come after the mutex is released, so they are steps of    *)
(* their own.                                                              *)
(*                                                                         *)
(* A client is one invocation: it calls checkout, may use the instance it  *)
(* is given, and drops the guard.  Time is counted in ticks; the deadline  *)
(* of a checkout is the number of ticks it has left, and an idle instance  *)
(* has an age.  Both saturate, so no clock is needed.                      *)
(*                                                                         *)
(* The generation check of give_back is absent: Inner.generation is set    *)
(* once, from the field every guard copies, so within one pool it never    *)
(* differs.                                                                *)
(***************************************************************************)
EXTENDS Integers, Sequences, FiniteSets

CONSTANTS
  Clients,           \* the invocations that use the pool
  Instances,         \* identities an instance can have
  NoInstance,        \* the guard of a client that holds nothing
  InstancesMin,      \* PoolConfig::instances_min
  InstancesMax,      \* PoolConfig::instances_max
  InstanceIdle,      \* PoolConfig::instance_idle, in ticks
  CheckoutTimeout,   \* PoolConfig::checkout_timeout, in ticks
  InstantiateFails   \* whether LoadedComponent::instantiate may return Err

\* What config.rs enforces on `[runtime]`: a positive ceiling not below the floor.
ASSUME PoolConfigAssumption ==
  /\ InstancesMin \in Nat
  /\ InstancesMax \in Nat \ {0}
  /\ InstancesMin <= InstancesMax

\* Any duration is accepted for the two timers.
ASSUME TimersAssumption ==
  /\ InstanceIdle \in Nat
  /\ CheckoutTimeout \in Nat
  /\ InstantiateFails \in BOOLEAN

ASSUME ClientsAssumption ==
  /\ IsFiniteSet(Clients)
  /\ NoInstance \notin Instances

VARIABLES
  \* Inner, behind the mutex
  idle,     \* the VecDeque of idle instances, front first
  live,     \* Inner::live
  active,   \* Inner::active
  queued,   \* Inner::queued
  closed,   \* Inner::closed
  \* the threads
  pc,       \* where each client is
  left,     \* ticks until the deadline of the client's checkout
  guard,    \* the instance in the client's InstanceGuard
  closing,  \* close() has released the mutex and not yet notified
  \* the instances
  dirty     \* instances holding state of an invocation

inner == <<idle, live, active, queued, closed>>
vars  == <<idle, live, active, queued, closed, pc, left, guard, closing, dirty>>

-----------------------------------------------------------------------------
\* Resting: outside checkout, holding nothing; named after how the last one ended.
Resting == {"ready", "exhausted", "refused", "failed"}
\* Entering: wants the mutex, at the top of checkout or back from wait_timeout.
Entering == {"entering", "woken", "timedout"}
PCs == Resting \union Entering \union {"sleeping", "busy", "notifying"}

IdleEntry == [instance : Instances, age : 0..InstanceIdle]

Sleepers  == {c \in Clients : pc[c] = "sleeping"}
Woken     == {c \in Clients : pc[c] = "woken"}
Notifying == {c \in Clients : pc[c] = "notifying"}
Waiting   == {c \in Clients : pc[c] \in {"sleeping", "woken", "timedout"}}
Holders   == {c \in Clients : pc[c] = "busy"}

IdleInstances == {idle[k].instance : k \in 1..Len(idle)}
HeldInstances == {guard[c] : c \in Holders}
Existing      == IdleInstances \union HeldInstances
Unused        == Instances \ Existing

SaturatingSub(a, b) == IF a >= b THEN a - b ELSE 0

-----------------------------------------------------------------------------
\* `new`: filled to instances_min, or no pool at all.
Init ==
  /\ idle \in [1..InstancesMin -> [instance : Instances, age : {0}]]
  /\ \A j, k \in 1..InstancesMin : idle[j].instance = idle[k].instance => j = k
  /\ live = InstancesMin
  /\ active = 0
  /\ queued = 0
  /\ closed = FALSE
  /\ pc = [c \in Clients |-> "ready"]
  /\ left = [c \in Clients |-> 0]
  /\ guard = [c \in Clients |-> NoInstance]
  /\ closing = FALSE
  /\ dirty = {}

-----------------------------------------------------------------------------
(* checkout *)

\* The deadline is fixed before the mutex is taken.
CheckoutStart(c) ==
  /\ pc[c] \in Resting
  /\ pc' = [pc EXCEPT ![c] = "entering"]
  /\ left' = [left EXCEPT ![c] = CheckoutTimeout]
  /\ UNCHANGED <<inner, guard, closing, dirty>>

\* Fault: a wait that ends stays in the queue count.
QueuedOnEntryLeaks(c) == queued

\* Returning from wait_timeout takes the caller out of the queue count.
QueuedOnEntry(c) == IF pc[c] = "entering" THEN queued ELSE queued - 1

\* Fault: a timed-out wait ends the checkout although an instance is idle.
GivesUpBlindly(c) == pc[c] = "timedout"

\* A timed-out wait ends the checkout when nothing is idle, whatever else changed.
GivesUp(c) == pc[c] = "timedout" /\ idle = <<>>

\* The top of the loop.
InLoop(c) == pc[c] \in Entering /\ ~GivesUp(c)

\* checkout returns to the client.
Return(c, outcome) ==
  /\ pc' = [pc EXCEPT ![c] = outcome]
  /\ left' = [left EXCEPT ![c] = 0]
  /\ queued' = QueuedOnEntry(c)
  /\ UNCHANGED <<closed, closing, dirty>>

HandOut(c, i) ==
  /\ guard' = [guard EXCEPT ![c] = i]
  /\ active' = active + 1
  /\ Return(c, "busy")

CheckoutGivesUp(c) ==
  /\ GivesUp(c)
  /\ Return(c, "exhausted")
  /\ UNCHANGED <<idle, live, active, guard>>

CheckoutClosed(c) ==
  /\ InLoop(c)
  /\ closed
  /\ Return(c, "refused")
  /\ UNCHANGED <<idle, live, active, guard>>

CheckoutIdle(c) ==
  /\ InLoop(c)
  /\ ~closed
  /\ idle /= <<>>
  /\ HandOut(c, Head(idle).instance)
  /\ idle' = Tail(idle)
  /\ UNCHANGED live

\* Fault: `closed` is looked at before the first wait only.
FindsNothingUnchecked(c) ==
  InLoop(c) /\ idle = <<>> /\ (pc[c] = "entering" => ~closed)

\* Nothing idle: the loop goes on to grow the pool, or to wait.
FindsNothing(c) == InLoop(c) /\ ~closed /\ idle = <<>>

\* Fault: the ceiling is off by one.
CheckoutGrowPastCeiling(c) ==
  /\ FindsNothing(c)
  /\ live <= InstancesMax
  /\ live' = live + 1
  /\ \E i \in Unused : HandOut(c, i)
  /\ UNCHANGED idle

CheckoutGrow(c) ==
  /\ FindsNothing(c)
  /\ live < InstancesMax
  /\ live' = live + 1
  /\ \E i \in Unused : HandOut(c, i)
  /\ UNCHANGED idle

\* instantiate fails: `live` is put back, and nobody is notified.
CheckoutGrowFails(c) ==
  /\ InstantiateFails
  /\ FindsNothing(c)
  /\ live < InstancesMax
  /\ Return(c, "failed")
  /\ UNCHANGED <<idle, live, active, guard>>

CheckoutExhausted(c) ==
  /\ FindsNothing(c)
  /\ live >= InstancesMax
  /\ left[c] = 0
  /\ Return(c, "exhausted")
  /\ UNCHANGED <<idle, live, active, guard>>

\* Fault: every wait is given the whole timeout again.
CheckoutWaitAnew(c) ==
  /\ FindsNothing(c)
  /\ live >= InstancesMax
  /\ left[c] > 0
  /\ pc' = [pc EXCEPT ![c] = "sleeping"]
  /\ left' = [left EXCEPT ![c] = CheckoutTimeout]
  /\ queued' = QueuedOnEntry(c) + 1
  /\ UNCHANGED <<idle, live, active, closed, guard, closing, dirty>>

CheckoutWait(c) ==
  /\ FindsNothing(c)
  /\ live >= InstancesMax
  /\ left[c] > 0
  /\ pc' = [pc EXCEPT ![c] = "sleeping"]
  /\ queued' = QueuedOnEntry(c) + 1
  /\ UNCHANGED <<idle, live, active, closed, left, guard, closing, dirty>>

\* The critical section of checkout.
Attempt(c) ==
  \/ CheckoutGivesUp(c)
  \/ CheckoutClosed(c)
  \/ CheckoutIdle(c)
  \/ CheckoutGrow(c)
  \/ CheckoutGrowFails(c)
  \/ CheckoutExhausted(c)
  \/ CheckoutWait(c)

\* wait_timeout ends without the mutex: by its timeout, or spuriously.
WaitTimesOut(c) ==
  /\ pc[c] = "sleeping"
  /\ left[c] = 0
  /\ pc' = [pc EXCEPT ![c] = "timedout"]
  /\ UNCHANGED <<inner, left, guard, closing, dirty>>

SpuriousWakeup(c) ==
  /\ pc[c] = "sleeping"
  /\ pc' = [pc EXCEPT ![c] = "woken"]
  /\ UNCHANGED <<inner, left, guard, closing, dirty>>

-----------------------------------------------------------------------------
(* the guard *)

\* The invocation runs: InstanceGuard::instance hands out `&mut`.
Invoke(c) ==
  /\ pc[c] = "busy"
  /\ dirty' = dirty \union {guard[c]}
  /\ UNCHANGED <<inner, pc, left, guard, closing>>

\* Drop of the guard: what every branch of give_back does.
Release(c) ==
  /\ pc[c] = "busy"
  /\ pc' = [pc EXCEPT ![c] = "notifying"]
  /\ guard' = [guard EXCEPT ![c] = NoInstance]
  /\ active' = SaturatingSub(active, 1)
  /\ UNCHANGED <<queued, closed, left, closing>>

\* The instance is gone; its identity is free for a new, clean one.
Discard(c) ==
  /\ live' = SaturatingSub(live, 1)
  /\ dirty' = dirty \ {guard[c]}
  /\ UNCHANGED idle

\* Fault: the early return of give_back comes before `active` is lowered.
GiveBackClosedUncounted(c) ==
  /\ closed
  /\ pc[c] = "busy"
  /\ pc' = [pc EXCEPT ![c] = "notifying"]
  /\ guard' = [guard EXCEPT ![c] = NoInstance]
  /\ Discard(c)
  /\ UNCHANGED <<active, queued, closed, left, closing>>

GiveBackClosed(c) ==
  /\ closed
  /\ Release(c)
  /\ Discard(c)

\* Fault: the instance goes to the front of the deque.
GiveBackResetInFront(c) ==
  /\ ~closed
  /\ Release(c)
  /\ idle' = <<[instance |-> guard[c], age |-> 0]>> \o idle
  /\ dirty' = dirty \ {guard[c]}
  /\ UNCHANGED live

GiveBackReset(c) ==
  /\ ~closed
  /\ Release(c)
  /\ idle' = Append(idle, [instance |-> guard[c], age |-> 0])
  /\ dirty' = dirty \ {guard[c]}
  /\ UNCHANGED live

\* Fault: an instance whose reset failed is pooled all the same.
GiveBackResetIgnored(c) ==
  /\ ~closed
  /\ Release(c)
  /\ idle' = Append(idle, [instance |-> guard[c], age |-> 0])
  /\ UNCHANGED <<live, dirty>>

\* Fault: nobody is told of the place that a failed reset makes free.
GiveBackResetFailsSilently(c) ==
  /\ ~closed
  /\ pc[c] = "busy"
  /\ pc' = [pc EXCEPT ![c] = "ready"]
  /\ guard' = [guard EXCEPT ![c] = NoInstance]
  /\ active' = SaturatingSub(active, 1)
  /\ Discard(c)
  /\ UNCHANGED <<queued, closed, left, closing>>

GiveBackResetFails(c) ==
  /\ ~closed
  /\ Release(c)
  /\ Discard(c)

GiveBack(c) == GiveBackClosed(c) \/ GiveBackReset(c) \/ GiveBackResetFails(c)

\* Fault: the notification is lost.
NotifyOneMisses(c) ==
  /\ pc[c] = "notifying"
  /\ pc' = [pc EXCEPT ![c] = "ready"]
  /\ UNCHANGED <<inner, left, guard, closing, dirty>>

\* notify_one: some sleeper wakes, if there is one.
NotifyOne(c) ==
  /\ pc[c] = "notifying"
  /\ \/ /\ Sleepers = {}
        /\ pc' = [pc EXCEPT ![c] = "ready"]
     \/ \E w \in Sleepers : pc' = [pc EXCEPT ![c] = "ready", ![w] = "woken"]
  /\ UNCHANGED <<inner, left, guard, closing, dirty>>

-----------------------------------------------------------------------------
(* the host's own calls *)

\* The front n instances are stale, and the floor allows for dropping them.
Reapable(n) ==
  /\ n <= Len(idle)
  /\ live - n >= InstancesMin
  /\ \A k \in 1..n : idle[k].age >= InstanceIdle

\* The loop pops the front for as long as it can.
ReapIdle ==
  /\ \E n \in 1..Len(idle) :
       /\ Reapable(n)
       /\ ~Reapable(n + 1)
       /\ idle' = SubSeq(idle, n + 1, Len(idle))
       /\ live' = live - n
  /\ UNCHANGED <<active, queued, closed, pc, left, guard, closing, dirty>>

\* Fault: the idle instances stay.
CloseKeepsIdle ==
  /\ ~closed
  /\ closed' = TRUE
  /\ closing' = TRUE
  /\ UNCHANGED <<idle, live, active, queued, pc, left, guard, dirty>>

\* close clears the deque and leaves `live` as it was.
Close ==
  /\ ~closed
  /\ closed' = TRUE
  /\ closing' = TRUE
  /\ idle' = <<>>
  /\ UNCHANGED <<live, active, queued, pc, left, guard, dirty>>

\* Fault: notify_one.
CloseNotifyOne ==
  /\ closing
  /\ closing' = FALSE
  /\ \/ Sleepers = {} /\ pc' = pc
     \/ \E w \in Sleepers : pc' = [pc EXCEPT ![w] = "woken"]
  /\ UNCHANGED <<inner, left, guard, dirty>>

\* notify_all
CloseNotify ==
  /\ closing
  /\ closing' = FALSE
  /\ pc' = [c \in Clients |-> IF c \in Sleepers THEN "woken" ELSE pc[c]]
  /\ UNCHANGED <<inner, left, guard, dirty>>

\* Time passes for every deadline and every idle instance.
Tick ==
  /\ left' = [c \in Clients |-> SaturatingSub(left[c], 1)]
  /\ idle' = [k \in 1..Len(idle) |->
                [idle[k] EXCEPT !.age = IF @ < InstanceIdle THEN @ + 1 ELSE @]]
  /\ UNCHANGED <<live, active, queued, closed, pc, guard, closing, dirty>>

-----------------------------------------------------------------------------
ClientStep(c) ==
  \/ CheckoutStart(c)
  \/ Attempt(c)
  \/ WaitTimesOut(c)
  \/ SpuriousWakeup(c)
  \/ Invoke(c)
  \/ GiveBack(c)
  \/ NotifyOne(c)

HostStep == ReapIdle \/ Close \/ CloseNotify \/ Tick

Next == HostStep \/ \E c \in Clients : ClientStep(c)

Spec == Init /\ [][Next]_vars

\* A thread that wants the mutex gets it, waits time out, time passes, and a
\* notification follows its unlock.  No call is promised, nor that guards are dropped.
Fairness ==
  /\ WF_vars(Tick)
  /\ WF_vars(CloseNotify)
  /\ \A c \in Clients : /\ WF_vars(Attempt(c))
                        /\ WF_vars(WaitTimesOut(c))
                        /\ WF_vars(NotifyOne(c))

FairSpec == Spec /\ Fairness
-----------------------------------------------------------------------------
(* Properties *)

\* Every variable holds a value of its kind (Inner, InstanceGuard, the threads).
TypeOK ==
  /\ idle \in Seq(IdleEntry)
  /\ live \in 0..InstancesMax
  /\ active \in Nat
  /\ queued \in Nat
  /\ closed \in BOOLEAN
  /\ pc \in [Clients -> PCs]
  /\ left \in [Clients -> 0..CheckoutTimeout]
  /\ guard \in [Clients -> Instances \union {NoInstance}]
  /\ \A c \in Clients : guard[c] \in Instances <=> pc[c] = "busy"
  /\ closing \in BOOLEAN
  /\ closing => closed
  /\ closed => idle = <<>>
  /\ dirty \subseteq Instances

\* The counters that the pool decides by are the truth: `active` counts the
\* guards, `queued` the waiters, and until close `live` the instances that exist.
\* give_back's saturating_sub therefore never hides an underflow.
CountersHonest ==
  /\ active = Cardinality(Holders)
  /\ queued = Cardinality(Waiting)
  /\ IF closed THEN live >= active ELSE live = Len(idle) + active

\* instances_max bounds the instances that exist, however the calls interleave.
Ceiling == Cardinality(Existing) <= InstancesMax

\* The state an invocation leaves in an instance is gone before the instance waits
\* for the next one: only instances in use are dirty.
Isolation ==
  /\ dirty \subseteq HeldInstances
  /\ dirty \intersect IdleInstances = {}

\* reap_idle looks at the front only: no instance further back may be staler.
OldestFirst == \A j, k \in 1..Len(idle) : j < k => idle[j].age >= idle[k].age

\* An instance never stays idle while a checkout sleeps, but for wake-ups under way.
NoStrandedInstance ==
  Sleepers /= {} => Len(idle) <= Cardinality(Woken) + Cardinality(Notifying)

\* close wakes every waiter, and a checkout racing with it does not fall asleep after.
CloseWakesEveryWaiter == closed /\ ~closing => Sleepers = {}

\* The pool keeps the promise of LeasePool: exclusive, bounded, clean, none after close.
Promise == INSTANCE LeasePool WITH lease <- guard, used <- dirty
KeepsPromise == Promise!LeaseSpec

\* A checkout reports exhaustion only when its whole timeout has passed and no
\* instance is idle, however often it was woken in between.
ExhaustedOnlyAtDeadline ==
  [][\A c \in Clients :
       pc[c] /= "exhausted" /\ pc'[c] = "exhausted" => left[c] = 0 /\ idle = <<>>]_vars

\* While checkouts sleep, every place below the ceiling, idle or not yet created,
\* has a wake-up under way.  Holds where instantiate never fails.
NoStrandedCapacity ==
  Sleepers /= {} /\ ~closed =>
    Len(idle) + (InstancesMax - live) <= Cardinality(Woken) + Cardinality(Notifying)

\* pool.rs: checkout "grows the pool up to `instances_max`; otherwise waits".
WaitsOnlyAtCeiling ==
  Sleepers /= {} /\ Woken = {} /\ Notifying = {} /\ ~closed => live >= InstancesMax

\* pool.rs: checkout takes an idle instance or blocks a bounded time.
EveryCheckoutReturns ==
  \A c \in Clients : pc[c] = "entering" ~> pc[c] \in Resting \union {"busy"}

\* Once closed, `active` reaches zero if every guard is dropped: shutdown's drain ends.
DrainCompletes ==
  (\A c \in Clients : WF_vars(GiveBack(c))) => (closed ~> active = 0)
=============================================================================
