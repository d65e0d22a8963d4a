------------------------- MODULE InstancePoolWaitProofs -------------------------
(***************************************************************************)
(* Proofs about waiting in InstancePool: who is woken for what becomes     *)
(* free, and when a checkout may give up.                                  *)
(***************************************************************************)
EXTENDS InstancePoolProofs

\* A wait that ended by its timeout ended at the deadline.
TimedOutAtDeadline == \A c \in Clients : pc[c] = "timedout" => left[c] = 0

\* Wake-ups under way: clients woken that have not got the mutex, and clients that have
\* given an instance back and are about to notify.
WakeUps == Cardinality(Woken) + Cardinality(Notifying)

\* Places that a sleeping checkout could be served from.
Places == Len(idle) + (InstancesMax - live)

-----------------------------------------------------------------------------
(* Counting wake-ups *)

LEMMA WakeUpsFinite ==
  /\ IsFiniteSet(Woken) /\ IsFiniteSet(Notifying)
  /\ Cardinality(Woken) \in Nat /\ Cardinality(Notifying) \in Nat
  /\ WakeUps \in Nat
<1>1. IsFiniteSet(Woken) /\ IsFiniteSet(Notifying)
  BY ClientsAssumption, FS_Subset DEF Woken, Notifying
<1>2. Cardinality(Woken) \in Nat /\ Cardinality(Notifying) \in Nat
  BY <1>1, FS_CardinalityType
<1> QED
  BY <1>1, <1>2 DEF WakeUps

LEMMA WakeUpsTyped == WakeUps \in Nat /\ WakeUps' \in Nat
<1>1. WakeUps'
        = Cardinality({c \in Clients : pc'[c] = "woken"})
          + Cardinality({c \in Clients : pc'[c] = "notifying"})
  BY DEF WakeUps, Woken, Notifying
<1>2. IsFiniteSet({c \in Clients : pc'[c] = "woken"})
  BY ClientsAssumption, FS_Subset
<1>3. IsFiniteSet({c \in Clients : pc'[c] = "notifying"})
  BY ClientsAssumption, FS_Subset
<1> QED
  BY <1>1, <1>2, <1>3, WakeUpsFinite, FS_CardinalityType

\* Of the clients that go on with their checkout, one has used up a wake-up at most.
LEMMA AttemptUsesOneWakeUp ==
  ASSUME TypeOK, NEW c \in Clients, Attempt(c)
  PROVE  /\ WakeUps' \in {WakeUps, WakeUps - 1}
         /\ pc[c] /= "woken" => WakeUps' = WakeUps
         /\ Sleepers' \subseteq Sleepers \/ CheckoutWait(c)
<1>1. \E l \in PCs \ {"woken", "notifying"} :
         /\ pc[c] \in Entering
         /\ pc' = [pc EXCEPT ![c] = l]
         /\ l /= "sleeping" \/ CheckoutWait(c)
  <2>1. pc[c] \in Entering
    BY DEF Attempt, CheckoutGivesUp, GivesUp, CheckoutClosed, CheckoutIdle, CheckoutGrow,
           CheckoutGrowFails, CheckoutExhausted, CheckoutWait, FindsNothing, InLoop, Entering
  <2>2. CASE CheckoutWait(c)
    <3>1. pc' = [pc EXCEPT ![c] = "sleeping"]
      BY <2>2 DEF CheckoutWait
    <3>2. "sleeping" \in PCs \ {"woken", "notifying"}
      BY DEF PCs
    <3> QED
      BY <2>1, <2>2, <3>1, <3>2
  <2>3. CASE ~CheckoutWait(c)
    <3>1. \E l \in {"exhausted", "refused", "busy", "failed"} : pc' = [pc EXCEPT ![c] = l]
      BY <2>3 DEF Attempt, CheckoutGivesUp, CheckoutClosed, CheckoutIdle, CheckoutGrow,
                  CheckoutGrowFails, CheckoutExhausted, HandOut, Return
    <3>2. {"exhausted", "refused", "busy", "failed"} \subseteq
            PCs \ {"woken", "notifying", "sleeping"}
      BY DEF PCs, Resting
    <3> QED
      BY <2>1, <3>1, <3>2
  <2> QED
    BY <2>2, <2>3
<1>2. PICK l \in PCs \ {"woken", "notifying"} :
         /\ pc[c] \in Entering
         /\ pc' = [pc EXCEPT ![c] = l]
         /\ l /= "sleeping" \/ CheckoutWait(c)
  BY <1>1
<1>3. Woken' = Woken \ {c} /\ Notifying' = Notifying
  BY <1>2 DEF TypeOK, Woken, Notifying, Entering
<1>4. /\ Cardinality(Woken') \in {Cardinality(Woken), Cardinality(Woken) - 1}
      /\ pc[c] /= "woken" => Cardinality(Woken') = Cardinality(Woken)
  <2>1. CASE c \in Woken
    <3>1. pc[c] = "woken"
      BY <2>1 DEF Woken
    <3> QED
      BY <1>3, <2>1, <3>1, WakeUpsFinite, CountDown
  <2>2. CASE c \notin Woken
    <3>1. Woken' = Woken
      BY <1>3, <2>2
    <3> QED
      BY <3>1
  <2> QED
    BY <2>1, <2>2
<1>5. Sleepers' \subseteq Sleepers \/ CheckoutWait(c)
  BY <1>2 DEF TypeOK, Sleepers
<1> QED
  BY <1>3, <1>4, <1>5, WakeUpsFinite DEF WakeUps

\* A guard that is dropped is a wake-up to come.
LEMMA ReleaseAddsWakeUp ==
  ASSUME TypeOK, NEW c \in Clients, Release(c)
  PROVE  WakeUps' = WakeUps + 1 /\ Sleepers' = Sleepers
<1>1. /\ Notifying' = Notifying \union {c} /\ c \notin Notifying
      /\ Woken' = Woken /\ Sleepers' = Sleepers
  BY DEF Release, TypeOK, Notifying, Woken, Sleepers
<1>2. Cardinality(Notifying') = Cardinality(Notifying) + 1
  BY <1>1, WakeUpsFinite, CountUp
<1> QED
  BY <1>1, <1>2, WakeUpsFinite DEF WakeUps

\* notify_one passes the wake-up on to a sleeper, unless none sleeps.
LEMMA NotifyPassesWakeUp ==
  ASSUME TypeOK, NEW c \in Clients, NotifyOne(c)
  PROVE  Sleepers' = {} \/ (WakeUps' = WakeUps /\ Sleepers' \subseteq Sleepers)
<1>1. CASE Sleepers = {}
  <2>1. pc' = [pc EXCEPT ![c] = "ready"]
    BY <1>1 DEF NotifyOne
  <2> QED
    BY <1>1, <2>1 DEF TypeOK, Sleepers
<1>2. CASE Sleepers /= {}
  <2>1. PICK w \in Sleepers : pc' = [pc EXCEPT ![c] = "ready", ![w] = "woken"]
    BY <1>2 DEF NotifyOne
  <2>2. /\ w \in Clients /\ w /= c /\ pc[w] = "sleeping" /\ pc[c] = "notifying"
        /\ \A d \in Clients : pc'[d] = IF d = w THEN "woken" ELSE IF d = c THEN "ready" ELSE pc[d]
    BY <2>1 DEF TypeOK, Sleepers, NotifyOne
  <2>3. /\ Notifying' = Notifying \ {c} /\ c \in Notifying
        /\ Woken' = Woken \union {w} /\ w \notin Woken
        /\ Sleepers' \subseteq Sleepers
    BY <2>2 DEF Notifying, Woken, Sleepers
  <2>4. /\ Cardinality(Notifying') = Cardinality(Notifying) - 1
        /\ Cardinality(Woken') = Cardinality(Woken) + 1
    BY <2>3, WakeUpsFinite, CountUp, CountDown
  <2> QED
    BY <2>3, <2>4, WakeUpsFinite DEF WakeUps
<1> QED
  BY <1>1, <1>2

\* A spurious wake-up is one too.
LEMMA SpuriousAddsWakeUp ==
  ASSUME TypeOK, NEW c \in Clients, SpuriousWakeup(c)
  PROVE  WakeUps' = WakeUps + 1 /\ Sleepers' \subseteq Sleepers
<1>1. /\ Woken' = Woken \union {c} /\ c \notin Woken
      /\ Notifying' = Notifying /\ Sleepers' \subseteq Sleepers
  BY DEF SpuriousWakeup, TypeOK, Notifying, Woken, Sleepers
<1>2. Cardinality(Woken') = Cardinality(Woken) + 1
  BY <1>1, WakeUpsFinite, CountUp
<1> QED
  BY <1>1, <1>2, WakeUpsFinite DEF WakeUps

\* The other steps of clients and of the host leave wake-ups as they are.
LEMMA OthersKeepWakeUps ==
  ASSUME TypeOK,
         \/ ReapIdle \/ Close \/ Tick \/ UNCHANGED vars
         \/ \E c \in Clients : CheckoutStart(c) \/ WaitTimesOut(c) \/ Invoke(c)
  PROVE  WakeUps' = WakeUps /\ Sleepers' \subseteq Sleepers
<1>1. CASE ReapIdle \/ Close \/ Tick \/ UNCHANGED vars \/ \E c \in Clients : Invoke(c)
  <2>1. pc' = pc
    BY <1>1 DEF ReapIdle, Close, Tick, vars, Invoke
  <2> QED
    BY <2>1 DEF WakeUps, Woken, Notifying, Sleepers
<1>2. CASE \E c \in Clients : CheckoutStart(c) \/ WaitTimesOut(c)
  <2>1. PICK c \in Clients : CheckoutStart(c) \/ WaitTimesOut(c)
    BY <1>2
  <2>2. Woken' = Woken /\ Notifying' = Notifying /\ Sleepers' \subseteq Sleepers
    BY <2>1 DEF CheckoutStart, WaitTimesOut, TypeOK, Woken, Notifying, Sleepers, Resting
  <2> QED
    BY <2>2 DEF WakeUps
<1> QED
  BY <1>1, <1>2

-----------------------------------------------------------------------------
(* Nobody is forgotten *)

\* The deque and the ceiling, in numbers.
LEMMA PoolNumbers ==
  IInv => /\ idle \in Seq(IdleEntry) /\ Len(idle) \in Nat
          /\ live \in Int /\ InstancesMax \in Int
          /\ Places \in Int
          /\ closed => idle = <<>>
          /\ Len(idle) = 0 <=> idle = <<>>
  BY EmptySeq, LenProperties, PoolConfigAssumption DEF IInv, TypeOK, Places

\* What changes by so much on both sides: stated for numbers, for the provers' sake.
LEMMA SameChange ==
  ASSUME NEW p \in Int, NEW q \in Int, NEW w \in Int, NEW v \in Int
  PROVE  /\ v \in {w, w - 1} /\ q = p - 1 => q - p <= v - w
         /\ v >= w /\ q = p => q - p <= v - w
  OBVIOUS

LEMMA SamePlaces ==
  ASSUME NEW l \in Int, NEW k \in Int, NEW v \in Int, NEW u \in Int, NEW n \in Int, NEW m \in Int
  PROVE  /\ k = l - n /\ u = v - n => k + (m - u) = l + (m - v)
         /\ k = l /\ u = v + n => k + (m - u) = (l + (m - v)) - n
  OBVIOUS

LEMMA KeepsBelow ==
  ASSUME NEW p \in Int, NEW q \in Int, NEW w \in Int, NEW v \in Int, q - p <= v - w, p <= w
  PROVE  q <= v
  OBVIOUS

\* Whatever a step makes free, it adds a wake-up for; or nobody sleeps after it, or there is
\* nothing to be had.  Only a failed instantiate uses up a wake-up and leaves its place free.
LEMMA WakeUpsKeepPace ==
  ASSUME IInv, IInv', [Next]_vars
  PROVE  \/ Sleepers' = {}
         \/ idle' = <<>> /\ (closed' \/ live' >= InstancesMax)
         \/ /\ Sleepers' \subseteq Sleepers /\ closed' = closed
            /\ idle' = <<>> \/ Len(idle') - Len(idle) <= WakeUps' - WakeUps
            /\ InstantiateFails \/ Places' - Places <= WakeUps' - WakeUps
<1> DEFINE Goal == \/ Sleepers' = {}
                   \/ idle' = <<>> /\ (closed' \/ live' >= InstancesMax)
                   \/ /\ Sleepers' \subseteq Sleepers /\ closed' = closed
                      /\ idle' = <<>> \/ Len(idle') - Len(idle) <= WakeUps' - WakeUps
                      /\ InstantiateFails \/ Places' - Places <= WakeUps' - WakeUps
<1>n. /\ TypeOK
      /\ idle \in Seq(IdleEntry) /\ Len(idle) \in Nat /\ Len(idle') \in Nat
      /\ live \in Int /\ live' \in Int /\ InstancesMax \in Int
      /\ Places = Len(idle) + (InstancesMax - live)
      /\ Places' = Len(idle') + (InstancesMax - live')
      /\ WakeUps \in Int /\ WakeUps' \in Int
      /\ closed => idle = <<>>
      /\ Len(idle) = 0 <=> idle = <<>>
  <2>1. Len(idle') \in Nat /\ live' \in Int
    BY LenProperties DEF IInv, TypeOK
  <2> QED
    BY <2>1, WakeUpsTyped, PoolNumbers DEF Places, IInv
<1>i. /\ Len(idle) \in Int /\ Len(idle') \in Int /\ live \in Int
      /\ Places \in Int /\ Places' \in Int /\ WakeUps \in Int /\ WakeUps' \in Int
      /\ InstancesMax \in Int
  BY <1>n
<1>1. ASSUME NEW c \in Clients, Attempt(c) PROVE Goal
  <2>1. /\ WakeUps' \in {WakeUps, WakeUps - 1}
        /\ pc[c] /= "woken" => WakeUps' = WakeUps
        /\ Sleepers' \subseteq Sleepers \/ CheckoutWait(c)
    BY <1>1, <1>n, AttemptUsesOneWakeUp
  <2>2. CASE CheckoutGivesUp(c)
    BY <1>n, <2>1, <2>2 DEF CheckoutGivesUp, GivesUp, Return, CheckoutWait, FindsNothing, InLoop
  <2>3. CASE CheckoutClosed(c)
    BY <1>n, <2>3 DEF CheckoutClosed, Return
  <2>4. CASE CheckoutIdle(c)
    <3>1. Len(idle') = Len(idle) - 1 /\ live' = live /\ closed' = closed
      BY <1>n, <2>4, HeadTailProperties DEF CheckoutIdle, HandOut, Return
    <3>2. Sleepers' \subseteq Sleepers
      BY <2>1, <2>4 DEF CheckoutIdle, CheckoutWait, FindsNothing
    <3> QED
      BY <1>n, <2>1, <3>1, <3>2
  <2>5. CASE CheckoutGrow(c)
    <3>1. idle' = <<>> /\ Len(idle') = Len(idle) /\ live' = live + 1 /\ closed' = closed
      BY <2>5 DEF CheckoutGrow, FindsNothing, HandOut, Return
    <3>2. Sleepers' \subseteq Sleepers
      BY <1>n, <2>1, <2>5, PoolConfigAssumption DEF CheckoutGrow, CheckoutWait
    <3>3. Places' = Places - 1
      BY <1>i, <3>1, SamePlaces DEF Places
    <3>4. Places' - Places <= WakeUps' - WakeUps
      BY <1>i, <2>1, <3>3, SameChange
    <3> QED
      BY <3>1, <3>2, <3>4
  <2>6. CASE CheckoutGrowFails(c)
    <3>1. idle' = <<>> /\ closed' = closed /\ InstantiateFails
      BY <2>6 DEF CheckoutGrowFails, FindsNothing, Return
    <3>2. Sleepers' \subseteq Sleepers
      BY <1>n, <2>1, <2>6 DEF CheckoutGrowFails, CheckoutWait
    <3> QED
      BY <3>1, <3>2
  <2>7. CASE CheckoutExhausted(c)
    BY <1>n, <2>7 DEF CheckoutExhausted, FindsNothing
  <2>8. CASE CheckoutWait(c)
    BY <1>n, <2>8 DEF CheckoutWait, FindsNothing
  <2> QED
    BY <1>1, <2>2, <2>3, <2>4, <2>5, <2>6, <2>7, <2>8 DEF Attempt
<1>2. ASSUME NEW c \in Clients, GiveBack(c) PROVE Goal
  <2>1. Release(c)
    BY <1>2 DEF GiveBack, GiveBackClosed, GiveBackReset, GiveBackResetFails
  <2>2. WakeUps' = WakeUps + 1 /\ Sleepers' = Sleepers /\ closed' = closed
    BY <1>n, <2>1, ReleaseAddsWakeUp DEF Release
  <2>3. CASE GiveBackReset(c)
    <3>1. idle' = Append(idle, [instance |-> guard[c], age |-> 0]) /\ live' = live
      BY <2>3 DEF GiveBackReset
    <3>2. guard[c] \in Instances
      BY <2>1, Released
    <3>3. [instance |-> guard[c], age |-> 0] \in IdleEntry
      BY <3>2, TimersAssumption DEF IdleEntry
    <3>4. Len(idle') = Len(idle) + 1
      BY <1>n, <3>1, <3>3, AppendProperties
    <3> QED
      BY <1>n, <2>2, <3>1, <3>4
  <2>4. CASE Discard(c)
    <3>1. idle' = idle /\ live' >= live - 1
      BY <1>n, <2>4 DEF Discard, SaturatingSub
    <3> QED
      BY <1>n, <2>2, <3>1
  <2> QED
    BY <1>2, <2>3, <2>4 DEF GiveBack, GiveBackClosed, GiveBackResetFails
<1>3. ASSUME NEW c \in Clients, NotifyOne(c) \/ SpuriousWakeup(c) PROVE Goal
  <2>1. UNCHANGED <<idle, live, closed>>
    BY <1>3 DEF NotifyOne, SpuriousWakeup, inner
  <2>2. Sleepers' = {} \/ (Sleepers' \subseteq Sleepers /\ WakeUps' >= WakeUps)
    BY <1>3, <1>n, NotifyPassesWakeUp, SpuriousAddsWakeUp
  <2>3. Len(idle') = Len(idle) /\ Places' = Places
    BY <2>1 DEF Places
  <2> QED
    BY <1>i, <2>1, <2>2, <2>3, SameChange
<1>4. CASE CloseNotify
  BY <1>4, <1>n DEF CloseNotify, Sleepers, TypeOK
<1>5. CASE Close
  BY <1>5 DEF Close
<1>6. CASE ReapIdle
  <2>1. PICK n \in 1..Len(idle) : idle' = SubSeq(idle, n + 1, Len(idle)) /\ live' = live - n
    BY <1>6 DEF ReapIdle
  <2>2. n \in Nat /\ n <= Len(idle) /\ n >= 1
    BY <1>n, <2>1
  <2>3. Len(idle') = Len(idle) - n
    <3>1. \A k \in (n + 1)..Len(idle) : idle[k] \in IdleEntry
      BY <1>n, <2>2, ElementOfSeq
    <3>2. Len(idle') = IF n + 1 <= Len(idle) THEN Len(idle) - (n + 1) + 1 ELSE 0
      <4> HIDE DEF Goal
      <4>1. n + 1 \in Int /\ Len(idle) \in Int
        BY <1>n, <2>2
      <4> QED
        BY <2>1, <3>1, <4>1, SubSeqProperties
    <3> QED
      BY <1>n, <2>2, <3>2
  <2>4. WakeUps' = WakeUps /\ Sleepers' \subseteq Sleepers /\ closed' = closed
    BY <1>6, <1>n, OthersKeepWakeUps DEF ReapIdle
  <2>5. Places' = Places
    <3>1. n \in Int /\ live' = live - n /\ live' \in Int
      BY <1>i, <2>1, <2>2
    <3>2. Len(idle') + (InstancesMax - live') = Len(idle) + (InstancesMax - live)
      BY <1>i, <2>3, <3>1, SamePlaces
    <3> QED
      BY <3>2 DEF Places
  <2>6. Len(idle') - Len(idle) <= 0
    BY <1>i, <2>2, <2>3
  <2> QED
    BY <1>i, <2>4, <2>5, <2>6
<1>7. CASE \/ Tick \/ UNCHANGED vars
           \/ \E c \in Clients : CheckoutStart(c) \/ WaitTimesOut(c) \/ Invoke(c)
  <2>1. WakeUps' = WakeUps /\ Sleepers' \subseteq Sleepers
    BY <1>7, <1>n, OthersKeepWakeUps
  <2>2. Len(idle') = Len(idle) /\ live' = live /\ closed' = closed
    BY <1>7, <1>n DEF Tick, vars, CheckoutStart, WaitTimesOut, Invoke, inner
  <2> QED
    BY <1>n, <2>1, <2>2
<1> QED
  BY <1>1, <1>2, <1>3, <1>4, <1>5, <1>6, <1>7 DEF Next, HostStep, ClientStep

LEMMA NoStrandedInstanceNext ==
  ASSUME IInv, IInv', [Next]_vars, NoStrandedInstance
  PROVE  NoStrandedInstance'
<1>1. /\ Len(idle) \in Int /\ Len(idle') \in Int /\ WakeUps \in Nat /\ WakeUps' \in Nat
      /\ idle' = <<>> => Len(idle') = 0
  BY WakeUpsTyped, LenProperties, EmptySeq DEF IInv, TypeOK
<1>2. NoStrandedInstance' <=> (Sleepers' /= {} => Len(idle') <= WakeUps')
  BY DEF NoStrandedInstance, WakeUps
<1>3. NoStrandedInstance <=> (Sleepers /= {} => Len(idle) <= WakeUps)
  BY DEF NoStrandedInstance, WakeUps
<1>4. CASE Sleepers' = {} \/ idle' = <<>>
  BY <1>1, <1>2, <1>4
<1>5. CASE /\ Sleepers' \subseteq Sleepers /\ Sleepers' /= {}
           /\ Len(idle') - Len(idle) <= WakeUps' - WakeUps
  <2>1. Len(idle) <= WakeUps
    BY <1>3, <1>5
  <2>2. Len(idle') <= WakeUps'
    BY <1>1, <1>5, <2>1, KeepsBelow
  <2> QED
    BY <1>2, <2>2
<1> QED
  BY <1>4, <1>5, WakeUpsKeepPace

LEMMA NoStrandedCapacityNext ==
  ASSUME IInv, IInv', [Next]_vars, ~InstantiateFails, NoStrandedCapacity
  PROVE  NoStrandedCapacity'
<1>1. /\ Places \in Int /\ Places' \in Int /\ WakeUps \in Nat /\ WakeUps' \in Nat
      /\ idle' = <<>> /\ live' >= InstancesMax => Places' <= 0
  <2>1. live' \in Int /\ InstancesMax \in Int /\ Len(idle') \in Int
        /\ (idle' = <<>> => Len(idle') = 0)
    BY PoolConfigAssumption, LenProperties, EmptySeq DEF IInv, TypeOK
  <2> QED
    BY <2>1, WakeUpsTyped, PoolNumbers DEF Places
<1>2. NoStrandedCapacity' <=> (Sleepers' /= {} /\ ~closed' => Places' <= WakeUps')
  BY DEF NoStrandedCapacity, WakeUps, Places
<1>3. NoStrandedCapacity <=> (Sleepers /= {} /\ ~closed => Places <= WakeUps)
  BY DEF NoStrandedCapacity, WakeUps, Places
<1>4. CASE Sleepers' = {} \/ closed' \/ Places' <= 0
  BY <1>1, <1>2, <1>4
<1>5. CASE /\ Sleepers' \subseteq Sleepers /\ Sleepers' /= {} /\ ~closed' /\ closed' = closed
           /\ Places' - Places <= WakeUps' - WakeUps
  <2>1. Places <= WakeUps
    BY <1>3, <1>5
  <2>2. Places' <= WakeUps'
    <3>1. Places' - Places <= WakeUps' - WakeUps
      BY <1>5
    <3>2. Places \in Int /\ Places' \in Int /\ WakeUps \in Int /\ WakeUps' \in Int
      BY <1>1
    <3> QED
      BY <2>1, <3>1, <3>2, KeepsBelow
  <2> QED
    BY <1>2, <2>2
<1> QED
  BY <1>1, <1>4, <1>5, WakeUpsKeepPace

\* close and a checkout that is about to sleep exclude each other by the mutex: who sleeps
\* when the pool is closed is woken by the notification still to come.
LEMMA CloseWakesNext ==
  ASSUME TypeOK, [Next]_vars, CloseWakesEveryWaiter
  PROVE  CloseWakesEveryWaiter'
<1>1. CASE Close \/ CloseNotify
  BY <1>1 DEF Close, CloseNotify, TypeOK, Sleepers, CloseWakesEveryWaiter
<1>2. ASSUME UNCHANGED <<closed, closing>>, Sleepers' \subseteq Sleepers \/ ~closed
      PROVE  CloseWakesEveryWaiter'
  BY <1>2 DEF CloseWakesEveryWaiter
<1>3. ASSUME NEW c \in Clients, Attempt(c) PROVE CloseWakesEveryWaiter'
  <2>1. UNCHANGED <<closed, closing>>
    BY <1>3 DEF Attempt, CheckoutGivesUp, CheckoutClosed, CheckoutIdle, CheckoutGrow,
                CheckoutGrowFails, CheckoutExhausted, CheckoutWait, HandOut, Return
  <2>2. Sleepers' \subseteq Sleepers \/ ~closed
    BY <1>3, AttemptUsesOneWakeUp DEF CheckoutWait, FindsNothing
  <2> QED
    BY <1>2, <2>1, <2>2
<1>4. ASSUME NEW c \in Clients, GiveBack(c) PROVE CloseWakesEveryWaiter'
  <2>1. Release(c)
    BY <1>4 DEF GiveBack, GiveBackClosed, GiveBackReset, GiveBackResetFails
  <2> QED
    BY <1>2, <2>1, ReleaseAddsWakeUp DEF Release
<1>5. ASSUME NEW c \in Clients, NotifyOne(c) \/ SpuriousWakeup(c) PROVE CloseWakesEveryWaiter'
  BY <1>2, <1>5, NotifyPassesWakeUp, SpuriousAddsWakeUp DEF NotifyOne, SpuriousWakeup, inner
<1>6. CASE \/ ReapIdle \/ Tick \/ UNCHANGED vars
           \/ \E c \in Clients : CheckoutStart(c) \/ WaitTimesOut(c) \/ Invoke(c)
  <2>1. UNCHANGED <<closed, closing>>
    BY <1>6 DEF ReapIdle, Tick, vars, CheckoutStart, WaitTimesOut, Invoke, inner
  <2> QED
    BY <1>2, <1>6, <2>1, OthersKeepWakeUps
<1> QED
  BY <1>1, <1>3, <1>4, <1>5, <1>6 DEF Next, HostStep, ClientStep

\* A deadline that has passed stays passed until the next checkout sets a new one.
LEMMA TimedOutNext ==
  ASSUME TypeOK, [Next]_vars, TimedOutAtDeadline
  PROVE  TimedOutAtDeadline'
<1>1. ASSUME NEW c \in Clients, Attempt(c) PROVE TimedOutAtDeadline'
  <2>1. /\ \A d \in Clients \ {c} : pc'[d] = pc[d] /\ left'[d] = left[d]
        /\ pc'[c] /= "timedout"
    BY <1>1 DEF Attempt, CheckoutGivesUp, CheckoutClosed, CheckoutIdle, CheckoutGrow,
                CheckoutGrowFails, CheckoutExhausted, CheckoutWait, HandOut, Return, TypeOK
  <2> QED
    BY <2>1 DEF TimedOutAtDeadline
<1>2. ASSUME NEW c \in Clients,
             \/ CheckoutStart(c) \/ WaitTimesOut(c) \/ SpuriousWakeup(c) \/ Invoke(c)
      PROVE  TimedOutAtDeadline'
  BY <1>2 DEF CheckoutStart, WaitTimesOut, SpuriousWakeup, Invoke, TypeOK, TimedOutAtDeadline
<1>3. ASSUME NEW c \in Clients, GiveBack(c) \/ NotifyOne(c) PROVE TimedOutAtDeadline'
  <2>1. left' = left /\ \A d \in Clients : pc'[d] = "timedout" => pc[d] = "timedout"
    BY <1>3 DEF GiveBack, GiveBackClosed, GiveBackReset, GiveBackResetFails, Release, NotifyOne,
                TypeOK
  <2> QED
    BY <2>1 DEF TimedOutAtDeadline
<1>4. CASE Tick
  BY <1>4 DEF Tick, SaturatingSub, TimedOutAtDeadline
<1>5. CASE ReapIdle \/ Close \/ CloseNotify \/ UNCHANGED vars
  <2>1. left' = left /\ \A d \in Clients : pc'[d] = "timedout" => pc[d] = "timedout"
    BY <1>5 DEF ReapIdle, Close, CloseNotify, vars
  <2> QED
    BY <2>1 DEF TimedOutAtDeadline
<1> QED
  BY <1>1, <1>2, <1>3, <1>4, <1>5 DEF Next, HostStep, ClientStep

-----------------------------------------------------------------------------
(* The deque is in order of age *)

LEMMA AgesTyped ==
  ASSUME TypeOK
  PROVE  /\ idle \in Seq(IdleEntry) /\ Len(idle) \in Nat
         /\ \A k \in 1..Len(idle) : idle[k].age \in 0..InstanceIdle
<1>1. idle \in Seq(IdleEntry) /\ Len(idle) \in Nat
  BY LenProperties DEF TypeOK
<1>2. \A k \in 1..Len(idle) : idle[k] \in IdleEntry
  BY <1>1, ElementOfSeq
<1> QED
  BY <1>1, <1>2 DEF IdleEntry

\* What is left of the deque when the front goes, as for a checkout or for reap_idle.
LEMMA FrontGoes ==
  ASSUME TypeOK, OldestFirst, NEW n \in Nat, n <= Len(idle), Len(idle') = Len(idle) - n,
         \A k \in 1..Len(idle') : idle'[k] = idle[k + n]
  PROVE  OldestFirst'
<1> SUFFICES ASSUME NEW j \in 1..Len(idle'), NEW k \in 1..Len(idle'), j < k
             PROVE  idle'[j].age >= idle'[k].age
  BY DEF OldestFirst
<1>1. Len(idle) \in Nat
  BY AgesTyped
<1>2. j + n \in 1..Len(idle) /\ k + n \in 1..Len(idle) /\ j + n < k + n
  BY <1>1
<1>3. idle[j + n].age >= idle[k + n].age
  BY <1>2 DEF OldestFirst
<1> QED
  BY <1>3

LEMMA OldestFirstNext ==
  ASSUME IInv, IInv', [Next]_vars, OldestFirst
  PROVE  OldestFirst'
<1>n. /\ TypeOK
      /\ idle \in Seq(IdleEntry) /\ Len(idle) \in Nat
      /\ \A k \in 1..Len(idle) : idle[k].age \in 0..InstanceIdle
  BY AgesTyped DEF IInv
<1>1. CASE idle' = idle \/ idle' = <<>>
  BY <1>1 DEF OldestFirst
<1>2. ASSUME NEW c \in Clients, CheckoutIdle(c) PROVE OldestFirst'
  <2>1. idle /= <<>> /\ idle' = Tail(idle)
    BY <1>2 DEF CheckoutIdle
  <2>2. /\ Len(idle') = Len(idle) - 1 /\ 1 <= Len(idle)
        /\ \A k \in 1..Len(idle') : idle'[k] = idle[k + 1]
    BY <1>n, <2>1, HeadTailProperties, EmptySeq
  <2> QED
    BY <1>n, <2>2, FrontGoes
<1>3. CASE ReapIdle
  <2>1. PICK n \in 1..Len(idle) : idle' = SubSeq(idle, n + 1, Len(idle))
    BY <1>3 DEF ReapIdle
  <2>2. n \in Nat /\ n <= Len(idle)
    BY <1>n, <2>1
  <2>3. /\ Len(idle') = Len(idle) - n
        /\ \A k \in 1..Len(idle') : idle'[k] = idle[k + n]
    <3>1. \A k \in (n + 1)..Len(idle) : idle[k] \in IdleEntry
      BY <1>n, <2>2, ElementOfSeq
    <3>2. n + 1 \in Int /\ Len(idle) \in Int
      BY <1>n, <2>2
    <3>3. /\ Len(idle') = IF n + 1 <= Len(idle) THEN Len(idle) - (n + 1) + 1 ELSE 0
          /\ \A k \in 1..(Len(idle) - (n + 1) + 1) : idle'[k] = idle[(n + 1) + k - 1]
      BY <2>1, <3>1, <3>2, SubSeqProperties
    <3> QED
      BY <1>n, <2>2, <3>3
  <2> QED
    BY <1>n, <2>2, <2>3, FrontGoes
<1>4. ASSUME NEW c \in Clients, GiveBackReset(c) PROVE OldestFirst'
  <2> DEFINE entry == [instance |-> guard[c], age |-> 0]
  <2>1. idle' = Append(idle, entry) /\ Release(c)
    BY <1>4 DEF GiveBackReset
  <2>2. entry \in IdleEntry
    <3>1. guard[c] \in Instances
      BY <2>1, Released
    <3> QED
      BY <3>1, TimersAssumption DEF IdleEntry
  <2>3. /\ Len(idle') = Len(idle) + 1
        /\ \A k \in 1..Len(idle) : idle'[k] = idle[k]
        /\ idle'[Len(idle) + 1].age = 0
    BY <1>n, <2>1, <2>2, AppendProperties
  <2> HIDE DEF entry
  <2> SUFFICES ASSUME NEW j \in 1..Len(idle'), NEW k \in 1..Len(idle'), j < k
               PROVE  idle'[j].age >= idle'[k].age
    BY DEF OldestFirst
  <2>4. j \in 1..Len(idle) /\ (k \in 1..Len(idle) \/ k = Len(idle) + 1)
    BY <1>n, <2>3
  <2> QED
    BY <1>n, <2>3, <2>4, TimersAssumption DEF OldestFirst
<1>5. CASE Tick
  <2>1. \A k \in 1..Len(idle) :
          idle'[k].age = IF idle[k].age < InstanceIdle THEN idle[k].age + 1 ELSE idle[k].age
    <3> SUFFICES ASSUME NEW k \in 1..Len(idle)
                 PROVE  idle'[k].age
                          = IF idle[k].age < InstanceIdle THEN idle[k].age + 1 ELSE idle[k].age
      OBVIOUS
    <3>1. idle[k] \in IdleEntry
      BY <1>n, ElementOfSeq
    <3>2. idle'[k] = [idle[k] EXCEPT !.age = IF @ < InstanceIdle THEN @ + 1 ELSE @]
      BY <1>5 DEF Tick
    <3> QED
      BY <3>1, <3>2 DEF IdleEntry
  <2>2. Len(idle') = Len(idle)
    BY <1>5, <1>n DEF Tick
  <2> QED
    BY <1>n, <2>1, <2>2, TimersAssumption DEF OldestFirst
<1>6. ASSUME NEW c \in Clients, ClientStep(c), ~CheckoutIdle(c), ~GiveBackReset(c)
      PROVE  idle' = idle
  BY <1>6
  DEF ClientStep, CheckoutStart, Attempt, CheckoutGivesUp, CheckoutClosed, CheckoutGrow,
      CheckoutGrowFails, CheckoutExhausted, CheckoutWait, WaitTimesOut, SpuriousWakeup, Invoke,
      GiveBack, GiveBackClosed, GiveBackResetFails, Discard, NotifyOne, inner
<1>7. CASE Close \/ CloseNotify \/ UNCHANGED vars
  BY <1>1, <1>7 DEF Close, CloseNotify, vars, inner
<1> QED
  BY <1>1, <1>2, <1>3, <1>4, <1>5, <1>6, <1>7 DEF Next, HostStep

-----------------------------------------------------------------------------
(* Theorems *)

WaitInv ==
  OldestFirst /\ NoStrandedInstance /\ CloseWakesEveryWaiter /\ TimedOutAtDeadline

LEMMA WaitInit == Init => WaitInv /\ NoStrandedCapacity
<1> SUFFICES ASSUME Init PROVE WaitInv /\ NoStrandedCapacity
  OBVIOUS
<1>1. Sleepers = {}
  BY DEF Init, Sleepers
<1>2. OldestFirst
  <2>1. idle \in [1..InstancesMin -> [instance : Instances, age : {0}]]
    BY DEF Init
  <2>2. Len(idle) = InstancesMin
    BY <2>1, PoolConfigAssumption
  <2>3. \A k \in 1..Len(idle) : idle[k].age = 0
    BY <2>1, <2>2
  <2> QED
    BY <2>3 DEF OldestFirst
<1> QED
  BY <1>1, <1>2
  DEF Init, WaitInv, NoStrandedInstance, NoStrandedCapacity, CloseWakesEveryWaiter,
      TimedOutAtDeadline

LEMMA WaitAlways == Spec => []WaitInv
<1>1. Init => WaitInv
  BY WaitInit
<1>2. IInv /\ IInv' /\ WaitInv /\ [Next]_vars => WaitInv'
  <2> SUFFICES ASSUME IInv, IInv', WaitInv, [Next]_vars PROVE WaitInv'
    OBVIOUS
  <2>1. TypeOK
    BY DEF IInv
  <2> QED
    BY <2>1, OldestFirstNext, NoStrandedInstanceNext, CloseWakesNext, TimedOutNext DEF WaitInv
<1> QED
  BY <1>1, <1>2, Invariance, PTL DEF Spec

\* reap_idle may stop at the first instance that is fresh enough: none behind it is staler.
THEOREM DequeInOrderOfAge == Spec => []OldestFirst
<1>1. WaitInv => OldestFirst
  BY DEF WaitInv
<1> QED
  BY <1>1, WaitAlways, PTL

\* notify_one after every give_back is enough: while a checkout sleeps, each idle instance
\* has a wake-up under way, spurious wake-ups and timeouts included.
THEOREM NoInstanceStranded == Spec => []NoStrandedInstance
<1>1. WaitInv => NoStrandedInstance
  BY DEF WaitInv
<1> QED
  BY <1>1, WaitAlways, PTL

\* Nobody sleeps on in a closed pool.
THEOREM CloseWakesAll == Spec => []CloseWakesEveryWaiter
<1>1. WaitInv => CloseWakesEveryWaiter
  BY DEF WaitInv
<1> QED
  BY <1>1, WaitAlways, PTL

\* Where instantiate never fails, no place below the ceiling is stranded either.
THEOREM NoCapacityStranded ==
  ASSUME ~InstantiateFails
  PROVE  Spec => []NoStrandedCapacity
<1>1. Init => NoStrandedCapacity
  BY WaitInit
<1>2. IInv /\ IInv' /\ NoStrandedCapacity /\ [Next]_vars => NoStrandedCapacity'
  BY NoStrandedCapacityNext
<1> QED
  BY <1>1, <1>2, Invariance, PTL DEF Spec

\* Exhaustion is reported at the deadline and not before, and never with an instance idle.
THEOREM ExhaustionIsHonest == Spec => ExhaustedOnlyAtDeadline
<1>1. ASSUME IInv, WaitInv, [Next]_vars, NEW c \in Clients,
             pc[c] /= "exhausted", pc'[c] = "exhausted"
      PROVE  left[c] = 0 /\ idle = <<>>
  <2>1. TypeOK
    BY <1>1 DEF IInv
  <2>2. CheckoutGivesUp(c) \/ CheckoutExhausted(c)
    <3>1. CASE HostStep \/ UNCHANGED vars
      BY <1>1, <3>1 DEF HostStep, ReapIdle, Close, CloseNotify, Tick, vars
    <3>2. ASSUME NEW d \in Clients, ClientStep(d)
          PROVE  CheckoutGivesUp(c) \/ CheckoutExhausted(c)
      <4>1. CASE d /= c
        BY <1>1, <2>1, <3>2, <4>1
        DEF ClientStep, CheckoutStart, Attempt, CheckoutGivesUp, CheckoutClosed, CheckoutIdle,
            CheckoutGrow, CheckoutGrowFails, CheckoutExhausted, CheckoutWait, HandOut, Return,
            WaitTimesOut, SpuriousWakeup, Invoke, GiveBack, GiveBackClosed, GiveBackReset,
            GiveBackResetFails, Release, NotifyOne, TypeOK
      <4>2. CASE d = c
        BY <1>1, <2>1, <3>2, <4>2
        DEF ClientStep, CheckoutStart, Attempt, CheckoutGivesUp, CheckoutClosed, CheckoutIdle,
            CheckoutGrow, CheckoutGrowFails, CheckoutExhausted, CheckoutWait, HandOut, Return,
            WaitTimesOut, SpuriousWakeup, Invoke, GiveBack, GiveBackClosed, GiveBackReset,
            GiveBackResetFails, Release, NotifyOne, TypeOK
      <4> QED
        BY <4>1, <4>2
    <3> QED
      BY <1>1, <3>1, <3>2 DEF Next
  <2>3. CASE CheckoutGivesUp(c)
    BY <1>1, <2>3 DEF CheckoutGivesUp, GivesUp, WaitInv, TimedOutAtDeadline
  <2>4. CASE CheckoutExhausted(c)
    BY <2>4 DEF CheckoutExhausted, FindsNothing
  <2> QED
    BY <2>2, <2>3, <2>4
<1>2. IInv /\ WaitInv /\ [Next]_vars =>
        [\A c \in Clients :
           pc[c] /= "exhausted" /\ pc'[c] = "exhausted" => left[c] = 0 /\ idle = <<>>]_vars
  BY <1>1
<1> QED
  BY <1>2, Invariance, WaitAlways, PTL DEF Spec, ExhaustedOnlyAtDeadline
=============================================================================
