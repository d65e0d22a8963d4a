--------------------------- MODULE InstancePoolProofs ---------------------------
(***************************************************************************)
(* Proofs about InstancePool, for every value of its constants.            *)
(***************************************************************************)
EXTENDS InstancePool, FiniteSetTheorems, SequenceTheorems, TLAPS

\* What ownership of a Box gives: an instance is idle at one place of the deque or in one
\* guard, never both.  It carries the other parts over a hand-out.
Exclusive ==
  /\ \A j, k \in 1..Len(idle) : idle[j].instance = idle[k].instance => j = k
  /\ \A c, d \in Holders : guard[c] = guard[d] => c = d
  /\ \A c \in Holders : guard[c] \notin IdleInstances

\* The inductive invariant.  None of its parts is inductive alone: the counters need
\* the types, lowering `queued` needs that it counts the waiters, and an instance is
\* exclusive only because what is handed out was idle in one place, or unused.
IInv == TypeOK /\ CountersHonest /\ Exclusive /\ Isolation

-----------------------------------------------------------------------------
(* Counting *)

\* The waiters and the guards are finite in number.
LEMMA FiniteSets == IsFiniteSet(Waiting) /\ IsFiniteSet(Holders)
BY ClientsAssumption, FS_Subset DEF Waiting, Holders

\* A set that gains one element counts one more.
LEMMA CountUp ==
  ASSUME NEW S, NEW x, IsFiniteSet(S), x \notin S
  PROVE  Cardinality(S \union {x}) = Cardinality(S) + 1
BY FS_AddElement

\* A set that loses one element counts one less, and counted one at least.
LEMMA CountDown ==
  ASSUME NEW S, NEW x, IsFiniteSet(S), x \in S
  PROVE  /\ Cardinality(S \ {x}) = Cardinality(S) - 1
         /\ Cardinality(S) \in Nat
         /\ Cardinality(S) > 0
BY FS_RemoveElement, FS_CardinalityType, FS_EmptySet

-----------------------------------------------------------------------------
(* The initial states *)

LEMMA InitIInv == Init => IInv
<1> SUFFICES ASSUME Init PROVE IInv
  OBVIOUS
<1> USE PoolConfigAssumption, TimersAssumption, ClientsAssumption
<1>1. Holders = {} /\ Waiting = {}
  BY DEF Init, Holders, Waiting
<1>2. idle \in Seq(IdleEntry) /\ Len(idle) = InstancesMin
  <2>1. idle \in [1..InstancesMin -> IdleEntry]
    BY DEF Init, IdleEntry
  <2> QED
    BY <2>1
<1>3. TypeOK
  <2>1. live \in 0..InstancesMax /\ active \in Nat /\ queued \in Nat
    BY DEF Init
  <2>2. /\ closed \in BOOLEAN /\ closing \in BOOLEAN
        /\ closing => closed
        /\ closed => idle = <<>>
    BY DEF Init
  <2>3. pc \in [Clients -> PCs] /\ left \in [Clients -> 0..CheckoutTimeout]
    BY DEF Init, PCs, Resting
  <2>4. /\ guard \in [Clients -> Instances \union {NoInstance}]
        /\ \A c \in Clients : guard[c] \in Instances <=> pc[c] = "busy"
        /\ dirty \subseteq Instances
    BY DEF Init
  <2> QED
    BY <1>2, <2>1, <2>2, <2>3, <2>4 DEF TypeOK
<1>4. CountersHonest
  BY <1>1, <1>2, FS_EmptySet DEF Init, CountersHonest
<1>5. Exclusive
  BY <1>1, <1>2 DEF Init, Exclusive
<1>6. Isolation
  BY DEF Init, Isolation
<1> QED
  BY <1>3, <1>4, <1>5, <1>6 DEF IInv

-----------------------------------------------------------------------------
(* Steps *)

\* A step that touches neither the deque, nor the guards, nor an instance keeps the
\* instances where they are.
LEMMA InstancesKept ==
  ASSUME IInv, UNCHANGED <<idle, guard, dirty>>, Holders' = Holders
  PROVE  Exclusive' /\ Isolation'
BY DEF IInv, Exclusive, Isolation, HeldInstances, IdleInstances

LEMMA CheckoutStartStep ==
  ASSUME IInv, NEW c \in Clients, CheckoutStart(c)
  PROVE  IInv'
<1> USE DEF CheckoutStart, inner
<1>1. TypeOK'
  BY TimersAssumption DEF IInv, TypeOK, PCs, Resting, Entering
<1>2. Holders' = Holders /\ Waiting' = Waiting
  BY DEF Holders, Waiting, IInv, TypeOK, Resting
<1>3. CountersHonest'
  BY <1>2 DEF IInv, CountersHonest
<1> QED
  BY <1>1, <1>2, <1>3, InstancesKept DEF IInv

\* A client that comes back from a wait is still counted as queued; what the counter
\* will be without it is the number of the others that wait.
LEMMA QueuedWithout ==
  ASSUME IInv, NEW c \in Clients, pc[c] \in Entering
  PROVE  /\ IsFiniteSet(Waiting \ {c})
         /\ QueuedOnEntry(c) = Cardinality(Waiting \ {c})
         /\ QueuedOnEntry(c) \in Nat
         /\ c \notin Holders
<1>1. c \notin Holders
  BY DEF Holders, Entering
<1>2. IsFiniteSet(Waiting) /\ IsFiniteSet(Waiting \ {c})
  BY FiniteSets, FS_Subset
<1>3. Cardinality(Waiting \ {c}) \in Nat
  BY <1>2, FS_CardinalityType
<1>4. CASE pc[c] = "entering"
  <2>1. Waiting \ {c} = Waiting
    BY <1>4 DEF Waiting
  <2> QED
    BY <1>1, <1>2, <1>3, <1>4, <2>1 DEF QueuedOnEntry, IInv, CountersHonest
<1>5. CASE pc[c] \in {"woken", "timedout"}
  <2>1. c \in Waiting
    BY <1>5 DEF Waiting
  <2> QED
    BY <1>1, <1>2, <1>3, <1>5, <2>1, CountDown DEF QueuedOnEntry, IInv, CountersHonest
<1> QED
  BY <1>4, <1>5 DEF Entering

\* A checkout that ends empty-handed.
LEMMA EmptyHanded ==
  ASSUME IInv, NEW c \in Clients, pc[c] \in Entering, NEW outcome \in Resting,
         Return(c, outcome), UNCHANGED <<idle, live, active, guard>>
  PROVE  IInv'
<1> USE DEF Return
<1>1. Holders' = Holders /\ Waiting' = Waiting \ {c}
  BY DEF Holders, Waiting, IInv, TypeOK, Resting, Entering
<1>2. TypeOK'
  <2>1. pc' \in [Clients -> PCs] /\ left' \in [Clients -> 0..CheckoutTimeout]
    BY TimersAssumption DEF IInv, TypeOK, PCs
  <2>2. \A d \in Clients : guard'[d] \in Instances <=> pc'[d] = "busy"
    BY DEF IInv, TypeOK, Resting, Entering
  <2> QED
    BY <2>1, <2>2, QueuedWithout DEF IInv, TypeOK
<1>3. CountersHonest'
  BY <1>1, QueuedWithout DEF IInv, CountersHonest
<1> QED
  BY <1>1, <1>2, <1>3, InstancesKept DEF IInv

\* A checkout that hands out an instance: what changes whether it was idle or is new.
LEMMA HandedOut ==
  ASSUME IInv, NEW c \in Clients, pc[c] \in Entering, NEW i \in Instances, HandOut(c, i)
  PROVE  /\ Holders' = Holders \union {c}
         /\ HeldInstances' = HeldInstances \union {i}
         /\ \A d \in Holders : guard'[d] = guard[d]
         /\ guard'[c] = i
         /\ active' = Cardinality(Holders')
         /\ queued' = Cardinality(Waiting')
         /\ active' = active + 1
         /\ active' \in Nat /\ queued' \in Nat
         /\ pc' \in [Clients -> PCs]
         /\ left' \in [Clients -> 0..CheckoutTimeout]
         /\ guard' \in [Clients -> Instances \union {NoInstance}]
         /\ \A d \in Clients : guard'[d] \in Instances <=> pc'[d] = "busy"
         /\ UNCHANGED <<closed, closing, dirty>>
<1> USE DEF HandOut, Return
<1>1. Holders' = Holders \union {c} /\ Waiting' = Waiting \ {c} /\ c \notin Holders
  BY DEF Holders, Waiting, IInv, TypeOK, Entering
<1>2. (\A d \in Holders : guard'[d] = guard[d]) /\ guard'[c] = i
  BY <1>1 DEF IInv, TypeOK, Holders
<1>3. HeldInstances' = HeldInstances \union {i}
  BY <1>1, <1>2 DEF HeldInstances
<1>4. active' = Cardinality(Holders') /\ active' \in Nat /\ active' = active + 1
  BY <1>1, CountUp, FiniteSets DEF IInv, TypeOK, CountersHonest
<1>5. queued' = Cardinality(Waiting') /\ queued' \in Nat
  BY <1>1, QueuedWithout
<1>6. /\ pc' \in [Clients -> PCs]
      /\ left' \in [Clients -> 0..CheckoutTimeout]
      /\ guard' \in [Clients -> Instances \union {NoInstance}]
  BY TimersAssumption DEF IInv, TypeOK, PCs
<1>7. \A d \in Clients : guard'[d] \in Instances <=> pc'[d] = "busy"
  BY DEF IInv, TypeOK
<1> QED
  BY <1>1, <1>2, <1>3, <1>4, <1>5, <1>6, <1>7

LEMMA CheckoutIdleStep ==
  ASSUME IInv, NEW c \in Clients, CheckoutIdle(c)
  PROVE  IInv'
<1> DEFINE i == Head(idle).instance
<1> USE DEF CheckoutIdle, InLoop
<1>1. idle \in Seq(IdleEntry) /\ idle /= <<>> /\ Len(idle) \in Nat \ {0}
  BY EmptySeq DEF IInv, TypeOK
<1>2. /\ idle' \in Seq(IdleEntry)
      /\ Len(idle') = Len(idle) - 1
      /\ \A k \in 1..Len(idle') : idle'[k] = idle[k + 1]
  BY <1>1, HeadTailProperties
<1>3. /\ Head(idle) = idle[1] /\ i = idle[1].instance
      /\ i \in Instances /\ i \in IdleInstances
  <2>1. 1 \in 1..Len(idle)
    BY <1>1
  <2>2. idle[1] \in IdleEntry /\ idle[1].instance \in IdleInstances
    BY <1>1, <2>1, ElementOfSeq DEF IdleInstances
  <2>3. Head(idle) = idle[1]
    BY <1>1
  <2> QED
    BY <2>2, <2>3 DEF IdleEntry
<1>4. i \notin HeldInstances /\ HandOut(c, i) /\ pc[c] \in Entering
  BY <1>3 DEF IInv, Exclusive, HeldInstances
<1> HIDE DEF i
<1>h. /\ Holders' = Holders \union {c}
      /\ HeldInstances' = HeldInstances \union {i}
      /\ \A d \in Holders : guard'[d] = guard[d] /\ guard[d] \in HeldInstances
      /\ guard'[c] = i
  BY <1>3, <1>4, HandedOut DEF HeldInstances
<1>5. IdleInstances' \subseteq IdleInstances /\ i \notin IdleInstances'
  <2>1. \A k \in 1..Len(idle') : k + 1 \in 1..Len(idle) /\ k + 1 /= 1
    BY <1>1, <1>2
  <2>2. \A k \in 1..Len(idle') : idle'[k].instance \in IdleInstances
    BY <1>2, <2>1 DEF IdleInstances
  <2>3. \A k \in 1..Len(idle') : idle'[k].instance /= i
    BY <1>1, <1>2, <1>3, <2>1 DEF IInv, Exclusive, i
  <2> QED
    BY <2>2, <2>3 DEF IdleInstances
<1>6. TypeOK'
  BY <1>2, <1>3, <1>4, HandedOut DEF IInv, TypeOK
<1>7. CountersHonest'
  BY <1>1, <1>2, <1>3, <1>4, HandedOut DEF IInv, CountersHonest, TypeOK
<1>8. Exclusive'
  <2>1. \A j, k \in 1..Len(idle') : idle'[j].instance = idle'[k].instance => j = k
    BY <1>1, <1>2 DEF IInv, Exclusive
  <2>2. \A d, e \in Holders' : guard'[d] = guard'[e] => d = e
    BY <1>4, <1>h DEF IInv, Exclusive
  <2>3. \A d \in Holders' : guard'[d] \notin IdleInstances'
    BY <1>5, <1>h DEF IInv, Exclusive
  <2> QED
    BY <2>1, <2>2, <2>3 DEF Exclusive
<1>9. Isolation'
  BY <1>3, <1>4, <1>5, HandedOut DEF IInv, Isolation
<1> QED
  BY <1>6, <1>7, <1>8, <1>9 DEF IInv

LEMMA CheckoutGrowStep ==
  ASSUME IInv, NEW c \in Clients, CheckoutGrow(c)
  PROVE  IInv'
<1> USE DEF CheckoutGrow, FindsNothing, InLoop
<1>1. PICK i \in Unused : HandOut(c, i)
  OBVIOUS
<1>2. i \in Instances /\ i \notin HeldInstances /\ i \notin IdleInstances
  BY DEF Unused, Existing
<1>3. IdleInstances' = IdleInstances
  BY DEF IdleInstances
<1>4. TypeOK'
  <2>1. live' \in 0..InstancesMax
    BY PoolConfigAssumption DEF IInv, TypeOK
  <2> QED
    BY <1>1, <1>2, <2>1, HandedOut DEF IInv, TypeOK
<1>5. CountersHonest'
  BY <1>1, <1>2, HandedOut, EmptySeq DEF IInv, CountersHonest, TypeOK
<1>6. Exclusive'
  <2>1. \A d, e \in Holders' : guard'[d] = guard'[e] => d = e
    BY <1>1, <1>2, HandedOut DEF IInv, Exclusive, HeldInstances
  <2>2. \A d \in Holders' : guard'[d] \notin IdleInstances'
    BY <1>1, <1>2, <1>3, HandedOut DEF IInv, Exclusive
  <2> QED
    BY <2>1, <2>2 DEF IInv, Exclusive
<1>7. Isolation'
  BY <1>1, <1>2, <1>3, HandedOut DEF IInv, Isolation
<1> QED
  BY <1>4, <1>5, <1>6, <1>7 DEF IInv

LEMMA CheckoutWaitStep ==
  ASSUME IInv, NEW c \in Clients, CheckoutWait(c)
  PROVE  IInv'
<1> USE DEF CheckoutWait, FindsNothing, InLoop
<1>1. Holders' = Holders /\ Waiting' = (Waiting \ {c}) \union {c}
  BY DEF Holders, Waiting, IInv, TypeOK, Entering
<1>2. queued' = Cardinality(Waiting') /\ queued' \in Nat
  <2>1. /\ IsFiniteSet(Waiting \ {c})
        /\ QueuedOnEntry(c) = Cardinality(Waiting \ {c})
        /\ QueuedOnEntry(c) \in Nat
    BY QueuedWithout
  <2>2. c \notin Waiting \ {c}
    OBVIOUS
  <2> QED
    BY <1>1, <2>1, <2>2, CountUp
<1>3. TypeOK'
  BY <1>2 DEF IInv, TypeOK, PCs, Entering
<1>4. CountersHonest'
  BY <1>1, <1>2 DEF IInv, CountersHonest
<1> QED
  BY <1>1, <1>3, <1>4, InstancesKept DEF IInv

\* A step that only moves clients among the waiting, or among the rest that hold nothing.
LEMMA ClientsMove ==
  ASSUME IInv, UNCHANGED <<inner, left, guard, dirty>>,
         closing' \in BOOLEAN, closing' => closing,
         pc' \in [Clients -> PCs],
         \A c \in Clients : pc'[c] = "busy" <=> pc[c] = "busy",
         Waiting' = Waiting
  PROVE  IInv'
<1> USE DEF inner
<1>1. Holders' = Holders
  BY DEF Holders
<1>2. TypeOK'
  BY DEF IInv, TypeOK
<1>3. CountersHonest'
  BY <1>1 DEF IInv, CountersHonest
<1> QED
  BY <1>1, <1>2, <1>3, InstancesKept DEF IInv

LEMMA WaitTimesOutStep ==
  ASSUME IInv, NEW c \in Clients, WaitTimesOut(c)
  PROVE  IInv'
<1>1. pc' \in [Clients -> PCs] /\ Waiting' = Waiting
  BY DEF WaitTimesOut, IInv, TypeOK, PCs, Entering, Waiting
<1>2. \A d \in Clients : pc'[d] = "busy" <=> pc[d] = "busy"
  BY DEF WaitTimesOut, IInv, TypeOK
<1>3. closing' \in BOOLEAN
  BY DEF WaitTimesOut, IInv, TypeOK
<1> QED
  BY <1>1, <1>2, <1>3, ClientsMove DEF WaitTimesOut

LEMMA SpuriousWakeupStep ==
  ASSUME IInv, NEW c \in Clients, SpuriousWakeup(c)
  PROVE  IInv'
<1>1. pc' \in [Clients -> PCs] /\ Waiting' = Waiting
  BY DEF SpuriousWakeup, IInv, TypeOK, PCs, Entering, Waiting
<1>2. \A d \in Clients : pc'[d] = "busy" <=> pc[d] = "busy"
  BY DEF SpuriousWakeup, IInv, TypeOK
<1>3. closing' \in BOOLEAN
  BY DEF SpuriousWakeup, IInv, TypeOK
<1> QED
  BY <1>1, <1>2, <1>3, ClientsMove DEF SpuriousWakeup

LEMMA NotifyOneStep ==
  ASSUME IInv, NEW c \in Clients, NotifyOne(c)
  PROVE  IInv'
<1>1. UNCHANGED <<inner, left, guard, dirty, closing>> /\ closing' \in BOOLEAN
  BY DEF NotifyOne, IInv, TypeOK
<1>2. CASE pc' = [pc EXCEPT ![c] = "ready"]
  <2>1. pc' \in [Clients -> PCs] /\ Waiting' = Waiting
    BY <1>2 DEF NotifyOne, IInv, TypeOK, PCs, Resting, Waiting
  <2>2. \A d \in Clients : pc'[d] = "busy" <=> pc[d] = "busy"
    BY <1>2 DEF NotifyOne, IInv, TypeOK
  <2> QED
    BY <1>1, <2>1, <2>2, ClientsMove
<1>3. CASE \E w \in Sleepers : pc' = [pc EXCEPT ![c] = "ready", ![w] = "woken"]
  <2>1. PICK w \in Sleepers : pc' = [pc EXCEPT ![c] = "ready", ![w] = "woken"]
    BY <1>3
  <2>2. w \in Clients /\ pc[w] = "sleeping" /\ pc[c] = "notifying"
    BY DEF Sleepers, NotifyOne
  <2>3. /\ pc' \in [Clients -> PCs]
        /\ \A d \in Clients : pc'[d] = IF d = w THEN "woken"
                                       ELSE IF d = c THEN "ready" ELSE pc[d]
    BY <2>1, <2>2 DEF IInv, TypeOK, PCs, Resting, Entering
  <2>4. Waiting' = Waiting
    BY <2>2, <2>3 DEF Waiting
  <2>5. \A d \in Clients : pc'[d] = "busy" <=> pc[d] = "busy"
    BY <2>2, <2>3
  <2> QED
    BY <1>1, <2>3, <2>4, <2>5, ClientsMove
<1> QED
  BY <1>2, <1>3 DEF NotifyOne

LEMMA CloseNotifyStep ==
  ASSUME IInv, CloseNotify
  PROVE  IInv'
<1>1. pc' \in [Clients -> PCs] /\ Waiting' = Waiting
  BY DEF CloseNotify, IInv, TypeOK, PCs, Entering, Waiting, Sleepers
<1>2. \A d \in Clients : pc'[d] = "busy" <=> pc[d] = "busy"
  BY DEF CloseNotify, IInv, TypeOK, Sleepers
<1> QED
  BY <1>1, <1>2, ClientsMove DEF CloseNotify

LEMMA InvokeStep ==
  ASSUME IInv, NEW c \in Clients, Invoke(c)
  PROVE  IInv'
<1> USE DEF Invoke, inner
<1>1. c \in Holders /\ guard[c] \in HeldInstances /\ guard[c] \in Instances
  BY DEF Holders, HeldInstances, IInv, TypeOK
<1>2. /\ Holders' = Holders /\ Waiting' = Waiting
      /\ HeldInstances' = HeldInstances /\ IdleInstances' = IdleInstances
  BY DEF Holders, Waiting, HeldInstances, IdleInstances
<1>3. TypeOK'
  BY <1>1 DEF IInv, TypeOK
<1>4. CountersHonest'
  BY <1>2 DEF IInv, CountersHonest
<1>5. Exclusive'
  BY <1>2 DEF IInv, Exclusive
<1>6. Isolation'
  BY <1>1, <1>2 DEF IInv, Isolation, Exclusive
<1> QED
  BY <1>3, <1>4, <1>5, <1>6 DEF IInv

\* A guard is dropped: what changes whether its instance is pooled or not.
LEMMA Released ==
  ASSUME IInv, NEW c \in Clients, Release(c)
  PROVE  /\ c \in Holders
         /\ guard[c] \in Instances
         /\ guard[c] \notin IdleInstances
         /\ Holders' = Holders \ {c}
         /\ \A d \in Holders' : guard'[d] = guard[d]
         /\ HeldInstances' = HeldInstances \ {guard[c]}
         /\ active' = Cardinality(Holders')
         /\ active' = active - 1
         /\ active' \in Nat
         /\ queued' = Cardinality(Waiting')
         /\ pc' \in [Clients -> PCs]
         /\ guard' \in [Clients -> Instances \union {NoInstance}]
         /\ \A d \in Clients : guard'[d] \in Instances <=> pc'[d] = "busy"
         /\ UNCHANGED <<queued, closed, left, closing>>
<1> USE DEF Release
<1>1. c \in Holders /\ guard[c] \in Instances
  BY DEF Holders, IInv, TypeOK
<1>2. guard[c] \notin IdleInstances
  BY <1>1 DEF IInv, Exclusive
<1>3. Holders' = Holders \ {c} /\ Waiting' = Waiting
  BY DEF Holders, Waiting, IInv, TypeOK
<1>4. \A d \in Holders' : guard'[d] = guard[d]
  BY <1>3 DEF IInv, TypeOK, Holders
<1>5. HeldInstances' = HeldInstances \ {guard[c]}
  <2>1. \A d \in Holders \ {c} : guard[d] /= guard[c]
    BY <1>1 DEF IInv, Exclusive
  <2> QED
    BY <1>1, <1>3, <1>4, <2>1 DEF HeldInstances
<1>6. active' = Cardinality(Holders') /\ active' = active - 1 /\ active' \in Nat
  <2>1. /\ Cardinality(Holders \ {c}) = Cardinality(Holders) - 1
        /\ Cardinality(Holders) \in Nat
        /\ Cardinality(Holders) > 0
    BY <1>1, FiniteSets, CountDown
  <2> QED
    BY <1>3, <2>1 DEF IInv, CountersHonest, SaturatingSub
<1>7. pc' \in [Clients -> PCs] /\ guard' \in [Clients -> Instances \union {NoInstance}]
  BY DEF IInv, TypeOK, PCs
<1>8. \A d \in Clients : guard'[d] \in Instances <=> pc'[d] = "busy"
  BY ClientsAssumption DEF IInv, TypeOK
<1>9. queued' = Cardinality(Waiting')
  BY <1>3 DEF IInv, CountersHonest
<1> QED
  BY <1>1, <1>2, <1>3, <1>4, <1>5, <1>6, <1>7, <1>8, <1>9

\* The instance is dropped with its guard, as give_back does when closed or not reset.
LEMMA ReleasedAndDiscarded ==
  ASSUME IInv, NEW c \in Clients, Release(c), Discard(c)
  PROVE  IInv'
<1>1. /\ c \in Holders
      /\ Holders' = Holders \ {c}
      /\ \A d \in Holders' : guard'[d] = guard[d]
      /\ HeldInstances' = HeldInstances \ {guard[c]}
      /\ active' = Cardinality(Holders') /\ active' = active - 1 /\ active' \in Nat
  BY Released
<1>2. live' = live - 1 /\ live' \in 0..InstancesMax
  <2>1. live >= active /\ active >= 1
    BY <1>1, LenProperties DEF IInv, TypeOK, CountersHonest
  <2> QED
    BY <1>1, <2>1, PoolConfigAssumption DEF IInv, TypeOK, Discard, SaturatingSub
<1>3. IdleInstances' = IdleInstances /\ UNCHANGED <<idle, closed>>
  BY DEF Discard, IdleInstances, Release
<1>4. TypeOK'
  BY <1>2, <1>3, Released DEF IInv, TypeOK, Discard
<1>5. CountersHonest'
  <2>1. queued' = Cardinality(Waiting')
    BY Released
  <2>2. IF closed' THEN live' >= active' ELSE live' = Len(idle') + active'
    BY <1>1, <1>2, <1>3, LenProperties DEF IInv, CountersHonest, TypeOK
  <2> QED
    BY <1>1, <2>1, <2>2 DEF CountersHonest
<1>6. Exclusive'
  BY <1>1, <1>3 DEF IInv, Exclusive
<1>7. Isolation'
  BY <1>1, <1>3 DEF IInv, Isolation, Discard
<1> QED
  BY <1>4, <1>5, <1>6, <1>7 DEF IInv

LEMMA GiveBackResetStep ==
  ASSUME IInv, NEW c \in Clients, GiveBackReset(c)
  PROVE  IInv'
<1> DEFINE entry == [instance |-> guard[c], age |-> 0]
<1>1. /\ Release(c) /\ ~closed
      /\ idle' = Append(idle, entry)
      /\ dirty' = dirty \ {guard[c]}
      /\ live' = live
  BY DEF GiveBackReset
<1>2. /\ c \in Holders
      /\ guard[c] \in Instances
      /\ guard[c] \notin IdleInstances
      /\ Holders' = Holders \ {c}
      /\ \A d \in Holders' : guard'[d] = guard[d]
      /\ HeldInstances' = HeldInstances \ {guard[c]}
  BY <1>1, Released
<1>3. entry \in IdleEntry /\ idle \in Seq(IdleEntry) /\ Len(idle) \in Nat
  BY <1>2, TimersAssumption, LenProperties DEF IdleEntry, IInv, TypeOK
<1>4. /\ idle' \in Seq(IdleEntry)
      /\ Len(idle') = Len(idle) + 1
      /\ \A k \in 1..Len(idle) : idle'[k] = idle[k]
      /\ idle'[Len(idle) + 1].instance = guard[c]
  BY <1>1, <1>3, AppendProperties
<1> HIDE DEF entry
<1>5. \A k \in 1..Len(idle') : k \in 1..Len(idle) \/ k = Len(idle) + 1
  BY <1>3, <1>4
<1>6. IdleInstances' = IdleInstances \union {guard[c]}
  <2>1. \A k \in 1..Len(idle') :
          idle'[k].instance \in IdleInstances \union {guard[c]}
    BY <1>4, <1>5 DEF IdleInstances
  <2>2. \A k \in 1..Len(idle) : k \in 1..Len(idle') /\ idle'[k].instance = idle[k].instance
    BY <1>3, <1>4
  <2>3. Len(idle) + 1 \in 1..Len(idle')
    BY <1>3, <1>4
  <2> QED
    BY <1>4, <2>1, <2>2, <2>3 DEF IdleInstances
<1>7. TypeOK'
  BY <1>1, <1>4, Released DEF IInv, TypeOK
<1>8. CountersHonest'
  <2>1. active' = Cardinality(Holders') /\ active' = active - 1 /\ active' \in Nat
        /\ queued' = Cardinality(Waiting') /\ closed' = closed
    BY <1>1, Released
  <2>2. live' = Len(idle') + active'
    BY <1>1, <1>3, <1>4, <2>1 DEF IInv, CountersHonest, TypeOK
  <2> QED
    BY <1>1, <2>1, <2>2 DEF CountersHonest
<1>9. Exclusive'
  <2>1. \A j, k \in 1..Len(idle') : idle'[j].instance = idle'[k].instance => j = k
    <3>1. \A k \in 1..Len(idle) : idle'[k].instance /= guard[c]
      BY <1>2, <1>4 DEF IdleInstances
    <3>2. \A j, k \in 1..Len(idle) : idle'[j].instance = idle'[k].instance => j = k
      BY <1>4 DEF IInv, Exclusive
    <3> QED
      BY <1>4, <1>5, <3>1, <3>2
  <2>2. \A d \in Holders' : guard'[d] \notin IdleInstances'
    BY <1>2, <1>6 DEF IInv, Exclusive
  <2> QED
    BY <1>2, <2>1, <2>2 DEF IInv, Exclusive
<1>10. Isolation'
  BY <1>1, <1>2, <1>6 DEF IInv, Isolation
<1> QED
  BY <1>7, <1>8, <1>9, <1>10 DEF IInv

LEMMA GiveBackStep ==
  ASSUME IInv, NEW c \in Clients, GiveBack(c)
  PROVE  IInv'
<1>1. CASE GiveBackClosed(c)
  BY <1>1, ReleasedAndDiscarded DEF GiveBackClosed
<1>2. CASE GiveBackReset(c)
  BY <1>2, GiveBackResetStep
<1>3. CASE GiveBackResetFails(c)
  BY <1>3, ReleasedAndDiscarded DEF GiveBackResetFails
<1> QED
  BY <1>1, <1>2, <1>3 DEF GiveBack

LEMMA ReapIdleStep ==
  ASSUME IInv, ReapIdle
  PROVE  IInv'
<1>1. PICK n \in 1..Len(idle) :
        /\ Reapable(n)
        /\ idle' = SubSeq(idle, n + 1, Len(idle))
        /\ live' = live - n
  BY DEF ReapIdle
<1>2. UNCHANGED <<active, queued, closed, pc, left, guard, closing, dirty>>
  BY DEF ReapIdle
<1>3. idle \in Seq(IdleEntry) /\ Len(idle) \in Nat /\ n \in Nat /\ n <= Len(idle)
  BY <1>1, LenProperties DEF IInv, TypeOK
<1>4. /\ idle' \in Seq(IdleEntry)
      /\ Len(idle') = Len(idle) - n
      /\ \A k \in 1..Len(idle') : idle'[k] = idle[k + n]
  <2>1. \A k \in (n + 1)..Len(idle) : idle[k] \in IdleEntry
    BY <1>3, ElementOfSeq
  <2>2. /\ idle' \in Seq(IdleEntry)
        /\ Len(idle') = IF n + 1 <= Len(idle) THEN Len(idle) - (n + 1) + 1 ELSE 0
        /\ \A k \in 1..(Len(idle) - (n + 1) + 1) : idle'[k] = idle[(n + 1) + k - 1]
    <3> HIDE DEF IInv
    <3>1. n + 1 \in Int /\ Len(idle) \in Int
      BY <1>3
    <3> QED
      BY <1>1, <2>1, <3>1, SubSeqProperties
  <2> QED
    BY <1>3, <2>2
<1>5. \A k \in 1..Len(idle') : k + n \in 1..Len(idle)
  BY <1>3, <1>4
<1>6. IdleInstances' \subseteq IdleInstances
  BY <1>4, <1>5 DEF IdleInstances
<1>7. Holders' = Holders /\ Waiting' = Waiting /\ HeldInstances' = HeldInstances
  BY <1>2 DEF Holders, Waiting, HeldInstances
<1>8. TypeOK'
  <2>1. live' \in 0..InstancesMax
    BY <1>1, <1>3, PoolConfigAssumption DEF Reapable, IInv, TypeOK
  <2>2. ~closed
    BY <1>1, <1>3 DEF IInv, TypeOK
  <2> QED
    BY <1>2, <1>4, <2>1, <2>2 DEF IInv, TypeOK
<1>9. CountersHonest'
  <2>1. ~closed
    BY <1>1, <1>3 DEF IInv, TypeOK
  <2>2. live' = Len(idle') + active'
    BY <1>1, <1>2, <1>3, <1>4, <2>1 DEF IInv, CountersHonest, TypeOK
  <2> QED
    BY <1>2, <1>7, <2>1, <2>2 DEF IInv, CountersHonest
<1>10. Exclusive'
  <2>1. \A j, k \in 1..Len(idle') : idle'[j].instance = idle'[k].instance => j = k
    <3> SUFFICES ASSUME NEW j \in 1..Len(idle'), NEW k \in 1..Len(idle'),
                        idle'[j].instance = idle'[k].instance
                 PROVE  j = k
      OBVIOUS
    <3>1. idle[j + n].instance = idle[k + n].instance
      BY <1>4
    <3>2. j + n = k + n
      BY <1>5, <3>1 DEF IInv, Exclusive
    <3> QED
      BY <1>3, <1>4, <3>2
  <2> QED
    BY <1>2, <1>6, <1>7, <2>1 DEF IInv, Exclusive
<1>11. Isolation'
  BY <1>2, <1>6, <1>7 DEF IInv, Isolation
<1> QED
  BY <1>8, <1>9, <1>10, <1>11 DEF IInv

LEMMA CloseStep ==
  ASSUME IInv, Close
  PROVE  IInv'
<1> USE DEF Close
<1>1. /\ Holders' = Holders /\ Waiting' = Waiting /\ HeldInstances' = HeldInstances
      /\ IdleInstances' = {} /\ Len(idle') = 0
  BY DEF Holders, Waiting, HeldInstances, IdleInstances
<1>2. TypeOK'
  BY EmptySeq DEF IInv, TypeOK
<1>3. CountersHonest'
  BY <1>1, LenProperties DEF IInv, CountersHonest, TypeOK
<1>4. Exclusive'
  BY <1>1 DEF IInv, Exclusive
<1>5. Isolation'
  BY <1>1 DEF IInv, Isolation
<1> QED
  BY <1>2, <1>3, <1>4, <1>5 DEF IInv

LEMMA TickStep ==
  ASSUME IInv, Tick
  PROVE  IInv'
<1>1. UNCHANGED <<live, active, queued, closed, pc, guard, closing, dirty>>
  BY DEF Tick
<1>2. idle \in Seq(IdleEntry) /\ Len(idle) \in Nat
  BY LenProperties DEF IInv, TypeOK
<1>3. \A k \in 1..Len(idle) :
        idle'[k] = [idle[k] EXCEPT !.age = IF @ < InstanceIdle THEN @ + 1 ELSE @]
  BY DEF Tick
<1>4. \A k \in 1..Len(idle) : idle'[k] \in IdleEntry /\ idle'[k].instance = idle[k].instance
  <2> SUFFICES ASSUME NEW k \in 1..Len(idle)
               PROVE  idle'[k] \in IdleEntry /\ idle'[k].instance = idle[k].instance
    OBVIOUS
  <2> DEFINE a == idle[k].age
             b == IF a < InstanceIdle THEN a + 1 ELSE a
  <2>1. idle[k] \in [instance : Instances, age : 0..InstanceIdle]
    BY <1>2, ElementOfSeq DEF IdleEntry
  <2>2. b \in 0..InstanceIdle
    BY <2>1, TimersAssumption
  <2>3. idle'[k] = [idle[k] EXCEPT !.age = b]
    BY <1>3
  <2> HIDE DEF b
  <2> QED
    BY <2>1, <2>2, <2>3 DEF IdleEntry
<1>5. idle' \in [1..Len(idle) -> IdleEntry]
  BY <1>4 DEF Tick
<1>6. idle' \in Seq(IdleEntry) /\ Len(idle') = Len(idle)
  BY <1>2, <1>5
<1>7. /\ Holders' = Holders /\ Waiting' = Waiting /\ HeldInstances' = HeldInstances
      /\ IdleInstances' = IdleInstances
  BY <1>1, <1>4, <1>6 DEF Holders, Waiting, HeldInstances, IdleInstances
<1>8. TypeOK'
  <2>1. left' \in [Clients -> 0..CheckoutTimeout]
    BY TimersAssumption DEF Tick, SaturatingSub, IInv, TypeOK
  <2>2. closed => idle' = <<>>
    BY <1>1, <1>6, EmptySeq DEF IInv, TypeOK
  <2> QED
    BY <1>1, <1>6, <2>1, <2>2 DEF IInv, TypeOK
<1>9. CountersHonest'
  BY <1>1, <1>6, <1>7 DEF IInv, CountersHonest
<1>10. Exclusive'
  BY <1>1, <1>4, <1>6, <1>7 DEF IInv, Exclusive
<1>11. Isolation'
  BY <1>1, <1>7 DEF IInv, Isolation
<1> QED
  BY <1>8, <1>9, <1>10, <1>11 DEF IInv

-----------------------------------------------------------------------------
(* The theorems *)

\* Every step keeps the inductive invariant.
LEMMA NextIInv == IInv /\ [Next]_vars => IInv'
<1> SUFFICES ASSUME IInv, [Next]_vars PROVE IInv'
  OBVIOUS
<1>1. ASSUME NEW c \in Clients, CheckoutStart(c) PROVE IInv'
  BY <1>1, CheckoutStartStep
<1>2. ASSUME NEW c \in Clients, Attempt(c) PROVE IInv'
  <2>1. CASE CheckoutGivesUp(c)
    BY <2>1, EmptyHanded DEF CheckoutGivesUp, GivesUp, Entering, Resting
  <2>2. CASE CheckoutClosed(c)
    BY <2>2, EmptyHanded DEF CheckoutClosed, InLoop, Resting
  <2>3. CASE CheckoutIdle(c)
    BY <2>3, CheckoutIdleStep
  <2>4. CASE CheckoutGrow(c)
    BY <2>4, CheckoutGrowStep
  <2>5. CASE CheckoutGrowFails(c)
    BY <2>5, EmptyHanded DEF CheckoutGrowFails, FindsNothing, InLoop, Resting
  <2>6. CASE CheckoutExhausted(c)
    BY <2>6, EmptyHanded DEF CheckoutExhausted, FindsNothing, InLoop, Resting
  <2>7. CASE CheckoutWait(c)
    BY <2>7, CheckoutWaitStep
  <2> QED
    BY <1>2, <2>1, <2>2, <2>3, <2>4, <2>5, <2>6, <2>7 DEF Attempt
<1>3. ASSUME NEW c \in Clients, WaitTimesOut(c) PROVE IInv'
  BY <1>3, WaitTimesOutStep
<1>4. ASSUME NEW c \in Clients, SpuriousWakeup(c) PROVE IInv'
  BY <1>4, SpuriousWakeupStep
<1>5. ASSUME NEW c \in Clients, Invoke(c) PROVE IInv'
  BY <1>5, InvokeStep
<1>6. ASSUME NEW c \in Clients, GiveBack(c) PROVE IInv'
  BY <1>6, GiveBackStep
<1>7. ASSUME NEW c \in Clients, NotifyOne(c) PROVE IInv'
  BY <1>7, NotifyOneStep
<1>8. CASE HostStep
  BY <1>8, ReapIdleStep, CloseStep, CloseNotifyStep, TickStep DEF HostStep
<1>9. CASE UNCHANGED vars
  <2>1. /\ Holders' = Holders /\ Waiting' = Waiting
        /\ UNCHANGED <<idle, live, active, queued, closed, pc, left, guard, closing, dirty>>
    BY <1>9 DEF vars, Holders, Waiting
  <2>2. TypeOK'
    BY <2>1 DEF IInv, TypeOK
  <2>3. CountersHonest'
    BY <2>1 DEF IInv, CountersHonest
  <2> QED
    BY <2>1, <2>2, <2>3, InstancesKept DEF IInv
<1> QED
  BY <1>1, <1>2, <1>3, <1>4, <1>5, <1>6, <1>7, <1>8, <1>9 DEF Next, ClientStep

\* Every behaviour of the pool keeps the inductive invariant.
THEOREM Invariance == Spec => []IInv
<1>1. Init => IInv
  BY InitIInv
<1>2. IInv /\ [Next]_vars => IInv'
  BY NextIInv
<1> QED
  BY <1>1, <1>2, PTL DEF Spec

\* The pool's variables keep their types: no counter underflows, `live` stays within
\* instances_max, a client holds an instance exactly while it is served.
THEOREM TypeCorrect == Spec => []TypeOK
<1>1. IInv => TypeOK
  BY DEF IInv
<1> QED
  BY <1>1, Invariance, PTL

\* The counters that checkout, health and shutdown go by are exact.
THEOREM CountersAreHonest == Spec => []CountersHonest
<1>1. IInv => CountersHonest
  BY DEF IInv
<1> QED
  BY <1>1, Invariance, PTL

\* No instance that waits for an invocation holds state of an earlier one.
THEOREM InvocationsAreIsolated == Spec => []Isolation
<1>1. IInv => Isolation
  BY DEF IInv
<1> QED
  BY <1>1, Invariance, PTL

\* No more instances exist than positions in the deque and guards.
LEMMA ExistingCounted ==
  ASSUME IInv
  PROVE  Cardinality(Existing) \in Nat /\ Cardinality(Existing) <= Len(idle) + active
<1>1. idle \in Seq(IdleEntry) /\ Len(idle) \in Nat
  BY LenProperties DEF IInv, TypeOK
<1>2. IsFiniteSet(IdleInstances) /\ Cardinality(IdleInstances) <= Len(idle)
  <2> DEFINE f == [k \in 1..Len(idle) |-> idle[k].instance]
  <2>1. f \in Surjection(1..Len(idle), IdleInstances)
    BY DEF IdleInstances, Surjection
  <2>2. IsFiniteSet(1..Len(idle)) /\ Cardinality(1..Len(idle)) = Len(idle)
    BY <1>1, FS_Interval
  <2> QED
    BY <2>1, <2>2, FS_Surjection
<1>3. IsFiniteSet(HeldInstances) /\ Cardinality(HeldInstances) <= active
  <2> DEFINE h == [c \in Holders |-> guard[c]]
  <2>1. h \in Surjection(Holders, HeldInstances)
    BY DEF HeldInstances, Surjection
  <2> QED
    BY <2>1, FiniteSets, FS_Surjection DEF IInv, CountersHonest
<1>4. Cardinality(Existing) <= Cardinality(IdleInstances) + Cardinality(HeldInstances)
  <2> DEFINE i == Cardinality(IdleInstances)
             h == Cardinality(HeldInstances)
             b == Cardinality(IdleInstances \intersect HeldInstances)
  <2>1. IsFiniteSet(IdleInstances \intersect HeldInstances)
    BY <1>2, FS_Intersection
  <2>2. i \in Nat /\ h \in Nat /\ b \in Nat
    BY <1>2, <1>3, <2>1, FS_CardinalityType
  <2>3. Cardinality(Existing) = i + h - b
    BY <1>2, <1>3, FS_Union DEF Existing
  <2> HIDE DEF i, h, b
  <2>4. i + h - b <= i + h
    BY <2>2
  <2> QED
    BY <2>3, <2>4 DEF i, h
<1>5. /\ Cardinality(IdleInstances) \in Nat /\ Cardinality(HeldInstances) \in Nat
      /\ Cardinality(Existing) \in Nat /\ active \in Nat
  BY <1>2, <1>3, FS_CardinalityType, FS_Union DEF Existing, IInv, TypeOK
<1> QED
  BY <1>1, <1>2, <1>3, <1>4, <1>5

\* instances_max is a ceiling on the instances that exist.
THEOREM CeilingHolds == Spec => []Ceiling
<1>1. IInv => Ceiling
  <2> SUFFICES ASSUME IInv PROVE Ceiling
    OBVIOUS
  <2>1. Len(idle) + active <= InstancesMax
    BY EmptySeq, LenProperties, PoolConfigAssumption DEF IInv, TypeOK, CountersHonest
  <2>2. Cardinality(Existing) \in Nat /\ Cardinality(Existing) <= Len(idle) + active
    BY ExistingCounted
  <2>3. Len(idle) \in Nat /\ active \in Nat
    BY LenProperties DEF IInv, TypeOK
  <2> QED
    BY <2>1, <2>2, <2>3, PoolConfigAssumption DEF Ceiling
<1> QED
  BY <1>1, Invariance, PTL

-----------------------------------------------------------------------------
(* The refinement of LeasePool *)

\* The lessees of the promise are the clients with a guard.
LEMMA LesseesAreHolders ==
  ASSUME IInv
  PROVE  Promise!Lessees = Holders /\ Promise!Leased = HeldInstances
<1>1. Promise!Lessees = Holders
  BY ClientsAssumption DEF Promise!Lessees, Holders, IInv, TypeOK
<1> QED
  BY <1>1 DEF Promise!Leased, HeldInstances

\* LeasePool brings its own copy of the standard module's Cardinality.
LEMMA SameCardinality ==
  ASSUME NEW S
  PROVE  Promise!Cardinality(S) = Cardinality(S)
BY DEF Promise!Cardinality, Cardinality

\* A checkout that succeeds is a lease: below the ceiling, of an instance that nobody
\* holds and that is clean.
LEMMA HandOutIsLease ==
  ASSUME IInv, NEW c \in Clients, pc[c] \in Entering, ~closed, Len(idle) > 0 \/ live < InstancesMax,
         NEW i \in Instances, i \notin HeldInstances, i \notin dirty, HandOut(c, i)
  PROVE  Promise!Lease(c)
<1>1. guard[c] = NoInstance
  BY DEF IInv, TypeOK, Entering
<1>2. Promise!Cardinality(Promise!Lessees) < InstancesMax
  <2>1. Cardinality(Holders) = active /\ live = Len(idle) + active
    BY DEF IInv, CountersHonest
  <2>2. active \in Nat /\ live \in 0..InstancesMax /\ Len(idle) \in Nat
    BY LenProperties DEF IInv, TypeOK
  <2> QED
    BY <2>1, <2>2, LesseesAreHolders, SameCardinality, PoolConfigAssumption
<1>3. i \in Instances \ (Promise!Leased \union dirty)
  BY LesseesAreHolders
<1>4. guard' = [guard EXCEPT ![c] = i] /\ UNCHANGED <<dirty, closed>>
  BY DEF HandOut, Return
<1> QED
  BY <1>1, <1>2, <1>3, <1>4 DEF Promise!Lease

\* Every step of the pool is a step of the promise, or none.
LEMMA NextKeepsPromise ==
  ASSUME IInv, [Next]_vars
  PROVE  [Promise!LeaseNext]_(Promise!leaseVars)
<1> USE DEF Promise!leaseVars
<1>1. ASSUME NEW c \in Clients, CheckoutIdle(c) PROVE Promise!Lease(c)
  <2>1. idle \in Seq(IdleEntry) /\ Len(idle) > 0
    BY <1>1, EmptySeq DEF CheckoutIdle, IInv, TypeOK
  <2>2. 1 \in 1..Len(idle) /\ Head(idle) = idle[1]
    BY <2>1, LenProperties
  <2>3. Head(idle).instance \in IdleInstances
    BY <2>2 DEF IdleInstances
  <2>4. Head(idle).instance \in Instances
    <3>1. idle[1] \in IdleEntry
      BY <2>1, <2>2, ElementOfSeq
    <3> QED
      BY <2>2, <3>1 DEF IdleEntry
  <2>5. Head(idle).instance \notin HeldInstances /\ Head(idle).instance \notin dirty
    BY <2>3 DEF IInv, Exclusive, Isolation, HeldInstances
  <2> QED
    BY <1>1, <2>1, <2>4, <2>5, HandOutIsLease DEF CheckoutIdle, InLoop
<1>2. ASSUME NEW c \in Clients, CheckoutGrow(c) PROVE Promise!Lease(c)
  <2>1. PICK i \in Unused : HandOut(c, i)
    BY <1>2 DEF CheckoutGrow
  <2>2. i \in Instances /\ i \notin HeldInstances /\ i \notin dirty
    BY DEF Unused, Existing, IInv, Isolation
  <2> QED
    BY <1>2, <2>1, <2>2, HandOutIsLease DEF CheckoutGrow, FindsNothing, InLoop
<1>3. ASSUME NEW c \in Clients, Invoke(c) PROVE Promise!Run(c)
  <2>1. guard[c] /= NoInstance
    BY <1>3, ClientsAssumption DEF Invoke, IInv, TypeOK
  <2> QED
    BY <1>3, <2>1 DEF Invoke, Promise!Run, inner
<1>4. ASSUME NEW c \in Clients, GiveBack(c) PROVE Promise!Release(c)
  <2>1. /\ pc[c] = "busy"
        /\ guard' = [guard EXCEPT ![c] = NoInstance]
        /\ dirty' = dirty \ {guard[c]}
        /\ closed' = closed
    BY <1>4 DEF GiveBack, GiveBackClosed, GiveBackReset, GiveBackResetFails, Release, Discard
  <2>2. guard[c] /= NoInstance
    BY <2>1, ClientsAssumption DEF IInv, TypeOK
  <2> QED
    BY <2>1, <2>2 DEF Promise!Release
<1>5. ASSUME NEW c \in Clients, CheckoutStart(c) \/ WaitTimesOut(c) \/ SpuriousWakeup(c)
                                 \/ NotifyOne(c)
      PROVE  UNCHANGED <<guard, dirty, closed>>
  BY <1>5 DEF CheckoutStart, WaitTimesOut, SpuriousWakeup, NotifyOne, inner
<1>6. ASSUME NEW c \in Clients, CheckoutGivesUp(c) \/ CheckoutClosed(c)
                                 \/ CheckoutGrowFails(c) \/ CheckoutExhausted(c) \/ CheckoutWait(c)
      PROVE  UNCHANGED <<guard, dirty, closed>>
  BY <1>6 DEF CheckoutGivesUp, CheckoutClosed, CheckoutGrowFails, CheckoutExhausted,
              CheckoutWait, Return
<1>7. CASE Close
  BY <1>7 DEF Close, Promise!Shut, Promise!LeaseNext
<1>8. CASE ReapIdle \/ CloseNotify \/ Tick \/ UNCHANGED vars
  BY <1>8 DEF ReapIdle, CloseNotify, Tick, vars, inner
<1> QED
  BY <1>1, <1>2, <1>3, <1>4, <1>5, <1>6, <1>7, <1>8
     DEF Next, HostStep, ClientStep, Attempt, Promise!LeaseNext

\* The pool implements the promise: leases are exclusive, bounded, clean, and none is
\* granted once the pool is closed.
THEOREM PromiseKept == Spec => KeepsPromise
<1>1. Init => Promise!LeaseInit
  BY DEF Init, Promise!LeaseInit
<1>2. IInv /\ [Next]_vars => [Promise!LeaseNext]_(Promise!leaseVars)
  BY NextKeepsPromise
<1> QED
  BY <1>1, <1>2, Invariance, PTL DEF Spec, KeepsPromise, Promise!LeaseSpec

=============================================================================
