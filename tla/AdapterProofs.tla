------------------------------ MODULE AdapterProofs ------------------------------
(***************************************************************************)
(* Theorems about Adapter, for files of any size and nesting, and for any  *)
(* number of instances and any limit.                                      *)
(***************************************************************************)
EXTENDS Adapter, TLAPS

\* The counter of introspect is never above the real nesting: a core module adds to the
\* nesting only, and every end takes one off both.  In the outermost component it is zero.
DepthBelowNesting ==
  /\ stage = "start" => depth = 0
  /\ open /= <<>> => depth < Len(open)

\* A store that exists has a deadline exactly when interruption is on; of one that does not,
\* nothing is left.
DeadlinesSet ==
  \A i \in Instances :
    IF place[i] = "absent"
      THEN ~dirty[i] /\ handle[i] = "none"
      ELSE ticks[i] = NoDeadline <=> ~EpochInterruption

ReadInv  == AdapterTypeOK /\ DepthBelowNesting /\ NothingMissed
StoreInv == AdapterTypeOK /\ DeadlinesSet /\ PooledIsFresh /\ CallWithinLimit

-----------------------------------------------------------------------------
(* Types *)

\* A fresh store's deadline is one, and is within the limit.
LEMMA FreshDeadlineType ==
  /\ FreshDeadline \in 0..EpochDeadlineTicks \union {NoDeadline}
  /\ FreshDeadline = NoDeadline <=> ~EpochInterruption
  BY AdapterAssumption DEF FreshDeadline, Limit, NoDeadline

LEMMA SaturatingSubType ==
  ASSUME NEW a \in Nat, NEW b \in Nat
  PROVE  /\ SaturatingSub(a, b) \in Nat
         /\ a = 0 => SaturatingSub(a, 1) = 0
         /\ a > 0 => SaturatingSub(a, 1) = a - 1
  BY DEF SaturatingSub

\* The parser's stack stays one, whether something is put on it or taken off.
LEMMA StackType ==
  ASSUME NEW s \in Seq({"component", "module"}), NEW kind \in {"component", "module"}
  PROVE  /\ <<>> \in Seq({"component", "module"})
         /\ <<kind>> \in Seq({"component", "module"})
         /\ <<kind>> \o s \in Seq({"component", "module"})
         /\ Len(<<kind>> \o s) = Len(s) + 1
         /\ Len(s) \in Nat
         /\ s /= <<>> => /\ Tail(s) \in Seq({"component", "module"})
                         /\ Len(Tail(s)) = Len(s) - 1
                         /\ Len(s) > 0
  OBVIOUS

\* Instances do not touch what has been read.
LEMMA ReadingDone ==
  ASSUME Tick \/ \E i \in Instances : InstanceStep(i)
  PROVE  UNCHANGED reading
  BY DEF Tick, InstanceStep, Instantiate, Checkout, Call, Return, Interrupt, Reset, Drop, Move

LEMMA TypeInit == Init => AdapterTypeOK
  BY AdapterAssumption
  DEF Init, AdapterTypeOK, Stages, Item, Kinds, Places, Handles, NoDeadline

LEMMA TypeNext == AdapterTypeOK /\ [Next]_vars => AdapterTypeOK'
<1> SUFFICES ASSUME AdapterTypeOK, [Next]_vars PROVE AdapterTypeOK'
  OBVIOUS
<1> USE AdapterAssumption DEF AdapterTypeOK, Stages
<1>1. CASE Load \/ Inspect
  <2>1. open' \in Seq({"component", "module"})
    BY <1>1, StackType DEF Load, Inspect, Open
  <2> QED
    BY <1>1, <2>1 DEF Load, Inspect, Open, instances
<1>2. CASE ComponentSection
  <2>1. open' \in Seq({"component", "module"})
    BY <1>2, StackType DEF ComponentSection
  <2>2. depth' \in Nat /\ payloads' \in 0..MaxPayloads
    BY <1>2 DEF ComponentSection, InComponent
  <2> QED
    BY <1>2, <2>1, <2>2 DEF ComponentSection, InComponent, instances
<1>3. CASE ModuleSection
  <2>1. open' \in Seq({"component", "module"})
    BY <1>3, StackType DEF ModuleSection
  <2>2. payloads' \in 0..MaxPayloads
    BY <1>3 DEF ModuleSection, InComponent
  <2> QED
    BY <1>3, <2>1, <2>2 DEF ModuleSection, InComponent, instances
<1>4. CASE End
  <2>1. open' \in Seq({"component", "module"})
    BY <1>4, StackType DEF End
  <2>2. depth' \in Nat
    BY <1>4, SaturatingSubType DEF End
  <2> QED
    BY <1>4, <2>1, <2>2 DEF End, instances
<1>5. CASE Finish
  BY <1>5 DEF Finish, instances
<1>6. ASSUME NEW x \in Item, ImportSection(x) \/ ExportSection(x)
      PROVE  AdapterTypeOK'
  <2>1. x.name \in Names
    BY DEF Item
  <2>2. payloads' \in 0..MaxPayloads
    BY <1>6 DEF ImportSection, ExportSection, InComponent
  <2>3. /\ imports' \subseteq Names /\ exports' \subseteq Names
        /\ ownImports' \subseteq Item /\ ownExports' \subseteq Item
    BY <1>6, <2>1 DEF ImportSection, ExportSection
  <2> QED
    BY <1>6, <2>2, <2>3 DEF ImportSection, ExportSection, InComponent, instances
<1>7. ASSUME NEW i \in Instances, InstanceStep(i)
      PROVE  AdapterTypeOK'
  <2>1. place' \in [Instances -> Places]
    BY <1>7
    DEF InstanceStep, Instantiate, Checkout, Call, Return, Interrupt, Reset, Drop, Move, Places
  <2>2. ticks' \in [Instances -> 0..EpochDeadlineTicks \union {NoDeadline}]
    BY <1>7, FreshDeadlineType
    DEF InstanceStep, Instantiate, Checkout, Call, Return, Interrupt, Reset, Drop
  <2>3. handle' \in [Instances -> Handles]
    BY <1>7
    DEF InstanceStep, Instantiate, Checkout, Call, Return, Interrupt, Reset, Drop, Handles
  <2>4. dirty' \in [Instances -> BOOLEAN]
    BY <1>7
    DEF InstanceStep, Instantiate, Checkout, Call, Return, Interrupt, Reset, Drop
  <2>5. used' \in [Instances -> 0..EpochDeadlineTicks]
    <3>1. 0 \in 0..EpochDeadlineTicks
      OBVIOUS
    <3> QED
      BY <1>7, <3>1
      DEF InstanceStep, Instantiate, Checkout, Call, Return, Interrupt, Reset, Drop
  <2>6. UNCHANGED reading
    BY <1>7, ReadingDone
  <2> QED
    BY <2>1, <2>2, <2>3, <2>4, <2>5, <2>6 DEF reading
<1>8. CASE Tick
  <2>1. ticks' \in [Instances -> 0..EpochDeadlineTicks \union {NoDeadline}]
    BY <1>8 DEF Tick, NoDeadline
  <2>2. used' \in [Instances -> 0..EpochDeadlineTicks]
    BY <1>8 DEF Tick
  <2> QED
    BY <1>8, <2>1, <2>2 DEF Tick, reading
<1>9. CASE UNCHANGED vars
  BY <1>9 DEF vars
<1> QED
  BY <1>1, <1>2, <1>3, <1>4, <1>5, <1>6, <1>7, <1>8, <1>9 DEF Next

\* The variables hold what AdapterTypeOK says, in every reachable state.
THEOREM AdapterTypeCorrect == Spec => []AdapterTypeOK
  BY TypeInit, TypeNext, PTL DEF Spec

-----------------------------------------------------------------------------
(* Reading a file *)

LEMMA ReadNext == ReadInv /\ [Next]_vars => ReadInv'
<1> SUFFICES ASSUME ReadInv, [Next]_vars PROVE ReadInv'
  OBVIOUS
<1> USE DEF ReadInv
<1>1. AdapterTypeOK'
  BY TypeNext
<1>2. open \in Seq({"component", "module"}) /\ depth \in Nat
  BY DEF AdapterTypeOK
<1>3. DepthBelowNesting' /\ NothingMissed'
  <2> USE DEF DepthBelowNesting
  <2>1. CASE Load \/ Inspect
    <3>1. Len(<<"component">>) = 1
      OBVIOUS
    <3>2. depth' = 0 /\ (open' = <<"component">> \/ open' = <<>>) /\ stage' /= "start"
      BY <2>1 DEF Load, Inspect, Open
    <3> QED
      BY <2>1, <3>1, <3>2 DEF Load, Inspect, Open, NothingMissed
  <2>2. CASE ComponentSection
    BY <1>2, <2>2, StackType DEF ComponentSection, InComponent, NothingMissed
  <2>3. CASE ModuleSection
    BY <1>2, <2>3, StackType DEF ModuleSection, InComponent, NothingMissed
  <2>4. CASE End
    <3>1. Len(open') = Len(open) - 1 /\ Len(open) \in Nat /\ depth < Len(open)
      BY <1>2, <2>4, StackType DEF End
    <3>2. open' /= <<>> => Len(open') > 0
      BY <1>1, StackType DEF AdapterTypeOK
    <3>3. depth' = IF depth = 0 THEN 0 ELSE depth - 1
      BY <1>2, <2>4, SaturatingSubType DEF End
    <3>4. stage' /= "start"
      BY <2>4 DEF End
    <3>5. open' /= <<>> => depth' < Len(open')
      BY <1>2, <3>1, <3>2, <3>3
    <3> QED
      BY <2>4, <3>4, <3>5 DEF End, NothingMissed
  <2>5. CASE Finish
    BY <2>5 DEF Finish, NothingMissed
  <2>6. ASSUME NEW x \in Item, ImportSection(x) \/ ExportSection(x)
        PROVE  DepthBelowNesting' /\ NothingMissed'
    <3>1. open /= <<>> /\ open' = open /\ depth' = depth /\ stage' = stage
      BY <2>6 DEF ImportSection, ExportSection, InComponent
    <3>2. Len(open) = 1 => depth = 0
      BY <1>2, <3>1
    <3>3. NothingMissed'
      BY <2>6, <3>2
      DEF ImportSection, ExportSection, NothingMissed, ImportKinds, ExportKinds
    <3> QED
      BY <3>1, <3>3
  <2>7. CASE Tick \/ \E i \in Instances : InstanceStep(i)
    BY <2>7, ReadingDone DEF reading, NothingMissed
  <2>8. CASE UNCHANGED vars
    BY <2>8 DEF vars, NothingMissed
  <2> QED
    BY <2>1, <2>2, <2>3, <2>4, <2>5, <2>6, <2>7, <2>8 DEF Next
<1> QED
  BY <1>1, <1>3

\* Nothing of the outermost component's contract is missed, whatever is nested in it.
THEOREM NeverMissed == Spec => []NothingMissed
<1>1. Init => ReadInv
  BY TypeInit DEF Init, ReadInv, DepthBelowNesting, NothingMissed
<1>2. ReadInv => NothingMissed
  BY DEF ReadInv
<1> QED
  BY <1>1, <1>2, ReadNext, PTL DEF Spec

-----------------------------------------------------------------------------
(* Instances *)

\* Before a component is loaded, and once no more is read, instances stay as they are.
LEMMA InstancesUntouched ==
  ASSUME \/ Load \/ Inspect \/ ComponentSection \/ ModuleSection \/ End \/ Finish
         \/ \E x \in Item : ImportSection(x) \/ ExportSection(x)
  PROVE  UNCHANGED instances
  BY DEF Load, Inspect, Open, ComponentSection, ModuleSection, End, Finish, ImportSection,
         ExportSection, InComponent

LEMMA StoreNext == StoreInv /\ [Next]_vars => StoreInv'
<1> SUFFICES ASSUME StoreInv, [Next]_vars PROVE StoreInv'
  OBVIOUS
<1> USE AdapterAssumption DEF StoreInv
<1>1. AdapterTypeOK'
  BY TypeNext
<1>2. /\ place \in [Instances -> Places]
      /\ ticks \in [Instances -> 0..EpochDeadlineTicks \union {NoDeadline}]
      /\ handle \in [Instances -> Handles] /\ dirty \in [Instances -> BOOLEAN]
      /\ used \in [Instances -> 0..EpochDeadlineTicks]
  BY DEF AdapterTypeOK
<1>3. ASSUME NEW i \in Instances, InstanceStep(i)
      PROVE  DeadlinesSet' /\ PooledIsFresh' /\ CallWithinLimit'
  <2>1. CASE Instantiate(i) \/ Reset(i) \/ Drop(i)
    <3>1. DeadlinesSet'
      BY <1>2, <2>1, FreshDeadlineType DEF Instantiate, Reset, Drop, Move, DeadlinesSet
    <3>2. PooledIsFresh'
      BY <1>2, <2>1, <3>1 DEF Instantiate, Reset, Drop, Move, PooledIsFresh, DeadlinesSet
    <3>3. CallWithinLimit'
      BY <1>2, <2>1 DEF Instantiate, Reset, Drop, Move, CallWithinLimit
    <3> QED
      BY <3>1, <3>2, <3>3
  <2>2. CASE Checkout(i) \/ Return(i) \/ Interrupt(i)
    BY <1>2, <2>2
    DEF Checkout, Return, Interrupt, Move, DeadlinesSet, PooledIsFresh, CallWithinLimit
  <2>3. CASE Call(i)
    <3>1. DeadlinesSet' /\ PooledIsFresh'
      BY <1>2, <2>3 DEF Call, Move, DeadlinesSet, PooledIsFresh
    <3>2. /\ place' = [place EXCEPT ![i] = "running"] /\ ticks' = ticks
          /\ used' = [used EXCEPT ![i] = 0]
      BY <2>3 DEF Call, Move
    <3>3. ASSUME NEW j \in Instances, place'[j] = "running", ticks'[j] > 0
          PROVE  used'[j] + ticks'[j] <= EpochDeadlineTicks
      <4>1. CASE j = i
        BY <1>2, <3>2, <3>3, <4>1 DEF NoDeadline
      <4>2. CASE j /= i
        BY <1>2, <3>2, <3>3, <4>2 DEF CallWithinLimit
      <4> QED
        BY <4>1, <4>2
    <3> QED
      BY <3>1, <3>3 DEF CallWithinLimit
  <2> QED
    BY <1>3, <2>1, <2>2, <2>3 DEF InstanceStep
<1>4. CASE Tick
  BY <1>1, <1>2, <1>4 DEF Tick, DeadlinesSet, PooledIsFresh, CallWithinLimit, NoDeadline
<1>5. CASE UNCHANGED instances
  BY <1>1, <1>5 DEF instances, DeadlinesSet, PooledIsFresh, CallWithinLimit
<1>6. CASE UNCHANGED vars
  <2>1. UNCHANGED instances
    BY <1>6 DEF vars, instances
  <2> QED
    BY <1>1, <1>5, <2>1
<1> QED
  BY <1>1, <1>3, <1>4, <1>5, <1>6, InstancesUntouched DEF Next

LEMMA StoreInit == Init => StoreInv
  BY TypeInit DEF Init, StoreInv, DeadlinesSet, PooledIsFresh, CallWithinLimit

\* What the pool holds is as good as new, however often it has been used and interrupted.
THEOREM AlwaysFresh == Spec => []PooledIsFresh
<1>1. StoreInv => PooledIsFresh
  BY DEF StoreInv
<1> QED
  BY <1>1, StoreInit, StoreNext, PTL DEF Spec

\* No call gets more ticks than the limit.
THEOREM NoCallAboveLimit == Spec => []CallWithinLimit
<1>1. StoreInv => CallWithinLimit
  BY DEF StoreInv
<1> QED
  BY <1>1, StoreInit, StoreNext, PTL DEF Spec

=============================================================================
