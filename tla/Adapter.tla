--------------------------------- MODULE Adapter ---------------------------------
(***************************************************************************)
(* The Wasmtime adapter (clean-host-core-wasmtime/src/lib.rs): how it      *)
(* reads the interfaces of a component out of its bytes, and the stores it *)
(* gives to the pool.                                                      *)
(*                                                                         *)
(* The parser delivers a component as a stream of payloads, and goes into  *)
(* nested components and core modules by itself; `open` is the stack of    *)
(* what it is inside of, innermost first.  The adapter counts the nesting  *)
(* in `depth`, and a behaviour first reads one file, one payload a step.   *)
(*                                                                         *)
(* Of a loaded component the pool then instantiates stores.  A store has a *)
(* deadline, counted here in ticks of the epoch that are left, and the     *)
(* ticker thread advances the epoch for all stores at once.                *)
(***************************************************************************)
EXTENDS Integers, Sequences

CONSTANTS
  Names,               \* names of interfaces and functions, with their version
  MaxPayloads,         \* bound: payloads of a file, the ends left aside
  Instances,           \* the WasmtimeInstances there can be
  EpochInterruption,   \* EngineConfig::epoch_interruption
  EpochDeadlineTicks   \* EngineConfig::epoch_deadline_ticks

\* With interruption on, a limit of zero is left out: what a store without a deadline does
\* is for Wasmtime to say.
ASSUME AdapterAssumption ==
  /\ MaxPayloads \in Nat
  /\ EpochInterruption \in BOOLEAN
  /\ EpochDeadlineTicks \in Nat \ {0}

VARIABLES
  \* reading a file
  stage,       \* what is being done with the file
  open,        \* the parser's stack
  depth,       \* the counter of introspect
  payloads,    \* how many payloads there have been, see MaxPayloads
  imports,     \* what introspect reports
  exports,
  ownImports,  \* history: what the outermost component imports and exports
  ownExports,
  \* the instances
  place,       \* where each instance is
  ticks,       \* ticks until the deadline of its store, or NoDeadline
  handle,      \* WasmtimeInstance::instance: whose instance it is
  dirty,       \* whether the store holds memory, resources or context of an invocation
  used         \* history: ticks since the guest call began

reading   == <<stage, open, depth, payloads, imports, exports, ownImports, ownExports>>
instances == <<place, ticks, handle, dirty, used>>
vars == <<stage, open, depth, payloads, imports, exports, ownImports, ownExports,
          place, ticks, handle, dirty, used>>

-----------------------------------------------------------------------------
Stages == {"start", "refused", "loading", "loaded", "inspecting", "inspected"}
Kinds  == {"instance", "func", "type"}
Item   == [name : Names, kind : Kinds]

\* What counts as an import, and as an export, of a component.
ImportKinds == {"instance"}
\* Fault: the plain functions are dropped.
ExportKindsInterfaces == {"instance"}
ExportKinds == {"instance", "func"}

Places  == {"absent", "pooled", "leased", "running", "trapped"}
Handles == {"none", "this store", "former store"}

NoDeadline == -1

\* WasmtimeRuntime::epoch_deadline_ticks; zero is unlimited.
Limit == IF EpochInterruption THEN EpochDeadlineTicks ELSE 0

\* Fault: the limit is taken for an index.
FreshDeadlineLate == IF Limit > 0 THEN Limit + 1 ELSE NoDeadline

\* The deadline of a store as instantiate and reset leave it.
FreshDeadline == IF Limit > 0 THEN Limit ELSE NoDeadline

\* Fault: the counter is decremented as it is.
PlainSub(a, b) == a - b

SaturatingSub(a, b) == IF a >= b THEN a - b ELSE 0

Init ==
  /\ stage = "start"
  /\ open = <<>>
  /\ depth = 0
  /\ payloads = 0
  /\ imports = {} /\ exports = {}
  /\ ownImports = {} /\ ownExports = {}
  /\ place = [i \in Instances |-> "absent"]
  /\ ticks = [i \in Instances |-> NoDeadline]
  /\ handle = [i \in Instances |-> "none"]
  /\ dirty = [i \in Instances |-> FALSE]
  /\ used = [i \in Instances |-> 0]

-----------------------------------------------------------------------------
(* Reading a file.  load has Component::new validate all of it first; the introspector, *)
(* which bridge discovery calls, only looks at the preamble.                             *)

Open(to) ==
  /\ stage = "start"
  /\ \/ stage' = to /\ open' = <<"component">>
     \/ stage' = "refused" /\ open' = <<>>
  /\ UNCHANGED <<depth, payloads, imports, exports, ownImports, ownExports, instances>>

Load    == Open("loading")
Inspect == Open("inspecting")

InComponent ==
  /\ stage \in {"loading", "inspecting"}
  /\ open /= <<>>
  /\ Head(open) = "component"
  /\ payloads < MaxPayloads
  /\ payloads' = payloads + 1
  /\ UNCHANGED <<stage, instances>>

ComponentSection ==
  /\ InComponent
  /\ open' = <<"component">> \o open
  /\ depth' = depth + 1
  /\ UNCHANGED <<imports, exports, ownImports, ownExports>>

ModuleSection ==
  /\ InComponent
  /\ open' = <<"module">> \o open
  /\ UNCHANGED <<depth, imports, exports, ownImports, ownExports>>

\* The end of a module, of a nested component, or of the file's own component.
End ==
  /\ stage \in {"loading", "inspecting"}
  /\ open /= <<>>
  /\ open' = Tail(open)
  /\ depth' = SaturatingSub(depth, 1)
  /\ UNCHANGED <<stage, payloads, imports, exports, ownImports, ownExports, instances>>

ImportSection(x) ==
  /\ InComponent
  /\ imports' = IF depth = 0 /\ x.kind \in ImportKinds THEN imports \union {x.name} ELSE imports
  /\ ownImports' = IF Len(open) = 1 THEN ownImports \union {x} ELSE ownImports
  /\ UNCHANGED <<open, depth, exports, ownExports>>

ExportSection(x) ==
  /\ InComponent
  /\ exports' = IF depth = 0 /\ x.kind \in ExportKinds THEN exports \union {x.name} ELSE exports
  /\ ownExports' = IF Len(open) = 1 THEN ownExports \union {x} ELSE ownExports
  /\ UNCHANGED <<open, depth, imports, ownImports>>

\* The stream is at its end.  The introspector leaves out what does not parse, so for it
\* the stream may end anywhere.
Finish ==
  /\ \/ stage = "loading" /\ open = <<>> /\ stage' = "loaded"
     \/ stage = "inspecting" /\ stage' = "inspected"
  /\ UNCHANGED <<open, depth, payloads, imports, exports, ownImports, ownExports, instances>>

-----------------------------------------------------------------------------
(* Instances *)

Move(i, from, to) ==
  /\ stage = "loaded"
  /\ place[i] \in from
  /\ place' = [place EXCEPT ![i] = to]
  /\ UNCHANGED reading

\* instantiate: a store, and no more; the guest is instantiated when it is first called.
Instantiate(i) ==
  /\ Move(i, {"absent"}, "pooled")
  /\ ticks' = [ticks EXCEPT ![i] = FreshDeadline]
  /\ UNCHANGED <<handle, dirty, used>>

\* The pool hands the instance out; the adapter is not asked.
Checkout(i) ==
  /\ Move(i, {"pooled"}, "leased")
  /\ UNCHANGED <<ticks, handle, dirty, used>>

\* The concrete host calls an export of the guest.
Call(i) ==
  /\ Move(i, {"leased"}, "running")
  /\ handle[i] /= "former store"
  /\ handle' = [handle EXCEPT ![i] = "this store"]
  /\ dirty' = [dirty EXCEPT ![i] = TRUE]
  /\ used' = [used EXCEPT ![i] = 0]
  /\ UNCHANGED ticks

Return(i) ==
  /\ Move(i, {"running"}, "leased")
  /\ used' = [used EXCEPT ![i] = 0]
  /\ UNCHANGED <<ticks, handle, dirty>>

\* A guest that runs past the deadline of its store traps, and is not called again.
Interrupt(i) ==
  /\ Move(i, {"running"}, "trapped")
  /\ ticks[i] = 0
  /\ used' = [used EXCEPT ![i] = 0]
  /\ UNCHANGED <<ticks, handle, dirty>>

\* Fault: the deadline is set by instantiate alone.
ResetWithoutDeadline(i) ==
  /\ Move(i, {"leased", "trapped"}, "pooled")
  /\ ticks' = [ticks EXCEPT ![i] = NoDeadline]
  /\ dirty' = [dirty EXCEPT ![i] = FALSE]
  /\ handle' = [handle EXCEPT ![i] = "none"]
  /\ UNCHANGED used

\* Fault: `instance` stays, and belongs to the store that is gone.
ResetKeepsInstance(i) ==
  /\ Move(i, {"leased", "trapped"}, "pooled")
  /\ ticks' = [ticks EXCEPT ![i] = FreshDeadline]
  /\ dirty' = [dirty EXCEPT ![i] = FALSE]
  /\ handle' = [handle EXCEPT ![i] = IF @ = "none" THEN "none" ELSE "former store"]
  /\ UNCHANGED used

\* reset, called by the pool when the guard is dropped.
Reset(i) ==
  /\ Move(i, {"leased", "trapped"}, "pooled")
  /\ ticks' = [ticks EXCEPT ![i] = FreshDeadline]
  /\ dirty' = [dirty EXCEPT ![i] = FALSE]
  /\ handle' = [handle EXCEPT ![i] = "none"]
  /\ UNCHANGED used

\* The pool drops an instance that has been idle for long, or that came back too late.
Drop(i) ==
  /\ Move(i, {"pooled", "leased", "trapped"}, "absent")
  /\ ticks' = [ticks EXCEPT ![i] = NoDeadline]
  /\ dirty' = [dirty EXCEPT ![i] = FALSE]
  /\ handle' = [handle EXCEPT ![i] = "none"]
  /\ UNCHANGED used

\* One round of the ticker thread.
Tick ==
  /\ EpochInterruption
  /\ stage = "loaded"
  /\ \E i \in Instances : ticks[i] > 0
  /\ ticks' = [i \in Instances |-> IF ticks[i] > 0 THEN ticks[i] - 1 ELSE ticks[i]]
  /\ used' = [i \in Instances |->
                IF place[i] = "running" /\ used[i] < EpochDeadlineTicks
                  THEN used[i] + 1
                  ELSE used[i]]
  /\ UNCHANGED <<reading, place, handle, dirty>>

InstanceStep(i) ==
  \/ Instantiate(i) \/ Checkout(i) \/ Call(i) \/ Return(i) \/ Interrupt(i) \/ Reset(i) \/ Drop(i)

Next ==
  \/ Load \/ Inspect \/ ComponentSection \/ ModuleSection \/ End \/ Finish
  \/ \E x \in Item : ImportSection(x) \/ ExportSection(x)
  \/ \E i \in Instances : InstanceStep(i)
  \/ Tick

Spec == Init /\ [][Next]_vars

\* The ticker thread runs, and a guest that is past its deadline comes to a point where it
\* is interrupted.  That a guest returns is not promised.
FairSpec == Spec /\ WF_vars(Tick) /\ \A i \in Instances : WF_vars(Interrupt(i))

-----------------------------------------------------------------------------
(* Properties *)

\* Every variable holds a value of its kind.
AdapterTypeOK ==
  /\ stage \in Stages
  /\ open \in Seq({"component", "module"})
  /\ depth \in Nat
  /\ payloads \in 0..MaxPayloads
  /\ imports \subseteq Names /\ exports \subseteq Names
  /\ ownImports \subseteq Item /\ ownExports \subseteq Item
  /\ place \in [Instances -> Places]
  /\ ticks \in [Instances -> 0..EpochDeadlineTicks \union {NoDeadline}]
  /\ handle \in [Instances -> Handles]
  /\ dirty \in [Instances -> BOOLEAN]
  /\ used \in [Instances -> 0..EpochDeadlineTicks]

\* However components and modules are nested, no interface that the file's own component
\* imports and nothing callable that it exports goes unreported: it would be left out of the
\* checks on imports, or leave a composed component with nothing to call (introspect).
NothingMissed ==
  /\ \A x \in ownImports : x.kind = "instance" => x.name \in imports
  /\ \A x \in ownExports : x.kind \in {"instance", "func"} => x.name \in exports

\* An instance in the pool is like a new one, whatever was done with it: nothing of an
\* invocation is in its store, no handle refers to a store that is gone, and its store has
\* a deadline whenever deadlines are asked for (reset, CLNH-29).
PooledIsFresh ==
  \A i \in Instances :
    place[i] = "pooled" =>
      ~dirty[i] /\ handle[i] = "none" /\ (ticks[i] = NoDeadline <=> ~EpochInterruption)

\* A call that has ticks left has had no more of them than the limit allows, and what it has
\* had and what it has left are together no more than the limit (epoch_deadline_ticks).
CallWithinLimit ==
  \A i \in Instances :
    place[i] = "running" /\ ticks[i] > 0 => used[i] + ticks[i] <= EpochDeadlineTicks

\* No guest runs for ever, on a store that is new or on one that was reset.
RunawayInterrupted == \A i \in Instances : place[i] = "running" ~> place[i] /= "running"

\* introspect: "Only the outermost component's own imports/exports describe this component's
\* contract; nested components carry their own and must not be mistaken for it."
OnlyOutermost ==
  stage = "loaded" =>
    /\ imports \subseteq {x.name : x \in ownImports}
    /\ exports \subseteq {x.name : x \in ownExports}

\* EngineConfig: epoch_deadline_ticks is how many ticks a single guest call may run for before
\* it is trapped.
BudgetIsWhole == [][\A i \in Instances : Interrupt(i) => used[i] = EpochDeadlineTicks]_vars
=============================================================================
