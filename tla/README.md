# clean-host-core in TLA+

`clean-host-core` is the library every Clean host links: it composes a guest
component with its bridges, keeps a pool of instances of the result, and
offers checkout, reload, health, a capability manifest and shutdown to a
concrete host.  These modules model it from its source, `src/crates/`.  Paths below
are relative to `src/crates/clean-host-core/src/` unless they say otherwise.

## The system

| Part | State it keeps | Operations | What makes it correct |
|---|---|---|---|
| Instance pool, `pool.rs` | behind one Mutex: deque of idle instances, `live`, `active`, `queued`, `closed`; one Condvar | `new`, `checkout`, drop of `InstanceGuard` (`give_back`), `reap_idle`, `close`, `health`, `active` | an instance serves one invocation at a time and is clean when handed out; never more than `instances_max`; a waiter is woken when there is something for it, on close, or at its deadline; the counters are true |
| Host, `lib.rs` | `RwLock` around the current composition, `Mutex` around the outcome of the last reload, a generation counter | `register_envelope`, `compose`, `reload`, `checkout`, `health`, `emit_manifest`, `shutdown` | the pool that serves is open, superseded pools are closed and drained, a failed reload changes nothing, every call returns |
| Composition, `compose.rs`, `validate.rs` | none | `check_capabilities`, `unused_bridges`, `compose`, `check_compliance` | a guest whose imports are not all provided at a compatible version is refused when it is loaded, and one that can run is not; neither holds without exception, see Findings |
| Bridge discovery, `bridge.rs` | none | `discover`, `check_version`, `check_imports` | only components that export what they are configured for, and import what they may, are composed |
| Envelope registry, `envelope.rs` | a map | `register`, `interfaces` | no interface is registered twice, none after composition |
| Manifest, `manifest.rs` | a file | `new`, `write` | it describes the composition that serves |
| Logger, `log.rs` | a sink and a level | `emit`, `render` | a line can be split into its fields again |
| Configuration, `config.rs` | none | `parse`, sizes and durations | defaults, bounds, no silent overflow |
| Parity check, `parity.rs` | none | `check` | declared = registered |
| Runtime seam, `runtime.rs` | none | the traits `WasmRuntime`, `LoadedComponent`, `Instance` | reset leaves an instance as instantiate does |
| Wasmtime adapter, `../../clean-host-core-wasmtime/src/lib.rs` | engine, ticker thread, one store per instance | `load`, the introspector, `instantiate`, `reset` | what a component imports and exports is reported; a pooled store is clean, with no stale handle and with a deadline, though that may have run out while it was idle; no call exceeds its time budget |

The concrete host calls everything, from many threads; the library starts none (the adapter's
epoch ticker is the only one).  `Host::checkout` clones the pool out of the RwLock and calls
`InstancePool::checkout` without it; the guard keeps its own reference to the pool, so guards
outlive a reload.  `reload` builds a new composition without any lock, then swaps it in and
closes the old pool; `close` makes later checkouts fail and wakes those that wait.  What is
hard: threads asleep on a condition variable, notifications sent after the mutex is
released, timeouts racing them, instantiations and resets that fail half-way, two locks taken
by two calls, and reloads that overlap with each other and with every other call.

## Modules

`InstancePool` is the pool.  A client is one invocation.  Each stretch of code under the mutex
is one action, since instantiation and reset happen under it: the critical section of checkout
is `Attempt`, with one alternative per way out of the loop body (`CheckoutGivesUp`,
`CheckoutClosed`, `CheckoutIdle`, `CheckoutGrow`, `CheckoutGrowFails`, `CheckoutExhausted`,
`CheckoutWait`); coming back from `wait_timeout` with the mutex and going round the loop again is
one step, so each alternative also takes the caller out of `queued` (`QueuedOnEntry`).  A drop of
a guard is `GiveBack` followed by `NotifyOne`, and close is `Close` followed by
`CloseNotify`, because the notifications come after the unlock.  `pc` says where a client is,
`left` is the time to its deadline, an idle instance has an age; `Tick` lowers the one and raises
the other, and both saturate, so no clock is needed.  `dirty` holds the instances that carry
state of an invocation, which `Invoke` adds to and reset or destruction takes from.  Within one
pool the generation of a guard always equals that of the pool (`pool.rs:96,101,164`), so the
comparison at `pool.rs:176` is left out.  `health` and `active` only read.

`LeasePool` is what the pool promises, without queue, counters, or time: leases are
exclusive, at most `InstancesMax`, of instances free of earlier state, and none is given once
closed.  `InstancePool` implements it under `lease <- guard, used <- dirty` (`KeepsPromise`).

`Host` is struct Host.  A composition is known by the number its pool got from
`generation.fetch_add`.  A step is what a thread does between two points at which it may wait: for
a lock, a build, a file or a pool.  The locks are not variables: who holds one follows from the
program counters (`Readers`, `WaitingWriters`, `StateHolders`).  The pool is taken at its promise:
a checkout under way ends in a guard, in a refusal if the pool is closed, or in an
error.  This is taken from `LeasePool`, which `InstancePool` is shown to implement, and not checked
again.  `mine` is the pool a thread has in hand.
`shutdown` consumes the host, so nothing else is under way then except invocations that
hold guards; `composed` goes on naming the pool being drained.  Its loop ends with no guard out or at
the deadline (`ShutdownLoopEnds`), and the guards are counted anew after that (`ShutdownCounts`).  Locks that are held for one
copy (`warnings`, `logger`) are left out.  `RegisterEnvelope` borrows the host exclusively, so it
happens between calls and, as the code refuses it later, before composition; `builtWith` remembers
which envelopes each composition was checked with.

`Service` is what `Host` promises, without threads, locks or builds: one composition serves at a
time and is replaced as a whole by one that never served; what was replaced closes some time and
never serves again; an invocation begins on a composition that is open, and goes on whatever becomes
of it; the manifest is written for what serves; and shutdown reports success if and only if nothing
runs on what served last.  `Host` implements it (`ServesAsPromised`) whatever reloads overlap: no
order of compositions is promised, see Findings.  A composition
is `former` if its pool is closed and it does not serve, or a reload that took it out has yet
to close it, so the swap of a reload is `Serve` although the close follows later.

`Adapter` is the Wasmtime adapter.  A behaviour first reads one file: each payload of the parser is
an action, `open` is the parser's stack and `depth` the counter of `introspect`, and the two
`own...` variables record what the outermost component declares.  Of a file that `load` accepted it
then runs instances: `Instantiate`, `Reset` and `Tick` (the ticker thread) are the adapter's code,
`Checkout` and `Drop` the pool's use of it, and `Call`, `Return` and `Interrupt` are external: the
concrete host calls through the public fields of `WasmtimeInstance`, and Wasmtime traps at the deadline.
A deadline is held as the ticks left of it, so the epoch itself needs no bound.
`InstancePool` shows which instance is leased to whom, `Adapter` that what is leased is clean.

`Config`, `Log` and `Parity` are the pure parts, as operators: the checks of `parse` in their order
with sizes and durations at a width `MaxU64`; rendering and quoting of log records over an alphabet
of the characters that matter; and the check of `host.wit`.  `Algorithms` takes one input of given
sets, computes one result, and compares it with reference definitions: arithmetic without a
width, a reader of log lines, and what parity means.  `MCAlgorithms` supplies small sets.

`Composition` is one build: `build_composition` call by call, with its early returns, then
`emit_manifest`.  The deployment (guest, bridges, what the host provides, envelopes) is chosen at
the start and does not change; `stage` is the next call, and each check is an operator named
for what it finds.  `Compatible` and `BridgeCompatible` are the two copies of the version rule.
`NoVersion` stands for a version that is absent or does not parse, which the code treats alike.
WAC is external (`Joins`): it refuses a second package of one name, a wiring into an import the guest
does not have under exactly that name, and an export, of a bridge or of the guest, that introspection reported
and the component does not have (`own`); it leaves unwired imports as imports of the result; and what it thinks
of packages and types is one verdict (`typesFit`).  Its result may then fail to load (`LoadComposed`).

`Runnable` is the reference definition, from the documents and not from the wiring: every bridge is what it is
configured to be, every import of the guest comes from the host or, at a version that semver accepts, from a bridge,
every import of those bridges from the host, and what has to be joined fits.  What the code accepts and what can run
are compared in both directions.  An accepted guest should lack nothing (`NothingLeftOpen`), which is false;
`LeftOpenOnlyByKeys` is what holds instead, for every deployment: what is left open has the path of a key of
`[bridges]`.  A guest that can run should be accepted, which is false as well; `RefusedOnlyByNames` says that there are
three reasons only, and each occurs in the run: a path has two sources, of which the code looks at the last
(not `OneSource`); a guest and a bridge name an interface differently, if only by a patch version that would do (not
`NamedAlike`); or an export was reported of the guest that it does not have (not `ReportedRight`).  No document
says which of two sources should win; the other two are under Findings.  The order of the
checks shows only in which error is reported.

`MCInstancePool` adds the symmetry sets used by the runs without liveness, `MCComposition` the
deployments; `MCHost` and `MCAdapter` add nothing.  The theorems are in modules of their own:

| Module | About |
|---|---|
| `InstancePoolProofs` | types, counters, isolation, ceiling, and that `LeasePool` is implemented |
| `InstancePoolWaitProofs` | who waits, who is woken, and when a checkout gives up |
| `HostProofs` | the host's locks, reloads and health, and that `Service` is implemented |
| `CompositionProofs` | what a build decides at each stage |
| `CompositionVerdictProofs` | what may be left open of what it accepts, and why it may refuse what can run |
| `AdapterProofs` | what is read of a file, and the life of stores |
| `AlgorithmsProofs` | sizes, durations, the pool's bounds, parity, log records |
| `DataLemmas` | lemmas about positions, sequences and induction that two of these need |

A definition whose comment begins with "Fault:" is no part of the model: it is the next
definition with a plausible mistake in it, kept beside it to show that the properties notice.

## Runs

| Run | Shows | Bounds |
|---|---|---|
| `pool_safety` | true counters, bounded, clean instances, no sleeper beside an idle instance, close wakes everybody, the deque is ordered by age, exhaustion is reported at the deadline only, `LeasePool` is implemented | 4 clients, 1 to 2 instances, 3 identities, timers of 2 ticks |
| `pool_live` | every checkout returns, capacity is never stranded when instantiation succeeds, a closed pool drains | 3 clients, 1 instance, 2 identities, a timeout of 2 ticks |
| `pool_lost_wakeup` | a violation, see Findings | 4 clients, 2 instances |
| `host_calls` | the serving pool is open, superseded pools close, a report belongs to one composition, the serving composition was checked with every envelope, the host is a `Service`, every call returns unless health and reload lock each other out | 1 client, 2 reloaders, 1 monitor, 1 publisher, 3 generations, 1 envelope |
| `host_health_deadlock`, `host_drain_superseded` | violations, see Findings | 1 client, 1 reloader, 2 generations |
| `composition_exact` | what may be left open, why what can run may be refused, bridges stay inside the allowlist, the manifest is true | 16821 deployments: six interfaces, up to two guest imports, two bridges, three versions of an interface; in a family of 192 everything that can fail to fit does or does not |
| `composition_left_open` | a violation, see Findings | the same deployments |
| `adapter_stores` | nothing the component declares goes unreported, pooled stores are fresh, calls stay within the limit, runaways are interrupted | one name, files of 5 payloads besides the ends, 2 instances, 3 ticks |
| `adapter_nested` | a violation, see Findings | two names, 3 payloads, no instance |
| `adapter_budget` | a violation, see Findings | 1 instance, 3 ticks |
| `algorithms` | sizes, durations, accepted configurations, log records read back and their number of lines, parity | a u64 of 16 bits and a K of 16; numbers around every bound these draw; texts of 3 characters over 6, up to 2 records and 1 field; 2 interfaces, 2 worlds |

The bounds.  Two instances and four clients let two wait while two hold, so a notification has a
choice and one notification can overtake another; with floor 1 below ceiling 2 growing,
reaping and the ceiling are all reached, and a third identity means a pool that exceeded
the ceiling would be seen.  Two ticks tell "not yet", "now" and, for ages, two different staleness apart.
The pool has no deadlock to allow for: time always passes.  In `Host`, three generations let
one be superseded while two reloads build.  One client is enough: clients take no lock but for reading, so they
meet in the ceiling of a pool only, which is `InstancePool`'s matter and checked there with four; the theorems are
for any number.  `MaxGenerations` bounds how many compositions are built; with it reached, builds fail.  So reloads
that succeed come to an end: that a reload could be overtaken at the mutex for ever by others is ruled out by this
bound, and the run says nothing of it.
Host runs do not check for deadlock, as a host that has shut down stops; `EveryCallReturns` takes
its place.

In `Adapter`, five payloads reach a module inside a component inside a component with a
declaration after each end, which is where counter and nesting differ; the file and the instances do not
interact beyond `load`, so an empty component is enough for the budget.  Three ticks let time
pass in the pool, in an earlier call and in the call itself.  In `algorithms`, a width of 16 bits
with a K of 16 puts each factor's overflow at a number that is tried, on either side; two backslashes
or quotes in a row, a break and an empty text all fit in three characters.

Fairness.  `InstancePool`: a thread that wants the mutex gets it, `wait_timeout` returns after
its timeout, time passes, a notification follows its unlock, all weak.  Nobody promises to
call checkout or to drop a guard: `EveryCheckoutReturns` holds although guards may
never be dropped, and `DrainCompletes` assumes drops in its own statement.  Spurious wake-ups may
come for ever.  `Host`: a call under way goes on, one weak fairness for each thread and one for
shutdown: builds and writes end, the pool answers a checkout (which `EveryCheckoutReturns` shows), shutdown's deadline
passes, and a thread that a lock would admit from some point on gets it.  Nobody promises to make a call.  std's RwLock makes new readers wait behind a waiting writer;
`WriterFirst` is that preference.  `Adapter`: the ticker thread runs, and a guest past its deadline
comes to a point where Wasmtime interrupts it.  That a guest returns is not assumed:
`RunawayInterrupted` holds without it.

## Findings

* `pool_lost_wakeup`: a checkout that was woken and fails to instantiate (`pool.rs:133`) does not
  pass the notification on.  Another one sleeps to its deadline although the pool is below
  `instances_max`.  Without such failures `NoStrandedCapacity` holds.
* `host_health_deadlock`: `health` holds `composed` and waits for `reload_state` (`lib.rs:444`), `reload`
  holds `reload_state` and waits for `composed` (`lib.rs:426`).  Every later checkout waits
  behind them.  `EveryCallReturns` says that there is no other way for a call not to return.
* `host_drain_superseded`: shutdown counts guards of the current pool only and returns Ok while
  invocations on a superseded one run.
* `composition_left_open`: the load-time check counts every key of `[bridges]` as provided (`lib.rs:330`), whether or
  not that bridge was composed in.  Nothing is wired into bridges, so an import of one bridge whose path is such a key is
  left open, and since `instantiate` links nothing it fails at the first call, against the comment at line 294.
* `adapter_nested`: `introspect` raises `depth` for nested components only and lowers it for every
  end, also that of a core module (`clean-host-core-wasmtime/src/lib.rs:273-274`).  After a core module inside a
  nested component, the rest of that component is taken for the outer one, against the comment at
  line 264.  The error is one-sided: `NothingMissed` holds, since the counter is never above the nesting.
* `adapter_budget`: the deadline is set when a store is created or reset (lines 325 and 367), not
  when a call begins.  Idle time in the pool and earlier calls of a lease count against the next call, which may
  be trapped at once; line 74 speaks of a single guest call.  No call gets more than the limit
  (`CallWithinLimit`), and none runs for ever (`RunawayInterrupted`).

The models also show the following, without a violation of their own.

* A guest that imports an interface at an older patch than the bridge exports, or without a version, is refused: WAC wires
  exact names (`compose.rs:193`), while `bridge.rs:129-133` and the test `a_newer_bridge_patch_satisfies_an_older_requirement`
  there say that the newer patch satisfies it.  `RefusedOnlyByNames` excepts it (`NamedAlike`).  For the same reason a
  bridge configured for an interface that is ambient too makes a guest fail that imports another version of it.
* What `introspect` takes for an export of the guest because of `adapter_nested` is refused by WAC (`ReportedRight`).
* A log record whose component, message or value has a line break spans several lines, since `quote` lets the break through
  (`log.rs:89`), against "one `key=value` line" (`log.rs:63`) and "one line per record" (`log.rs:117`).
  `OneLineUnlessValueBreaks` states exactly when; keys never break a line.  A reader that follows quotes over
  lines still gets every field back (`StreamReadsBack`), one that goes line by line does not.
* Overlapping reloads swap in the order in which they get the mutex, so the older composition may end up serving
  (`lib.rs:420`); `../tests/reload.rs:256` says "Only the newest pool is live", of reloads one after another.
  `reload(&self)` does not keep them apart, so no property promises it.
* A checkout that cloned the pool before a reload closed it is told "host is shutting down" (`lib.rs:403`).
* The manifest says it is regenerated on reload, but neither `compose` nor `reload` writes it (`lib.rs:419`).
* Minutes and hours that do not fit in a u64 wrap around in a release build and panic in a debug build (`config.rs:315`),
  where sizes are refused; `DurationsExact` claims nothing of them.

`reap_idle` is documented as called by the concrete host on a timer, but `Host` keeps its
pool private and has no method that leads to it.

## Proofs

`InstancePoolProofs` proves, for every finite set of clients, every set of instances, every size and
every timer that the assumptions of `InstancePool` allow:

* `TypeCorrect`, `CountersAreHonest`, `InvocationsAreIsolated`, from the
  inductive invariant `IInv` = `TypeOK /\ CountersHonest /\ Exclusive /\ Isolation` (`Invariance`).  `Exclusive`, that
  no instance is in two places, is ownership of a `Box` in the code; the proof needs it said.
  None of the four is inductive alone.  `queued - 1` is a number only because the caller is among
  the waiters that `queued` counts; `active` equals the number of guards only if a drop
  lowers it by one, which `saturating_sub` does only if it was positive; a new instance has an
  identity in no other place because identities of the deque and of the guards are
  disjoint; and what is put back is clean of its guard alone.
* `CeilingHolds`: the instances that exist number at most `Len(idle) + active`, which until close is
  `live`, and after close the deque is empty and `live >= active`; `live` is at most `InstancesMax`.
* `PromiseKept`: an initial state is one of `LeasePool` and, under `IInv` and `Ceiling`, a checkout that succeeds
  is `Lease`, `Invoke` is `Run`, a drop is `Release`, `Close` is `Shut`, and the rest stutters.

The proof has one lemma per action, and lemmas for what actions share: ending a checkout
empty-handed (`EmptyHanded`), entering from a wait (`QueuedWithout`), and counting.
The assumptions are the ones the module states: the sizes `config.rs` accepts
(`PoolConfigAssumption`), natural timers, finitely many clients.

`InstancePoolWaitProofs` adds the properties about waiting, by `WaitInv` on top of `IInv`.  They
speak of counts because one wake-up serves one client.  `WakeUps` are the clients that are woken and
have not got the mutex yet, plus those that have given an instance back and are about to notify;
`Places` are the idle instances and the room below `InstancesMax`.  The lemma `WakeUpsKeepPace` says of every
step that what it makes free it adds a wake-up for, unless nobody sleeps after it or nothing is free:
a drop makes a place and a wake-up, an attempt uses up one wake-up at most and takes a place if it does not
go to sleep, `NotifyOne` hands a wake-up on or finds nobody asleep, and `ReapIdle` turns idle instances into
room.  From it follow `NoInstanceStranded` and, under the hypothesis that instantiation does not fail,
`NoCapacityStranded`.  A failed instantiation uses up a wake-up and takes no place, which is
what `pool_lost_wakeup` shows.  `ExhaustionIsHonest` needs that who timed out has no time left
(`TimedOutAtDeadline`); `DequeInOrderOfAge` that the ages of a deque grow together.

`HostProofs` proves, for any number of threads of each kind, any envelopes and any number of
generations, `HInv`, with a lemma for each kind of step.  The properties of the run are inductive only with the others:

* Numbers in use were given out (`NumbersGivenOut`), so the next one is new; a composition that is built
  and does not serve yet is in one reloader's hand and is neither retired nor anybody's to retire (`FreshIsPrivate`,
  `RetiringIsSuperseded`, `ComposesAlone`).  So `ServingStaysOpen` and `NoPoolForgotten`.
* `OneStateHolder` and `RecordedServes`: `reload_state` is held from the record to the swap, so the recorded
  reload serves or is about to.  `ReadersSeeServing`: nobody swaps under a read lock.  From these
  `HealthIsConsistent`.
* `FreshKnowsEnvelopes` carries `EnvelopesAgree`, and `NoCallsAfterShutdown` whatever must stay so while the host drains.
* `ServiceKept`: `ComposeInstalls` and `ReloadSwaps` are `Serve`, of a composition that `FreshIsPrivate` says
  never served; `ReloadRetires` is `CloseFormer`; a checkout that succeeds is `Begin`, a drop `End`;
  `PublishWrites` is `Describe`, of what serves by `ReadersSeeServing`; shutdown is `Stop` and
  `Stopped`; and the rest stutters.  It takes one invariant of its own, `DrainingServed`: what is drained
  is a composition that served.

`CompositionProofs` proves, for every set of interfaces and versions and every deployment:

* `RulesAgree`: `compatible_with` and `check_version` compute the same relation, the one the
  comments state (`Meets`), so no bridge can pass one and fail the other for a different reading.
* `BuildTypeCorrect`, `BridgesStayInside`, `ManifestIsTrue`, from the inductive
  invariant `CIInv` (`DecidedForGood`): once a stage is passed, what was checked holds of every bridge, and what was
  chosen follows from the deployment alone.

`CompositionVerdictProofs` takes this to the verdict.  `VerdictInv` adds that a build past a stage has passed
its check (`Passed`) and that one that ended with an error has failed the check of that error
(`Refused`).  `ChecksDecide` is the part that has nothing to do with steps, and has two halves.  A guest that passes all
checks is `Runnable` if its composition is `Complete`; that hypothesis is what `lib.rs:330` fails to establish.
A guest that is `Runnable` passes them all under `OneSource`, `NamedAlike` and `ReportedRight`; none of the three can be
left out, and TLC shows the deployments.  `OpenOnlyByKeys` follows from the load-time check alone: whatever entry
`Registered` finds for a path that is no key of `[bridges]`, it is the host's or an envelope's, and compatible.
`WronglyRefusedOnlyByNames` follows from the second half.

`AdapterProofs` proves, for files of any length and nesting, any number of instances and any
limit:

* `AdapterTypeCorrect` and `NeverMissed`, from `ReadInv`: as long as the parser is inside anything,
  `depth` is less than the height of its stack (`DepthBelowNesting`).  A nested component raises
  both, a core module the stack only, and each end lowers both; so `depth` is 0 whenever the
  parser is in the outermost component, and nothing it declares is skipped.  The converse fails, which is
  the finding.
* `AlwaysFresh` and `NoCallAboveLimit`, from `StoreInv`, which adds that every store that exists has a
  deadline exactly when interruption is on (`DeadlinesSet`).

`AlgorithmsProofs` proves, for any texts, configurations, log records, sets of registrations and `host.wit`, and any
`MaxU64` and `Kibi`:

* `ParityIsServed`: the check finds nothing if and only if `host.wit` parses and what its own worlds export is
  registered by working implementations, and nothing else is.
* `PoolCanServe`: a configuration that passes the checks of `parse` satisfies `PoolConfigAssumption` of the pool.
* `SizesAreExact`: a size is read as exactly the bytes it stands for, or refused if they are no u64.
* `DurationsAreExact`: so is a duration whose seconds fit; of one whose seconds do not fit nothing is claimed.

* `StreamIsReadBack`: a reader of log lines that knows about quotes gets back every record at or above the level,
  with all its fields and nothing else, for records with any number of fields and texts of any
  length.  Its lemmas follow the text: a key is read up to its `=` (`KeyIsRead`), a value comes back whether it had to be
  quoted (`QuotedIsRead`) or not (`PlainIsRead`), since `Escape` puts a backslash before each backslash and quote and
  touches nothing else (`EscapeGrows`); so a field, a line and a stream are read back (`FieldIsRead`, `RenderedIsRead`,
  `StreamIsRead`), because the reader goes on from where it got to (`AfterBoth`).

`DataLemmas` holds what both need about data.  The library's theorems of induction take an operator as a
parameter, which no installed prover can instantiate; `Induction` and `SequenceInduction` are about a set
instead: one with 0 that is closed under adding one is `Nat`, one with the empty sequence that is closed
under `Append` has all sequences.  They rest on `LeastPosition`, a set of positions that is not
empty has a least one, which follows by counting, since a finite set cannot be mapped one to one into a
smaller one.  `FlattenGrows` gives `FlattenSeq`, the fold of all texts, by its next element.

Only model-checked is liveness, which is out of the prover's reach, `EveryCheckoutReturns`, `DrainCompletes`,
`EveryCallReturns`, `RunawayInterrupted`, and `OneLineUnlessValueBreaks`.  Every other property of a passing run is a theorem.

The assumptions on constants (`PoolConfigAssumption`, `TimersAssumption`, `ClientsAssumption`,
`ThreadsAssumption`, `HostAssumption`, `ReferencesAssumption`, `DeploymentsAssumption`, `AdapterAssumption`,
`ConfigAssumption`, `ParityAssumption`, `InputsAssumption`) are all that is taken for granted; TLC evaluates each
on the runs.

The violations under Findings are TLC's.

## Plan

The modules were built from the inside out: the pool, the host on the pool's promise, one build of a
composition, the adapter, the pure parts, and last what the host as a whole promises; and each was
proved in that order.  What is planned here is done.  Open are the parts listed below; liveness, should
a prover for it come within reach; and, should the repository say which source of a path wins or
whether the total of instances over generations is bounded, properties that now have no document
to rest on.

## Not modelled

TOML, WIT, WAC and Wasmtime themselves; the text of manifests and diagnostics; of
`HostConfig::parse`, the resolution of paths, warnings for unknown keys, and values that are only carried
along; `set_host_provided` (a list replaced before the host is shared), `set_log_sink`, `logger` and
`warnings` (a lock held for one copy); the tests and benchmarks, which were read for what they
claim.  Of the adapter: the failures of `WasmtimeRuntime::new`, after which there is no adapter, and a
limit of zero ticks with interruption on, where no deadline is set and what happens is Wasmtime's
to say.  Poisoned locks: a panic in a guest's
instantiate or reset while the pool's mutex is held would make every later `unwrap` panic; the
traits do not panic in this repository.  The total of instances over all generations has no bound in the code
and none is claimed.
