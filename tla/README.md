# A formal model of the voice navigation robot

This directory holds TLA+ modules for the part of `voice_nav_robot_ws` that
decides whether the robot may move, the TLC configurations that check them and
TLAPS proofs of their main properties. Source paths below are relative to
`src/voice_nav_mission/` of the repository unless they say otherwise.

## 1. The system

A spoken command becomes motion along this path:

```
microphone -> speech input -> agent (planner, tool calls) -> Mission action
   -> Mission Runtime -> relative motion / Nav2 -> conditioning pipeline
   -> candidate topic -> MotionGate -> wheel controller
STOP keyword / console -> StopMission service -> Mission Runtime -> MotionGate
```

Everything below "Mission action" is C++ in `voice_nav_mission`; that is where
the safety argument lives, and what this project is about. The other packages
speak to it through one action and one service.

| component | state it keeps | operations | talks to |
|---|---|---|---|
| MotionGate core (`src/motion_gate_core.cpp`) | state inhibited / prepared / armed / faulted, control sequence, lease, bound writer, selected command, three deadlines, a FIFO cache of request identifiers | `prepare`, `open`, `renew`, `inhibit`, `accept_candidate`, `tick`, `force_fault` | called by the node only |
| MotionGate node (`src/motion_gate_node.cpp`) | the candidate subscription, the retired writer, what was last published | the control service, the candidate callback, the 20 ms timer; all on one executor thread | ROS graph, wheel controller, the Gate's state topic |
| Authority client (`mission_authority_convergence.hpp`, `motion_authority_ros_adapter.cpp`) | the watermark: the newest Gate snapshot, the Gate identities it gave up, endpoint availability | four operations, each a loop of attempts under one deadline | Gate service and state topic |
| RuntimeCore (`src/mission_runtime_core.cpp`) | the active Mission and its step, generations, admission epoch, source sequences, STOP cache, availability, pending Gate replacement | admit, cancel, stop, tick, gate and dependency observations, child feedback and results | authority client, relative motion, Nav2 |
| Runtime node and planes (`src/mission_runtime_node.cpp`, `runtime_*.hpp`, `action_admission_tracker.hpp`) | two-lane event queue, emergency fence, completion mailbox and registry, terminal lane, generation leases, goal tickets | action callbacks, event loop, STOP service, shutdown barrier | RuntimeCore |
| Conditioning pipeline, relative motion (`motion_conditioning_pipeline.cpp`, `relative_motion_*.cpp`) | one generation with its lease, velocity smoother and writer | start, renew, cancel, inhibit | authority client, candidate topic |
| Map package and store (`map_package.cpp`) | a directory per map, with a manifest of hashes | save, publish, load, read a named place | SaveMap and NavigateTo steps of RuntimeCore, slam_toolbox, Nav2 |
| Navigation ingress, writer observation | source freshness, stable graph observations | | |
| Agent (`voice_nav_agent`) | turns, plan, one active Mission | text in, tool calls out | Mission action, StopMission |
| Audio (`voice_nav_audio`) | recognition windows, the utterance being played | keyword, transcript, speak, stop | agent, StopMission |

What is hard in it:

* three clocks and a distributed handshake: leases, freshness and preparation
  expire on the Gate's steady clock while the client works with snapshots that
  may be late, lost or from a Gate process that is gone;
* the Gate serves everything on one thread and yet `PREPARE` and `OPEN` block
  it while writers and samples come and go;
* a STOP must be answered with a *proof* that zero was published, and a
  publication may fail in its middle;
* STOP, cancel, child results, faults and shutdown race for the end of a
  Mission;
* bounded queues and caches, whose overflow is a safety event.

What makes each component correct:

* Gate: no command but zero without a live authority and a fresh sample of the
  bound writer; a proven zero holds until the next lease; a lease that ended
  never comes back; requests take effect at most once; a dead client stops the
  robot.
* Client: the watermark never goes back and is true when it is up to date; a zero reported by an `INHIBIT` is of
  the Gate that granted the lease and later than it.
* Runtime: exactly one terminal result per admitted Mission, after the barrier;
  no admission while faulted or stopping; a STOP that reports success was
  followed by no motion of an earlier epoch.
* Planes: nothing accepted is lost without a result or a fault; a shutdown ends.

## 2. Plan

| order | modules | what they are for | state |
|---|---|---|---|
| 1 | `GateLease`, `GateRequests`, `MotionGate`, `MCMotionGate`, `MotionGateProofs`, `MotionGateSafetyProofs` | the Gate, its abstract lease, its proofs | done |
| 2 | `GateService`, `AuthorityClient`, `MCGateService`, `MCAuthorityClient`, `GateRefinementProofs`, `AuthorityClientProofs` | the Gate as its client sees it; watermark, retries, zero proofs across Gate processes | done; one invariant by TLC only |
| 3 | `MissionRuntime`, `MCMissionRuntime`, `MissionRuntimeProofs` | RuntimeCore between fence, registry, relative motion and Gate: admission, epochs, STOP, terminal race, Gate replacement | done |
| 4 | `RuntimeNode`, `MCRuntimeNode`, `RuntimeNodeProofs` | the threads around RuntimeCore: admission gate and transaction plane, tickets and router, the two lanes, mailbox, terminal lane, shutdown | modelled and checked, all but `ShutdownEnds` proved |
| 5 | `MotionConditioning`, `MCMotionConditioning`, `MotionConditioningProofs` | one generation of motion after another: four threads, one cleanup, a replaced Gate | modelled, checked, all four invariants proved |
| 6 | `MapPackage`, `MCMapPackage`, `MapPackageProofs` | publication of a map in the face of crashes, and a reader beside it | modelled, checked, all four properties proved |

Open: the agent core, speech input and output, and the Navigation command
ingress (section 9 says what they would need).

How the modules fit. Each one models the neighbours it calls by what they may
answer. For the Gate a refinement proves that it answers no more; between the
other modules the correspondence is one of reading:

```
MapPackage <- NavigateTo / SaveMap steps
RuntimeNode    (threads, queue, tickets; RuntimeCore is the slot of a Mission)
   MissionRuntime   (RuntimeCore's decisions; the Adapter is a child)
      MotionConditioning   (the Adapter's pipeline; the Gate is a lease)
         AuthorityClient   (the requests; the Gate is GateService)
            GateService <= MotionGate => GateLease      (refinements, proved)
```

## 3. The MotionGate

### `GateLease`: what the Gate promises

`closed -> granted -> live -> closed`, and `dead` for ever after a fault. A
term names every phase; it only grows, and a Gate process starts a new series.
While a lease is live the controller may receive anything; otherwise it only
receives zero, except in the step to `dead` itself: a fault that is latched in
the middle of a publication may come after a command that was already sent. A
lease that ended is never live again.

### `MotionGate`: the code

The module follows the code's two layers. The operators before *Control
requests* are the private helpers of `MotionGateCore` as functions of its
members; the actions are the handlers of the node, each with all the core calls
it makes and the publication barrier at its end.

| in the model | in the code |
|---|---|
| `gate` | the members of `MotionGateCore` |
| `Reconciled`, `Retired`, `Advanced`, `Faulted`, `Closed` | `reconcile_deadlines`, `retire_lease`, `advance_control_seq`, `force_fault` |
| `Verdict` (in `GateRequests`) | `replay_or_collision`, `validate_common` and the checks after it, in their order |
| `cache`, `Remember` (in `GateRequests`) | `request_id_cache_` with `request_cache_order_` |
| `Refuse`, `Inhibit`, `Renew`, `Prepare`, `OpenBegin`, `OpenUnready` | `on_control` with its four handlers |
| `job` with `PrepareBlocks ... OpenBreaks` | the handler that blocks the executor: the wait of PREPARE for the retired writer, the second and third graph snapshot of OPEN |
| `reader`, `inbox` | `candidate_subscription_` and its KEEP_LAST(1) queue: reader A and B discard, reader C accepts |
| `retired` | `retired_writer_gid_` and `retired_candidate_topic_` |
| `Conclude` | `tick`, `publish_serialized`, `publish_state(_or_stop)`, `reconcile_adapter_transition` |
| `OnCandidate`, `Discard`, `OnOutputTimer` | the callbacks of the same names |
| `Start`, `Restart` | the node's constructor |
| `home`, `WriterAppears/Disappears/Publishes` | external: DDS writers of the candidate topics |

Choices a reader should know:

* A deadline is the ticks left to it. The code leaves the deadlines of other
  states behind; the model sets them to 0, since only the state's own is read.
* `candidate_seen_` and `candidate_fresh_` are always written together and are
  one field.
* A lease identifier is the control sequence that made it. `make_lease_id` puts
  the instance and the sequence into it, so this loses nothing inside one
  process; requests carry the process separately. `Alien` stands for every
  identifier that another process made.
* The barrier can fail in several places. What comes of it is one of: the
  command was published and nothing failed; or the core is faulted and the
  controller received a zero, nothing, or the command before the fault.
* The handlers of control requests call `tick` with the time they began with.
  A request that was fit at that time has no expired deadline at that time,
  which is the lemma `FitIsCurrent`; so `tick` changes nothing there.
* A malformed identifier or an operation number out of range is refused like a
  request that is in the wrong state, and is not modelled on its own.
* Clients are every request built from a tuple they can hold: the current one,
  one at most `Lag` operations old, one of an earlier process, or the current
  one with a lease of an earlier process. How the real client picks them is the
  subject of section 4.
* After a restart the writers of old topics are dropped from `home`: a new
  process has another instance identifier, so it never subscribes to them.

History variables (`authAge`, `candAge`, `source`, `opened`, `everBound`,
`proof`) are written and never read by an action.

### Properties

| property | what would break it |
|---|---|
| `TypeOK` | a cache that outgrows its size, a sequence past its limit |
| `OutputAuthorised` | a missing deadline, a sample from before OPEN that slips through the reader handover, another writer's sample |
| `ProvenZeroHolds` | answering an INHIBIT with a proof that a failing publication or a still open core makes untrue |
| `RetiredWriterGone` | looking for the retired writer on the wrong topic, forgetting it on one of the ways a lease ends |
| `ReaderFollowsLease` | a reader that survives its lease, or one created before the core is armed |
| `SequenceNamesTuple` | a lease that ends without a new sequence: the client's watermark would keep the old tuple |
| `LeaseSpec` | any of the above seen from outside, also across a restart |
| `DeadmanZero` | a deadline nobody looks at |

### Runs

| run | instance | result |
|---|---|---|
| `gate_safety` | 2 request ids, 2 writers, MaxSeq 4, one process, cache of 1, PREPARE/authority/freshness/graph 1/2/1/1 ticks, Lag 1, symmetric in ids and writers: all invariants and `SequenceNamesTuple` | passes |
| `gate_refinements` | 2 ids, 1 writer, MaxSeq 3, two processes of which the second one is followed to its first operation (`UpToTheRestart`), Lag 0, no symmetry, `FairSpec`: `LeaseSpec`, `ServiceSpec` (section 4) and `DeadmanZero` | passes |

Why the bounds are enough. Four control operations hold a complete PREPARE,
OPEN, end of lease and the PREPARE that waits for its writer, and the exhausted
sequence on top. Two writers are needed for a wrong or ambiguous writer and for
a retired one beside a bound one. Authority must outlast freshness
(`config_is_valid`), so 2 and 1 are the least values; the other waits are one
tick, so that each may be over or not when the handler goes on. A cache of one
entry with two identifiers has replay, collision and eviction. `Lag` 1 gives a
tuple with the right process and the wrong sequence or lease; an older one is
told apart by no guard. `ProvenZeroHolds` and the proofs carry no bound but
`MaxSeq` and `MaxInstance`, which are constants of any value there.

Fairness of `FairSpec`: time passes; a blocked handler meets its deadline (the
loops of the code end by the steady clock); the executor is one thread and the
timer's callback is served between handlers, with a publication that succeeds
again and again (strong fairness of `TimerPublishes`, since a control handler or
a failing publication may come first each time). Clients, writers and samples
get none: `DeadmanZero` is about their absence. Restart needs none either.

### A divergence: the first sample

`docs/architecture/safety-and-motion-contract.md:80` and
`docs/process/testing-strategy.md:173` say that OPEN and RENEW start a bounded
window for the first sample of a lease. The core starts a candidate deadline
only when a sample is accepted; TLC shows a lease that stays
armed, with zero output, after the window (`MCMotionGate_first.cfg`, a
configuration beside the listed runs, violates `FirstSampleBounded`). Nothing moves because of it, but a
conditioning pipeline that never produces is not noticed by the Gate as long
as the Runtime goes on renewing.

### Proofs

`MotionGateProofs` proves `TypeCorrect`: one lemma per helper that the value it
makes is a `Gate` record, one per handler, then the theorem.

`MotionGateSafetyProofs` proves four of the invariants for every value of the
constants. None of them is inductive. `IInv` adds to `TypeOK`:

* `CoreInv`: which members a state of the core may have (a closed core has no
  lease, writer or command; only an armed one has a fresh sample; a deadline
  belongs to its state);
* `JobInv`: a handler blocked in OPEN means a prepared lease before the second
  snapshot, an armed one with zero selected after it, with the request's lease
  and the first writer;
* `ReaderFollowsLease`, which is what keeps an early sample out of reader C;
* `WriterInv`: every writer ever bound is bound now, or is the retired one, or
  is gone; this is what PREPARE's wait is for;
* `ClockInv`: the ages of the history variables against the deadlines left;
* `SourceInv`: the command selected is the sample that was accepted, written by
  the bound writer after the lease was armed;
* `ProvenZeroHolds` and `OutputAuthorised` themselves.

`Invariance` proves `Spec => []IInv` with one step per action; the theorems
follow from it. The assumptions are those of `GateAssumption`, that is
`config_is_valid` and positive bounds. TLC also checked `IInv` part by part on
an instance with two processes before it was proved.

`GateRefinementProofs` proves the two refinements and the action property. A
handler changes the core and then runs the publication barrier, which may break
it; so the module first says what a change of the core alone may be
(`CoreMove`: the tuple stays, the lease ends, the core breaks, a lease is
granted), shows that every handler makes one of these, and then what each of
them followed by a barrier is in the abstract specification.

* `GateKeepsTheLease` (`LeaseSpec`) and `TupleIsNamed` (`SequenceNamesTuple`)
  need, besides `IInv`, `PreparedIsStill`: the controller holds zero while the
  core is prepared. PREPARE's barrier left it there, and this is why the lease
  that OPEN makes live starts at rest.
* `GateServes` (`ServiceSpec`) needs `JobFits`: the request of the handler that
  is blocked still gets the verdict it got when it was taken, so that an answer
  given ticks later is one the service could give. The theorem is what lets
  section 4 speak of `GateService` alone: what is proved there of the client
  holds with `MotionGate` in its place.

Only model-checked: `DeadmanZero` (liveness under fairness is beyond the
prover).

## 4. The authority client

### `GateService`: the Gate as its client sees it

`MotionGate` has too many parts for two clients and a network to be put around
it. `GateService` keeps what an answer or a state sample can tell: state,
sequence, lease, whether a moving command is selected, the request cache, the
answer with its zero proof, and that OPEN arms the core before it is answered.
Deadlines, readers, writers and publications become choices: a lease may be
over when a request is looked at, PREPARE and OPEN may be declined, a barrier
may break the core. `gate_refinements` shows that `MotionGate` implements
it under the mapping of `MCGateService`, so what the client may meet here is no
less than what the Gate does. Both take `Verdict` and the cache from
`GateRequests`.

### `AuthorityClient`: the code

| in the model | in the code |
|---|---|
| `mark`, `gaveUp`, `Accepts`, `Merged`, `GivenUp` | `GateSnapshotWatermark`: `snapshot_`, the Bloom filter, `merge`, `retire_identity` |
| `sampled`, `Lost`, `Refreshed` | `state_sample_available_`, `set_endpoint_available`, `refresh_endpoint` |
| `Send`, `Receive`, `TimesOut` | `send_once` and `unavailable` inside one turn of `MissionAuthorityConvergence::run` |
| `Rebuilt`, `LeavesHome`, `Settled`, `Revoked` | the branches of that loop after an attempt |
| `ProvesZero` | `inhibit_result_proves_zero` |
| `held` | the generation of the conditioning pipeline: its lease, the Gate process and the sequence that granted it |
| `PrepareClears`, `Prepare`, `Open`, `Renew` | the worker's calls of the authority in `prepare`, `start` and the renew callback |
| `InhibitGeneration` | `inhibit_gate`, also on the emergency path that does not wait for the worker |
| `InhibitCurrent` | `startup_gate_zero_reassert`, and `RuntimeCore::inhibit_and_prove_zero` at start-up |
| `AfterPrepare`, `AfterDrive`, `AfterInhibit`, `Reset` | what those callers make of the result, `reset_generation` |
| `OnGateState`, `Refresh` | the state topic's callback, the tick of the Runtime node |
| `queue`, `flight`, `GateServes`, `GateReboots` | external: the middleware and the Gate process |

Choices a reader should know:

* Two threads are enough: the pipeline serialises its normal calls by
  `authority_call_mutex_`, and only the emergency INHIBIT passes it.
* A deadline is a choice. `Receive` may find that the overall deadline has
  passed, and then revokes the result as the code does; `TimesOut` stands for a
  missing service, a missing answer and a late one.
* Requests of one client reach the Gate in order (reliable DDS service); an
  attempt given up is still in the queue and is served later. Answers reach
  only the attempt that waits for them. State samples may be overtaken,
  dropped or delivered after anything else.
* A look at the ROS graph may say anything at any time; it decides
  `endpoint_available`.
* The Bloom filter is modelled without false positives: one would only refuse a
  snapshot, which the model allows by not delivering it.
* The lease identifier of another process is `Alien` to the present one, as a
  string made from another instance identifier is to the Gate.
* No fairness: every property is one of safety.

`used`, `done` and `ended` are history variables that no action but the choice
of a fresh identifier reads.

### Properties

| property | what would break it |
|---|---|
| `WatermarkTrue` | a lease that ends without a new sequence; a merge that mixes two snapshots |
| `WatermarkAdvances` | a late sample of a process that was given up |
| `ProvenLeaseOver` | a proof taken from a retained snapshot, or from an answer about an older lease: a STOP would be reported while the lease is live |
| `BoundStaysHome` | a generation's INHIBIT rebuilt after a replacement: it would end a lease of the new process, which another generation may hold |
| `EffectOnce` | the rebuilt retry of an applied operation applied again |
| `ServiceSpec` | `GateService` promising more than the Gate keeps |

### Runs

| run | instance | result |
|---|---|---|
| `gate_refinements` | see section 3: `ServiceSpec` | passes |
| `client_operations` | 2 operations after the start, or the second one in the middle of a motion, MaxSeq 3, 2 Gate processes, 2 attempts, 1 sample on the way, all faults | passes |

Two operations after the start are a PREPARE and the INHIBIT that races it,
follows it or meets a replaced Gate. `Driving` begins in the middle of a motion,
in the last Gate process and with a cache that no longer holds the PREPARE and
the OPEN, which the client does not send again: the worker renews or is stopped,
or a RENEW on its last attempt races the INHIBIT that ends the generation. Three
and four operations from the start would reach these too, at many times the
cost. With two attempts there is a first one that is
lost, stale or refused by the watermark, and the retry with the same or the
rebuilt tuple; a third would start from a tuple of the same kind. One sample on
the way is enough for it to be late, since it may be replaced or delivered at
any point; several would only be merged in some order. A run ends when the
identifiers are used up, hence `CHECK_DEADLOCK FALSE`. The type invariant
`ClientTypeOK` is kept for the reader and was checked on the same instance.

### The divergences: what may be rebuilt

`safety-and-motion-contract.md:122` says that an outdated instance, lease or
sequence is answered with a typed mismatch. `validate_common` looks at the
presence of a lease before it compares the sequence, so an INHIBIT built for a
lease that expired on the way is refused as INVALID_REQUEST
(`MCAuthorityClient_typed.cfg`, `MismatchIsTyped`). The client does not retry such an answer and STOP reports
that it has no proof, although the output is zero.

`mission-runtime-interface.md:158` says that only an explicit STALE answer may
rebuild the tuple. `send_once` also calls a result stale when the watermark
refused its snapshot, so an APPLIED answer overtaken by a newer sample is sent
again with another tuple (`MCAuthorityClient_rebuild.cfg`, `RebuiltWhenStale`). The Gate's cache answers it as a
duplicate; `EffectOnce` shows that it is not applied twice.

### Proofs

`AuthorityClientProofs` proves four of the five properties, for any number of
request identifiers, attempts, samples on the way, sequences and Gate processes.
The assumptions are `RequestAssumption` and `ClientAssumption` (bounds that are
natural numbers, no request 0). None of the properties is inductive: the watermark is a copy
of a snapshot that came from somewhere, so what has to be invariant is what any
snapshot says, wherever it is.

* `Honest`: a snapshot on the way, in an answer or in the watermark is not ahead
  of the process that runs; it is right where it is up to date, and it names the
  lease in force if it is as new as that lease (`MarkInv`, `WayInv`).
* `Unasked`: a process that the client never followed was never asked anything,
  so that all it ever said is its first zero or a fault. This is what keeps a
  sample of a process that was missed, and turns up after a later one was
  followed, from doing harm (`MarkInv`, `WayInv`).
* `CallsInv`, `QueueInv`, `OpeningInv`, `HeldInv`: a request asks a process that
  was followed, a bound one only its own, and an answer is not older than the
  lease that was in force when the operation began.
* `EndedInv`: a lease that somebody holds a zero proof against is over.

The steps are split by who makes them: a step of the Gate leaves the watermark
alone, a step of the client leaves the Gate alone, so each half needs only one
lemma per part of the invariant. `EffectOnce` stays with TLC: it holds as long
as the Gate's request cache still has an operation that is being retried. The
code bounds neither the number of operations in between nor the time of a
retry against the cache, so that a proof would need an assumption the code does
not justify; in the runs the identifiers are few enough.

## 5. The Mission Runtime

### `MissionRuntime`: the code

The event worker runs one handler of `RuntimeCore` at a time, so a handler is
one action. It is built from the calls the handler makes, each an operator from
a *world* (a record of every variable) to the set of worlds it may leave: that
keeps the order of the calls, the early returns, and what other threads can do
between them, without a program counter. `safe` in the world is what a call
returns to its caller (`TerminalOutcome`, the success of a rearm).

| in the model | in the code |
|---|---|
| `core` | the members of `RuntimeCore`; `bound`, `handled`, `lost`, `pending` are `gate_bound_`, `gate_fault_handled_`, `gate_fault_snapshot_`, `gate_replacement_pending_` |
| `fence`, `Raised`, `CanAdvance` | `RuntimeEmergencyFence`: `raise`, `advance_epoch` |
| `port`, `Cancels`, `PortStarts`, `Healthy`, `PortRearmed` | the relative-motion Adapter: `cancel`, `start`, `healthy`, `rearm_after_gate_replacement` |
| `registry`, `Recorded` | `NodeCompletionRegistry` and its `accept` |
| `auth`, `samples`, `Watermark` | the watermark of section 4 and the Gate samples in the event queue |
| `Admit`, `AdmitRefused` | `admit`, and the rejections of it that change the state |
| `Stop`, `StopClass`, `StopBarrier` | `stop` with its STOP cache and `execute_terminal` |
| `Cancel`, `ChildResult`, `FenceCallback` | `cancel`, `on_child_result`, `fail_closed_at_epoch` |
| `ObserveGate` with `ObserveUnbound`, `ObserveLatched`, `ObserveLoss` | `observe_gate`, one operator per branch |
| `Tick`, `Ticked`, `ObserveDependencies`, `TryRearm` | `on_tick`, `observe_dependencies`, `try_rearm_pending_gate_replacement` |
| `Terminal`, `Finished`, `Settled`, `CommitNextEpoch` | `select_terminal_and_stop`, `finish_active`, `set_availability_from_dependencies`, `commit_next_epoch` |
| `RaiseFence`, `EmergencyStop` | `request_emergency` on any thread and its callback, the independent emergency stop |
| `ChildEnds`, `IdleTeardownEnds`, `Startup` | the Adapter's own transactions |
| `DependenciesChange`, `GateMoves` | external: the robot's sources, the Gate |

Choices a reader should know:

* `Unsettled` puts a fence raised by another thread at each place where the
  handler looks at the fence again. A raise at any other place has the same
  effect as one at the next look.
* A snapshot of the Gate is one of seven kinds, as many as the guards tell
  apart. `Shown` limits which of them the Gate shows in a run.
* Time is a choice: `Tick(late)` says whether the Mission's deadline has passed,
  `Cancels` whether the Adapter met its own.
* A Mission result is a success or another one. Which of the other codes it is
  depends on the caller alone.
* A child's record is delivered at any time, also behind the fence, as the
  terminal lane does; Gate samples are a set, since `observe_gate` has to bear
  any order of them.
* The Adapter owns the life cycle of the authority, as the production one does,
  so the branches of `admit` and `on_tick` that prepare and renew themselves do
  not run. Navigation steps go through the same Adapter and are not told apart.
* Admission starts behind the source-sequence and plan checks; a Mission that
  fails them changes nothing here.
* The Adapter may refuse a start although its port is safe: a teardown publishes
  its completion before the transaction thread is idle again, and
  `transaction_kind_` refuses until then. `PortStarts` can always fail.

### Properties

| property | what would break it |
|---|---|
| `FenceInStep` | an epoch that moves in the core and not in the fence: every Goal would be refused, or a stale one admitted |
| `BlockedIsTerminal` | a fence that leaves an idle core available |
| `MissionIsBacked` | a refusal of the Adapter, or a teardown racing a cancel, that reports nothing |
| `OneRunning` | a slot given back without a result, or a result without the slot |
| `StopMeansStopped` | a STOP or a duplicate of it that is acknowledged while a child runs or no zero is proven |
| `StepsAreEarned` | the late result of an earlier Mission taken for the present one's; a Mission that ends a step too soon |
| `EpochFollowsLoss` | a lost or replaced Gate that leaves the advertised epoch good because no Mission ran |
| `RearmCostsAnEpoch` | a replacement that is accepted under the old epoch |
| `MissionEnds` | a Mission whose child was silenced and whose deadline nobody looks at |

### Runs

| run | instance | result |
|---|---|---|
| `runtime_missions` | 2 Missions of 1 step, 1 STOP identifier, 1 Gate, epoch limit 2, queue of 1, STOP cache of 1, registry of 2, Gate idle or with an unproven zero, `FairSpec` | passes |
| `runtime_replacement` | 1 Mission of at most 2 steps, 2 Gates with sequences 0 and 1, epoch limit 3, Gate idle or gone | passes |
| `runtime_registry` | 2 Missions, registry of 2 | violated, see below |

Why the bounds are enough. Two Missions are one whose child, record or STOP is
late and one that must not notice. One STOP identifier gives a first STOP, its
duplicate, a collision; StopRefused is also the request that finds the cache
full. Epoch limit 2 has one rotation and the exhausted counter; a loss and a
rearm need 3. A queue of one overflows at the second sample. Two Gates with two
sequences have an old and a new sample of each, a recovery of the same Gate and
a replacement. Each run leaves one dimension out: the replacement run has no
second Mission and no STOP identifier, the other one no second Gate. Neither
passing run fills the registry; `runtime_registry` does. The limits stand for
2^64 - 1 epochs, 16 registry entries and the configured STOP cache.

Fairness of `FairSpec`: the timer comes round until a deadline has passed, and a
pending fence wakes the worker. The timer that counts must leave the fence down:
fairness of the plain action would let the model rely on a fence to go up and end
the Mission. Nothing else is fair, the Adapter least of all, since `MissionEnds`
is about a child that says nothing.

### Two bugs

*The registry fills up* (`runtime_registry`). `start_step` registers a delivery
owner for each child, and only a delivered record or a `start` that throws takes
it out again. The teardown of a cancel, a STOP or a timeout does not deliver
(`deliver_result = shutting_down_`). After 16 such Missions the registry refuses
every child: the Runtime advertises AVAILABLE, admits each Mission, and ends it
with SAFETY_FAULT, until the process is restarted.

*A fault is overwritten* (`MCMissionRuntime_orphan.cfg`, `AvailableHasNoChild`). If the Gate is replaced during a
Mission, `observe_gate` ends the Mission and then sets the availability from the
new snapshot alone, also when the terminal barrier has just set FAULTED since
the cancel missed its deadline. At the next tick the Adapter counts as healthy
because its child still runs, and the Runtime becomes AVAILABLE with the old
child unproven. A Goal in that window is refused by the Adapter, so it is the
advertised state that is wrong, and the latch the contract asks for is lost.

### Proofs

`MissionRuntimeProofs` proves all eight safety properties and `TypeOK`, for any
number of Missions, steps, STOP identifiers, Gates, epochs and any size of queue,
STOP cache and registry, from `RuntimeAssumption` and `ShownAssumption` (the kinds
of snapshot a run shows are kinds). The proof follows the
module: a handler is a composition of calls, and each call is a set of worlds,
so there is one lemma per call and the handlers follow by transitivity.

* `Sound(w)` is the invariant of a world: its types; `InStep` (core and fence
  admit one epoch, or the fence is up and its callback due); `Single` (the
  Mission without an outcome is the one in the slot); `Backed` (the slot's
  Mission has a child that runs for its step, or an answer on its way);
  `Terminated` (a raised fence that was handled leaves nothing but FAULTED).
* `Due(w)`: a fence that is up still has its callback to come. Another thread
  may raise the fence in the middle of a handler; `Terminated` then fails to
  hold by what the handler does and holds since the callback is due. A handler
  that begins in such a state, or behind the fence, is shown to end in one.
* `Follows(w, v)` relates the worlds before and after a call: `Ahead` is what no
  call takes back (epochs, outcomes, a fence that is up) and what it has to pay
  for (a lost Gate or a cleared fault costs an epoch); `Holds` is that the
  Mission keeps its slot with the same child or answer, or gave it up without
  success. It is reflexive and transitive.
* `Good(w, v)` is what a whole handler has to be: `v` sound, the steps earned,
  the losses paid for. `NextGood` shows it for each action, and every theorem
  follows from it.

Only model-checked: `MissionEnds`, which is liveness. Two of the definitions the
proof goes through were put in a form the provers read (a nested union, a
function constructor); they denote what they did.

## 6. The Mission Runtime node

### `RuntimeNode`: the code

`MissionRuntime` runs one handler at a time; this module is about who may run
it, and what the other threads do meanwhile. RuntimeCore shrinks to the Mission
that owns its slot, and its reasons to end one are choices.

| in the model | in the code |
|---|---|
| `fence`, `Emergency`, `EmergencyCallback` | `RuntimeEmergencyFence` and the one callback its first raise runs |
| `queue`, `HasRoom`, `FaultRecorded`, `Enqueued`, `Popped` | `RuntimeEventQueue` with its two lanes and its fault event, `RuntimeEventIngress` |
| `gate`, `Submits`, `Submitted`, `Admissible` | `RuntimeAdmissionGate`: `submit`, `admission_allowed`, `quiesce` |
| `goal` with its ticket, `Revoked`, `Pruned`, `DrainTickets` | `ActionAdmissionTracker` |
| `OnGoal`, `OnCancel`, `OnAccepted`, `TurnAway` | the Action callbacks; `pending` and `goals` are the node's maps |
| `router`, `RouterCommit`, `RouterFinish`, `FinishGoal` | `MissionActionResultRouter`, `finish_goal` |
| `registry`, `lane`, `Relayed`, `Diverted`, `LaneTakes` | completion registry, mailbox, `RuntimeTerminalHandoffLane` |
| `Timer`, `GateSnapshot`, `OnStop`, `StopEmergency`, `StopDeadline` | the timer, the Gate's state topic, the STOP service and its deadline |
| `WorkAdmit`, `CoreAdmit`, `StartStep`, `EnterPort`, `PortStart` | `process_event(AdmitEvent)` and `RuntimeCore::admit`, cut where other threads can come between |
| the other `Work...` actions | the branches of the event loop |
| `port`, `TxBegin` ... `TxRollback`, `TxFails` | the Adapter's transaction thread under a lease of `RuntimeTransactionPlane` |
| `down`, `CloseGeneration` ... `JoinWorker` | `shutdown_barrier` and `RuntimeShutdownCoordinator::run` |

Choices a reader should know:

* Two mutexes are held across steps: the core's while the worker dispatches,
  and the Adapter's while its start waits for the admission gate's. A third
  one is held while a callback inside `submit` runs the emergency callback.
  Every other critical section is inside one step.
* A handle is known by its address only, and a new goal may get the address of
  one that is gone: the node's `pending` map is keyed that way.
* Every wait with a deadline may end by it at any time, so that all outcomes of
  `RuntimeShutdownCoordinator` come up in any combination.
* The teardown that a cancel asked for runs on a thread of its own and does not
  wait for the transaction.
* `CoreAdmit` may reject any goal, whatever the slot and the fence say: the other
  checks of `admit` look at state that is left to `MissionRuntime`. Among it are
  the rotations of the epoch that a STOP, a loss of health or a rearm causes in
  an idle core (`CoreEnds` with nobody in the slot changes nothing here); what
  this module can see of them is such a rejection.
* An event that the fence drops after its pop is dropped in a step of its own
  (`WorkDrop`), and the pass over the pending fence that the ingress makes right
  behind it is the worker's next one or, if a cancel or a STOP has come in
  between, the one after that, as it is for an event popped behind the fence.
* `JoinWorker` waits for the worker alone, as the code does. An emergency
  callback may still run on a callback thread after the join.

### Properties, runs and bounds

| property | what would break it |
|---|---|
| `TypeOK` | a lane that takes more than its capacity |
| `AcceptedIsSomewhere` | an accepted goal that is neither in the queue nor with the worker nor registered, with the fence down |
| `NobodyForgotten` | a result that comes before its goal is registered and is dropped, or kept for the wrong one |
| `OneTerminal` | the queue, the lane, a cancel, the fence and the shutdown all ending one goal |
| `NotStranded` | a child that goes without a word while its Mission keeps the slot |
| `NoStartAfterRefusedStop` | a STOP refused by a full lane whose fence does not reach the Adapter's start |
| `DrainedIsStill` | a lease that is begun but not yet granted counted as drained |
| `ShutdownEnds` | a shutdown that waits for a worker that waits for what the shutdown stopped |

| run | instance | result |
|---|---|---|
| `node_goals` | 2 goals, 2 addresses, no STOP, 2 normal slots, 1 control slot, symmetric | passes |
| `node_shutdown` | 1 goal, 1 STOP, 1 slot per lane, `FairSpec` | passes |
| `node_lock` | the same instance | violated, see below |

Two goals are one that runs and one that is turned away, waits or takes the
handle of the other. Lanes of one or two slots overflow after as many events;
the code's capacities are only larger. The process ends after its shutdown,
hence `CHECK_DEADLOCK FALSE`.

`FairSpec` runs every thread that can go on: worker, transaction, Adapter,
terminal lane, emergency callback, the callback that turns a goal away, and the
shutdown. Clients and timers get nothing. `ShutdownEnds` is stated up to the
lock cycle below, which no fairness resolves.

### A deadlock, and two smaller disagreements

*Two mutexes in two orders* (`node_lock`). `start` of the Adapter takes its own
mutex and then asks the admission gate. A callback inside `submit` has the
gate's mutex; if its event finds the lane full, the ingress runs the emergency
callback on the same thread, which needs the Adapter's mutex. Then the worker,
the callback and every later callback stand still, and the emergency zero that
the full lane should have caused is not sent. The Gate's own deadlines still
stop the robot.

*A queued goal without a result* (`MCRuntimeNode_dropped.cfg`,
`QueuedIsAnswered`). What the fence drops from the queue has no Mission, so that
nobody ends its goal: after the shutdown the goal is still accepted.

*A cancel for somebody else* (`MCRuntimeNode_cancel.cfg`, `CancelIsAsked`). The
cancel of a goal that is turned away stays in the map under the address of a
handle that is freed; a later goal at that address is cancelled.

### Proofs

`RuntimeNodeProofs` proves all seven safety properties, for any finite set of
goals and handle addresses, any number of STOP requests and any capacity of the
lanes. The only assumption is `NodeAssumption`. Three inductive invariants
carry them.

*What is shut stays shut* (`IInv`). A shutdown past its first stage has closed
the gate; a drained plane has a closed gate and no lease that could be granted;
a refused STOP left the gate closed or the fence up. Each helper of the module
is shown to be *calm* (`Calm`): it opens neither gate nor fence, moves no lease
and brings no child. That leaves few steps to look at: `PortStart`, which needs
both open; the steps of a lease; closing, draining and STOP itself.
`NoStartAfterRefusedStop` and `DrainedIsStill` follow.

*The books* (`BInv`) say where each goal is, and that queue, worker, `goals_`,
router and core agree on it:

* `Room`: no lane is over its capacity. The code looks for room before each
  push, for the records of children too;
* `Counted`: a goal that is over has its one result, and no other goal has any.
  This is `OneTerminal`, but it holds only because every party asks first
  whether the goal is still accepted;
* `Dated`: the epoch counts the Missions that have ended and the first raise of
  the fence, which is what bounds it for `TypeOK`;
* `Slot`: core, router and `goals_` name one goal, except while an admission is
  between the slot of the core and its commit; then the worker names it, and no
  result came early. `NobodyForgotten` is this part outside of a dispatch;
* `Claims`: an admission in the queue is the only one of its goal, which is
  neither registered nor with the worker. Without it a goal could be answered
  once from the queue and once from `goals_`;
* `Somewhere`: `AcceptedIsSomewhere`.

A step is *quiet* (`Quiet`) when it answers nobody and enters and removes
nobody; most helpers are. What is left are the pops of the worker, the pushes,
and the four places that give a goal its result.

*The trail* (`TInv`) says what is left of a Mission whose child was stopped. Its
core is `Way`: a Mission without a child, or with one that was told to stop, has
its end on the way, that is the raised fence, a STOP or its record in the
control lane, or its goal in the terminal lane. To be inductive it needs
`Recorded` (the record that the worker will look for is there when its event
is), `Issued` (records and children are those of Missions that were admitted,
so that no event of an earlier child is taken for one of this), `FailsClosed`
(behind a fence that the worker has seen the core is empty), `Called` (an
emergency callback comes with the fence up) and `Awaited` (a STOP that is
waited for is in the control lane). Once the gate is quiescing the shutdown ends
the Mission, and `Way`, `Recorded` and `Awaited` lapse as they do in the code. `NotStranded`
follows.

There is one lemma per action for each of the three invariants. TLC checked
`BInv` and `TInv` on both instances first. To reason about the emergency pop of
the control lane the model's `Urgent` became the set of the urgent positions;
the code takes the first of them, and so does `Earliest`.

`ShutdownEnds` is liveness and stays with TLC, and so do the three
counterexamples above.

## 7. Motion conditioning

### `MotionConditioning`: the code

The pipeline is entered by four threads: the Adapter's transaction thread T,
its emergency thread E, the renew callback R and the cleanup continuation K.
`pipe` holds the members of the pipeline, `at` and `my` the place and the locals
of each thread. A step is what happens between two looks at shared state, or one
call of another process.

| in the model | in the code |
|---|---|
| `StartupZero` ... `StartupFails` | `startup`, `cleanup_startup_components`, `confirm_startup_graph_clean` |
| `PrepareBegins` ... `PrepareSeals` | `begin_prepare`, `prepare`, `load_and_configure_components`, `finish_prepare` |
| `StartBegins` ... `StartAborts` | `start`, `renew_for_activation`, `abort_activation` |
| `RenewLooks` ... `RenewGrabs` | the renew callback, `fail_from_renew_callback` |
| `Claims`, `TakesOver`, `Awaits` | `begin_teardown`, `begin_token_teardown` with the takeover of a PREPARE |
| `Quiets`, `Zeroes`, `Silences`, `BarrierPasses`, `TriesAgain`, `Cleans` | `stop_owned`, `fail_owned`: renew callbacks, zero, start operations, producer, components |
| `StopEnds`, `FailureEnds`, `Finished` | their results, `remember`, `finish_teardown` |
| `ContinuationSilences`, `ContinuationCleans` | `run_cleanup_continuation` |
| `Rearm` | `rearm_after_gate_replacement` |
| `InhibitGate`, `Proven` | `inhibit_gate`, `remember_zero_proof` |
| `World` | external: the Gate's lease, its process, the plane's generation, the Collision Monitor, a component load nobody waits for any more |

Every failing call and every event of the world costs a fault of a budget, so
that the runs are finite; the order in which they come is free. What the Gate
does with a request is that of section 4 in one step: applied, lost, or out of
reach. The container's nodes are one thing that is absent, loaded or active,
since the code loads and unloads them together.

Choices a reader should know:

* A load that gets no answer leaves a component that may come up later, in a
  PREPARE that was cancelled too; the cancelled one ends without an error and
  leaves the residue to the thread that cancelled it.
* A start fails by its deadline at its entry, and again behind its look at the
  state, there without asking whose generation it is (`FailsAtOnce`). Any later
  failure asks (`StartAborts`): a generation that is somebody else's is left to
  them, or waited for when the teardown that took it had not shown yet.
* The look at the currency before OPEN and the OPEN itself are two moments, so
  that OPEN may be applied behind the invalidation. The Gate refuses it only if
  the lease was inhibited before.
* RENEW is built from the snapshot of the moment: with a replaced Gate already
  shown it fails as a plain SAFETY_FAULT, without one as a loss. A failure of
  health is a SAFETY_FAULT or a dependency.
* A producer whose `stop` throws is left out; the producer is the Adapter's own
  object, whose stop publishes one zero and drops its publisher. A throw would
  keep `producer_stop_proven_` false and the generation blocked.

### Properties, runs and bounds

| property | what would break it |
|---|---|
| `StoppedIsStill` | a stop that succeeds with a residue in the container, a producer that a late start turned on |
| `ZeroIsTrue` | a failure that takes a stopped producer for a proof |
| `OneCleaner` | a renew callback, a stop and a failing start cleaning one generation |
| `FreshGeneration` | a PREPARE let in while an earlier start is in flight or a component left behind |
| `TeardownEnds` | a callback that waits for itself, a teardown that waits for ever for another one |

| run | instance | result |
|---|---|---|
| `motion_teardown` | 3 motions, 2 cancels, 2 Gate processes, 2 faults, a container found clean or with active nodes, `FairSpec` | passes |
| `motion_wait` | 1 motion, 1 cancel, 1 Gate, 1 fault | violated, see below |

Three motions are one that fails, one that has to clean up behind it and one
that finds out; two faults are one for the first failure and one for its
cleanup. `TypeOK` was checked on the same instance. The fairness is one weak
fairness per thread: each call of another process has a deadline in the code,
so each thread goes on. E is started by a cancel and gets no fairness before.

### Two waits for each other

*A stop that fails because a start failed* (`motion_wait`). A start that fails by
its own deadline or call joins the teardown that a stop has claimed in between:
at once by its deadline, after a look at a still current generation by a call,
or behind a claim that had not shown its flag when it looked. The stop waits for
the start to leave. The barrier of 250 ms ends it: a stop with proven zero and no call in flight is
reported as SAFETY_FAULT, the record cannot be replaced, and every later PREPARE
is refused. `TeardownEnds` shows that it does end.

### Proofs

`MotionConditioningProofs` proves the four invariants for any number of motions,
cancels, faults and Gate processes. None of them is inductive; `IInv` is the
conjunction of what the threads rely on without asking:

* `Owned`: whoever prepares or tears down owns the open teardown alone, and an
  open teardown has no result yet. `OneCleaner` is this part and the next one;
* `HandedOn`: what was handed to the continuation has failed with a result that
  neither a PREPARE nor a rearm gets past, so K never cleans behind a new
  generation;
* `Starting`: a start that still holds the current generation works on a
  prepared pipeline that nobody tears down. Every claim raises the generation,
  which fences the start without waiting for it;
* `GateInv`: the armed lease, and one a start may still open (`Openable`), is the
  one the pipeline holds, or the continuation has it; a result that claims
  zero means a Gate that is shut and that no OPEN on its way can open
  (`ZeroIsShut`). `ZeroIsTrue` alone would not be inductive, since OPEN may come
  behind the invalidation;
* `ZeroInv`: the zero a teardown has noted is of that kind, and stays so until the
  teardown ends;
* `Remains`: without `dirty_components_` the container is empty, with no load on
  its way, and no producer is on; whoever cleans has seen the start operations
  drain. `StoppedIsStill` and `FreshGeneration` follow from it;
* `Begun`: nothing else runs before startup has ended, or after it failed.

One lemma per action: its first step says what the action does to the members
the invariant looks at, the others go through the parts. The only assumption is
`ConditioningAssumption`. The parts were checked by TLC first, on the instance of
`motion_teardown` and with 4 motions, 3 cancels and 3 faults. Two `CASE`
expressions of the model had overlapping guards, which TLC resolves by taking
the first and the proof could not; they are written as the `if` chains the code
has. `StoppedIsStill` holds without an exception for a prepared pipeline, and is
stated without it. What stays with TLC is `TypeOK`, whose bound on the
generations would need a count of all claims, and `TeardownEnds`, which is
liveness.

## 8. Maps

### `MapPackage`: the code

A SaveMap step publishes a map as a directory of files; the admission of a
NavigateTo step reads one. The module keeps what the file system shows (`cache`,
`dest`) apart from what a crash leaves (`disk`, `kept`): a file nobody synced
may be missing or torn, a rename nobody synced may have happened or not. `root`
is the directory of all packages: there from the start, or made by
`create_directories` (`map_package.cpp:572`, `:745`), which syncs no parent, so
that a crash may take a new root with all it holds. `undone` and `swept` are
history: the saves `remove_all` has taken a file of, and those that went with a
root. The content of a file is the number of the save that wrote it, so that hashes agree
when numbers do.

| in the model | in the code |
|---|---|
| `SaveBegins`, `Made`, `Captures` | `ProductionMapStore::save` with the directories it makes, `RosMapStoreUpstream::capture` |
| `Copies`, `WritesManifest`, `Validates`, `SyncsStage`, `Renames`, `SyncsRoot` | `MapPackageWriter::publish`, in its order |
| `Removes`, `RemovesDirectory`, `Resyncs` | what it does when the root cannot be synced |
| `Valid`, `Whole`, `ExactFiles` | `validate_package_directory` |
| `LoadBegins`, `LoadChecks`, `Rereads`, `Rechecks`, `Parses` | `MapPackageReader::load`, `read_named_place`; each validation reads the manifest first; a read or a sync that fails ends the load |
| `CrashLeavesRoot`, `CrashTakesRoot` | external: a power failure, with the page cache lost |

| property | what would break it |
|---|---|
| `SucceededIsDurable` | a success reported before the root is synced. Assumed: no crash takes a root that was new (`swept`) |
| `RemovedIsGone` | a removal that is believed without a second sync of the root |
| `PublishedIsWhole` | a rename before the stage is synced: a crash then leaves a published package with files missing that nobody removed |
| `ReadIsWhole` | a package that shows before its directory is synced |

`map_package`: 2 artifacts beside the manifest, symmetric, 3 saves of one map
ID, 4 faults (failing calls and crashes together), an old root or none, with a
reader at any point; passes, without fairness. Two artifacts make a half-written package possible.
A save can leave something behind, the next one meets it, and a third one
publishes what a reader of the first may still be looking at. Nothing can
deadlock: a reader may always begin again.

A remark on what `RemovedIsGone` does not say: a package whose removal could not
be proven (`unproven`) may be there or not, and the code says so to its caller.

### A package half removed

`docs/process/testing-strategy.md:258` of the repository says that a partial
failure exposes no half-written map package. `MCMapPackage_partial.cfg` checks that
as `HalfWrittenNeverShows` and finds it violated: the rename is done, the sync of
the root fails, and `remove_all` (`map_package.cpp:653`) fails or the machine stops
after it has taken a file. What is left stays under the published name. Every load
refuses it, so that no goal gets a place of it (`ReadIsWhole`), the caller is never
told that it was removed (`RemovedIsGone`), and it blocks every later save of that
ID. `PublishedIsWhole` therefore says what the code does promise: a published
package is whole unless a removal of it has begun. A crash alone never takes a
file of it.

### Proofs

`MapPackageProofs` proves all four properties, for every set of artifacts and
any number of saves and faults. None is inductive. `IInv` adds to the types:

* `Own`: a file in the directory of a save has its contents or is missing, so
  that a hash can only fail by a missing file;
* `Owner`: the save in progress owns the destination, and a save to come is
  unheard of;
* `Secured`: what the steps of `publish` have secured so far: full directory,
  synced files, full disk;
* `Synced`: whatever a crash may leave in the destination was synced, and a
  file the destination still shows is one the disk has too;
* `Unbroken`: what a crash may leave in the destination is full, in the cache and
  on the disk, unless `remove_all` has taken a file of it (`undone`);
* `Success`, `Removal`: the properties by the contents of the files;
* `Reading`: a reader past the manifest looks at a package that is whole on the
  disk.

`AlwaysWhole` is `PublishedIsWhole`, from `Unbroken` and `Own`. `OldRootStays` is about
the one exception of `SucceededIsDurable`: below a root that was durable from the
start no save is ever swept, so there a success lasts whatever crashes come.

One lemma per action shows that it keeps the parts; the assumption is
`PackageAssumption` (there is an artifact, and the manifest is none of them).

## 9. What is proved, checked, and neither

| | proved for every instance | model-checked only |
|---|---|---|
| Gate | `TypeOK`, `OutputAuthorised`, `ProvenZeroHolds`, `RetiredWriterGone`, `ReaderFollowsLease`, `SequenceNamesTuple`, `LeaseSpec`, `ServiceSpec` | `DeadmanZero` |
| Authority client | `WatermarkTrue`, `ProvenLeaseOver`, `WatermarkAdvances`, `BoundStaysHome` | `EffectOnce` |
| RuntimeCore | all but one | `MissionEnds` |
| Runtime node | `TypeOK`, `AcceptedIsSomewhere`, `NobodyForgotten`, `OneTerminal`, `NotStranded`, `NoStartAfterRefusedStop`, `DrainedIsStill` | `ShutdownEnds` |
| Motion conditioning | `StoppedIsStill`, `ZeroIsTrue`, `OneCleaner`, `FreshGeneration` | `TypeOK`, `TeardownEnds` |
| Map package | all four | |

The runs beside the listed ones (`MCMotionGate_first`, `MCAuthorityClient_typed`,
`MCAuthorityClient_rebuild`, `MCMissionRuntime_orphan`, `MCRuntimeNode_dropped`,
`MCRuntimeNode_cancel`, `MCMapPackage_partial`) each end in a counterexample that is told in its
section. A property that a configuration violates stays in the module under the
words of the document it comes from.

### Not modelled

* *Agent core* (`voice_nav_agent`): the life of a turn and its single active
  Mission. An engine behind a lock and one planner thread; generations and
  delivery leases fence the late answers of the planner. What it can ask of the
  Runtime is any goal, cancel or STOP at any time, which `RuntimeNode` allows;
  whether its own fences hold is the next question to put to a model.
* *Speech input, output and the Stop Mission port*: recognition windows against
  playback, preemption of an utterance. A STOP from them is the `OnStop` here;
  that a spoken STOP is recognised is no question for a model checker.
* *Navigation command ingress and writer observation*: source freshness and
  stable graph observations. The Gate and the pipeline take their verdicts as
  choices, which covers whatever they decide.
* *Relative motion controller*: arithmetic on doubles. Its end is a choice.
* Of modelled components: the RuntimeCore's cache of source sequences, plan
  validation and `fail_closed` after a STOP worker that raised; feedback;
  the pipeline's destructor and a producer stop that throws; in `RuntimeNode` the
  epochs an idle core gives up.
* For good: signal processing, native audio and speech libraries, the language
  model behind the planner, launch files, robot description, scripts and
  website: they carry no protocol a model checker could say more about than
  their tests.
