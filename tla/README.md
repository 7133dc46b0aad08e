# A TLA+ model of the vahtisiru relay

vahtisiru (formerly thalamic-relay) watches one NVIDIA GPU.  A daemon reads
temperature, power and clocks through NVML every 100 ms, classifies each reading,
and when a reading is dangerous, or is missing, halves the card's power limit
(`nvidia-smi -pl`).  When readings have been healthy long enough it restores the
default.  Every reading is also published, best effort, to a consumer over UDP.

This directory models the parts of the relay whose correctness depends on the
order of events, checks them with TLC and proves what matters most with TLAPS.
Paths below are relative to the repository; the sources are in `src/`.

## 1. The system

| Component (source) | State | Operations |
| --- | --- | --- |
| Safety machine (`safety.rs`) | last policy state, reported state, claim `hardware_brake_engaged`, streak `ok_count`, `just_released`, actuator error | `evaluate`, `record_actuator`, `seed_brake_applied`, `snapshot` |
| Frame classification (`safety.rs`, `telemetry.rs`) | none | a frame becomes Ok, Warn, Critical, Missing, Invalid, Stale or Simulated |
| Policy resolution (`safety/policy.rs`) | none | operator and device limits become thresholds, or startup is refused |
| Power-limit planning (`safety.rs`, `gpu.rs`) | none of its own; the GPU's limit | `classify_power_limit`, `plan_brake_apply`, `plan_brake_release` |
| NVML gate (`nvml_gate.rs`) | one permit | `try_enter`, `run` with a timeout |
| Actuation worker (`daemon.rs`, `gpu.rs`) | `brake_task`, `release_task`, a blocking thread, a child process | `spawn_intent`, `apply_emergency_brake`, `release_emergency_brake` |
| Supervisor loop (`daemon.rs`) | tick counter, pending intent, the machine, the two task slots | tick, acquire, harvest, reassess, evaluate, publish, dispatch |
| Orderly shutdown (`shutdown.rs`, `daemon.rs`, `main.rs`) | a plan, gauges | signal, plan, bounded join, exit |
| Process lock (`daemon.rs`) | two files in `/tmp` | check the legacy lock, create, read, reclaim, remove |
| Publication queue (`publish.rs`) | bounded buffer, counters, live producers | `try_publish`, `clone`, `drop`, the worker's poll and send |
| Sample clock (`time.rs`) | session, sequence, last wall time | `stamp`, classification of clock steps |
| Metrics (`cpu.rs`) | a shared record, a collector task | record, export |
| CSV replay (`telemetry_csv.rs`) | none | parse rows, pick the row of a tick |
| Command line, dashboard, logging | none another part reads | |

**How they interact.** The loop owns the machine.  It enters the gate to read; a
read runs on a blocking thread that keeps the permit until the driver returns, even
when the loop has stopped waiting.  An actuation takes the same permit, on another
blocking thread, and its child process can outlive both.  The loop learns of the
outcome on a later tick, tells the machine, takes a fresh reading before it trusts
what the machine says next, and only then dispatches again.  The GPU's limit is the
one piece of shared state that survives a crash, and an operator may change it too.
The queue is shared by the loop and a detached worker; the lock by processes.

**What is hard.** The claim about the brake is a belief about hardware that changes
asynchronously; outcomes arrive ticks after the intent; reads and actuations compete
for one permit that no timeout can take back; a process can die with a command under
way; a brake must be told from an operator's cap by its value alone; shutdown gives
up on a thread it cannot stop; two processes may clean up after the same dead one.
`PROJECT.json` lists every such hazard at its line.

**What makes each part correct.**

- Machine: a fault stays demanded until the brake is on; a release is earned by an
  unbroken streak of healthy readings under the brake; simulated readings move no
  hardware; an actuator error stays visible.
- Planning: never move a cap somebody else set; never compound a brake; always
  recognise one's own.
- Gate, loop, worker: one thread in the driver; the claim is true; no fault is slept
  on; a hot GPU is braked in the end and a cool one freed.
- Shutdown: exits in bounded time and says what it leaves behind.
- Lock: one relay at a time, none beside the old program, ambiguity refused.
- Queue: publishing never waits; every frame is delivered in order or counted once;
  the worker drains and ends.
- Telemetry, policy, clock, metrics: a reading passes for healthy only below the
  accepted limits and while it is truly young; a cool one passes; held values go
  stale; batch ids go up; gauges catch up.
- Consumer: an idempotency key names one frame; a masked value is never a zero in
  disguise; what is lost uncounted is bounded.
- CSV: what is written reads back; a malformed line is counted, never a row.

## 2. Modules

```
BrakePolicy ── Actuator ── MCActuator       SafetyMachine ── SafetyProtocol
     │            └────── ActuatorProofs          │                └── SafetyProtocolProofs
     │                                            │                │            │
     └────────────────── Supervisor ──────────────┘                │            │
                             ├── implements ───────────────────────┘            │
                             └── SupervisorProofs ── instantiates ──────────────┘

Telemetry ── Sampling ── MCSampling         ProcessLock ── ProcessLockProofs
   │             └────── SamplingProofs
   │                                        PublishQueue ── PublishQueueProofs
   │                                             └─ implements ─┐
   │                                                          Outbox
   │                     ┌───────── implements ─────────────────┘
   ├── Signals ────── Delivery ── MCDelivery ───┐
   │                     └─────── DeliveryProofs│
   └── TelemetryCsv ── MCTelemetryCsv ──────────┘
            └───────── TelemetryCsvProofs
```

**BrakePolicy** is the arithmetic of `classify_power_limit`,
`unambiguous_brake_target`, `plan_brake_apply` and `plan_brake_release` as operators
over whole watts, for the production brake fraction 0.5.  Half-watt targets of odd
defaults and the way nvidia-smi's `{:.0}` rounds them are kept; a missing reading is
`NoReading`.

**Actuator** is the way from those plans to a card: which card a process binds to,
what the queries read, and the nvidia-smi process, which has a life of its own.
Limits are counted in half watts, so that a query truncates to whole watts as the code does.

| Code | Actions |
| --- | --- |
| `resolve_gpu_target`, `GpuTarget::resolve`, `is_valid_gpu_uuid` | `Start`, `Resolve` |
| `run_gpu_hardware_smoke` | `SmokeTest` |
| `apply_emergency_brake`, `release_emergency_brake` up to the plan | `BeginActuation`, `PlanActuation` |
| `run_power_limit_command` and `timeout(1)` | `CommandTakesEffect`, `CommandFails` |
| outside the code | `ProcessEnds`, `Reenumerate`, `OperatorWrites` |

What the relay wants is left open, so whatever the machine decides, the cards are safe
from it.  `lastBy` is history: who moved a card's limit last.  **MCActuator** has a
card with an odd default, one too small for its bands to be told apart, and a MIG slice.

**SafetyMachine** is the struct of that name as a record, and its methods as
operators: `Evaluate` (with `policy_for`), `RecordActuator`, `SnapshotIntent`
(`compose_snapshot`, `desired_from_last_policy`), `SeedBrakeApplied`.  `ok_count`
saturates at `OkCountMax` where the code saturates at `u32::MAX`.

**SafetyProtocol** is the abstract specification: which calls of the machine the
daemon may make and in which order.  A process starts, evaluates frames, dispatches
what the snapshot wants when nothing is in flight, records outcomes, and after a
success evaluates a frame before it dispatches again (`mode = "reassessing"`).

**Supervisor** is the detailed specification: `run`'s loop, cut where it waits or
looks at something another thread changes.

| Code | Actions |
| --- | --- |
| `run` before the loop, `seed_startup_brake` | `Start`, `SeedStartupBrake` |
| `select!` on ticks and the head start of a blocked apply | `NextTick` |
| harvest of finished tasks, `record_actuator` | `Harvest`, `RecordFinished`, `HarvestNothing` |
| `acquire_raw_with_timeout`, `NvmlGate::run`, `Permit::drop` | `AcquireRead`, `AcquireBusy`, `AcquireSimulated`, `ReadReturns`, `ReadTimesOut`, `HungReadReturns` |
| `evaluate_then_try_publish` or a skipped tick | `EvaluateFrame`, `SkipEvaluation` |
| `dispatch_due_or_pending`, `spawn_intent` | `Dispatch` |
| `apply_emergency_brake`, `release_emergency_brake`, `run_power_limit_command` | `WorkerPlans`, `CommandSucceeds`, `CommandFails`, `WorkerFinishes` |
| signal, `perform_orderly_shutdown`, `join_in_flight`, `main` | `Signal`, `JoinFinished`, `JoinTimesOut`, `Exit` |
| outside the code | `Crash`, `OrphanEnds`, `OperatorWrites`, `Settle` (what the readings become) |

`Actuator` has the cards and leaves the decisions open, `Supervisor` has the decisions and
one limit; both plan by the rules of `BrakePolicy`.  A frame is only its kind, and
whether it is evaluated off the cadence; which kinds are possible depends on how the process
started (a GPU was found or not, an envelope is known or not) and on the weather.  That
no reading has another kind is proved (`FramesStandForReadings`).

**ProcessLock** is `prepare`, `check_legacy_lock`, `try_acquire_lock` and
`LockGuard::drop`, one system call per step, except that the read of the legacy lock and
the lookup of its pid in `/proc` are one (`CheckLegacyLock`).  Between these two calls
only the end of the old program, or another start's removal of its file, could matter, and
both are already covered: a dead pid may be in use again, and the removal that follows
may find no file and refuse.  A file is named by the process that
created it, so that a pid written after the path was unlinked goes to the unlinked
file.  Every call may fail; a dead pid may be in use again.

**Outbox** is the abstract specification of publishing: what the loop that calls
`try_publish` may rely on.  A frame is accepted, takes the place of the oldest (only under
drop-oldest) or is refused; one at a time is taken and sent, or fails; a dropped consumer
flushes the rest.  There is no mutex, no thread and one count of losses.  `SpecAcross`
is the outboxes of one process after another: one that ends loses what it holds,
uncounted, and the next starts empty.  It has no run of its own, because two
components implement it: `PublishQueue` with all its threads (`Spec`), and every process
of `Delivery` (`SpecAcross`).

**PublishQueue** is `IsolatedPublishQueue`, its consumer and `run_udp_worker`.
Taking the mutex and the body under it are separate steps, because a publisher that
finds the mutex held gives up after a bounded spin (`Contended`).

**Signals** is the inventory of all eight channels: read from NVML with what is derived
from it, estimated in software-only mode, validated, normalised, mapped for
the consumer or for a dashboard with its own stale limits, and encoded as a batch with
its mask (`read_nvml`, `from_raw`, `to_sensory_mapping_at`, `mapping_to_stimulus_batch`).

**Delivery** carries those batches to a consumer, across restarts of the relay.

| Code | Actions |
| --- | --- |
| `SampleClock::new`, `generate_session_id`, `build_publisher` | `Start` |
| `assess_with_clock`, `try_publish`, the publisher's own sequence | `PublishFrame`, `DiscardFrame` (its frame was replaced by a reassessment) |
| `run_udp_worker`, `send_dequeued_message` | `Take`, `Send`, `SendFails` |
| process, host, network and consumer | `End`, `SetClockBack`, `Receive` |

`wire` is every datagram ever sent and `Receive` takes any of them: late, repeated, out
of order, never.  The queue is one step here; `PublishQueue` is its inside, and both implement `Outbox`.

**TelemetryCsv** is `telemetry_csv.rs` on lines of cells: parsing with its error order,
loading, writing, and the row of a tick.  Nothing in the relay calls it yet, so it has
no state; **MCTelemetryCsv** states four facts about it as assumptions that TLC
evaluates over bounded files (section 3).

**Telemetry** is what the code computes about one reading, as operators: the validity
of a sample when it is received and when it is mapped later, the stamp of the sample
clock, a frame made of a raw reading (`Assess`), the mapping (`MapAt`), the resolved
policy (`Resolve`) and the kind of a frame (`Classify`).  `Resolve` takes numbers that are
finite, and leaves out the refusal of a zero release streak: nothing about a reading depends
on it, and it is `StreakAssumption` where the streak counts, in SafetyMachine.

**Sampling** is the way of a reading through the daemon, under a wall clock that may
be stepped at any time and tasks that may be delayed anywhere.

| Code | Actions |
| --- | --- |
| `prepare`, `run` (settings accepted at startup) | `Setups`, `Init` |
| `read_nvml` on the worker | `Capture` |
| `assess_with_clock`, `SampleClock::stamp` | `Receive`, `ReceiveNothing`, `AcquireSimulated` |
| reassessment after an actuation | `Reassess` |
| `evaluate_then_try_publish`, or publishing only | `EvaluateThenTryPublish`, `PublishOnly` |
| `record_safety_snapshot`, `telemetry_acquired_at` | `StoreSafety`, `RecordAcquired` |
| `run_metrics_collector` | `CollectorCopies`, `CollectorExports` |
| time and NTP | `Tick`, `StepWall` |

The relay sees only the wall clock.  `history` keeps the true age of the read, the
true time its frame has been held, and the steps of the clock meanwhile; no action of
the relay reads it.  Abstractions: the two safety channels stand for all; whole
degrees and watts, limits in hundredths of a watt; a snapshot is the number of the
frame it was evaluated on, plus one; the gauge of the snapshot stands for all gauges
that the loop sets directly and the collector sets again; values that are not finite
are not among the inputs, because NVML gives unsigned integers.

Definitions whose comment begins with *Mutant* are not part of the model.  Each is a
definition with a plausible mistake in it (a dropped guard, a forgotten reset);
`PROJECT.json` pairs it with the property that the mistake breaks.

## 3. Runs

| Run | Question | Bounds | States |
| --- | --- | --- | --- |
| `brake_policy` | Can any order of actuations, failed queries, late commands, restarts, renumberings and operator writes move a foreign cap, compound a brake, orphan one or reach another card? | 3 cards, 2 commands alive at a time | 92 000 |
| `safety_protocol` | Is a release always earned, a fault always demanded, an error always visible? | streak 3, count saturating at 5 | 153 |
| `supervisor` | Does the concurrent daemon implement the protocol and keep its claim true? | streak 2, count to 3, period 3; limits 8 (brake), 9 (in its band), 12 (foreign), 16 (default); late commands | 315 000 |
| `supervisor_liveness` | Is a hot GPU braked and a cool one freed? | streak 2, period 2, limits 8 and 16 | 309 000 |
| `process_lock` | Which starts can end with two relays? | 4 process instances | 85 000 |
| `publish_queue` | Is every frame accounted for, and does nobody wait for the worker? | 2 handles, capacity 2, 3 frames, both policies | 217 000 |
| `sampling` | Is healthy earned and young, cool Ok, and does every value age, under any clock? | 6 settings, 3 of them refused; device default known, unknown or withheld; 2 cadences; 5 readings; times up to 2, 2 frames | 626 000 |
| `delivery` | Does the key name one frame, does the mask tell the truth, and what can vanish uncounted? | 2 processes of one pid, 3 and 2 frames, capacity 1, 7 acquisitions, clock 3..5 | 2 580 000 |
| `warn_after_release`, `shutdown_gauge`, `process_lock_reclaim`, `freshness_gauge` | four statements of the documentation that the code does not keep (section 6) | as small as shows it | |

**Why the bounds are enough.** The planning rules depend on a limit only through its
distance to the default and to half of it, within 2 W; the limits of `MCActuator` lie
below the brake, in its band, between the bands and above the default, of a whole and
of a half-watt card, and 8 W is the ambiguous default.  Two commands alive at a time are a late
one and its successor.  The machine tells counts apart only
below and at the streak, so two values above it (a release that keeps failing, and
saturation) show the rest.  The loop's state repeats after one evaluation period;
period 3 leaves a tick that is neither the first nor the last.  The lock needs one process
that leaves a stale file and two that reclaim it; the fourth starts afterwards.  The
queue needs to overflow, to be empty, and to hold two frames of two handles.
In `sampling` the unit of time is the evaluation period of the fast loop, so that times
up to 2 reach its stale limit and the greatest age a policy may allow; the slow
cadence puts the stale limit beyond that age, so that only the policy's age check can
refuse a reading.  Two
frames are enough for an older clone to overwrite a newer gauge and for a number
to be wasted on a reassessment.  In `delivery` one frame overflows a queue of one, a
second is in the worker's hand, and the second process, with the same pid, overlaps the
datagrams of the first; what the sensors show is fixed per behaviour, because no batch
depends on another's.  The acquisitions are young, at either stale limit, beyond
it, from the future, out of range, clamped, simulated, and a device lost.

**Assumptions TLC evaluates.**  `RoundTrip` (rows written and read come back, but those
that are not finite), `OneOddLine` (a line is accepted exactly in its own shape),
`HeaderRequired` and `ReplayGoesRound`, over all files of two small rows, all lines
with one odd cell and timestamps up to 6 for `u64::MAX`; they are evaluated at the
start of `delivery`.

**Bounds in guards.** `MaxFrames` (frames published or, in `Sampling` and
`Delivery`, stamped), `MaxCommands` (nvidia-smi processes alive), `MaxStarts`, `MaxTime` (the wall clock and true ages), `Procs` (each instance starts
once), `Handles` (no more clones than that), the saturating count, and `step`
wrapping past the first period.

**Deadlock** is checked except in `process_lock` and `publish_queue`, where the
system ends (every process gone, every handle dropped and the worker ended), and in
`sampling` and `delivery`, where the frames and the processes run out.

**Fairness.** *Supervisor*: weak fairness of the start of the process, of the loop,
the join, the exit and the worker (threads are scheduled, and `select!` wakes on a
timer); weak fairness of orphaned commands (`timeout(1)` kills them).  Strong
fairness of a plan from readings that succeed and of a command that succeeds
(nvidia-smi does not fail for ever), and of a hung read's return while the loop
sleeps: the loop gives a blocked apply the permit only then, and a read that always
returned in the instant between would starve it.  Nothing is assumed of signals, crashes,
the operator, or the weather; the liveness properties speak of what happens once the
readings have settled.  *ProcessLock*: weak fairness of each preparing process.
*PublishQueue*: strong fairness of a handle's steps, because a thread in `lock()`
competes with a worker that sleeps a millisecond between idle polls; `NeverWaits`
assumes nothing of the worker, and `DrainEnds` names the weak fairness it needs.
*Sampling*: weak fairness of the loop between receipt and bookkeeping and of the
collector's two steps, tasks of one runtime; nothing is assumed of clocks or of new
readings.

## 4. Properties

- *Refinement.* `RefinesProtocol`: every step of `Supervisor` is a step of
  `SafetyProtocol` or a stutter, with `inflight` the occupied task slot and `mode`
  read off the phase.  So whatever is proved of the protocol holds of the daemon:
  `ReleaseIsEarned`, `FaultStaysDemanded`, `OnlyRealFramesActuate`,
  `ErrorStaysReported`.
- *The daemon itself.* `ClaimMatchesHardware` (the machine claims the brake exactly when
  the GPU's limit is in the brake's band), `DriverCallsExclusive` (a timeout
  must not give the permit back), `FaultIsServed`, `FaultAfterReleaseReapplies`,
  `HotIsBraked`, `CoolIsReleased`, and `GaugeDeniesNoBrake` (what does hold of the shutdown
  gauge: it never denies a brake that is in place, or that an apply in flight will put there).
- *Planning and cards.* `LeftoversAreRecognised` (whatever the relay left on a card, the
  next start reads as its own brake or as unbraked), `CommandsMoveTheRightWay`,
  `OnlyTargetMoves` (through every renumbering), `ForeignCapPreserved`.  What a foreign
  cap is is stated independently of the classification, from `docs/safety.md`; the one
  case in which it is overwritten is a command that the operator overtook, because the
  driver offers no compare-and-set.
- *Lock.* `ExclusiveUnlessStolen` (two relays only ever follow the removal of a file
  other than the one the decision was about), `ExclusiveWithoutOverlap`,
  `NeverBesideLegacy`, `AmbiguousLockStays`, `StartIsDecided`.
- *Queue.* `RefinesOutbox` (buffer, mutex, worker and the two sets of counters are an
  outbox, at every step of every thread), `EveryFrameAccounted`, `CountersAgree`,
  `DeliveredInOrder`, `NothingStranded`, `NeverWaits`, `DrainEnds`.  The race of producers
  with a worker that leaves is caught here, by `RefinesOutbox`: the queue of each process
  of `Delivery` is an outbox too, but has no threads.
- *Consumer.* `OnlyReplaysDiscarded` (a consumer that keeps to the idempotency key drops
  no frame it has not seen, unless the operator fixed one session id for two processes
  or the clock was set back between two of one pid), `SilentLossBounded` (what a process
  neither sends nor counts are its very last frames, a full buffer and one more at the
  most), `MaskIsHonest` (a value the consumer may use is what a sensor showed, in range
  and fresh).
- *Readings.* `HealthyIsEarned` (whatever operator and device limits were accepted,
  a healthy reading is below the device's own), `HealthyIsRecent` and `QuietIsOk` (a
  healthy reading is truly young; a cool one that arrives in time is Ok),
  `MappingIsHonest`, `BatchesGoUp`, `GaugesSettle` (once frames stop, the gauges show
  the last evaluation for good, although the collector may set them back meanwhile).

A clock set back during a read makes the reading look younger than it is, and one set
back while a frame is held keeps its values fresh: the relay cannot know.  The
properties name exactly these two steps, and no others, as their exceptions.

`ClaimMatchesHardware` and the liveness properties excuse a limit changed behind the
process's back (`disturbed`): by an operator, by a command that outlived the process
that started it, or by one that failed and took effect all the same.  The code does
not notice these; they are listed as hazards, not hidden.

## 5. Proofs

All theorems hold for every value of the constants, under the named assumptions of
the modules.

**SafetyProtocolProofs** (assumption: `StreakAssumption`, a positive streak that the
saturation bound reaches, which `policy.rs` and `u32` guarantee).  The properties are
not inductive: that a release is earned depends on what the stored policy state says
about the last frame.  `IInv` adds that the reported state is the policy state under
the error overlay, that the policy state remembers the last frame while the loop is
running (`PolicyFollowsFrame`; after a success it need not until a frame has been
evaluated), that the streak never exceeds the healthy frames really seen
(`CountIsHonest`), and that what is in flight works against the claim
(`InFlightMatchesClaim`).  `Invariance` proves it action by action from lemmas about
`Evaluate` and `RecordActuator`; `TypeCorrect`, `FaultDemand`, `EarnedRelease`,
`RealFramesActuate` and `ErrorReported` follow.

**SupervisorProofs** (assumptions: `SupervisorAssumption`, `StreakAssumption`).  `IInv`
describes the daemon alone: its types, which worker serves which task slot, that the
permit is held exactly by a thread in the driver, and whose turn it is in each phase.
It is enough to map each step to one of `SafetyProtocol` (`Refinement`), so the theorems
of SafetyProtocolProofs are instantiated and hold here (`DaemonEarnsReleases`, `DaemonActsOnRealFrames`,
`DaemonReportsErrors`).  On top of
both invariants, `HardwareIsKnown` says what the limit is at every point of an
actuation, `FailureIsKnown` when a failed command leaves it unchanged, and
`FaultIsInHand` what has been done about a fault in each phase; `ClaimIsTrue`,
`FaultIsNotSleptOn`, `FaultReapplies`, `OneDriverCall` and `DaemonTypes` follow.  The chain
is then closed down to the hardware.  `FaultIsBraked` joins the claim and the fault served:
the loop sleeps on no fault without the GPU's limit being in the brake's band, an
apply that is due or under way, a release in flight, or a reported failure.
`BrakeOutlivesTheRelay` says that
nothing but a release of a claimed brake takes the limit out of that band: no crash,
timeout, failure, exit or restart.  `GaugeDeniesTruly` needs one more invariant, that a
process which will leave no brake has no actuation to wait for (`NothingLeft`).  Every
safety property of the run `supervisor` is thus proved.  `FramesStandForReadings` composes
this model with `Telemetry`: whatever raw reading the daemon gets, under any policy, clock and
interval, its classification is the kind of a frame the loop may acquire, in the same
startup and weather; a reading above the critical temperature, whether or not its samples are
usable, is a fault.  With `FaultIsBraked` that is the way from the sensor to the power limit.

**ActuatorProofs** (assumption: `CardsAssumption`).  First the planning rules: the target
band and the default band of a device that is not refused are disjoint
(`BandsAreDisjoint`), a brake is planned exactly for an unbraked limit
(`ApplyOnlyUnbraked`), lowers it and reads back as the relay's own
(`ApplyLowersAndIsRecognised`), and a release raises nothing but such a brake
(`ReleaseOnlyRaisesOwnBrake`).  Then the state machine: a command takes effect on a card
that another may have moved since it was planned, so the invariant says of each command
what it was planned from (`CommandIsPlanned`), of the actuation being planned what it has
read (`WorkerHasRead`), and of each limit the relay set which of the two it is
(`SetByRelay`).  All four properties of `brake_policy` follow.

**PublishQueueProofs** (assumptions: `HandlesAssumption`, `CapacityAssumption`), for every
number of handles and frames, every capacity and both policies.  `IInv`: the shape of
the state (`Shape`), the count of live handles (`HandleCount`), what a closing queue has
left (`Closing`), that a handle's frames in the buffer, delivered and lost are a partition
of its numbers in order (`EveryFrameAccounted`, `Numbered`), that the two counters differ
by what is being exported (`CountersAgree`), and `NothingStranded`.  `QueueIsAnOutbox`
maps each step to one of `Outbox` or to a stutter: a thread that takes the mutex, records a
loss it has already had, or exports a counter, does nothing; a contended publisher is
refused.  That a frame is sent once, and is new when it is accepted, comes from the
partition of numbers in `IInv`; the sum over the counters by reason (`Lost`) is shown to
move by one for each.

**DeliveryProofs** (assumption: `DeliveryAssumption`).  `IInv`: `Keys` ties every batch, in
the queue or on the wire, to the process and the number it was made with, `Places` orders
what is queued after what was sent, `NothingVanishes` says where an uncounted frame is
while its process lives, and `DeadLoss` bounds what is left when it is gone.
`KeysNameOneFrame` and `SilentLossIsBounded` follow.  `MasksAreHonest` is about values:
`Honest` holds of every batch from the moment it is made (`PublishedIsHonest`), because the
runtime inputs are four known channels in a known order (`BatchChannels`), an acquisition
is one of four cases, and a reading's validity when it is received decides its mask.
`EachProcessIsAnOutbox` needs `Tallied`, that the places a running process has counted are
its own, are no longer inside and are as many as the count.  `SafetyChannelsAgree` ties
this side of the project to `Sampling`: of the temperature and the power, a frame of
`Signals` and one of `Telemetry` say the same, when they are received and ever after, so
the consumer and the brake go by the same readings.

**TelemetryCsvProofs** (assumption: `MaxU64Assumption`): a finite row reads back as itself,
one that is not finite is skipped, and a replay has the period of its rows.  Whole files
need no induction, because reading keeps lines with `InOrder`, of which
`FiltersKeepOrder` shows by counting that it lists the places of any finite set, each
once and in order: `GoodLinesAreRead` (of any file, the rows are the good lines in order,
and what is not a row is counted or blank) and `FilesReadBack` (a written file of finite rows
reads back whole).

**ProcessLockProofs** (assumption: `NoFileAssumption`), for any number of processes.
The invariant: until a file is stolen the file at the path is that of every process
that is writing or running; a removal is only prepared for a process that is gone;
while the legacy program runs its file holds every start back.  From it
`Exclusive`, `LegacyRespected`, `AmbiguousStays`.  `SequentialStartsExclude` adds
that, as long as starts do not overlap, a file that was read stays at the path until
it is removed, so nothing is ever stolen.

**SamplingProofs** (assumptions: `TimingAssumption`, `SettingsAssumption`), for every
setting, limit, interval and reading.  The verdict on a frame compares wall times, the
properties speak of true ages, so none is inductive.  `IInv` carries the connection:
unless the clock was set back, a reading's wall time lies at least its true age in the
past, and exactly its age if nobody touched the clock (`ReadingIsLive`,
`FrameIsAged`); the same for a held frame.  It also says that a frame in hand is the
assessment of one raw reading (`FrameIsAssessed`), and that its number is above
everything published (`BatchesAhead`).  `EarnedIfHealthy`, `YoungIfHealthy`,
`OkIfQuiet`, `HonestMapping` and `PublishedGoesUp` follow, with lemmas about
`ValidityAt`, `Classify` and `Resolve`.  `SamplingTypes` adds that the collector's clone is
no newer than the record, and the record no newer than what was published.

**Only model-checked:** `HotIsBraked`, `CoolIsReleased`, `StartIsDecided`, `NeverWaits`,
`DrainEnds` and `GaugesSettle`, because liveness under fairness is outside the prover's
reach, and the assumptions of `MCTelemetryCsv` that the theorems on files do not cover
(`OneOddLine`, `HeaderRequired`).  Every safety property that a passing run checks is a
theorem, every type invariant too; `LockTypes` is also checked by its run, the others hold by
theorem alone.

## 6. Where the code and its documentation disagree

1. *A warning right after a release is not acted on* (`warn_after_release`).
   `evaluate` asks for the brake and clears `just_released`; the loop dispatches from
   a later `snapshot()`, which no longer does.  `docs/safety.md` (Hysteresis) says the
   brake is re-applied.  For critical and missing readings it is
   (`FaultAfterReleaseReapplies`).
2. *The shutdown gauges may describe a brake that is gone* (`shutdown_gauge`): they
   are recorded before the actuation in flight is joined.
3. *Two starts around one stale lock may both run* (`process_lock_reclaim`): the
   removal does not check that the file is still the one that was read.
4. *The freshness gauge is always zero* (`freshness_gauge`): it is computed from a
   monotonic instant, as `docs/telemetry.md` says, but nothing ever records that
   instant.

Two more need no run.  Under drop-oldest a full queue takes the new frame and answers
`Ok`, where `docs/ipc.md:149` says `SlowConsumer`; `TryEnqueue` of `PublishQueue` is the
code's version.  And `docs/telemetry.md:42` says a process restart is a new session, but
`--ipc-session-id` fixes the id for all processes while the batch ids start again at zero:
that is the first exception of `OnlyReplaysDiscarded`.

## 7. Not modelled, and the plan

Not modelled: float formatting beyond the rounding of a command's watts, dashboard and
log text, argument parsing, the texts of errors and of the shutdown summary, the
Prometheus endpoint, event counters (they only grow and nothing reads them), the
queue's depth gauge, two of the shutdown gauges and the join of the collector at
shutdown, the JSON of the wire; poisoned mutexes (no code panics while holding one) and
64-bit counters running over.

What is left of the plan, most useful first:

1. `Supervisor` over the cards of `Actuator`, where a command names a card.  As one state
   machine this is out of reach (the cards of `brake_policy` multiply the states of
   `supervisor`); as for the frames, the two sides would have to be composed by proof.
2. The rest of the shutdown: the collector's join and the gauges recorded before it.
