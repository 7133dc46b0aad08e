----------------------------- MODULE Supervisor -----------------------------
(***************************************************************************)
(* The daemon: its loop (run, src/daemon.rs), the gate that admits one     *)
(* NVML call at a time (src/nvml_gate.rs), the blocking worker that        *)
(* carries out one actuation (src/gpu.rs), orderly shutdown                *)
(* (src/shutdown.rs), crashes and restarts, and the GPU whose power limit  *)
(* they all share.                                                         *)
(*                                                                         *)
(* An iteration of the loop is cut where it waits or where it looks at     *)
(* something another thread changes (the gate, a finished task); whatever  *)
(* lies between two cuts is one action.  The worker, a read nobody waits   *)
(* for any more, commands that outlive their process, and the operator     *)
(* take their steps between any two of them.                               *)
(***************************************************************************)
EXTENDS SafetyMachine, BrakePolicy, FiniteSets

CONSTANTS
  EvalPeriod,      \* Ticks between two evaluations of healthy readings (10).
  Default,         \* The device's default limit, in watts.
  OperatorLimits,  \* Limits an operator may set, in watts.
  InitialLimits,   \* Limits the GPU may start with.
  LateCommands,    \* Whether a command that failed may still take effect.
  Weathers         \* What the readings may settle to, "mixed" included.

ASSUME SupervisorAssumption ==
  /\ EvalPeriod \in Nat \ {0}
  /\ Default \in Watts /\ Unambiguous(Default)
  /\ OperatorLimits \subseteq Watts /\ InitialLimits \subseteq Watts
  /\ LateCommands \in BOOLEAN
  /\ "mixed" \in Weathers /\ Weathers \subseteq {"mixed", "hot", "cool"}

VARIABLES
  phase,      \* where the loop is
  startup,    \* what the process found when it started
  step,       \* step_count, wrapped past the first period
  frame,      \* the frame acquired in this iteration
  reassess,   \* a success was recorded in this iteration
  failed,     \* actuation_failed_this_tick
  due,        \* dispatch_due
  pending,    \* pending_intent
  machine,    \* the SafetyMachine
  task,       \* which of brake_task and release_task is Some
  worker,     \* the blocking thread behind task
  gate,       \* the permit of NvmlGate is taken
  reader,     \* the thread of the read that took the permit
  limit,      \* the power limit the GPU enforces
  orphans,    \* commands that run on with nobody waiting for them
  weather,    \* which readings the GPU gives from now on
  disturbed,  \* history: the limit changed behind the process's back
  leftEngaged,  \* the gauge shutdown_brake_left_engaged
  okRun,      \* history of SafetyProtocol
  lastKind    \* history of SafetyProtocol

loopVars == <<phase, startup, step, frame, reassess, failed, due>>
machineVars == <<machine, okRun, lastKind>>
gateVars == <<gate, reader>>
outsideVars == <<limit, orphans, weather, disturbed, leftEngaged>>
vars == <<loopVars, pending, machineVars, task, worker, gateVars, outsideVars>>

Target == BrakeTarget(Default)

\* A started process is waiting in one of these, or is on its way out.
LoopPhases == {"acquire", "reading", "harvest", "evaluate", "dispatch", "sleep"}
Phases == LoopPhases \cup {"joining", "exiting", "down"}

\* "software": --force-software-only.  "no_target": no GPU was resolved.
\* "no_envelope": no default limit read and no limits from the operator.
Startups == {"software", "no_target", "no_envelope", "full"}

\* NvmlUnavailable frames are evaluated at once, other real ones on cadence.
NoFrame == "None"
Frames == {NoFrame, "Unavailable"} \cup Kinds

KindOf(f) == IF f = "Unavailable" THEN "Missing" ELSE f

RealFrames ==
  CASE weather = "mixed" -> FailClosedKinds \cup {"Warn", "Ok"}
    [] weather = "hot"   -> FailClosedKinds
    [] weather = "cool"  -> {"Ok"}

\* What a completed read can find.  Any sample of a real frame may be missing,
\* out of range or old; without an envelope one with good samples is
\* classified as missing its power policy.
ReadableFrames ==
  CASE startup = "no_target"   -> {"Unavailable"}
    [] startup = "no_envelope" -> {"Unavailable"} \cup (FailClosedKinds \ {"Critical"})
    [] OTHER -> RealFrames \cup IF weather = "cool" THEN {} ELSE {"Unavailable"}

Idle == [at |-> "idle", watts |-> NothingToSet, ok |-> FALSE]
Planning == [Idle EXCEPT !.at = "planning"]
Commanding(watts) == [Idle EXCEPT !.at = "commanding", !.watts = watts]
Returned(ok) == [Idle EXCEPT !.at = "returned", !.ok = ok]

Workers ==
  [ at : {"idle", "planning", "commanding", "returned", "finished"},
    watts : {NothingToSet, Target, Default}, ok : BOOLEAN ]

TypeOK ==
  /\ phase \in Phases /\ startup \in Startups
  /\ step \in 1 .. EvalPeriod + 1
  /\ frame \in Frames
  /\ {reassess, failed, due, gate, disturbed, leftEngaged} \subseteq BOOLEAN
  /\ machine \in Machines
  /\ {pending, task} \subseteq Intents
  /\ worker \in Workers
  /\ reader \in {"idle", "awaited", "hung"}
  /\ limit \in InitialLimits \cup OperatorLimits \cup {Target, Default}
  /\ orphans \subseteq {Target, Default}
  /\ weather \in Weathers
  /\ okRun \in 0 .. OkCountMax
  /\ lastKind \in Kinds \cup {"None"}

Init ==
  /\ phase = "down" /\ startup = "full" /\ step = 1
  /\ frame = NoFrame /\ reassess = FALSE /\ failed = FALSE /\ due = FALSE
  /\ pending = "None" /\ task = "None" /\ worker = Idle
  /\ machine = NewMachine /\ okRun = 0 /\ lastKind = "None"
  /\ gate = FALSE /\ reader = "idle"
  /\ limit \in InitialLimits
  /\ orphans = {} /\ weather = "mixed" /\ disturbed = FALSE
  /\ leftEngaged = FALSE
-----------------------------------------------------------------------------
(***************************************************************************)
(* Starting.  The target is resolved and the limits are queried through    *)
(* the gate; a query that times out leaves its thread and the permit       *)
(* behind.  A limit read back as the relay's brake is adopted.             *)
(***************************************************************************)
StartupReadings(found) ==
  {r \in {limit, NoReading} \X {Default, NoReading} :
     /\ found = "no_target" => r = <<NoReading, NoReading>>
     /\ found = "no_envelope" => r[2] = NoReading}

\* Mutant: software-only mode does not look for a leftover brake.
SeedUnlessSoftware(found, readings) ==
  IF found # "software"
     /\ ClassifyPowerLimit(readings[1], readings[2]) = "RelayOwnedBrake"
  THEN SeedBrakeApplied(NewMachine) ELSE NewMachine

SeedStartupBrake(found, readings) ==
  IF ClassifyPowerLimit(readings[1], readings[2]) = "RelayOwnedBrake"
  THEN SeedBrakeApplied(NewMachine) ELSE NewMachine

Start ==
  /\ phase = "down"
  /\ \E found \in Startups : \E readings \in StartupReadings(found) :
       /\ startup' = found
       /\ machine' = SeedStartupBrake(found, readings)
       /\ disturbed' = (/\ InBrakeBand(limit, Default)
                         /\ NoReading \in {readings[1], readings[2]})
       /\ \/ UNCHANGED gateVars
          \/ /\ readings = <<NoReading, NoReading>>
             /\ gate' = TRUE
             /\ reader' = "hung"
  /\ phase' = "acquire"
  /\ step' = 1
  /\ okRun' = 0
  /\ lastKind' = "None"
  /\ UNCHANGED <<frame, reassess, failed, due, pending, task, worker>>
  /\ UNCHANGED <<limit, orphans, weather, leftEngaged>>
-----------------------------------------------------------------------------
(***************************************************************************)
(* Dispatching: dispatch_due_or_pending and spawn_intent.  A pending       *)
(* intent that the machine no longer has is dropped first.                 *)
(***************************************************************************)
Wanted(isDue) ==
  isDue \/ (pending # "None" /\ pending = SnapshotIntent(machine))

CanAct == task = "None" /\ SnapshotIntent(machine) # "None"

\* Mutant: a pending intent is dispatched whatever the machine wants by now.
DispatchPendingUnreconciled(isDue) ==
  LET intent == IF isDue THEN SnapshotIntent(machine) ELSE pending IN
  \/ /\ task = "None" /\ intent # "None" /\ ~ gate
     /\ task' = intent /\ worker' = Planning /\ gate' = TRUE
     /\ pending' = "None"
  \/ /\ task = "None" /\ intent # "None" /\ gate
     /\ pending' = intent
     /\ UNCHANGED <<task, worker, gate>>
  \/ /\ task # "None" \/ intent = "None"
     /\ pending' = "None"
     /\ UNCHANGED <<task, worker, gate>>

\* Mutant: an intent that finds the gate busy is forgotten.
DispatchDroppingBusy(isDue) ==
  \/ /\ Wanted(isDue) /\ CanAct /\ ~ gate
     /\ task' = SnapshotIntent(machine) /\ worker' = Planning /\ gate' = TRUE
     /\ pending' = "None"
  \/ /\ gate \/ ~ (Wanted(isDue) /\ CanAct)
     /\ pending' = "None"
     /\ UNCHANGED <<task, worker, gate>>

DispatchDueOrPending(isDue) ==
  \/ /\ Wanted(isDue) /\ CanAct /\ ~ gate                   \* Spawned
     /\ task' = SnapshotIntent(machine)
     /\ worker' = Planning
     /\ gate' = TRUE
     /\ pending' = "None"
  \/ /\ Wanted(isDue) /\ CanAct /\ gate                     \* GateBusy
     /\ pending' = SnapshotIntent(machine)
     /\ UNCHANGED <<task, worker, gate>>
  \/ /\ ~ (Wanted(isDue) /\ CanAct)          \* AlreadyInFlight, NoIntent
     /\ pending' = "None"
     /\ UNCHANGED <<task, worker, gate>>
-----------------------------------------------------------------------------
(***************************************************************************)
(* The loop.                                                               *)
(***************************************************************************)
NextStep == IF step = EvalPeriod + 1 THEN 2 ELSE step + 1

\* Mutant: a blocked apply waits for the read that comes first.
NextTickWithoutHeadStart ==
  /\ phase = "sleep"
  /\ phase' = "acquire"
  /\ step' = NextStep
  /\ UNCHANGED <<startup, frame, reassess, failed, due, pending, machineVars>>
  /\ UNCHANGED <<task, worker, gateVars, outsideVars>>

\* A blocked apply gets the gate before the next read can.
NextTick ==
  /\ phase = "sleep"
  /\ phase' = "acquire"
  /\ step' = NextStep
  /\ \/ pending = "Apply" /\ DispatchDueOrPending(FALSE)
     \/ pending # "Apply" /\ UNCHANGED <<pending, task, worker, gate>>
  /\ UNCHANGED <<startup, frame, reassess, failed, due, reader>>
  /\ UNCHANGED <<machineVars, outsideVars>>

AfterReading == IF reassess THEN "evaluate" ELSE "harvest"

Acquired(f) ==
  /\ frame' = f
  /\ phase' = AfterReading
  /\ UNCHANGED <<startup, step, reassess, failed, due, pending>>
  /\ UNCHANGED <<machineVars, task, worker, outsideVars>>

\* acquire_raw_with_timeout; the wait itself is the phase "reading".
AcquireSimulated ==
  /\ phase = "acquire" /\ startup = "software"
  /\ Acquired("Simulated")
  /\ UNCHANGED gateVars

AcquireBusy ==
  /\ phase = "acquire" /\ startup # "software"
  /\ gate
  /\ Acquired("Unavailable")
  /\ UNCHANGED gateVars

AcquireRead ==
  /\ phase = "acquire" /\ startup # "software"
  /\ ~ gate
  /\ gate' = TRUE
  /\ reader' = "awaited"
  /\ phase' = "reading"
  /\ UNCHANGED <<startup, step, frame, reassess, failed, due, pending>>
  /\ UNCHANGED <<machineVars, task, worker, outsideVars>>

ReadReturns ==
  /\ phase = "reading"
  /\ \E f \in ReadableFrames : Acquired(f)
  /\ gate' = FALSE
  /\ reader' = "idle"

\* Mutant: giving up on a read gives the permit back.
ReadTimesOutReleasing ==
  /\ phase = "reading" /\ weather # "cool"
  /\ Acquired("Unavailable")
  /\ gate' = FALSE
  /\ reader' = "hung"

\* The wait is abandoned; the read keeps the permit until it returns.
ReadTimesOut ==
  /\ phase = "reading" /\ weather # "cool"
  /\ Acquired("Unavailable")
  /\ reader' = "hung"
  /\ UNCHANGED gate

Outcome(intent, success) ==
  CASE intent = "Apply"   -> IF success THEN "Applied" ELSE "ApplyFailed"
    [] intent = "Release" -> IF success THEN "Released" ELSE "ReleaseFailed"

\* Mutant: the finished task stays in its slot.
RecordKeepingSlot ==
  /\ worker.at = "finished"
  /\ machine' = RecordActuator(machine, Outcome(task, worker.ok))
  /\ okRun' = IF worker.ok THEN 0 ELSE okRun
  /\ worker' = Idle
  /\ UNCHANGED task

\* Taking a finished task out of its slot and recording its outcome.
RecordFinished ==
  /\ worker.at = "finished"
  /\ machine' = RecordActuator(machine, Outcome(task, worker.ok))
  /\ okRun' = IF worker.ok THEN 0 ELSE okRun
  /\ task' = "None"
  /\ worker' = Idle

HarvestNothing ==
  /\ phase = "harvest" /\ worker.at # "finished"
  /\ phase' = "evaluate"
  /\ UNCHANGED <<startup, step, frame, reassess, failed, due, pending>>
  /\ UNCHANGED <<machineVars, task, worker, gateVars, outsideVars>>

\* After a success a fresh frame is acquired before anything else.
Harvest ==
  /\ phase = "harvest"
  /\ RecordFinished
  /\ reassess' = worker.ok
  /\ failed' = ~ worker.ok
  /\ phase' = IF worker.ok THEN "acquire" ELSE "evaluate"
  /\ UNCHANGED <<startup, step, frame, due, pending>>
  /\ UNCHANGED <<lastKind, gateVars, outsideVars>>

ShouldEvaluateTick ==
  step = 1 \/ step % EvalPeriod = 0 \/ frame = "Unavailable"

\* Mutant: an intent is dispatched when it changes and never again.
DispatchOnceOnChange(prior, current) == current \notin {"None", prior}

\* A changed intent is due at once; an unchanged one is retried on cadence,
\* but not in the tick that recorded its failure.
ShouldDispatchIntent(prior, current) ==
  /\ current # "None"
  /\ current = prior => ~ failed /\ (step = 1 \/ step % EvalPeriod = 0)

EvaluateFrame ==
  /\ phase = "evaluate"
  /\ reassess \/ ShouldEvaluateTick
  /\ LET kind == KindOf(frame) IN
       /\ machine' = Evaluate(machine, kind)
       /\ due' = \/ reassess
                 \/ ShouldDispatchIntent(SnapshotIntent(machine),
                                         EvaluateIntent(machine, kind))
       /\ okRun' = IF kind # "Ok" THEN 0
                   ELSE IF okRun < OkCountMax THEN okRun + 1 ELSE okRun
       /\ lastKind' = kind
  /\ phase' = "dispatch"
  /\ UNCHANGED <<startup, step, frame, reassess, failed, pending>>
  /\ UNCHANGED <<task, worker, gateVars, outsideVars>>

SkipEvaluation ==
  /\ phase = "evaluate"
  /\ ~ reassess /\ ~ ShouldEvaluateTick
  /\ phase' = "dispatch"
  /\ UNCHANGED <<startup, step, frame, reassess, failed, due, pending>>
  /\ UNCHANGED <<machineVars, task, worker, gateVars, outsideVars>>

\* The end of the iteration, where its local variables go out of scope.
Dispatch ==
  /\ phase = "dispatch"
  /\ DispatchDueOrPending(due)
  /\ phase' = "sleep"
  /\ frame' = NoFrame
  /\ reassess' = FALSE /\ failed' = FALSE /\ due' = FALSE
  /\ UNCHANGED <<startup, step, machineVars, reader, outsideVars>>
-----------------------------------------------------------------------------
(***************************************************************************)
(* The blocking threads.  The permit is dropped when the closure returns,  *)
(* before the runtime reports the task finished.                           *)
(***************************************************************************)
HungReadReturns ==
  /\ reader = "hung"
  /\ reader' = "idle"
  /\ gate' = FALSE
  /\ UNCHANGED <<loopVars, pending, machineVars, task, worker, outsideVars>>

PlanFor(intent, current, default) ==
  IF intent = "Apply" THEN PlanBrakeApply(current, default)
                      ELSE PlanBrakeRelease(current, default)

\* apply_emergency_brake or release_emergency_brake up to the command.
WorkerPlans(current, default) ==
  /\ worker.at = "planning"
  /\ LET plan == PlanFor(task, current, default) IN
       IF plan.decision = "set"
       THEN worker' = Commanding(plan.watts) /\ UNCHANGED gate
       ELSE worker' = Returned(PlanSucceeds(plan)) /\ gate' = FALSE
  /\ UNCHANGED <<loopVars, pending, machineVars, task, reader, outsideVars>>

\* Without a target nothing can be read.
WorkerReads(reading) ==
  IF startup = "no_target" THEN {NoReading} ELSE {reading, NoReading}

CommandSucceeds ==
  /\ worker.at = "commanding"
  /\ limit' = worker.watts
  /\ worker' = Returned(TRUE)
  /\ gate' = FALSE
  /\ UNCHANGED <<loopVars, pending, machineVars, task, reader>>
  /\ UNCHANGED <<orphans, weather, disturbed, leftEngaged>>

\* run_power_limit_command gives up: the command never ran, or it was cut
\* off by its timeout and may yet take effect.
CommandFails ==
  /\ worker.at = "commanding"
  /\ orphans' \in {orphans} \cup
       IF LateCommands THEN {orphans \cup {worker.watts}} ELSE {}
  /\ worker' = Returned(FALSE)
  /\ gate' = FALSE
  /\ UNCHANGED <<loopVars, pending, machineVars, task, reader>>
  /\ UNCHANGED <<limit, weather, disturbed, leftEngaged>>

WorkerFinishes ==
  /\ worker.at = "returned"
  /\ worker' = [worker EXCEPT !.at = "finished"]
  /\ UNCHANGED <<loopVars, pending, machineVars, task, gateVars, outsideVars>>
-----------------------------------------------------------------------------
(***************************************************************************)
(* Stopping.  A signal is only noticed in the sleep; plan_shutdown waits   *)
(* for the actuation in flight and starts nothing.                         *)
(***************************************************************************)

\* Mutant: the gauge leaves the apply in flight out.
SignalIgnoringApply ==
  /\ phase = "sleep" /\ weather = "mixed"
  /\ phase' = IF task = "None" THEN "exiting" ELSE "joining"
  /\ leftEngaged' = machine.engaged
  /\ UNCHANGED <<startup, step, frame, reassess, failed, due, pending>>
  /\ UNCHANGED <<machineVars, task, worker, gateVars>>
  /\ UNCHANGED <<limit, orphans, weather, disturbed>>

Signal ==
  /\ phase = "sleep" /\ weather = "mixed"
  /\ phase' = IF task = "None" THEN "exiting" ELSE "joining"
  /\ leftEngaged' = (machine.engaged \/ task = "Apply")
  /\ UNCHANGED <<startup, step, frame, reassess, failed, due, pending>>
  /\ UNCHANGED <<machineVars, task, worker, gateVars>>
  /\ UNCHANGED <<limit, orphans, weather, disturbed>>

JoinFinished ==
  /\ phase = "joining"
  /\ RecordFinished
  /\ reassess' = worker.ok
  /\ phase' = "exiting"
  /\ UNCHANGED <<startup, step, frame, failed, due, pending>>
  /\ UNCHANGED <<lastKind, gateVars, outsideVars>>

\* The worker is left to itself until the runtime has shut down.
JoinTimesOut ==
  /\ phase = "joining" /\ worker.at # "finished"
  /\ phase' = "exiting"
  /\ UNCHANGED <<startup, step, frame, reassess, failed, due, pending>>
  /\ UNCHANGED <<machineVars, task, worker, gateVars, outsideVars>>

\* Threads end with the process; a command it has started does not.
ProcessEnds ==
  /\ phase' = "down"
  /\ frame' = NoFrame
  /\ reassess' = FALSE /\ failed' = FALSE /\ due' = FALSE
  /\ pending' = "None" /\ task' = "None" /\ worker' = Idle
  /\ gate' = FALSE /\ reader' = "idle" /\ leftEngaged' = FALSE
  /\ orphans' = IF worker.at = "commanding" THEN orphans \cup {worker.watts}
                                            ELSE orphans
  /\ UNCHANGED <<startup, step, machineVars, limit, weather, disturbed>>

Exit == phase = "exiting" /\ ProcessEnds

Crash == phase \notin {"down", "exiting"} /\ weather = "mixed" /\ ProcessEnds
-----------------------------------------------------------------------------
(***************************************************************************)
(* The world outside: commands left behind, the operator, the readings.    *)
(***************************************************************************)
OrphanEnds(watts) ==
  /\ orphans' = orphans \ {watts}
  /\ limit' \in {limit, watts}
  /\ disturbed' = (disturbed \/ limit' # limit)
  /\ UNCHANGED <<loopVars, pending, machineVars, task, worker, gateVars>>
  /\ UNCHANGED <<weather, leftEngaged>>

OperatorWrites(watts) ==
  /\ weather = "mixed"
  /\ limit' = watts
  /\ disturbed' = TRUE
  /\ UNCHANGED <<loopVars, pending, machineVars, task, worker, gateVars>>
  /\ UNCHANGED <<orphans, weather, leftEngaged>>

\* From some point on the GPU may stay hot or stay cool.
Settle ==
  /\ weather = "mixed"
  /\ weather' \in Weathers \ {"mixed"}
  /\ UNCHANGED <<loopVars, pending, machineVars, task, worker, gateVars>>
  /\ UNCHANGED <<limit, orphans, disturbed, leftEngaged>>
-----------------------------------------------------------------------------
Loop ==
  \/ NextTick
  \/ AcquireSimulated \/ AcquireBusy \/ AcquireRead
  \/ ReadReturns \/ ReadTimesOut
  \/ HarvestNothing \/ Harvest
  \/ EvaluateFrame \/ SkipEvaluation
  \/ Dispatch

Shutdown == Signal \/ JoinFinished \/ JoinTimesOut \/ Exit

Worker ==
  \/ \E current \in WorkerReads(limit), default \in WorkerReads(Default) :
       WorkerPlans(current, default)
  \/ CommandSucceeds \/ CommandFails
  \/ WorkerFinishes

Outside ==
  \/ Crash
  \/ \E watts \in orphans : OrphanEnds(watts)
  \/ \E watts \in OperatorLimits : OperatorWrites(watts)
  \/ Settle

Next == Start \/ Loop \/ Shutdown \/ Worker \/ HungReadReturns \/ Outside

Spec == Init /\ [][Next]_vars
\* What the runtime and the machine it runs on are trusted with.  The loop
\* and the threads are scheduled; a read that has been given up returns in
\* the end, and not always in the instant between the head start of a
\* blocked apply and the next read; plans and commands do not fail for ever.
Fairness ==
  /\ WF_vars(Start) /\ WF_vars(Loop)
  /\ WF_vars(JoinFinished \/ JoinTimesOut) /\ WF_vars(Exit)
  /\ WF_vars(Worker)
  /\ SF_vars(startup # "no_target" /\ WorkerPlans(limit, Default))
  /\ SF_vars(CommandSucceeds)
  /\ SF_vars(phase = "sleep" /\ HungReadReturns)
  /\ WF_vars(\E watts \in orphans : OrphanEnds(watts))

FairSpec == Spec /\ Fairness
-----------------------------------------------------------------------------
(***************************************************************************)
(* The loop keeps the protocol of its SafetyMachine.                       *)
(***************************************************************************)
Mode ==
  CASE phase = "down" -> "stopped"
    [] reassess /\ phase \in {"acquire", "reading", "evaluate", "exiting"}
         -> "reassessing"
    [] OTHER -> "running"

Protocol == INSTANCE SafetyProtocol WITH inflight <- task, mode <- Mode

\* Whatever the gate, the threads, crashes, restarts and the outside do, the
\* machine only ever sees the calls SafetyProtocol allows, in its order; so
\* releases are earned and faults stay demanded here too.
RefinesProtocol == Protocol!Spec

(***************************************************************************)
(* Safety.                                                                 *)
(***************************************************************************)

\* What the relay believes about the brake is what the GPU enforces, between
\* actuations and across crashes and restarts, unless the limit was changed
\* by someone else or could not be read at the start (record_actuator,
\* seed_startup_brake).
ClaimMatchesHardware ==
  phase # "down" /\ task = "None" /\ ~ disturbed =>
    (machine.engaged <=> InBrakeBand(limit, Default))

\* At most one thread of the process is inside the driver, and the permit is
\* taken exactly as long as one is: it is neither given back by a timeout
\* nor lost with a failed actuation (NvmlGate).
DriverCallsExclusive ==
  /\ reader = "idle" \/ worker.at \notin {"planning", "commanding"}
  /\ gate <=> reader # "idle" \/ worker.at \in {"planning", "commanding"}

\* The loop never goes to sleep on a fault it has done nothing about: an
\* apply is in flight, or waits for the gate, or the last attempt failed and
\* is left to the cadence.
FaultIsServed ==
  phase = "sleep" /\ lastKind \in FailClosedKinds /\ ~ machine.engaged =>
    \/ "Apply" \in {task, pending}
    \/ machine.error

\* A fault in the frame that reassesses a release is acted on in the same
\* iteration (docs/safety.md, Hysteresis 3, for fail-closed frames).
FaultAfterReleaseReapplies ==
  [][phase = "dispatch" /\ reassess /\ ~ machine.engaged
       /\ lastKind \in FailClosedKinds /\ phase' = "sleep"
       => "Apply" \in {task', pending'}]_vars

\* The same for a warning, as Hysteresis 3 words it.
WarnAfterReleaseReapplies ==
  [][phase = "dispatch" /\ reassess /\ ~ machine.engaged
       /\ lastKind = "Warn" /\ phase' = "sleep"
       => "Apply" \in {task', pending'}]_vars

\* The gauge shutdown_brake_left_engaged: when the process exits and it says
\* so, the hardware brake is left in place (docs/safety.md, Prometheus).
ShutdownGaugeIsTrue ==
  phase = "exiting" /\ task = "None" /\ leftEngaged /\ ~ disturbed =>
    limit = Target

\* What does hold of the gauge: while the process waits for its actuation
\* and exits, the GPU is not braked if the gauge says so, and no apply that
\* is still in flight can make it untrue (plan_shutdown).
GaugeDeniesNoBrake ==
  phase \in {"joining", "exiting"} /\ ~ leftEngaged /\ ~ disturbed =>
    ~ InBrakeBand(limit, Default)

(***************************************************************************)
(* Liveness, once the readings have settled.                               *)
(***************************************************************************)
Undisturbed == phase # "down" /\ ~ disturbed

\* A GPU that stays hot, or stays unreadable, is braked in the end and stays
\* braked: no read, busy gate or failing command starves the apply for ever.
HotIsBraked ==
  <>[](weather = "hot" /\ Undisturbed /\ startup \in {"full", "no_envelope"}
         => machine.engaged /\ limit = Target)

\* A GPU that stays cool and readable gets its default limit back.
CoolIsReleased ==
  <>[](weather = "cool" /\ Undisturbed /\ startup = "full"
         => ~ machine.engaged /\ limit # Target)
=============================================================================
