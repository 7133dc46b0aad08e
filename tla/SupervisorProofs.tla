--------------------------- MODULE SupervisorProofs ---------------------------
(***************************************************************************)
(* Proofs about Supervisor, for every period, streak and default limit,    *)
(* and every limit an operator may set: it implements SafetyProtocol, its  *)
(* gate admits one thread, its claim is true and it sleeps on no fault.    *)
(*                                                                         *)
(* The invariant IInv holds of the daemon alone and is enough to map every *)
(* step to one of SafetyProtocol.  What is proved of that specification    *)
(* then holds here too, and the properties that relate machine, hardware   *)
(* and threads are proved on top of both.  The last section ties the kinds *)
(* of frames to the readings of Telemetry.                                 *)
(***************************************************************************)
EXTENDS Supervisor, TLAPS

(* The theorems about SafetyProtocol, at the same substitution. *)
ProtocolProofs == INSTANCE SafetyProtocolProofs WITH inflight <- task, mode <- Mode

-----------------------------------------------------------------------------
(***************************************************************************)
(* The instances of SafetyMachine are the same functions                   *)
(***************************************************************************)

(* The machine that SafetyProtocol speaks of is the daemon's. *)
LEMMA SameMachine ==
  /\ \A m, kind : Protocol!Evaluate(m, kind) = Evaluate(m, kind)
  /\ \A m : Protocol!SnapshotIntent(m) = SnapshotIntent(m)
  /\ \A m, o : Protocol!RecordActuator(m, o) = RecordActuator(m, o)
  /\ \A i, s : Protocol!Outcome(i, s) = Outcome(i, s)
  /\ \A m : Protocol!SeedBrakeApplied(m) = SeedBrakeApplied(m)
  /\ Protocol!NewMachine = NewMachine
  /\ Protocol!Kinds = Kinds
  <1>1. \A m, kind : Protocol!Evaluate(m, kind) = Evaluate(m, kind)
    BY DEF Protocol!Evaluate, Evaluate, Protocol!OkCountAfter, OkCountAfter,
           Protocol!ErrorAfter, ErrorAfter, Protocol!PolicyAfter, PolicyAfter,
           Protocol!Reported, Reported
  <1>2. \A m : Protocol!SnapshotIntent(m) = SnapshotIntent(m)
    BY DEF Protocol!SnapshotIntent, SnapshotIntent, Protocol!IntentFrom, IntentFrom,
           Protocol!DesiredFromLastPolicy, DesiredFromLastPolicy,
           Protocol!FailClosedStates, FailClosedStates
  <1>3. \A m, o : Protocol!RecordActuator(m, o) = RecordActuator(m, o)
    BY DEF Protocol!RecordActuator, RecordActuator
  <1>4. \A i, s : Protocol!Outcome(i, s) = Outcome(i, s)
    BY DEF Protocol!Outcome, Outcome
  <1>5. \A m : Protocol!SeedBrakeApplied(m) = SeedBrakeApplied(m)
    BY DEF Protocol!SeedBrakeApplied, SeedBrakeApplied
  <1>6. Protocol!NewMachine = NewMachine /\ Protocol!Kinds = Kinds
    BY DEF Protocol!NewMachine, NewMachine, Protocol!Kinds, Kinds,
           Protocol!FailClosedKinds, FailClosedKinds
  <1>7. QED
    BY <1>1, <1>2, <1>3, <1>4, <1>5, <1>6

-----------------------------------------------------------------------------
(***************************************************************************)
(* The invariant of the daemon                                             *)
(***************************************************************************)
LoopTypes ==
  /\ phase \in Phases /\ startup \in Startups
  /\ step \in 1 .. EvalPeriod + 1
  /\ frame \in Frames
  /\ reassess \in BOOLEAN /\ failed \in BOOLEAN /\ due \in BOOLEAN
  /\ pending \in Intents /\ task \in Intents
  /\ worker \in Workers
  /\ gate \in BOOLEAN /\ reader \in {"idle", "awaited", "hung"}
  /\ limit \in InitialLimits \cup OperatorLimits \cup {Target, Default}
  /\ orphans \subseteq {Target, Default}
  /\ weather \in Weathers
  /\ disturbed \in BOOLEAN /\ leftEngaged \in BOOLEAN

(* A worker is about the task in its slot, and a command about the limit   *)
(* that task asks for.                                                     *)
WorkerServesTask ==
  /\ worker.at = "idle" <=> task = "None"
  /\ worker.at = "commanding" =>
       worker.watts = IF task = "Apply" THEN Target ELSE Default

(* The loop waits for a read exactly in the phase of that name. *)
ReaderIsAwaited == reader = "awaited" <=> phase = "reading"

(* What the local variables of an iteration say about where the loop is;   *)
(* before the first frame there is nothing in flight, and the first tick   *)
(* evaluates whatever it finds.                                            *)
Turns ==
  /\ reassess => phase \in {"acquire", "reading", "evaluate", "dispatch", "exiting"}
  /\ reassess /\ phase = "dispatch" => due
  /\ failed => phase \in {"evaluate", "dispatch"}
  /\ phase \in {"harvest", "evaluate"} => frame # NoFrame
  /\ phase = "down" => task = "None" /\ reader = "idle"
  /\ phase # "down" /\ lastKind = "None" =>
       /\ step = 1 /\ task = "None"
       /\ phase \in {"acquire", "reading", "harvest", "evaluate"}

IInv ==
  /\ LoopTypes
  /\ WorkerServesTask
  /\ DriverCallsExclusive
  /\ ReaderIsAwaited
  /\ Turns

(* The states of the worker. *)
LEMMA WorkerStates ==
  /\ Idle \in Workers /\ Idle.at = "idle"
  /\ Planning \in Workers /\ Planning.at = "planning"
  /\ \A watts \in {Target, Default} :
       /\ Commanding(watts) \in Workers
       /\ Commanding(watts).at = "commanding" /\ Commanding(watts).watts = watts
  /\ \A ok \in BOOLEAN :
       /\ Returned(ok) \in Workers
       /\ Returned(ok).at = "returned" /\ Returned(ok).ok = ok
  BY DEF Workers, Idle, Planning, Commanding, Returned

(* plan_brake_apply and plan_brake_release set the target or the default. *)
LEMMA PlannedWatts ==
  ASSUME NEW intent, NEW current, NEW default \in {Default, NoReading},
         PlanFor(intent, current, default).decision = "set"
  PROVE  PlanFor(intent, current, default).watts =
           IF intent = "Apply" THEN Target ELSE Default
  BY DEF PlanFor, PlanBrakeApply, PlanBrakeRelease, Plan, Readable, Target

(* A plan succeeds or it does not. *)
LEMMA PlansAreDecided ==
  ASSUME NEW plan PROVE PlanSucceeds(plan) \in BOOLEAN
  BY DEF PlanSucceeds

(* A snapshot has an intent. *)
LEMMA SnapshotIsIntent == \A m : SnapshotIntent(m) \in Intents
  BY DEF SnapshotIntent, IntentFrom, Intents

(* A frame that was acquired has a kind. *)
LEMMA FramesHaveKinds ==
  ASSUME NEW f \in Frames, f # NoFrame PROVE KindOf(f) \in Kinds /\ KindOf(f) # "None"
  BY DEF Frames, NoFrame, KindOf, Kinds, FailClosedKinds

(* The wrapped step count stays in its range. *)
LEMMA NextStepInPeriod == step \in 1 .. EvalPeriod + 1 => NextStep \in 1 .. EvalPeriod + 1
  BY SupervisorAssumption DEF NextStep

(* dispatch_due_or_pending takes the permit with the worker, or neither. *)
LEMMA Dispatching ==
  ASSUME IInv, NEW isDue, DispatchDueOrPending(isDue), reader' = reader
  PROVE  /\ pending' \in Intents /\ task' \in Intents /\ worker' \in Workers /\ gate' \in BOOLEAN
         /\ \/ task' = task /\ worker' = worker /\ gate' = gate
            \/ task = "None" /\ task' \in {"Apply", "Release"} /\ worker' = Planning /\ ~gate /\ gate'
         /\ WorkerServesTask' /\ DriverCallsExclusive'
  <1>1. SnapshotIntent(machine) \in Intents /\ "None" \in Intents
    BY SnapshotIsIntent DEF Intents
  <1>2. \/ task' = task /\ worker' = worker /\ gate' = gate
        \/ task = "None" /\ task' \in {"Apply", "Release"} /\ worker' = Planning /\ ~gate /\ gate' = TRUE
    BY <1>1 DEF DispatchDueOrPending, CanAct, Intents
  <1>3. pending' \in Intents
    BY <1>1 DEF DispatchDueOrPending
  <1>4. task' \in Intents /\ worker' \in Workers /\ gate' \in BOOLEAN
    BY <1>2, WorkerStates DEF IInv, LoopTypes, Intents
  <1>5. WorkerServesTask'
    BY <1>2, WorkerStates DEF IInv, WorkerServesTask
  <1>6. DriverCallsExclusive'
    BY <1>2, WorkerStates DEF IInv, DriverCallsExclusive, LoopTypes
  <1>7. QED
    BY <1>2, <1>3, <1>4, <1>5, <1>6

(* A process starts with nothing in the driver but, perhaps, a hung query. *)
LEMMA StartKeeps == IInv /\ Start => IInv'
  <1> SUFFICES ASSUME IInv, Start PROVE IInv'
    OBVIOUS
  <1>1. gate = FALSE /\ reader = "idle" /\ task = "None"
    BY DEF Start, IInv, Turns, DriverCallsExclusive, WorkerServesTask, LoopTypes
  <1>2. /\ startup' \in Startups /\ disturbed' \in BOOLEAN
        /\ UNCHANGED gateVars \/ (gate' = TRUE /\ reader' = "hung")
    BY DEF Start
  <1>3. 1 \in 1 .. EvalPeriod + 1
    BY SupervisorAssumption
  <1>4. LoopTypes'
    BY <1>2, <1>3 DEF Start, IInv, LoopTypes, gateVars, Phases, LoopPhases
  <1>5. QED
    BY <1>1, <1>2, <1>4 DEF Start, IInv, WorkerServesTask, DriverCallsExclusive,
       ReaderIsAwaited, Turns, gateVars

(* The loop, action by action. *)
LEMMA LoopKeeps == IInv /\ Loop => IInv'
  <1> SUFFICES ASSUME IInv, Loop PROVE IInv'
    OBVIOUS
  <1> USE DEF machineVars, gateVars, outsideVars, IInv
  <1>1. CASE NextTick
    <2>1. LoopTypes'
      BY <1>1, Dispatching, NextStepInPeriod DEF NextTick, LoopTypes, Phases, LoopPhases
    <2>2. WorkerServesTask' /\ DriverCallsExclusive'
      <3>1. CASE DispatchDueOrPending(FALSE)
        BY <1>1, <3>1, Dispatching DEF NextTick
      <3>2. CASE UNCHANGED <<pending, task, worker, gate>>
        BY <1>1, <3>2 DEF NextTick, WorkerServesTask, DriverCallsExclusive
      <3>3. QED
        BY <1>1, <3>1, <3>2 DEF NextTick
    <2>3. ReaderIsAwaited' /\ Turns'
      BY <1>1 DEF NextTick, ReaderIsAwaited, Turns
    <2>4. QED
      BY <2>1, <2>2, <2>3
  <1>2. CASE AcquireSimulated \/ AcquireBusy
    <2>1. LoopTypes'
      BY <1>2 DEF AcquireSimulated, AcquireBusy, Acquired, AfterReading, LoopTypes, Phases,
         LoopPhases, Frames, Kinds
    <2>2. QED
      BY <1>2, <2>1 DEF AcquireSimulated, AcquireBusy, Acquired, AfterReading,
         WorkerServesTask,
         DriverCallsExclusive, ReaderIsAwaited, Turns, LoopTypes, NoFrame
  <1>3. CASE AcquireRead
    <2>1. LoopTypes'
      BY <1>3 DEF AcquireRead, LoopTypes, Phases, LoopPhases
    <2>2. QED
      BY <1>3, <2>1 DEF AcquireRead, WorkerServesTask, DriverCallsExclusive,
         ReaderIsAwaited, Turns, LoopTypes
  <1>4. CASE ReadReturns \/ ReadTimesOut
    <2>1. PICK f \in Frames \ {NoFrame} : phase = "reading" /\ Acquired(f)
      <3>1. ReadableFrames \subseteq Frames \ {NoFrame}
        BY SupervisorAssumption DEF ReadableFrames, RealFrames, Frames, NoFrame, LoopTypes, Kinds, FailClosedKinds
      <3>2. QED
        BY <1>4, <3>1 DEF ReadReturns, ReadTimesOut, Frames, NoFrame
    <2>2. reader = "awaited" /\ gate /\ worker.at \notin {"planning", "commanding"}
      BY <2>1 DEF DriverCallsExclusive, ReaderIsAwaited
    <2>3. \/ gate' = FALSE /\ reader' = "idle"
          \/ gate' = gate /\ reader' = "hung"
      BY <1>4 DEF ReadReturns, ReadTimesOut
    <2>4. LoopTypes'
      BY <2>1, <2>3 DEF Acquired, AfterReading, LoopTypes, Phases, LoopPhases
    <2>5. QED
      BY <2>1, <2>2, <2>3, <2>4 DEF Acquired, AfterReading, WorkerServesTask,
         DriverCallsExclusive, ReaderIsAwaited, Turns, LoopTypes
  <1>5. CASE HarvestNothing \/ SkipEvaluation
    <2>1. LoopTypes'
      BY <1>5 DEF HarvestNothing, SkipEvaluation, LoopTypes, Phases, LoopPhases
    <2>2. QED
      BY <1>5, <2>1 DEF HarvestNothing, SkipEvaluation, ShouldEvaluateTick,
         WorkerServesTask,
         DriverCallsExclusive, ReaderIsAwaited, Turns, LoopTypes
  <1>6. CASE Harvest
    <2>1. LoopTypes'
      BY <1>6, WorkerStates DEF Harvest, RecordFinished, LoopTypes, Phases, LoopPhases,
         Intents, Workers
    <2>2. QED
      BY <1>6, <2>1, WorkerStates DEF Harvest, RecordFinished, WorkerServesTask,
         DriverCallsExclusive, ReaderIsAwaited, Turns, LoopTypes
  <1>7. CASE EvaluateFrame
    <2>1. LoopTypes'
      BY <1>7 DEF EvaluateFrame, LoopTypes, Phases, LoopPhases, ShouldDispatchIntent
    <2>2. lastKind' = KindOf(frame) /\ lastKind' # "None" /\ (reassess => due')
      BY <1>7, FramesHaveKinds DEF EvaluateFrame, LoopTypes, Turns
    <2>3. QED
      BY <1>7, <2>1, <2>2 DEF EvaluateFrame, WorkerServesTask,
         DriverCallsExclusive, ReaderIsAwaited, Turns, LoopTypes
  <1>8. CASE Dispatch
    <2>1. LoopTypes'
      BY <1>8, Dispatching DEF Dispatch, LoopTypes, Phases, LoopPhases, Frames
    <2>2. WorkerServesTask' /\ DriverCallsExclusive'
      BY <1>8, Dispatching DEF Dispatch
    <2>3. ReaderIsAwaited' /\ Turns'
      BY <1>8 DEF Dispatch, ReaderIsAwaited, Turns
    <2>4. QED
      BY <2>1, <2>2, <2>3
  <1>9. QED
    BY <1>1, <1>2, <1>3, <1>4, <1>5, <1>6, <1>7, <1>8 DEF Loop

(* Shutdown and crashes. *)
LEMMA ShutdownKeeps == IInv /\ (Shutdown \/ Crash) => IInv'
  <1> SUFFICES ASSUME IInv, Shutdown \/ Crash PROVE IInv'
    OBVIOUS
  <1> USE DEF machineVars, gateVars, outsideVars, IInv
  <1>1. CASE Signal
    <2>1. LoopTypes'
      BY <1>1 DEF Signal, LoopTypes, Phases, LoopPhases
    <2>2. QED
      BY <1>1, <2>1 DEF Signal, WorkerServesTask, DriverCallsExclusive, ReaderIsAwaited,
         Turns, LoopTypes
  <1>2. CASE JoinFinished
    <2>1. LoopTypes'
      BY <1>2, WorkerStates DEF JoinFinished, RecordFinished, LoopTypes, Phases,
         LoopPhases, Intents, Workers
    <2>2. QED
      BY <1>2, <2>1, WorkerStates DEF JoinFinished, RecordFinished, WorkerServesTask,
         DriverCallsExclusive, ReaderIsAwaited, Turns, LoopTypes
  <1>3. CASE JoinTimesOut
    <2>1. LoopTypes'
      BY <1>3 DEF JoinTimesOut, LoopTypes, Phases, LoopPhases
    <2>2. QED
      BY <1>3, <2>1 DEF JoinTimesOut, WorkerServesTask, DriverCallsExclusive,
         ReaderIsAwaited, Turns, LoopTypes
  <1>4. CASE Exit \/ Crash
    <2>1. ProcessEnds
      BY <1>4 DEF Exit, Crash
    <2>2. orphans' \subseteq {Target, Default}
      BY <2>1 DEF ProcessEnds, LoopTypes, WorkerServesTask
    <2>3. LoopTypes'
      BY <2>1, <2>2, WorkerStates DEF ProcessEnds, LoopTypes, Phases, Frames, Intents
    <2>4. QED
      BY <2>1, <2>3, WorkerStates DEF ProcessEnds, WorkerServesTask,
         DriverCallsExclusive, ReaderIsAwaited, Turns
  <1>5. QED
    BY <1>1, <1>2, <1>3, <1>4 DEF Shutdown

(* The blocking threads. *)
LEMMA ThreadsKeep == IInv /\ (Worker \/ HungReadReturns) => IInv'
  <1> SUFFICES ASSUME IInv, Worker \/ HungReadReturns PROVE IInv'
    OBVIOUS
  <1> USE DEF loopVars, machineVars, gateVars, outsideVars, IInv
  <1>1. CASE HungReadReturns
    <2>1. LoopTypes'
      BY <1>1 DEF HungReadReturns, LoopTypes
    <2>2. QED
      BY <1>1, <2>1 DEF HungReadReturns, WorkerServesTask, DriverCallsExclusive,
         ReaderIsAwaited, Turns
  <1>2. ASSUME NEW current, NEW default \in WorkerReads(Default), WorkerPlans(current, default)
        PROVE  IInv'
    <2> DEFINE plan == PlanFor(task, current, default)
    <2>1. default \in {Default, NoReading}
      BY DEF WorkerReads
    <2>2. \/ /\ plan.watts = IF task = "Apply" THEN Target ELSE Default
             /\ worker' = Commanding(plan.watts) /\ gate' = gate
          \/ worker' = Returned(PlanSucceeds(plan)) /\ gate' = FALSE
      BY <1>2, <2>1, PlannedWatts DEF WorkerPlans
    <2>3. /\ worker.at = "planning"
          /\ UNCHANGED <<loopVars, pending, machineVars, task, reader, outsideVars>>
      BY <1>2 DEF WorkerPlans
    <2> HIDE DEF plan
    <2>4. /\ worker' \in Workers /\ worker'.at \in {"commanding", "returned"}
          /\ worker'.at = "commanding" =>
               worker'.watts = (IF task = "Apply" THEN Target ELSE Default) /\ gate' = gate
          /\ worker'.at = "returned" => gate' = FALSE
      BY <2>2, WorkerStates, PlansAreDecided
    <2>5. LoopTypes'
      BY <2>3, <2>4 DEF LoopTypes
    <2>6. WorkerServesTask'
      BY <2>3, <2>4 DEF WorkerServesTask
    <2>7. DriverCallsExclusive'
      <3>1. reader = "idle" /\ gate = TRUE /\ reader' = "idle"
        BY <2>3 DEF DriverCallsExclusive, LoopTypes
      <3>2. CASE worker'.at = "commanding" /\ gate' = gate
        BY <3>1, <3>2 DEF DriverCallsExclusive
      <3>3. CASE worker'.at = "returned" /\ gate' = FALSE
        BY <3>1, <3>3 DEF DriverCallsExclusive
      <3>4. QED
        BY <2>4, <3>2, <3>3
    <2>8. QED
      BY <2>3, <2>5, <2>6, <2>7 DEF ReaderIsAwaited, Turns, WorkerServesTask
  <1>3. CASE CommandSucceeds \/ CommandFails
    <2>1. /\ worker.at = "commanding" /\ worker.watts \in {Target, Default}
          /\ worker' \in Workers /\ worker'.at = "returned"
          /\ gate' = FALSE
          /\ UNCHANGED <<loopVars, pending, machineVars, task, reader, weather, disturbed,
                leftEngaged>>
      BY <1>3, WorkerStates DEF CommandSucceeds, CommandFails, WorkerServesTask
    <2>2. /\ limit' \in InitialLimits \cup OperatorLimits \cup {Target, Default}
          /\ orphans' \subseteq {Target, Default}
      BY <1>3, <2>1 DEF CommandSucceeds, CommandFails, LoopTypes
    <2>3. LoopTypes'
      BY <2>1, <2>2 DEF LoopTypes
    <2>4. QED
      BY <2>1, <2>3 DEF WorkerServesTask, DriverCallsExclusive, ReaderIsAwaited, Turns
  <1>4. CASE WorkerFinishes
    <2>1. worker' \in Workers /\ worker.at = "returned" /\ worker'.at = "finished"
      BY <1>4 DEF WorkerFinishes, LoopTypes, Workers
    <2>2. LoopTypes'
      BY <1>4, <2>1 DEF WorkerFinishes, LoopTypes
    <2>3. QED
      BY <1>4, <2>1, <2>2 DEF WorkerFinishes, WorkerServesTask, DriverCallsExclusive,
         ReaderIsAwaited, Turns
  <1>5. QED
    BY <1>1, <1>2, <1>3, <1>4 DEF Worker

(* What happens outside the process, a crash aside. *)
Elsewhere ==
  \/ \E watts \in orphans : OrphanEnds(watts)
  \/ \E watts \in OperatorLimits : OperatorWrites(watts)
  \/ Settle

(* The operator, commands left behind, and the weather. *)
LEMMA OutsideKeeps == IInv /\ (Elsewhere \/ UNCHANGED vars) => IInv'
  <1> SUFFICES ASSUME IInv, Elsewhere \/ UNCHANGED vars PROVE IInv'
    OBVIOUS
  <1> DEFINE Around ==
               /\ UNCHANGED <<loopVars, pending, machineVars, task, worker, gateVars,
                     leftEngaged>>
               /\ limit' \in InitialLimits \cup OperatorLimits \cup {Target, Default}
               /\ orphans' \subseteq {Target, Default}
               /\ weather' \in Weathers
               /\ disturbed' \in BOOLEAN
  <1>1. Around
    <2> USE DEF IInv, LoopTypes
    <2>1. ASSUME NEW watts \in orphans, OrphanEnds(watts) PROVE Around
      BY <2>1 DEF OrphanEnds
    <2>2. ASSUME NEW watts \in OperatorLimits, OperatorWrites(watts) PROVE Around
      BY <2>2 DEF OperatorWrites
    <2>3. CASE Settle \/ UNCHANGED vars
      BY <2>3 DEF Settle, vars, outsideVars
    <2>4. QED
      BY <2>1, <2>2, <2>3 DEF Elsewhere
  <1>2. LoopTypes'
    BY <1>1 DEF IInv, LoopTypes, loopVars, gateVars
  <1>3. QED
    BY <1>1, <1>2 DEF IInv, WorkerServesTask, DriverCallsExclusive, ReaderIsAwaited, Turns,
       loopVars, gateVars, machineVars

(* The state before the first process. *)
LEMMA InitHolds == Init => IInv
  <1> SUFFICES ASSUME Init PROVE IInv
    OBVIOUS
  <1>1. LoopTypes
    <2>1. 1 \in 1 .. EvalPeriod + 1 /\ "mixed" \in Weathers
      BY SupervisorAssumption
    <2>2. QED
      BY <2>1, WorkerStates DEF Init, LoopTypes, Phases, Startups, Frames, Intents
  <1>2. QED
    BY <1>1, WorkerStates DEF Init, IInv, WorkerServesTask, DriverCallsExclusive,
       ReaderIsAwaited, Turns

(* The invariant of the daemon holds. *)
LEMMA Invariance == Spec => []IInv
  <1>1. IInv /\ [Next]_vars => IInv'
    BY StartKeeps, LoopKeeps, ShutdownKeeps, ThreadsKeep, OutsideKeeps DEF Next, Outside,
       Elsewhere
  <1>2. QED
    BY <1>1, InitHolds, PTL DEF Spec
-----------------------------------------------------------------------------
(***************************************************************************)
(* The refinement                                                          *)
(***************************************************************************)

(* The mode that SafetyProtocol sees, read off the phase. *)
ModeFacts ==
  /\ Mode = "stopped" <=> phase = "down"
  /\ phase \in {"harvest", "dispatch", "sleep", "joining"} => Mode = "running"
  /\ phase # "down" /\ ~reassess => Mode = "running"
  /\ reassess /\ phase \in {"acquire", "reading", "evaluate", "exiting"} => Mode = "reassessing"

(* A dispatch is the protocol's Dispatch or changes nothing it can see. *)
LEMMA DispatchRefines ==
  ASSUME NEW isDue, DispatchDueOrPending(isDue), Mode = "running", Mode' = "running", lastKind # "None",
         UNCHANGED machineVars
  PROVE  Protocol!Dispatch \/ UNCHANGED Protocol!vars
  <1>1. CASE task' = task
    BY <1>1 DEF Protocol!vars, machineVars
  <1>2. CASE Wanted(isDue) /\ CanAct /\ task' = SnapshotIntent(machine)
    BY <1>2, SameMachine DEF Protocol!Dispatch, Protocol!NoKind, machineVars, CanAct
  <1>3. QED
    BY <1>1, <1>2 DEF DispatchDueOrPending

(* A recorded outcome is the protocol's Record. *)
LEMMA RecordRefines ==
  ASSUME IInv, RecordFinished, Mode = "running", lastKind' = lastKind,
         Mode' = IF worker.ok THEN "reassessing" ELSE "running"
  PROVE  Protocol!Record(worker.ok) /\ worker.ok \in BOOLEAN
  <1>1. task # "None" /\ worker.ok \in BOOLEAN
    BY DEF RecordFinished, IInv, LoopTypes, WorkerServesTask, Workers
  <1>2. QED
    BY <1>1, SameMachine DEF RecordFinished, Protocol!Record

(* The initial states map to initial states. *)
LEMMA InitRefines == Init => Protocol!Init
  BY SameMachine DEF Init, Protocol!Init, Protocol!NoKind, Mode

(* Every step maps to a step of the protocol or to a stutter. *)
LEMMA StepRefines ==
  ASSUME IInv, IInv', [Next]_vars
  PROVE  [Protocol!Next]_(Protocol!vars)
  <1> ModeFacts /\ ModeFacts'
    BY DEF ModeFacts, Mode
  <1> USE DEF ModeFacts
  <1>1. CASE Start
    <2>1. machine' \in {NewMachine, SeedBrakeApplied(NewMachine)}
      BY <1>1 DEF Start, SeedStartupBrake
    <2>2. Mode = "stopped" /\ Mode' = "running"
      BY <1>1 DEF Start, IInv, Turns, LoopTypes
    <2>3. Protocol!Start
      BY <1>1, <2>1, <2>2, SameMachine DEF Start, Protocol!Start, Protocol!NoKind
    <2>4. QED
      BY <2>3 DEF Protocol!Next
  <1>2. CASE NextTick
    <2>1. Mode = "running" /\ Mode' = "running" /\ lastKind # "None" /\ UNCHANGED machineVars
      BY <1>2 DEF NextTick, IInv, Turns, LoopTypes
    <2>2. CASE DispatchDueOrPending(FALSE)
      BY <2>1, <2>2, DispatchRefines DEF Protocol!Next
    <2>3. CASE task' = task
      BY <2>1, <2>3 DEF Protocol!vars, machineVars
    <2>4. QED
      BY <1>2, <2>2, <2>3 DEF NextTick
  <1>3. CASE AcquireSimulated \/ AcquireBusy \/ AcquireRead \/ ReadReturns \/ ReadTimesOut
             \/ HarvestNothing \/ SkipEvaluation
    <2>1. /\ UNCHANGED <<machineVars, task, reassess>> /\ phase # "down" /\ phase' # "down"
          /\ phase \in {"acquire", "reading", "harvest"} \/ ~reassess
          /\ phase' \in {"reading", "evaluate"} \/ ~reassess
      BY <1>3 DEF AcquireSimulated, AcquireBusy, AcquireRead, ReadReturns, ReadTimesOut,
         HarvestNothing, SkipEvaluation, Acquired, AfterReading, IInv, LoopTypes, Turns
    <2>2. Mode' = Mode
      BY <2>1 DEF IInv, Turns, LoopTypes
    <2>3. QED
      BY <2>1, <2>2 DEF Protocol!vars, machineVars
  <1>4. CASE Harvest
    <2>1. Mode = "running" /\ RecordFinished /\ lastKind' = lastKind
      BY <1>4 DEF Harvest
    <2>2. Mode' = IF worker.ok THEN "reassessing" ELSE "running"
      BY <1>4 DEF Harvest, IInv, LoopTypes, Workers
    <2>3. QED
      BY <2>1, <2>2, RecordRefines DEF Protocol!Next
  <1>5. CASE EvaluateFrame
    <2>1. KindOf(frame) \in Kinds
      BY <1>5, FramesHaveKinds DEF EvaluateFrame, IInv, LoopTypes, Turns
    <2>2. Protocol!EvaluateFrame(KindOf(frame))
      BY <1>5, SameMachine DEF EvaluateFrame, Protocol!EvaluateFrame, Protocol!NextOkRun
    <2>3. QED
      BY <2>1, <2>2, SameMachine DEF Protocol!Next
  <1>6. CASE Dispatch
    <2>1. Mode = "running" /\ Mode' = "running" /\ lastKind # "None" /\ UNCHANGED machineVars
      BY <1>6 DEF Dispatch, IInv, Turns
    <2>2. QED
      BY <1>6, <2>1, DispatchRefines DEF Dispatch, Protocol!Next
  <1>7. CASE Signal \/ JoinTimesOut
    <2>1. ~reassess /\ ~reassess' /\ phase # "down" /\ phase' # "down" /\ UNCHANGED <<machineVars, task>>
      BY <1>7 DEF Signal, JoinTimesOut, IInv, Turns, LoopTypes
    <2>2. QED
      BY <2>1 DEF Protocol!vars, machineVars
  <1>8. CASE JoinFinished
    <2>1. Mode = "running" /\ RecordFinished /\ lastKind' = lastKind
      BY <1>8 DEF JoinFinished
    <2>2. Mode' = IF worker.ok THEN "reassessing" ELSE "running"
      BY <1>8 DEF JoinFinished, IInv, LoopTypes, Workers
    <2>3. QED
      BY <2>1, <2>2, RecordRefines DEF Protocol!Next
  <1>9. CASE Exit \/ Crash
    <2>1. Protocol!Stop
      BY <1>9 DEF Exit, Crash, ProcessEnds, Protocol!Stop, machineVars
    <2>2. QED
      BY <2>1 DEF Protocol!Next
  <1>10. CASE Worker \/ HungReadReturns \/ Elsewhere \/ UNCHANGED vars
    <2>1. UNCHANGED <<loopVars, machineVars, task>>
      BY <1>10 DEF Worker, HungReadReturns, Elsewhere, WorkerPlans, CommandSucceeds,
         CommandFails,
         WorkerFinishes, OrphanEnds, OperatorWrites, Settle, vars
    <2>2. Mode' = Mode
      BY <2>1 DEF Mode, loopVars
    <2>3. QED
      BY <2>1, <2>2 DEF Protocol!vars, machineVars
  <1>11. QED
    BY <1>1, <1>2, <1>3, <1>4, <1>5, <1>6, <1>7, <1>8, <1>9, <1>10
       DEF Next, Loop, Shutdown, Outside, Elsewhere

(* The daemon implements SafetyProtocol: whatever the gate, the threads,   *)
(* crashes, restarts and the outside do, its machine only sees the calls   *)
(* the protocol allows, in its order (run, src/daemon.rs).                 *)
THEOREM Refinement == Spec => RefinesProtocol
  <1>1. IInv /\ IInv' /\ [Next]_vars => [Protocol!Next]_(Protocol!vars)
    BY StepRefines
  <1>2. QED
    BY <1>1, InitRefines, Invariance, PTL DEF Spec, RefinesProtocol, Protocol!Spec

(* The two instances of SafetyProtocol are one specification. *)
LEMMA SameProtocol ==
  /\ Protocol!Init => ProtocolProofs!Init
  /\ [Protocol!Next]_(Protocol!vars) => [ProtocolProofs!Next]_(ProtocolProofs!vars)
  <1>1. Protocol!Init => ProtocolProofs!Init
    BY DEF Protocol!Init, ProtocolProofs!Init, Protocol!NewMachine,
       ProtocolProofs!NewMachine, Protocol!NoKind, ProtocolProofs!NoKind
  <1>2. Protocol!Start => ProtocolProofs!Start
    BY DEF Protocol!Start, ProtocolProofs!Start, Protocol!NewMachine,
       ProtocolProofs!NewMachine,
           Protocol!SeedBrakeApplied, ProtocolProofs!SeedBrakeApplied, Protocol!NoKind, ProtocolProofs!NoKind
  <1>3. Protocol!Stop => ProtocolProofs!Stop
    BY DEF Protocol!Stop, ProtocolProofs!Stop
  <1>4. Protocol!Dispatch => ProtocolProofs!Dispatch
    <2>1. \A m : Protocol!SnapshotIntent(m) = ProtocolProofs!SnapshotIntent(m)
      BY DEF Protocol!SnapshotIntent, ProtocolProofs!SnapshotIntent, Protocol!IntentFrom,
         ProtocolProofs!IntentFrom,
             Protocol!DesiredFromLastPolicy, ProtocolProofs!DesiredFromLastPolicy,
             Protocol!FailClosedStates, ProtocolProofs!FailClosedStates
    <2>2. QED
      BY <2>1 DEF Protocol!Dispatch, ProtocolProofs!Dispatch, Protocol!NoKind,
         ProtocolProofs!NoKind
  <1>5. ASSUME NEW kind \in Protocol!Kinds, Protocol!EvaluateFrame(kind)
        PROVE  kind \in ProtocolProofs!Kinds /\ ProtocolProofs!EvaluateFrame(kind)
    <2>1. \A m, k : Protocol!Evaluate(m, k) = ProtocolProofs!Evaluate(m, k)
      BY DEF Protocol!Evaluate, ProtocolProofs!Evaluate, Protocol!OkCountAfter,
         ProtocolProofs!OkCountAfter,
             Protocol!ErrorAfter, ProtocolProofs!ErrorAfter, Protocol!PolicyAfter, ProtocolProofs!PolicyAfter,
             Protocol!Reported, ProtocolProofs!Reported
    <2>2. kind \in ProtocolProofs!Kinds
      BY DEF Protocol!Kinds, ProtocolProofs!Kinds, Protocol!FailClosedKinds,
         ProtocolProofs!FailClosedKinds
    <2>3. QED
      BY <1>5, <2>1, <2>2 DEF Protocol!EvaluateFrame, ProtocolProofs!EvaluateFrame,
                              Protocol!NextOkRun, ProtocolProofs!NextOkRun
  <1>6. ASSUME NEW success \in BOOLEAN, Protocol!Record(success)
        PROVE  ProtocolProofs!Record(success)
    <2>1. \A m, o : Protocol!RecordActuator(m, o) = ProtocolProofs!RecordActuator(m, o)
      BY DEF Protocol!RecordActuator, ProtocolProofs!RecordActuator
    <2>2. \A i, ok : Protocol!Outcome(i, ok) = ProtocolProofs!Outcome(i, ok)
      BY DEF Protocol!Outcome, ProtocolProofs!Outcome
    <2>3. QED
      BY <1>6, <2>1, <2>2 DEF Protocol!Record, ProtocolProofs!Record
  <1>7. UNCHANGED Protocol!vars => UNCHANGED ProtocolProofs!vars
    BY DEF Protocol!vars, ProtocolProofs!vars
  <1>8. QED
    BY <1>1, <1>2, <1>3, <1>4, <1>5, <1>6, <1>7 DEF Protocol!Next, ProtocolProofs!Next

(* So the theorems about the protocol apply. *)
LEMMA ProtocolHolds == Spec => ProtocolProofs!Spec
  <1>1. RefinesProtocol => ProtocolProofs!Spec
    BY SameProtocol, PTL DEF RefinesProtocol, Protocol!Spec, ProtocolProofs!Spec
  <1>2. QED
    BY <1>1, Refinement, PTL

(* The protocol's invariant, for the daemon. *)
LEMMA MachineInv == Spec => []ProtocolProofs!IInv
  BY ProtocolHolds, ProtocolProofs!Invariance, StreakAssumption, PTL

(* The daemon never dispatches a release but after a full streak of Ok     *)
(* frames under the brake, whatever tasks, ticks and timeouts lie between  *)
(* (dispatch_due_or_pending).                                              *)
THEOREM DaemonEarnsReleases == Spec => ProtocolProofs!ReleaseIsEarned
  BY ProtocolHolds, ProtocolProofs!EarnedRelease, StreakAssumption, PTL

(* Estimates move no hardware in the daemon either: no task starts while a *)
(* simulated frame is the last one evaluated (dispatch_due_or_pending).    *)
THEOREM DaemonActsOnRealFrames == Spec => ProtocolProofs!OnlyRealFramesActuate
  BY ProtocolHolds, ProtocolProofs!RealFramesActuate, StreakAssumption, PTL

(* An actuator error stays on the daemon's report through every timeout,   *)
(* busy gate and skipped evaluation, until an actuation succeeds, an Ok    *)
(* frame arrives without a brake, or the process ends.                     *)
THEOREM DaemonReportsErrors == Spec => ProtocolProofs!ErrorStaysReported
  BY ProtocolHolds, ProtocolProofs!ErrorReported, StreakAssumption, PTL

(* What the proofs below need of the machine. *)
MachineFacts ==
  /\ machine \in Machines /\ okRun \in 0 .. OkCountMax
  /\ lastKind \in Kinds \cup {"None"}
  /\ task = "Apply" => ~machine.engaged
  /\ task = "Release" => machine.engaged

(* It follows from the invariant of the protocol. *)
LEMMA MachineTypes == ProtocolProofs!IInv => MachineFacts
  <1>1. ProtocolProofs!Machines = Machines
    BY DEF ProtocolProofs!Machines, Machines, ProtocolProofs!PolicyStates, PolicyStates,
       ProtocolProofs!SafetyStates, SafetyStates,
           ProtocolProofs!FailClosedStates, FailClosedStates
  <1>2. ProtocolProofs!Kinds = Kinds
    BY DEF ProtocolProofs!Kinds, Kinds, ProtocolProofs!FailClosedKinds, FailClosedKinds
  <1>3. QED
    BY <1>1, <1>2 DEF ProtocolProofs!IInv, ProtocolProofs!TypeOK, ProtocolProofs!NoKind,
       ProtocolProofs!InFlightMatchesClaim, MachineFacts

(* The daemon's variables stay in their types, the machine's saturating    *)
(* count in its range.                                                     *)
THEOREM DaemonTypes == Spec => []TypeOK
  <1>1. IInv /\ ProtocolProofs!IInv => TypeOK
    BY MachineTypes DEF IInv, LoopTypes, TypeOK, MachineFacts
  <1>2. QED
    BY <1>1, Invariance, MachineInv, PTL

(* One thread of the process is inside the driver at most, and the permit  *)
(* is taken exactly as long as one is (NvmlGate::run, Permit::drop).       *)
THEOREM OneDriverCall == Spec => []DriverCallsExclusive
  <1>1. IInv => DriverCallsExclusive
    BY DEF IInv
  <1>2. QED
    BY <1>1, Invariance, PTL
-----------------------------------------------------------------------------
(***************************************************************************)
(* Machine, hardware and threads                                           *)
(***************************************************************************)

(* The limit is in the brake's band as the machine claims, but for a       *)
(* success that has not been recorded yet.                                 *)
HardwareIsKnown ==
  phase # "down" /\ ~disturbed =>
    (InBrakeBand(limit, Default) <=>
       IF worker.at \in {"returned", "finished"} /\ worker.ok THEN task = "Apply"
                                                            ELSE machine.engaged)

(* A failure in this iteration has been recorded as an error. *)
FailureIsKnown == failed /\ phase = "evaluate" => machine.error

(* A machine that wants the brake gets it: the apply is in flight, waits   *)
(* for the gate, is due, or has failed and is left to the cadence.         *)
FaultIsInHand ==
  phase \in LoopPhases /\ Mode = "running" /\ lastKind # "None"
    /\ SnapshotIntent(machine) = "Apply" =>
       \/ "Apply" \in {task, pending}
       \/ machine.error
       \/ phase = "dispatch" /\ due

(* What is known by now. *)
Known == IInv /\ MachineFacts

(* Target and default are in the bands they belong to. *)
LEMMA Bands ==
  /\ InBrakeBand(Target, Default) /\ ~InBrakeBand(Default, Default)
  /\ Default \in Nat /\ Default # NoReading /\ Unambiguous(Default)
  <1>1. Default \in Nat /\ Default - Target > 4
    BY SupervisorAssumption DEF Unambiguous, Watts, BrakeMatchTolerance, Target
  <1>2. Target \in Nat
    BY <1>1, Z3 DEF Target, BrakeTarget
  <1>3. InBrakeBand(Target, Default) /\ ~InBrakeBand(Default, Default)
    BY <1>1, <1>2 DEF InBrakeBand, AbsDiff, BrakeMatchTolerance, Target
  <1>4. QED
    BY <1>1, <1>3, SupervisorAssumption DEF NoReading

(* The limit of the GPU is a number of watts. *)
LEMMA LimitIsWatts == IInv => limit \in Nat /\ limit # NoReading
  <1>1. Target \in Nat /\ Default \in Nat
    BY Bands, Z3 DEF Target, BrakeTarget
  <1>2. QED
    BY <1>1, SupervisorAssumption DEF IInv, LoopTypes, Watts, NoReading

(* evaluate leaves the claim alone. *)
LEMMA EvaluateFields ==
  ASSUME NEW m \in Machines, NEW kind \in Kinds
  PROVE  /\ Evaluate(m, kind).engaged = m.engaged
         /\ Evaluate(m, kind).error = ErrorAfter(m, kind)
         /\ Evaluate(m, kind).policy = PolicyAfter(m, kind)
         /\ Evaluate(m, kind).justReleased = FALSE
         /\ Evaluate(m, kind).okCount = OkCountAfter(m, kind)
  BY DEF Evaluate, Machines

(* When the snapshot after evaluate wants the brake, so did the intent it  *)
(* returned (the converse fails for a warning after a release), and the    *)
(* frame hides no error.                                                   *)
LEMMA EvaluatedDemand ==
  ASSUME NEW m \in Machines, NEW kind \in Kinds, SnapshotIntent(Evaluate(m, kind)) = "Apply"
  PROVE  EvaluateIntent(m, kind) = "Apply" /\ (m.error => Evaluate(m, kind).error)
  <1> DEFINE e == Evaluate(m, kind)
  <1>1. ~e.engaged /\ DesiredFromLastPolicy(e)
    BY DEF SnapshotIntent, IntentFrom
  <1>2. /\ e.engaged = m.engaged /\ e.error = ErrorAfter(m, kind)
        /\ e.policy = PolicyAfter(m, kind) /\ e.justReleased = FALSE
    BY EvaluateFields
  <1> HIDE DEF e
  <1>3. PolicyAfter(m, kind) \in FailClosedStates \cup {"Recovering"}
    BY <1>1, <1>2 DEF DesiredFromLastPolicy
  <1>4. kind \in FailClosedKinds
    BY <1>1, <1>2, <1>3 DEF PolicyAfter, FailClosedStates, Kinds
  <1>5. EvaluateIntent(m, kind) = "Apply"
    BY <1>1, <1>2, <1>4 DEF EvaluateIntent, IntentFrom, DesiredAfter
  <1>6. PolicyAfter(m, kind) # "HealthyReal"
    BY <1>3 DEF FailClosedStates
  <1>7. QED
    BY <1>2, <1>5, <1>6 DEF ErrorAfter, e

(* record_actuator: the claim after each outcome. *)
LEMMA RecordedFields ==
  ASSUME NEW m \in Machines
  PROVE  /\ RecordActuator(m, "Applied").engaged = TRUE
         /\ RecordActuator(m, "Released").engaged = FALSE
         /\ RecordActuator(m, "ApplyFailed").engaged = FALSE
         /\ RecordActuator(m, "ApplyFailed").error = TRUE
         /\ RecordActuator(m, "ReleaseFailed").engaged = m.engaged
         /\ RecordActuator(m, "ReleaseFailed").error = TRUE
  BY DEF RecordActuator, Machines

(* Only an adopted brake is claimed at the start. *)
LEMMA StartFields ==
  NewMachine.engaged = FALSE /\ SeedBrakeApplied(NewMachine).engaged = TRUE
  BY DEF NewMachine, SeedBrakeApplied

(* A success without a command is an apply that found the brake in place. *)
LEMMA PlanLeaves ==
  ASSUME NEW current \in {limit, NoReading}, NEW default \in {Default, NoReading},
         task = "Apply" \/ task = "Release",
         PlanFor(task, current, default).decision # "set",
         PlanSucceeds(PlanFor(task, current, default))
  PROVE  task = "Apply" /\ InBrakeBand(limit, Default)
  <1>1. PlanFor(task, current, default).decision = "already_braked"
    BY DEF PlanSucceeds
  <1>2. task = "Apply"
    BY <1>1 DEF PlanFor, PlanBrakeRelease, Plan
  <1>3. Readable(current) /\ Readable(default) /\ InBrakeBand(current, default)
    BY <1>1, <1>2 DEF PlanFor, PlanBrakeApply, Plan
  <1>4. QED
    BY <1>2, <1>3 DEF Readable
-----------------------------------------------------------------------------
(* No step makes the claim false. *)
LEMMA HardwareStep ==
  ASSUME Known, Known', HardwareIsKnown, [Next]_vars
  PROVE  HardwareIsKnown'
  <1> SUFFICES ASSUME phase' # "down", ~disturbed'
               PROVE  InBrakeBand(limit', Default) <=>
                        IF worker'.at \in {"returned", "finished"} /\ worker'.ok
                        THEN task' = "Apply" ELSE machine'.engaged
    BY DEF HardwareIsKnown
  <1>0. /\ machine \in Machines /\ worker \in Workers /\ limit # NoReading
        /\ task \in {"None", "Apply", "Release"}
        /\ task = "Apply" => ~machine.engaged
        /\ task = "Release" => machine.engaged
        /\ worker.at = "idle" <=> task = "None"
        /\ machine.engaged \in BOOLEAN /\ worker.ok \in BOOLEAN
    BY LimitIsWatts DEF Known, MachineFacts, IInv, LoopTypes, WorkerServesTask, Machines,
       Workers, Intents
  <1>1. CASE Start
    <2>1. PICK found \in Startups : \E readings \in StartupReadings(found) :
             /\ machine' = SeedStartupBrake(found, readings)
             /\ disturbed' = (/\ InBrakeBand(limit, Default)
                               /\ NoReading \in {readings[1], readings[2]})
      BY <1>1 DEF Start
    <2>2. PICK readings \in StartupReadings(found) :
             /\ machine' = SeedStartupBrake(found, readings)
             /\ disturbed' = (/\ InBrakeBand(limit, Default)
                               /\ NoReading \in {readings[1], readings[2]})
      BY <2>1
    <2>3. readings[1] \in {limit, NoReading} /\ readings[2] \in {Default, NoReading}
      BY DEF StartupReadings
    <2>4. machine'.engaged <=> InBrakeBand(limit, Default)
      <3>1. CASE NoReading \in {readings[1], readings[2]}
        BY <2>2, <3>1, StartFields DEF SeedStartupBrake, ClassifyPowerLimit
      <3>2. CASE readings[1] = limit /\ readings[2] = Default
        BY <1>0, <2>2, <3>2, StartFields, Bands DEF SeedStartupBrake, ClassifyPowerLimit
      <3>3. QED
        BY <2>3, <3>1, <3>2
    <2>5. limit' = limit /\ worker' = worker /\ worker.at = "idle"
      BY <1>0, <1>1 DEF Start, Known, IInv, Turns, LoopTypes
    <2>6. QED
      BY <2>4, <2>5
  <1>2. CASE NextTick \/ Dispatch
    <2>1. /\ phase # "down" /\ limit' = limit /\ machine' = machine /\ disturbed' = disturbed
          /\ \/ UNCHANGED <<task, worker>>
             \/ task = "None" /\ worker' = Planning
      BY <1>2 DEF NextTick, Dispatch, DispatchDueOrPending, CanAct, machineVars, outsideVars
    <2>2. QED
      BY <1>0, <2>1, WorkerStates DEF HardwareIsKnown
  <1>3. CASE AcquireSimulated \/ AcquireBusy \/ AcquireRead \/ ReadReturns \/ ReadTimesOut
             \/ HarvestNothing \/ SkipEvaluation \/ Signal \/ JoinTimesOut \/ HungReadReturns \/ UNCHANGED vars
    <2>1. phase # "down" /\ UNCHANGED <<limit, machine, disturbed, task, worker>>
      BY <1>3 DEF AcquireSimulated, AcquireBusy, AcquireRead, ReadReturns, ReadTimesOut,
         Acquired,
         HarvestNothing, SkipEvaluation, Signal, JoinTimesOut, HungReadReturns, vars, loopVars, machineVars, outsideVars
    <2>2. QED
      BY <2>1 DEF HardwareIsKnown
  <1>4. CASE Harvest \/ JoinFinished
    <2>1. /\ phase # "down" /\ worker.at = "finished" /\ worker' = Idle /\ limit' = limit /\ disturbed' = disturbed
          /\ machine' = RecordActuator(machine, Outcome(task, worker.ok))
      BY <1>4 DEF Harvest, JoinFinished, RecordFinished, outsideVars
    <2>2. machine'.engaged <=> InBrakeBand(limit, Default)
      BY <1>0, <2>1, RecordedFields DEF HardwareIsKnown, Outcome
    <2>3. QED
      BY <2>1, <2>2, WorkerStates
  <1>5. CASE EvaluateFrame
    <2>1. KindOf(frame) \in Kinds
      BY <1>5, FramesHaveKinds DEF EvaluateFrame, Known, IInv, LoopTypes, Turns
    <2>2. /\ phase # "down" /\ UNCHANGED <<limit, disturbed, task, worker>>
          /\ machine' = Evaluate(machine, KindOf(frame))
      BY <1>5 DEF EvaluateFrame, outsideVars
    <2>3. machine'.engaged = machine.engaged
      BY <1>0, <2>1, <2>2, EvaluateFields
    <2>4. QED
      BY <2>2, <2>3 DEF HardwareIsKnown
  <1>6. CASE Exit \/ Crash
    BY <1>6 DEF Exit, Crash, ProcessEnds
  <1>7. ASSUME NEW current \in WorkerReads(limit), NEW default \in WorkerReads(Default),
               WorkerPlans(current, default)
        PROVE  HardwareIsKnown'
    <2> DEFINE plan == PlanFor(task, current, default)
    <2>1. /\ worker.at = "planning" /\ phase # "down"
          /\ UNCHANGED <<phase, limit, machine, disturbed, task>>
          /\ plan.decision = "set" => worker' = Commanding(plan.watts)
          /\ plan.decision # "set" => worker' = Returned(PlanSucceeds(plan))
      BY <1>7 DEF WorkerPlans, loopVars, machineVars, outsideVars
    <2>2. current \in {limit, NoReading} /\ default \in {Default, NoReading}
      BY DEF WorkerReads
    <2>3. task = "Apply" \/ task = "Release"
      BY <1>0, <2>1
    <2>4. plan.decision = "set" => worker'.at = "commanding"
      BY <2>1 DEF Commanding, Idle
    <2>5. plan.decision # "set" =>
             /\ worker'.at = "returned" /\ worker'.ok = PlanSucceeds(plan)
             /\ PlanSucceeds(plan) => task = "Apply" /\ InBrakeBand(limit, Default)
      BY <2>1, <2>2, <2>3, PlanLeaves, PlansAreDecided, WorkerStates
    <2> HIDE DEF plan
    <2>6. QED
      BY <2>1, <2>4, <2>5 DEF HardwareIsKnown
  <1>8. CASE CommandSucceeds
    <2>1. /\ limit' = worker.watts /\ worker' = Returned(TRUE) /\ task' = task
          /\ worker.watts = IF task = "Apply" THEN Target ELSE Default
      BY <1>8 DEF CommandSucceeds, Known, IInv, WorkerServesTask
    <2>2. QED
      BY <2>1, Bands, WorkerStates
  <1>9. CASE CommandFails
    <2>1. /\ worker.at = "commanding" /\ worker' = Returned(FALSE) /\ phase # "down"
          /\ UNCHANGED <<limit, machine, disturbed, task>>
      BY <1>9 DEF CommandFails, machineVars, loopVars
    <2>2. worker'.ok = FALSE
      BY <2>1, WorkerStates
    <2>3. QED
      BY <2>1, <2>2 DEF HardwareIsKnown
  <1>10. CASE WorkerFinishes
    <2>1. /\ worker.at = "returned" /\ worker'.at = "finished" /\ worker'.ok = worker.ok
          /\ UNCHANGED <<phase, limit, machine, disturbed, task>>
      BY <1>0, <1>10 DEF WorkerFinishes, Workers, machineVars, loopVars, outsideVars
    <2>2. QED
      BY <2>1 DEF HardwareIsKnown
  <1>11. CASE Elsewhere
    <2> DEFINE Apart == UNCHANGED <<phase, machine, task, worker, limit>> /\ ~disturbed
    <2>1. Apart
      <3>1. ASSUME NEW watts \in orphans, OrphanEnds(watts) PROVE Apart
        BY <3>1 DEF OrphanEnds, machineVars, loopVars
      <3>2. ASSUME NEW watts \in OperatorLimits, OperatorWrites(watts) PROVE FALSE
        BY <3>2 DEF OperatorWrites
      <3>3. CASE Settle
        BY <3>3 DEF Settle, machineVars, loopVars
      <3>4. QED
        BY <1>11, <3>1, <3>2, <3>3 DEF Elsewhere
    <2>2. QED
      BY <2>1 DEF HardwareIsKnown
  <1>12. QED
    BY <1>1, <1>2, <1>3, <1>4, <1>5, <1>6, <1>7, <1>8, <1>9, <1>10, <1>11
       DEF Next, Loop, Shutdown, Worker, Outside, Elsewhere, HardwareIsKnown

(* No step drops a fault. *)
LEMMA FaultStep ==
  ASSUME Known, Known', FailureIsKnown, FaultIsInHand, [Next]_vars
  PROVE  FailureIsKnown' /\ FaultIsInHand'
  <1> ModeFacts /\ ModeFacts'
    BY DEF ModeFacts, Mode
  <1>0. /\ machine \in Machines /\ machine' \in Machines
        /\ task = "Apply" => ~machine.engaged
        /\ task = "Release" => machine.engaged
        /\ task \in {"None", "Apply", "Release"}
        /\ worker.at = "idle" <=> task = "None"
        /\ worker.ok \in BOOLEAN /\ reassess \in BOOLEAN
    BY DEF Known, MachineFacts, IInv, LoopTypes, WorkerServesTask, Workers, Intents
  <1>1. CASE Start \/ Exit \/ Crash \/ JoinTimesOut \/ JoinFinished \/ Signal
    BY <1>1 DEF Start, Exit, Crash, ProcessEnds, JoinTimesOut, JoinFinished, Signal,
       RecordFinished,
       FailureIsKnown, FaultIsInHand, LoopPhases
  <1>2. ASSUME NEW isDue, DispatchDueOrPending(isDue), machine' = machine,
               lastKind # "None", SnapshotIntent(machine) = "Apply",
               isDue \/ "Apply" \in {task, pending} \/ machine.error
        PROVE  "Apply" \in {task', pending'} \/ machine'.error
    <2>1. task = "Release" => FALSE
      BY <1>0, <1>2 DEF SnapshotIntent, IntentFrom
    <2>2. CASE task = "Apply"
      BY <2>2, <1>2 DEF DispatchDueOrPending, CanAct
    <2>3. CASE task = "None" /\ (isDue \/ pending = "Apply")
      BY <2>3, <1>2 DEF DispatchDueOrPending, CanAct, Wanted
    <2>4. QED
      BY <1>0, <1>2, <2>1, <2>2, <2>3
  <1>3. CASE NextTick
    <2>1. phase = "sleep" /\ phase' = "acquire" /\ machine' = machine /\ lastKind' = lastKind /\ failed' = failed
      BY <1>3 DEF NextTick, machineVars
    <2>2. CASE DispatchDueOrPending(FALSE)
      BY <1>2, <2>1, <2>2 DEF FailureIsKnown, FaultIsInHand, LoopPhases, ModeFacts
    <2>3. CASE UNCHANGED <<pending, task>>
      BY <2>1, <2>3 DEF FailureIsKnown, FaultIsInHand, LoopPhases, ModeFacts
    <2>4. QED
      BY <1>3, <2>2, <2>3 DEF NextTick
  <1>4. CASE Dispatch
    <2>1. /\ phase = "dispatch" /\ phase' = "sleep" /\ machine' = machine /\ lastKind' = lastKind
          /\ DispatchDueOrPending(due)
      BY <1>4 DEF Dispatch, machineVars
    <2>2. QED
      BY <1>2, <2>1 DEF FailureIsKnown, FaultIsInHand, LoopPhases, ModeFacts
  <1>5. CASE AcquireSimulated \/ AcquireBusy \/ AcquireRead \/ ReadReturns \/ ReadTimesOut
             \/ HarvestNothing \/ SkipEvaluation
    <2>1. /\ UNCHANGED <<machineVars, task, pending, reassess, failed, due>>
          /\ phase \in LoopPhases \ {"dispatch"}
          /\ Mode' = "running" => Mode = "running"
          /\ phase' = "evaluate" => ~failed
      BY <1>5 DEF AcquireSimulated, AcquireBusy, AcquireRead, ReadReturns, ReadTimesOut,
         HarvestNothing, SkipEvaluation, Acquired, AfterReading, LoopPhases, ModeFacts, Known, IInv, Turns
    <2>2. QED
      BY <2>1 DEF FailureIsKnown, FaultIsInHand, machineVars
  <1>6. CASE Harvest
    <2>1. /\ worker.at = "finished" /\ machine' = RecordActuator(machine, Outcome(task, worker.ok))
          /\ failed' = ~worker.ok /\ reassess' = worker.ok
          /\ phase' = IF worker.ok THEN "acquire" ELSE "evaluate"
      BY <1>6 DEF Harvest, RecordFinished
    <2>2. CASE worker.ok
      BY <1>0, <2>1, <2>2 DEF FailureIsKnown, FaultIsInHand, ModeFacts
    <2>3. CASE ~worker.ok
      <3>1. machine'.error
        BY <1>0, <2>1, <2>3, RecordedFields DEF Outcome
      <3>2. QED
        BY <3>1 DEF FailureIsKnown, FaultIsInHand
    <2>4. QED
      BY <2>2, <2>3
  <1>7. CASE EvaluateFrame
    <2> DEFINE kind == KindOf(frame)
    <2>1. kind \in Kinds
      BY <1>7, FramesHaveKinds DEF EvaluateFrame, Known, IInv, LoopTypes, Turns
    <2>2. /\ phase = "evaluate" /\ phase' = "dispatch" /\ UNCHANGED <<task, pending, failed, step>>
          /\ machine' = Evaluate(machine, kind)
          /\ due' = \/ reassess
                    \/ ShouldDispatchIntent(SnapshotIntent(machine), EvaluateIntent(machine, kind))
      BY <1>7 DEF EvaluateFrame
    <2> HIDE DEF kind
    <2>3. SUFFICES ASSUME SnapshotIntent(machine') = "Apply", ~reassess
                   PROVE  "Apply" \in {task', pending'} \/ machine'.error \/ due'
      BY <2>2 DEF FailureIsKnown, FaultIsInHand
    <2>4. EvaluateIntent(machine, kind) = "Apply" /\ (machine.error => machine'.error)
      BY <1>0, <2>1, <2>2, <2>3, EvaluatedDemand
    <2>5. CASE SnapshotIntent(machine) # "Apply"
      BY <2>2, <2>4, <2>5 DEF ShouldDispatchIntent
    <2>6. CASE SnapshotIntent(machine) = "Apply" /\ lastKind # "None"
      BY <2>2, <2>3, <2>4, <2>6 DEF FaultIsInHand, LoopPhases, ModeFacts
    <2>7. CASE lastKind = "None"
      <3>1. step = 1
        BY <2>2, <2>7 DEF Known, IInv, Turns
      <3>2. failed => machine'.error
        BY <2>2, <2>4 DEF FailureIsKnown
      <3>3. QED
        BY <2>2, <2>4, <3>1, <3>2 DEF ShouldDispatchIntent
    <2>8. QED
      BY <2>5, <2>6, <2>7
  <1>8. CASE Worker \/ HungReadReturns \/ Elsewhere \/ UNCHANGED vars
    <2>1. UNCHANGED <<loopVars, machineVars, task, pending>>
      BY <1>8 DEF Worker, HungReadReturns, Elsewhere, WorkerPlans, CommandSucceeds,
         CommandFails,
         WorkerFinishes, OrphanEnds, OperatorWrites, Settle, vars
    <2>2. Mode' = Mode
      BY <2>1 DEF Mode, loopVars
    <2>3. QED
      BY <2>1, <2>2 DEF FailureIsKnown, FaultIsInHand, loopVars, machineVars
  <1>9. QED
    BY <1>1, <1>3, <1>4, <1>5, <1>6, <1>7, <1>8 DEF Next, Loop, Shutdown, Outside, Elsewhere

(* All of it holds. *)
LEMMA BeliefsHold == Spec => [](Known /\ HardwareIsKnown /\ FailureIsKnown /\ FaultIsInHand)
  <1>1. IInv /\ ProtocolProofs!IInv => Known
    BY MachineTypes DEF Known
  <1>2. Init => HardwareIsKnown /\ FailureIsKnown /\ FaultIsInHand
    BY DEF Init, HardwareIsKnown, FailureIsKnown, FaultIsInHand, LoopPhases
  <1>3. Known /\ Known' /\ HardwareIsKnown /\ [Next]_vars => HardwareIsKnown'
    BY HardwareStep
  <1>4. Known /\ Known' /\ FailureIsKnown /\ FaultIsInHand /\ [Next]_vars => FailureIsKnown' /\ FaultIsInHand'
    BY FaultStep
  <1>5. QED
    BY <1>1, <1>2, <1>3, <1>4, Invariance, MachineInv, PTL DEF Spec

(* What the relay believes about the brake is what the GPU enforces, for   *)
(* every default and limit, unless somebody else changed it or it could    *)
(* not be read at the start (record_actuator, seed_startup_brake).         *)
THEOREM ClaimIsTrue == Spec => []ClaimMatchesHardware
  <1>1. Known /\ HardwareIsKnown => ClaimMatchesHardware
    BY DEF Known, IInv, WorkerServesTask, HardwareIsKnown, ClaimMatchesHardware
  <1>2. QED
    BY <1>1, BeliefsHold, PTL

(* FaultStaysDemanded, of the daemon's machine. *)
FaultIsWanted ==
  Mode = "running" /\ lastKind \in FailClosedKinds =>
    SnapshotIntent(machine) = IF machine.engaged THEN "None" ELSE "Apply"

(* It holds because the daemon implements the protocol. *)
LEMMA FaultWanted == Spec => []FaultIsWanted
  <1>1. ProtocolProofs!FaultStaysDemanded => FaultIsWanted
    <2>1. ProtocolProofs!SnapshotIntent(machine) = SnapshotIntent(machine)
      BY DEF ProtocolProofs!SnapshotIntent, SnapshotIntent, ProtocolProofs!IntentFrom,
         IntentFrom,
         ProtocolProofs!DesiredFromLastPolicy, DesiredFromLastPolicy, ProtocolProofs!FailClosedStates, FailClosedStates
    <2>2. ProtocolProofs!FailClosedKinds = FailClosedKinds
      BY DEF ProtocolProofs!FailClosedKinds, FailClosedKinds
    <2>3. QED
      BY <2>1, <2>2 DEF ProtocolProofs!FaultStaysDemanded, FaultIsWanted
  <1>2. QED
    BY <1>1, ProtocolHolds, ProtocolProofs!FaultDemand, StreakAssumption, PTL

(* The loop never goes to sleep on a fault it has done nothing about, for  *)
(* every period (dispatch_due_or_pending, should_dispatch_intent).         *)
THEOREM FaultIsNotSleptOn == Spec => []FaultIsServed
  <1>1. Known /\ FaultIsInHand /\ FaultIsWanted => FaultIsServed
    <2> SUFFICES ASSUME Known, FaultIsInHand, FaultIsWanted, phase = "sleep",
                        lastKind \in FailClosedKinds, ~machine.engaged
                 PROVE  "Apply" \in {task, pending} \/ machine.error
      BY DEF FaultIsServed
    <2>1. Mode = "running" /\ lastKind # "None"
      BY DEF Mode, FailClosedKinds
    <2>2. QED
      BY <2>1 DEF FaultIsInHand, FaultIsWanted, LoopPhases
  <1>2. QED
    BY <1>1, BeliefsHold, FaultWanted, PTL

(* A fault in the frame that reassesses a release is acted on in the same  *)
(* iteration (reassess_after_actuation).                                   *)
THEOREM FaultReapplies == Spec => FaultAfterReleaseReapplies
  <1>1. Known /\ FaultIsWanted /\ [Next]_vars =>
          [phase = "dispatch" /\ reassess /\ ~machine.engaged
             /\ lastKind \in FailClosedKinds /\ phase' = "sleep"
             => "Apply" \in {task', pending'}]_vars
    <2> SUFFICES ASSUME Known, FaultIsWanted, Next, phase = "dispatch", reassess, ~machine.engaged,
                        lastKind \in FailClosedKinds, phase' = "sleep"
                 PROVE  "Apply" \in {task', pending'}
      OBVIOUS
    <2>1. SnapshotIntent(machine) = "Apply" /\ due
      BY DEF Mode, FaultIsWanted, Known, IInv, Turns
    <2>2. DispatchDueOrPending(due)
      BY DEF Next, Start, Loop, NextTick, AcquireSimulated, AcquireBusy, AcquireRead,
         ReadReturns,
         ReadTimesOut, HarvestNothing, Harvest, EvaluateFrame, SkipEvaluation, Dispatch,
         Shutdown, Signal, JoinFinished, JoinTimesOut, Exit, Worker, WorkerPlans, CommandSucceeds,
         CommandFails, WorkerFinishes, HungReadReturns, Outside, Crash, ProcessEnds, OrphanEnds,
         OperatorWrites, Settle, loopVars
    <2>3. task \in {"None", "Apply"}
      BY DEF Known, MachineFacts, IInv, LoopTypes, Intents
    <2>4. QED
      BY <2>1, <2>2, <2>3 DEF DispatchDueOrPending, Wanted, CanAct
  <1>2. QED
    BY <1>1, BeliefsHold, FaultWanted, PTL DEF Spec, FaultAfterReleaseReapplies
-----------------------------------------------------------------------------
(***************************************************************************)
(* What reaches the hardware                                               *)
(***************************************************************************)

(* A loop that sleeps on a fail-closed frame has the GPU braked, unless an *)
(* apply is under way or waits, a release that was earned before is, or    *)
(* an error is reported.                                                   *)
FaultReachesHardware ==
  phase = "sleep" /\ lastKind \in FailClosedKinds /\ ~disturbed =>
    \/ InBrakeBand(limit, Default)
    \/ "Apply" \in {task, pending} \/ task = "Release"
    \/ machine.error

(* The brake is served down to the power limit the GPU enforces.           *)
THEOREM FaultIsBraked == Spec => []FaultReachesHardware
  <1>1. Known /\ HardwareIsKnown /\ FaultIsServed => FaultReachesHardware
    <2> SUFFICES ASSUME Known, HardwareIsKnown, FaultIsServed,
                        phase = "sleep", lastKind \in FailClosedKinds, ~disturbed,
                        task = "None", pending # "Apply", ~machine.error
                 PROVE  InBrakeBand(limit, Default)
      BY DEF FaultReachesHardware, Known, IInv, LoopTypes, Intents
    <2>1. machine.engaged
      BY DEF FaultIsServed
    <2>2. worker.at = "idle"
      BY DEF Known, IInv, WorkerServesTask
    <2>3. QED
      BY <2>1, <2>2 DEF HardwareIsKnown
  <1>2. QED
    BY <1>1, BeliefsHold, FaultIsNotSleptOn, PTL

(* The GPU leaves the brake's band by a release that the relay carries     *)
(* out, or by somebody else's hand; no failure, timeout, crash, exit or    *)
(* restart of the relay lifts the brake.                                   *)
OnlyReleaseLifts ==
  [][InBrakeBand(limit, Default) /\ ~InBrakeBand(limit', Default)
       => (task = "Release" /\ machine.engaged) \/ disturbed']_vars

THEOREM BrakeOutlivesTheRelay == Spec => OnlyReleaseLifts
  <1>1. Known /\ [Next]_vars =>
          [InBrakeBand(limit, Default) /\ ~InBrakeBand(limit', Default)
             => (task = "Release" /\ machine.engaged) \/ disturbed']_vars
    <2> SUFFICES ASSUME Known, Next, InBrakeBand(limit, Default), ~InBrakeBand(limit', Default)
                 PROVE  (task = "Release" /\ machine.engaged) \/ disturbed'
      OBVIOUS
    <2>1. limit' # limit
      OBVIOUS
    <2>2. CASE CommandSucceeds
      <3>1. /\ limit' = worker.watts /\ worker.at = "commanding"
            /\ worker.watts = IF task = "Apply" THEN Target ELSE Default
            /\ task \in {"None", "Apply", "Release"}
            /\ worker.at = "idle" <=> task = "None"
            /\ task = "Release" => machine.engaged
        BY <2>2 DEF CommandSucceeds, Known, MachineFacts, IInv, LoopTypes, WorkerServesTask, Intents
      <3>2. QED
        BY <3>1, Bands
    <2>3. ASSUME NEW watts \in orphans, OrphanEnds(watts) PROVE disturbed'
      BY <2>1, <2>3 DEF OrphanEnds
    <2>4. ASSUME NEW watts \in OperatorLimits, OperatorWrites(watts) PROVE disturbed'
      BY <2>4 DEF OperatorWrites
    <2>5. CASE Start \/ Loop \/ Shutdown \/ HungReadReturns \/ Crash \/ Settle
      BY <2>1, <2>5 DEF Start, Loop, NextTick, AcquireSimulated, AcquireBusy, AcquireRead,
         ReadReturns, ReadTimesOut, Acquired, HarvestNothing, Harvest, EvaluateFrame,
         SkipEvaluation, Dispatch, Shutdown, Signal, JoinFinished, JoinTimesOut, Exit,
         HungReadReturns, Crash, ProcessEnds, Settle, outsideVars
    <2>6. CASE CommandFails \/ WorkerFinishes
      BY <2>1, <2>6 DEF CommandFails, WorkerFinishes, outsideVars
    <2>7. ASSUME NEW current, NEW default, WorkerPlans(current, default) PROVE FALSE
      BY <2>1, <2>7 DEF WorkerPlans, outsideVars
    <2>8. QED
      BY <2>2, <2>3, <2>4, <2>5, <2>6, <2>7 DEF Next, Worker, Outside
  <1>2. QED
    BY <1>1, BeliefsHold, PTL DEF Spec, OnlyReleaseLifts

(* A process that leaves no brake behind has no actuation to wait for.     *)
NothingLeft ==
  phase \in {"joining", "exiting"} /\ ~leftEngaged => task = "None" /\ ~machine.engaged

(* When the gauge says that no brake is left, none is (plan_shutdown).     *)
THEOREM GaugeDeniesTruly == Spec => []GaugeDeniesNoBrake
  <1>1. Known /\ HardwareIsKnown /\ NothingLeft => GaugeDeniesNoBrake
    BY DEF Known, IInv, WorkerServesTask, HardwareIsKnown, NothingLeft, GaugeDeniesNoBrake
  <1>2. Init => NothingLeft
    BY DEF Init, NothingLeft
  <1>3. Known /\ NothingLeft /\ [Next]_vars => NothingLeft'
    <2> SUFFICES ASSUME Known, NothingLeft, [Next]_vars,
                        phase' \in {"joining", "exiting"}, ~leftEngaged'
                 PROVE  task' = "None" /\ ~machine'.engaged
      BY DEF NothingLeft
    <2>1. task \in {"None", "Apply", "Release"} /\ (task = "Release" => machine.engaged)
          /\ (worker.at = "idle" <=> task = "None")
      BY DEF Known, MachineFacts, IInv, LoopTypes, WorkerServesTask, Intents
    <2>2. CASE Signal
      BY <2>1, <2>2 DEF Signal, machineVars
    <2>3. CASE JoinFinished
      BY <2>1, <2>3 DEF JoinFinished, RecordFinished, NothingLeft, outsideVars
    <2>4. CASE /\ phase \in {"joining", "exiting"} /\ leftEngaged' = leftEngaged
               /\ machine' = machine /\ task' = task
      BY <2>4 DEF NothingLeft
    <2>5. CASE Start \/ Loop \/ Exit \/ Crash
      BY <2>5 DEF Start, Loop, NextTick, AcquireSimulated, AcquireBusy, AcquireRead,
         ReadReturns, ReadTimesOut, Acquired, AfterReading, HarvestNothing, Harvest, EvaluateFrame,
         SkipEvaluation, Dispatch, Exit, Crash, ProcessEnds
    <2>6. CASE JoinTimesOut \/ HungReadReturns \/ Settle \/ CommandSucceeds \/ CommandFails
                 \/ WorkerFinishes \/ UNCHANGED vars
      BY <2>4, <2>6 DEF JoinTimesOut, HungReadReturns, Settle, CommandSucceeds, CommandFails,
         WorkerFinishes, vars, loopVars, machineVars, outsideVars
    <2>7. ASSUME NEW current, NEW default, WorkerPlans(current, default) PROVE task' = "None" /\ ~machine'.engaged
      BY <2>4, <2>7 DEF WorkerPlans, loopVars, machineVars, outsideVars
    <2>8. ASSUME NEW watts, OrphanEnds(watts) \/ OperatorWrites(watts)
          PROVE  task' = "None" /\ ~machine'.engaged
      BY <2>4, <2>8 DEF OrphanEnds, OperatorWrites, loopVars, machineVars
    <2>9. QED
      BY <2>2, <2>3, <2>5, <2>6, <2>7, <2>8 DEF Next, Shutdown, Worker, Outside
  <1>4. QED
    BY <1>1, <1>2, <1>3, BeliefsHold, PTL DEF Spec

-----------------------------------------------------------------------------
(***************************************************************************)
(* What a frame of this model stands for                                   *)
(***************************************************************************)
Sensors == INSTANCE Telemetry

Faults == {"Missing", "Invalid", "Stale"}

(* What the two safety channels of a raw reading may hold. *)
Raws == {Sensors!NoValue, Sensors!NotFinite} \cup {Sensors!Number(v) : v \in Int}

(* What acquire_raw can give the process at a time when it reads:          *)
(* estimates in software-only mode, nothing when no GPU was resolved,      *)
(* readings above the critical temperature when the weather is hot.        *)
Answers(policy, now) ==
  IF startup = "software" THEN {Sensors!SoftwareFallback(now)}
  ELSE {Sensors!NvmlUnavailable(now)} \cup
  IF startup = "no_target" THEN {}
  ELSE {Sensors!Raw("Nvml", at, [temp |-> temp, power |-> power]) :
          at \in Nat \cup {Sensors!NoTime}, power \in Raws,
          temp \in {t \in Raws : weather = "hot" /\ t.is = "number"
                                   => t.value > policy.config.tempCritical}}

LEMMA ValidityOf ==
  ASSUME NEW raw \in Raws, NEW range, NEW observed \in Int, NEW now \in Int, NEW staleAfter \in Int
  PROVE  /\ Sensors!Sample(raw, range, observed, now, staleAfter).validity \in Faults \cup {"Valid"}
         /\ Sensors!Sample(raw, range, observed, now, staleAfter).raw = raw
         /\ raw = Sensors!NoValue =>
              Sensors!Sample(raw, range, observed, now, staleAfter).validity = "Missing"
         /\ Sensors!Sample(raw, range, observed, now, staleAfter).validity = "Valid" => raw.is = "number"
  BY DEF Sensors!Sample, Sensors!ValidityAt, Raws, Faults,
         Sensors!NoValue, Sensors!NotFinite, Sensors!Number

LEMMA KindOfFrame ==
  ASSUME NEW f, NEW policy, f.source # "SoftwareFallback",
         f.temp.validity \in Faults \cup {"Valid"}, f.power.validity \in Faults \cup {"Valid"}
  PROVE  /\ Sensors!Classify(f, policy) \in Faults \cup {"Critical", "Warn", "Ok"}
         /\ policy.limits = Sensors!NoLimits => Sensors!Classify(f, policy) \in Faults
         /\ Sensors!Classify(f, policy) \in {"Warn", "Ok"} =>
              f.temp.validity = "Valid" /\ ~(f.temp.raw.value > policy.config.tempCritical)
         /\ f.temp.validity = "Missing" => Sensors!Classify(f, policy) = "Missing"
  BY DEF Sensors!Classify, Sensors!WorstFault, Sensors!FaultRank, Sensors!ByThresholds, Faults

(* The frame the loop holds once it has one of these.                      *)
AcquiredFrames == IF startup = "software" THEN {"Simulated"} ELSE ReadableFrames

(* Every reading the daemon can meet is one of the frames of this model:   *)
(* what classify_frame_with_policy makes of it, under any policy that was  *)
(* accepted, any clock and any interval, is the kind of a frame that the   *)
(* loop may acquire, and it is evaluated off its cadence exactly when that *)
(* frame is (classify_frame_with_policy, should_evaluate_tick).            *)
THEOREM FramesStandForReadings ==
  ASSUME
         startup \in Startups, weather \in {"mixed", "hot"},
         NEW policy, startup = "no_envelope" => policy.limits = Sensors!NoLimits,
         NEW now \in Nat, NEW cadence \in Nat, NEW evalTicks \in Nat, NEW clock,
         NEW raw \in Answers(policy, now)
  PROVE  \E f \in AcquiredFrames :
           /\ KindOf(f) = Sensors!Classify(Sensors!Assess(raw, now, cadence, evalTicks, clock), policy)
           /\ f = "Unavailable" <=> raw.source = "NvmlUnavailable"
  <1> DEFINE frm == Sensors!Assess(raw, now, cadence, evalTicks, clock)
             kind == Sensors!Classify(frm, policy)
             observed == IF raw.at = Sensors!NoTime THEN now ELSE raw.at
             staleAfter == Sensors!StaleAfter(cadence, evalTicks)
  <1>1. staleAfter \in Int
    BY DEF Sensors!StaleAfter
  <1>2. /\ frm.source = raw.source
        /\ frm.temp = Sensors!Sample(raw.temp, Sensors!TempRange, observed, now, staleAfter)
        /\ frm.power = Sensors!Sample(raw.power, Sensors!PowerRange, observed, now, staleAfter)
    BY DEF Sensors!Assess
  <1> HIDE DEF frm, staleAfter
  <1>3. CASE startup = "software"
    <2>1. kind = "Simulated" /\ raw.source = "SoftwareFallback"
      BY <1>3, <1>2 DEF Answers, Sensors!SoftwareFallback, Sensors!Raw, Sensors!Classify
    <2>2. QED
      BY <1>3, <2>1 DEF AcquiredFrames, KindOf, frm
  <1>4. CASE startup # "software" /\ raw = Sensors!NvmlUnavailable(now)
    <2>1. /\ raw.source = "NvmlUnavailable" /\ raw.temp = Sensors!NoValue
          /\ raw.power = Sensors!NoValue /\ raw.at = now
      BY <1>4 DEF Sensors!NvmlUnavailable, Sensors!Raw, Sensors!Sensorless
    <2>2. observed \in Int /\ Sensors!NoValue \in Raws
      BY <2>1 DEF Raws
    <2> HIDE DEF observed
    <2>3. frm.temp.validity = "Missing" /\ frm.power.validity = "Missing"
      BY <1>1, <1>2, <2>1, <2>2, ValidityOf
    <2>4. kind = "Missing"
      BY <1>2, <2>1, <2>3, KindOfFrame DEF Faults
    <2>5. "Unavailable" \in ReadableFrames /\ KindOf("Unavailable") = "Missing"
      BY <1>4 DEF ReadableFrames, KindOf, Startups
    <2>6. QED
      BY <1>4, <2>1, <2>4, <2>5 DEF frm, AcquiredFrames
  <1>5. CASE startup # "software" /\ raw # Sensors!NvmlUnavailable(now)
    <2>1. /\ startup # "no_target" /\ raw.source = "Nvml"
          /\ raw.temp \in Raws /\ raw.power \in Raws /\ raw.at \in Nat \cup {Sensors!NoTime}
          /\ weather = "hot" /\ raw.temp.is = "number" => raw.temp.value > policy.config.tempCritical
      BY <1>5 DEF Answers, Sensors!Raw
    <2>2. observed \in Int
      BY <2>1 DEF Sensors!NoTime
    <2> HIDE DEF observed
    <2>3. /\ frm.temp.validity \in Faults \cup {"Valid"} /\ frm.power.validity \in Faults \cup {"Valid"}
          /\ frm.temp.raw = raw.temp
          /\ frm.temp.validity = "Valid" => raw.temp.is = "number"
      BY <1>1, <1>2, <2>1, <2>2, ValidityOf
    <2>4. /\ kind \in Faults \cup {"Critical", "Warn", "Ok"}
          /\ policy.limits = Sensors!NoLimits => kind \in Faults
          /\ kind \in {"Warn", "Ok"} =>
               frm.temp.validity = "Valid" /\ ~(frm.temp.raw.value > policy.config.tempCritical)
      BY <1>2, <2>1, <2>3, KindOfFrame
    <2> HIDE DEF kind
    <2>5. weather = "hot" => kind \notin {"Warn", "Ok"}
      BY <2>1, <2>3, <2>4
    <2>6. kind \in ReadableFrames
      BY <2>1, <2>4, <2>5, <1>5 DEF ReadableFrames, RealFrames, Faults, FailClosedKinds, Startups
    <2>7. KindOf(kind) = kind /\ kind # "Unavailable"
      BY <2>4 DEF KindOf, Faults
    <2>8. QED
      BY <1>5, <2>1, <2>6, <2>7 DEF kind, frm, AcquiredFrames
  <1>6. QED
    BY <1>3, <1>4, <1>5
===============================================================================
