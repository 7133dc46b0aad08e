------------------------ MODULE SafetyProtocolProofs ------------------------
(***************************************************************************)
(* SafetyProtocol's properties for every streak and saturation bound.      *)
(***************************************************************************)
EXTENDS SafetyProtocol, TLAPS

\* A call on a machine gives a machine: the record_actuator and evaluate of
\* src/safety.rs keep every field in its range, the saturating count included.
LEMMA EvaluateType ==
  ASSUME NEW m \in Machines, NEW kind \in Kinds
  PROVE  /\ Evaluate(m, kind) \in Machines
         /\ Evaluate(m, kind).engaged = m.engaged
         /\ Evaluate(m, kind).okCount = OkCountAfter(m, kind)
         /\ Evaluate(m, kind).policy = PolicyAfter(m, kind)
         /\ Evaluate(m, kind).error = ErrorAfter(m, kind)
         /\ Evaluate(m, kind).state
              = Reported(ErrorAfter(m, kind), PolicyAfter(m, kind))
  <1>1. OkCountAfter(m, kind) \in 0 .. OkCountMax
    BY StreakAssumption DEF OkCountAfter, Machines
  <1>2. PolicyAfter(m, kind) \in PolicyStates
    BY DEF PolicyAfter, Kinds, FailClosedKinds, PolicyStates, FailClosedStates
  <1>3. ErrorAfter(m, kind) \in BOOLEAN
    BY DEF ErrorAfter, Machines
  <1>4. Reported(ErrorAfter(m, kind), PolicyAfter(m, kind)) \in SafetyStates
    BY <1>2 DEF Reported, SafetyStates
  <1>5. QED
    BY <1>1, <1>2, <1>3, <1>4 DEF Evaluate, Machines

LEMMA RecordType ==
  ASSUME NEW m \in Machines, NEW outcome \in Outcomes
  PROVE  RecordActuator(m, outcome) \in Machines
  <1>1. /\ "HealthyReal" \in PolicyStates
        /\ "HealthyReal" \in SafetyStates
        /\ "ActuatorFailure" \in SafetyStates
        /\ m.policy \in SafetyStates
        /\ 0 \in 0 .. OkCountMax
    BY StreakAssumption DEF PolicyStates, SafetyStates, Machines
  <1>2. QED
    BY <1>1 DEF RecordActuator, Machines, Outcomes

LEMMA StartType ==
  /\ NewMachine \in Machines
  /\ SeedBrakeApplied(NewMachine) \in Machines
  <1>1. /\ 0 \in 0 .. OkCountMax
        /\ "TelemetryMissing" \in PolicyStates
        /\ "TelemetryMissing" \in SafetyStates
        /\ "Recovering" \in PolicyStates
        /\ "Recovering" \in SafetyStates
    BY StreakAssumption DEF PolicyStates, SafetyStates, FailClosedStates
  <1>2. NewMachine \in Machines
    BY <1>1 DEF NewMachine, Machines
  <1>3. SeedBrakeApplied(NewMachine) \in Machines
    BY <1>1, <1>2 DEF SeedBrakeApplied, Machines
  <1>4. QED
    BY <1>2, <1>3

\* What a process starts with: nothing counted, nothing failed, and the policy
\* state that PolicyFollowsFrame expects before the first frame.
LEMMA StartState ==
  ASSUME NEW m \in {NewMachine, SeedBrakeApplied(NewMachine)}
  PROVE  /\ m \in Machines
         /\ m.okCount = 0
         /\ m.state = Reported(m.error, m.policy)
         /\ m.policy = IF m.engaged THEN "Recovering" ELSE "TelemetryMissing"
  <1>1. m \in Machines
    BY StartType
  <1>2. CASE m = NewMachine
    BY <1>1, <1>2 DEF NewMachine, Reported
  <1>3. CASE m = SeedBrakeApplied(NewMachine)
    <2>1. NewMachine.error = FALSE
      BY DEF NewMachine
    <2>2. /\ m.engaged = TRUE
          /\ m.okCount = 0
          /\ m.policy = "Recovering"
          /\ m.state = "Recovering"
          /\ m.error = NewMachine.error
      BY <1>3, StartType DEF SeedBrakeApplied, Machines
    <2>3. QED
      BY <1>1, <2>1, <2>2 DEF Reported
  <1>4. QED
    BY <1>2, <1>3

\* The fields of a machine after each recorded outcome.
LEMMA RecordFields ==
  ASSUME NEW m \in Machines, NEW r, NEW outcome \in Outcomes,
         r = RecordActuator(m, outcome)
  PROVE  /\ outcome = "Applied" =>
              r.engaged /\ r.okCount = m.okCount /\ r.policy = m.policy
         /\ outcome = "ApplyFailed" =>
              ~ r.engaged /\ r.okCount = m.okCount /\ r.policy = m.policy
         /\ outcome = "Released" =>
              ~ r.engaged /\ r.okCount = 0 /\ r.policy = "HealthyReal"
         /\ outcome = "ReleaseFailed" =>
              /\ r.engaged = m.engaged
              /\ r.okCount = m.okCount
              /\ r.policy = m.policy
         /\ r.state = Reported(r.error, r.policy)
         /\ r.error <=> outcome \in {"ApplyFailed", "ReleaseFailed"}
  <1>1. CASE outcome = "Applied"
    BY <1>1 DEF RecordActuator, Machines, Reported
  <1>2. CASE outcome = "ApplyFailed"
    <2>1. /\ r.engaged = FALSE
          /\ r.error = TRUE
          /\ r.okCount = m.okCount
          /\ r.policy = m.policy
          /\ r.state = "ActuatorFailure"
      BY <1>2 DEF RecordActuator, Machines
    <2>2. QED
      BY <1>2, <2>1 DEF Reported
  <1>3. CASE outcome = "Released"
    BY <1>3 DEF RecordActuator, Machines, Reported
  <1>4. CASE outcome = "ReleaseFailed"
    <2>1. /\ r.engaged = m.engaged
          /\ r.error = TRUE
          /\ r.okCount = m.okCount
          /\ r.policy = m.policy
          /\ r.state = "ActuatorFailure"
      BY <1>4 DEF RecordActuator, Machines
    <2>2. QED
      BY <1>4, <2>1 DEF Reported
  <1>5. QED
    BY <1>1, <1>2, <1>3, <1>4 DEF Outcomes
-----------------------------------------------------------------------------
LEMMA InitInv == Init => IInv
  <1> SUFFICES ASSUME Init PROVE IInv
    OBVIOUS
  <1>1. /\ machine \in Machines
        /\ machine.okCount = 0
        /\ machine.state = Reported(machine.error, machine.policy)
    BY StartState DEF Init
  <1>2. TypeOK
    BY <1>1, StreakAssumption DEF Init, TypeOK, Intents
  <1>3. QED
    BY <1>1, <1>2
       DEF Init, IInv, CountIsHonest, InFlightMatchesClaim,
           NothingInFlightUnlessRunning, StateIsReported

LEMMA StartInv == IInv /\ Start => IInv'
  <1> SUFFICES ASSUME IInv, Start PROVE IInv'
    OBVIOUS
  <1>1. /\ machine' \in Machines
        /\ machine'.okCount = 0
        /\ machine'.state = Reported(machine'.error, machine'.policy)
        /\ machine'.policy = IF machine'.engaged THEN "Recovering"
                                                 ELSE "TelemetryMissing"
    BY StartState DEF Start
  <1>2. inflight = "None" /\ inflight' = "None" /\ mode' = "running"
        /\ okRun' = 0 /\ lastKind' = NoKind
    BY DEF IInv, NothingInFlightUnlessRunning, Start
  <1>3. TypeOK'
    BY <1>1, <1>2, StreakAssumption DEF TypeOK, Intents
  <1>4. PolicyFollowsFrame'
    BY <1>1, <1>2 DEF PolicyFollowsFrame, NoKind, FailClosedKinds
  <1>5. QED
    BY <1>1, <1>2, <1>3, <1>4
       DEF IInv, CountIsHonest, InFlightMatchesClaim,
           NothingInFlightUnlessRunning, StateIsReported

LEMMA StopInv == IInv /\ Stop => IInv'
  BY DEF IInv, Stop, TypeOK, Intents, CountIsHonest, InFlightMatchesClaim,
         NothingInFlightUnlessRunning, StateIsReported, PolicyFollowsFrame

LEMMA EvaluateInv ==
  ASSUME NEW kind \in Kinds
  PROVE  IInv /\ EvaluateFrame(kind) => IInv'
  <1> SUFFICES ASSUME IInv, EvaluateFrame(kind) PROVE IInv'
    OBVIOUS
  <1>1. machine \in Machines /\ okRun \in 0 .. OkCountMax
    BY DEF IInv, TypeOK
  <1>2. /\ machine' \in Machines
        /\ machine'.engaged = machine.engaged
        /\ machine'.okCount = OkCountAfter(machine, kind)
        /\ machine'.policy = PolicyAfter(machine, kind)
        /\ machine'.state = Reported(machine'.error, machine'.policy)
    BY <1>1, EvaluateType DEF EvaluateFrame
  <1>3. TypeOK'
    BY <1>1, <1>2, StreakAssumption
       DEF IInv, TypeOK, EvaluateFrame, NextOkRun
  <1>4. CountIsHonest'
    <2>1. machine.okCount <= okRun /\ machine.okCount \in 0 .. OkCountMax
      BY <1>1 DEF IInv, CountIsHonest, EvaluateFrame, Machines
    <2>2. OkCountAfter(machine, kind) > 0 => machine.engaged
      BY DEF OkCountAfter
    <2>3. OkCountAfter(machine, kind) <= NextOkRun(okRun, kind)
      BY <1>1, <2>1, StreakAssumption DEF OkCountAfter, NextOkRun
    <2>4. QED
      BY <1>2, <2>2, <2>3 DEF CountIsHonest, EvaluateFrame
  <1>5. PolicyFollowsFrame'
    <2>1. lastKind' = kind
      BY DEF EvaluateFrame
    <2>2. kind # NoKind
      BY DEF Kinds, FailClosedKinds, NoKind
    <2>3. kind \in FailClosedKinds =>
            machine'.policy = PolicyAfter(machine', kind)
      BY <1>2 DEF PolicyAfter, FailClosedKinds
    <2>4. kind \in {"Warn", "Simulated", "Ok"} =>
            machine'.policy =
              CASE kind = "Warn"      -> "Warning"
                [] kind = "Simulated" -> "SimulatedSoftwareOnly"
                [] kind = "Ok"        -> IF machine'.engaged THEN "Recovering"
                                                             ELSE "HealthyReal"
      BY <1>2 DEF PolicyAfter
    <2>5. QED
      BY <2>1, <2>2, <2>3, <2>4 DEF PolicyFollowsFrame
  <1>6. QED
    BY <1>2, <1>3, <1>4, <1>5
       DEF IInv, EvaluateFrame, InFlightMatchesClaim, StateIsReported,
           NothingInFlightUnlessRunning, Kinds, FailClosedKinds, NoKind

\* Only an unbraked machine asks for an apply, only a braked one for a release.
LEMMA IntentMatchesClaim ==
  ASSUME NEW m
  PROVE  /\ SnapshotIntent(m) \in Intents
         /\ SnapshotIntent(m) = "Apply" => ~ m.engaged
         /\ SnapshotIntent(m) = "Release" => m.engaged
  BY DEF SnapshotIntent, IntentFrom, Intents

LEMMA DispatchInv == IInv /\ Dispatch => IInv'
  <1> SUFFICES ASSUME IInv, Dispatch PROVE IInv'
    OBVIOUS
  <1>1. inflight' = SnapshotIntent(machine)
        /\ UNCHANGED <<machine, mode, okRun, lastKind>>
        /\ mode = "running" /\ lastKind # NoKind
    BY DEF Dispatch
  <1>2. TypeOK'
    BY <1>1, IntentMatchesClaim DEF IInv, TypeOK
  <1>3. InFlightMatchesClaim'
    BY <1>1, IntentMatchesClaim DEF InFlightMatchesClaim
  <1>4. QED
    BY <1>1, <1>2, <1>3
       DEF IInv, CountIsHonest, NothingInFlightUnlessRunning, StateIsReported,
           PolicyFollowsFrame

LEMMA RecordInv ==
  ASSUME NEW success \in BOOLEAN
  PROVE  IInv /\ Record(success) => IInv'
  <1> SUFFICES ASSUME IInv, Record(success) PROVE IInv'
    OBVIOUS
  <1>1. PICK outcome \in Outcomes :
          /\ outcome = Outcome(inflight, success)
          /\ outcome = "Applied" => inflight = "Apply" /\ success
          /\ outcome = "ApplyFailed" => inflight = "Apply" /\ ~ success
          /\ outcome = "Released" => inflight = "Release" /\ success
          /\ outcome = "ReleaseFailed" => inflight = "Release" /\ ~ success
    BY DEF IInv, TypeOK, Intents, Record, Outcome, Outcomes
  <1>2. machine \in Machines /\ machine.okCount \in 0 .. OkCountMax
    BY DEF IInv, TypeOK, Machines
  <1>3. /\ machine' = RecordActuator(machine, outcome)
        /\ machine' \in Machines
        /\ inflight' = "None"
        /\ lastKind' = lastKind
    BY <1>1, <1>2, RecordType DEF Record
  <1>4. mode = "running" /\ lastKind # NoKind
    BY DEF IInv, Record, NothingInFlightUnlessRunning
  <1>5. StateIsReported'
    BY <1>2, <1>3, RecordFields DEF StateIsReported
  <1>6. TypeOK'
    BY <1>3, StreakAssumption DEF IInv, TypeOK, Record, Intents
  <1>7. CASE success
    <2>1. outcome \in {"Applied", "Released"}
          /\ (outcome = "Applied" => inflight = "Apply")
      BY <1>1, <1>7 DEF Outcomes
    <2>2. inflight = "Apply" => machine.okCount = 0
      BY <1>2 DEF IInv, InFlightMatchesClaim, CountIsHonest
    <2>3. machine'.okCount = 0
      BY <1>2, <1>3, <2>1, <2>2, RecordFields
    <2>4. mode' = "reassessing" /\ okRun' = 0
      BY <1>7 DEF Record
    <2>5. QED
      BY <1>3, <1>4, <1>5, <1>6, <2>3, <2>4
         DEF IInv, CountIsHonest, InFlightMatchesClaim,
             NothingInFlightUnlessRunning
  <1>8. CASE ~ success
    <2>1. outcome \in {"ApplyFailed", "ReleaseFailed"}
          /\ (outcome = "ApplyFailed" => inflight = "Apply")
      BY <1>1, <1>8 DEF Outcomes
    <2>2. inflight = "Apply" => ~ machine.engaged
      BY DEF IInv, InFlightMatchesClaim
    <2>3. /\ machine'.okCount = machine.okCount
          /\ machine'.policy = machine.policy
          /\ machine'.engaged <=> machine.engaged
      BY <1>2, <1>3, <2>1, <2>2, RecordFields
    <2>4. mode' = "running" /\ okRun' = okRun
      BY <1>4, <1>8 DEF Record
    <2>5. PolicyFollowsFrame'
      BY <1>3, <1>4, <2>3
         DEF IInv, PolicyFollowsFrame, PolicyAfter, FailClosedKinds
    <2>6. QED
      BY <1>3, <1>4, <1>5, <1>6, <2>3, <2>4, <2>5
         DEF IInv, CountIsHonest, InFlightMatchesClaim,
             NothingInFlightUnlessRunning
  <1>9. QED
    BY <1>7, <1>8

LEMMA StepInv == IInv /\ [Next]_vars => IInv'
  <1>1. IInv /\ UNCHANGED vars => IInv'
    BY DEF vars, IInv, TypeOK, CountIsHonest, InFlightMatchesClaim,
           NothingInFlightUnlessRunning, StateIsReported, PolicyFollowsFrame
  <1>2. QED
    BY <1>1, StartInv, StopInv, DispatchInv, EvaluateInv, RecordInv DEF Next
-----------------------------------------------------------------------------
(***************************************************************************)
(* The theorems.                                                           *)
(***************************************************************************)

\* In every reachable state the machine's fields are in range and agree with
\* each other, the actuation in flight and the frames evaluated: the count
\* exists only under a brake and never exceeds the run of Ok frames.
THEOREM Invariance == Spec => []IInv
  <1>1. QED
    BY InitInv, StepInv, PTL DEF Spec

\* Type correctness of machine, inflight and mode, for every streak.
THEOREM TypeCorrect == Spec => []TypeOK
  <1>1. IInv => TypeOK
    BY DEF IInv
  <1>2. QED
    BY <1>1, Invariance, PTL

\* In the state of every reachable machine that may dispatch, a fail-closed
\* frame stays demanded until a frame of another kind replaces it.
THEOREM FaultDemand == Spec => []FaultStaysDemanded
  <1>1. IInv => FaultStaysDemanded
    <2> SUFFICES ASSUME IInv, mode = "running", lastKind \in FailClosedKinds
                 PROVE  IF machine.engaged
                        THEN SnapshotIntent(machine) = "None"
                        ELSE SnapshotIntent(machine) = "Apply"
      BY DEF FaultStaysDemanded
    <2>1. machine.policy \in FailClosedStates
      BY DEF IInv, PolicyFollowsFrame, PolicyAfter, FailClosedKinds,
             FailClosedStates
    <2>2. QED
      BY <2>1 DEF SnapshotIntent, IntentFrom, DesiredFromLastPolicy
  <1>2. QED
    BY <1>1, Invariance, PTL

\* No release is dispatched without a full streak of Ok frames since the brake
\* came on, whatever the order of frames, failures, restarts and outcomes.
THEOREM EarnedRelease == Spec => ReleaseIsEarned
  <1>1. IInv /\ [Next]_vars =>
          [inflight = "None" /\ inflight' = "Release"
             => machine.engaged /\ okRun >= ReleaseOkStreak]_vars
    <2> SUFFICES ASSUME IInv, Next, inflight = "None", inflight' = "Release"
                 PROVE  machine.engaged /\ okRun >= ReleaseOkStreak
      OBVIOUS
    <2>1. Dispatch
      BY DEF Next, Start, Stop, EvaluateFrame, Record
    <2>2. SnapshotIntent(machine) = "Release" /\ mode = "running"
          /\ lastKind # NoKind
      BY <2>1 DEF Dispatch
    <2>3. machine.engaged /\ ~ DesiredFromLastPolicy(machine)
      BY <2>2 DEF SnapshotIntent, IntentFrom
    <2>4. machine.policy = "Recovering"
      BY <2>2, <2>3
         DEF IInv, TypeOK, PolicyFollowsFrame, PolicyAfter, Kinds,
             FailClosedKinds, FailClosedStates, DesiredFromLastPolicy
    <2>5. machine.okCount >= ReleaseOkStreak /\ machine.okCount <= okRun
      <3>1. machine.okCount \in 0 .. OkCountMax
        BY DEF IInv, TypeOK, Machines
      <3>2. ~ (machine.okCount < ReleaseOkStreak)
        BY <2>3, <2>4 DEF DesiredFromLastPolicy
      <3>3. machine.okCount <= okRun
        BY <2>2 DEF IInv, CountIsHonest
      <3>4. QED
        BY <3>1, <3>2, <3>3, StreakAssumption
    <2>6. machine.okCount \in Int /\ okRun \in Int
      BY StreakAssumption DEF IInv, TypeOK, Machines
    <2>7. QED
      BY <2>3, <2>5, <2>6, StreakAssumption
  <1>2. QED
    BY <1>1, Invariance, PTL DEF Spec, ReleaseIsEarned

\* Nothing is dispatched on a simulated frame, nor before the first frame.
THEOREM RealFramesActuate == Spec => OnlyRealFramesActuate
  <1>1. IInv /\ [Next]_vars =>
          [inflight = "None" /\ inflight' # "None"
             => lastKind \in Kinds \ {"Simulated"}]_vars
    <2> SUFFICES ASSUME IInv, Next, inflight = "None", inflight' # "None"
                 PROVE  lastKind \in Kinds \ {"Simulated"}
      OBVIOUS
    <2>1. Dispatch
      BY DEF Next, Start, Stop, EvaluateFrame, Record
    <2>2. lastKind \in Kinds /\ mode = "running"
      BY <2>1 DEF Dispatch, IInv, TypeOK
    <2>3. ASSUME lastKind = "Simulated" PROVE FALSE
      <3>1. machine.policy = "SimulatedSoftwareOnly"
        BY <2>2, <2>3 DEF IInv, PolicyFollowsFrame
      <3>2. DesiredFromLastPolicy(machine) <=> machine.engaged
        BY <3>1 DEF DesiredFromLastPolicy, FailClosedStates
      <3>3. SnapshotIntent(machine) = "None"
        BY <3>2 DEF SnapshotIntent, IntentFrom
      <3>4. QED
        BY <2>1, <3>3 DEF Dispatch
    <2>4. QED
      BY <2>2, <2>3
  <1>2. QED
    BY <1>1, Invariance, PTL DEF Spec, OnlyRealFramesActuate

\* An actuator error stays reported until a success, a real Ok frame with no
\* brake claimed, or the end of the process.
THEOREM ErrorReported == Spec => ErrorStaysReported
  <1> DEFINE Kept ==
         \/ machine'.error /\ machine'.state = "ActuatorFailure"
         \/ mode' = "reassessing"
         \/ lastKind' = "Ok" /\ ~ machine.engaged
         \/ mode = "stopped"
  <1>1. IInv /\ [Next]_vars => [machine.error => Kept]_vars
    <2> SUFFICES ASSUME IInv, Next, machine.error PROVE Kept
      OBVIOUS
    <2>1. machine \in Machines /\ machine.state = "ActuatorFailure"
      BY DEF IInv, TypeOK, StateIsReported, Reported
    <2>2. CASE UNCHANGED machine
      BY <2>1, <2>2
    <2>3. ASSUME NEW kind \in Kinds, EvaluateFrame(kind) PROVE Kept
      <3>1. /\ machine'.error = ErrorAfter(machine, kind)
            /\ machine'.state
                 = Reported(machine'.error, PolicyAfter(machine, kind))
            /\ lastKind' = kind
        BY <2>1, <2>3, EvaluateType DEF EvaluateFrame
      <3>2. CASE PolicyAfter(machine, kind) = "HealthyReal"
        <4>1. kind = "Ok" /\ ~ machine.engaged
          BY <3>2 DEF PolicyAfter, Kinds, FailClosedKinds
        <4>2. QED
          BY <3>1, <4>1
      <3>3. CASE PolicyAfter(machine, kind) # "HealthyReal"
        BY <3>1, <3>3 DEF ErrorAfter, Reported
      <3>4. QED
        BY <3>2, <3>3
    <2>4. ASSUME NEW success \in BOOLEAN, Record(success) PROVE Kept
      <3>1. CASE success
        BY <2>4, <3>1 DEF Record
      <3>2. CASE ~ success
        <4>1. PICK outcome \in {"ApplyFailed", "ReleaseFailed"} :
                outcome = Outcome(inflight, success)
          BY <2>4, <3>2 DEF IInv, TypeOK, Intents, Record, Outcome
        <4>2. outcome \in Outcomes
              /\ machine' = RecordActuator(machine, outcome)
          BY <2>4, <4>1 DEF Record, Outcomes
        <4>3. machine'.error
              /\ machine'.state = Reported(machine'.error, machine'.policy)
          BY <2>1, <4>1, <4>2, RecordFields
        <4>4. QED
          BY <4>3 DEF Reported
      <3>3. QED
        BY <3>1, <3>2
    <2>5. Start => mode = "stopped"
      BY DEF Start
    <2>6. QED
      BY <2>2, <2>3, <2>4, <2>5 DEF Next, Stop, Dispatch
  <1>2. QED
    BY <1>1, Invariance, PTL DEF Spec, ErrorStaysReported, Kept
=============================================================================
