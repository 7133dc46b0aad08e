--------------------------- MODULE SafetyMachine ---------------------------
(***************************************************************************)
(* The hysteresis state machine of src/safety.rs as functions from a       *)
(* machine to the machine after a call: evaluate, record_actuator and      *)
(* seed_brake_applied, and the snapshot the daemon dispatches from.        *)
(*                                                                         *)
(* A frame enters as the kind classify_frame_with_policy gives it.  The    *)
(* reason strings and the two monotone counters (transitions, actuator     *)
(* failures) feed only logs and metrics and are left out; the actuator     *)
(* error is kept as whether there is one.                                  *)
(***************************************************************************)
EXTENDS Integers

CONSTANTS
  ReleaseOkStreak,  \* release_ok_streak: Ok evaluations before a release
  OkCountMax        \* where ok_count saturates (u32::MAX in the code)

\* SafetyPolicyConfig::resolve rejects a streak of zero; both are u32.
ASSUME StreakAssumption ==
  /\ ReleaseOkStreak \in Nat \ {0}
  /\ OkCountMax \in Nat
  /\ OkCountMax >= ReleaseOkStreak

FailClosedKinds == {"Missing", "Invalid", "Stale", "Critical"}
Kinds == FailClosedKinds \cup {"Warn", "Ok", "Simulated"}

Intents == {"None", "Apply", "Release"}
Outcomes == {"Applied", "ApplyFailed", "Released", "ReleaseFailed"}

FailClosedStates ==
  {"TelemetryMissing", "TelemetryInvalid", "TelemetryStale", "CriticalBraked"}

PolicyStates ==
  FailClosedStates \cup
  {"HealthyReal", "Warning", "Recovering", "SimulatedSoftwareOnly"}

SafetyStates == PolicyStates \cup {"ActuatorFailure"}

Machines ==
  [ engaged : BOOLEAN,        \* brake_engaged: the relay claims a brake
    okCount : 0 .. OkCountMax,
    justReleased : BOOLEAN,
    error : BOOLEAN,          \* last_actuator_error.is_some()
    policy : PolicyStates,    \* last_policy_state
    state : SafetyStates ]    \* the reported state

\* Fail closed until the first frame.
NewMachine ==
  [ engaged |-> FALSE, okCount |-> 0, justReleased |-> FALSE, error |-> FALSE,
    policy |-> "TelemetryMissing", state |-> "TelemetryMissing" ]

\* seed_brake_applied: the relay adopts a brake found at start.
SeedBrakeApplied(m) ==
  [m EXCEPT !.engaged = TRUE, !.okCount = 0, !.justReleased = FALSE,
            !.policy = "Recovering", !.state = "Recovering"]
-----------------------------------------------------------------------------
\* The overlay: an unresolved actuator error hides the policy state.
Reported(error, policy) == IF error THEN "ActuatorFailure" ELSE policy

IntentFrom(desired, engaged) ==
  CASE desired /\ ~ engaged -> "Apply"
    [] ~ desired /\ engaged -> "Release"
    [] OTHER                -> "None"

\* Mutant: a stale frame is forgotten once it has been evaluated.
DesiredForgettingStale(m) ==
  \/ m.policy \in FailClosedStates \ {"TelemetryStale"}
  \/ m.policy = "SimulatedSoftwareOnly" /\ m.engaged
  \/ m.policy = "Warning" /\ (m.engaged \/ m.justReleased)
  \/ m.policy = "Recovering" /\ m.okCount < ReleaseOkStreak

\* What a stored machine wants, as snapshot() and record_actuator see it.
DesiredFromLastPolicy(m) ==
  \/ m.policy \in FailClosedStates
  \/ m.policy = "SimulatedSoftwareOnly" /\ m.engaged
  \/ m.policy = "Warning" /\ (m.engaged \/ m.justReleased)
  \/ m.policy = "Recovering" /\ m.okCount < ReleaseOkStreak

SnapshotIntent(m) == IntentFrom(DesiredFromLastPolicy(m), m.engaged)
-----------------------------------------------------------------------------
\* Mutant: a warning pauses the streak instead of breaking it.
OkCountKeptByWarn(m, kind) ==
  CASE kind = "Ok" /\ m.engaged ->
         IF m.okCount < OkCountMax THEN m.okCount + 1 ELSE OkCountMax
    [] kind = "Warn" -> m.okCount
    [] OTHER         -> 0

\* policy_for: the count, the policy state and the wish after one frame.
OkCountAfter(m, kind) ==
  IF kind = "Ok" /\ m.engaged
  THEN IF m.okCount < OkCountMax THEN m.okCount + 1 ELSE OkCountMax
  ELSE 0

PolicyAfter(m, kind) ==
  CASE kind = "Missing"   -> "TelemetryMissing"
    [] kind = "Invalid"   -> "TelemetryInvalid"
    [] kind = "Stale"     -> "TelemetryStale"
    [] kind = "Critical"  -> "CriticalBraked"
    [] kind = "Warn"      -> "Warning"
    [] kind = "Simulated" -> "SimulatedSoftwareOnly"
    [] kind = "Ok"        -> IF m.engaged THEN "Recovering" ELSE "HealthyReal"

DesiredAfter(m, kind) ==
  \/ kind \in FailClosedKinds
  \/ kind = "Simulated" /\ m.engaged
  \/ kind = "Warn" /\ (m.engaged \/ m.justReleased)
  \/ kind = "Ok" /\ m.engaged /\ OkCountAfter(m, kind) < ReleaseOkStreak

\* The intent in the snapshot that evaluate returns.
EvaluateIntent(m, kind) == IntentFrom(DesiredAfter(m, kind), m.engaged)

\* Mutant: any Ok frame clears an old actuator error.
ErrorClearedByAnyOk(m, kind) == m.error /\ kind # "Ok"

\* A healthy frame with no brake clears an old actuator error.
ErrorAfter(m, kind) == m.error /\ PolicyAfter(m, kind) # "HealthyReal"

Evaluate(m, kind) ==
  [m EXCEPT !.okCount = OkCountAfter(m, kind),
            !.justReleased = FALSE,
            !.error = ErrorAfter(m, kind),
            !.policy = PolicyAfter(m, kind),
            !.state = Reported(ErrorAfter(m, kind), PolicyAfter(m, kind))]

RecordActuator(m, outcome) ==
  CASE outcome = "Applied" ->
         [m EXCEPT !.engaged = TRUE, !.error = FALSE, !.justReleased = FALSE,
                   !.state = m.policy]
    [] outcome = "ApplyFailed" ->
         [m EXCEPT !.engaged = FALSE, !.error = TRUE,
                   !.state = "ActuatorFailure"]
    [] outcome = "Released" ->
         [m EXCEPT !.engaged = FALSE, !.okCount = 0, !.justReleased = TRUE,
                   !.error = FALSE, !.policy = "HealthyReal",
                   !.state = "HealthyReal"]
    [] outcome = "ReleaseFailed" ->
         [m EXCEPT !.error = TRUE, !.state = "ActuatorFailure"]
=============================================================================
