--------------------------- MODULE SafetyProtocol ---------------------------
(***************************************************************************)
(* What the daemon promises its SafetyMachine, with no ticks, no gate and  *)
(* no hardware: one actuation at a time, dispatched from the machine's     *)
(* snapshot; its outcome recorded once, and after a success nothing        *)
(* dispatched before a fresh frame has been evaluated; no dispatch before  *)
(* the first frame; a new machine, perhaps with an adopted brake, at every *)
(* start.  Frames come in any order.  Supervisor refines this              *)
(* specification; the theorems about it are in SafetyProtocolProofs.       *)
(*                                                                         *)
(* run, reassess_after_actuation, spawn_intent, seed_startup_brake and     *)
(* perform_orderly_shutdown (src/daemon.rs), seen from the machine.        *)
(***************************************************************************)
EXTENDS SafetyMachine

VARIABLES
  machine,    \* the SafetyMachine of the running process
  inflight,   \* the intent being carried out, or "None"
  mode,       \* "running", "reassessing" after a success, or "stopped"
  okRun,      \* history: Ok frames evaluated in a row since the brake or
              \* the process last changed, up to OkCountMax
  lastKind    \* history: kind of the last frame evaluated, "None" before it

vars == <<machine, inflight, mode, okRun, lastKind>>

NoKind == "None"

TypeOK ==
  /\ machine \in Machines
  /\ inflight \in Intents
  /\ mode \in {"running", "reassessing", "stopped"}
  /\ okRun \in 0 .. OkCountMax
  /\ lastKind \in Kinds \cup {NoKind}

Init ==
  /\ machine = NewMachine
  /\ inflight = "None"
  /\ mode = "stopped"
  /\ okRun = 0
  /\ lastKind = NoKind

\* A process starts; a limit that matches the brake target is adopted.
Start ==
  /\ mode = "stopped"
  /\ machine' \in {NewMachine, SeedBrakeApplied(NewMachine)}
  /\ mode' = "running"
  /\ okRun' = 0
  /\ lastKind' = NoKind
  /\ UNCHANGED inflight

\* The process ends, by a signal or a crash; the outcome of an actuation
\* still in flight is never recorded.
Stop ==
  /\ mode # "stopped"
  /\ mode' = "stopped"
  /\ inflight' = "None"
  /\ UNCHANGED <<machine, okRun, lastKind>>

NextOkRun(run, kind) ==
  IF kind # "Ok" THEN 0 ELSE IF run < OkCountMax THEN run + 1 ELSE run

EvaluateFrame(kind) ==
  /\ mode # "stopped"
  /\ machine' = Evaluate(machine, kind)
  /\ mode' = "running"
  /\ okRun' = NextOkRun(okRun, kind)
  /\ lastKind' = kind
  /\ UNCHANGED inflight

\* Mutant: dispatch without waiting for the reassessment.
DispatchBeforeReassessment ==
  /\ mode # "stopped"
  /\ lastKind # NoKind
  /\ inflight = "None"
  /\ SnapshotIntent(machine) # "None"
  /\ inflight' = SnapshotIntent(machine)
  /\ UNCHANGED <<machine, mode, okRun, lastKind>>

\* Mutant: dispatch from the snapshot a new machine has before any frame.
DispatchBeforeFirstFrame ==
  /\ mode = "running"
  /\ inflight = "None"
  /\ SnapshotIntent(machine) # "None"
  /\ inflight' = SnapshotIntent(machine)
  /\ UNCHANGED <<machine, mode, okRun, lastKind>>

Dispatch ==
  /\ mode = "running"
  /\ lastKind # NoKind
  /\ inflight = "None"
  /\ SnapshotIntent(machine) # "None"
  /\ inflight' = SnapshotIntent(machine)
  /\ UNCHANGED <<machine, mode, okRun, lastKind>>

Outcome(intent, success) ==
  CASE intent = "Apply"   -> IF success THEN "Applied" ELSE "ApplyFailed"
    [] intent = "Release" -> IF success THEN "Released" ELSE "ReleaseFailed"

Record(success) ==
  /\ mode # "stopped"
  /\ inflight # "None"
  /\ machine' = RecordActuator(machine, Outcome(inflight, success))
  /\ inflight' = "None"
  /\ mode' = IF success THEN "reassessing" ELSE mode
  /\ okRun' = IF success THEN 0 ELSE okRun
  /\ UNCHANGED lastKind

Next ==
  \/ Start
  \/ Stop
  \/ Dispatch
  \/ \E kind \in Kinds : EvaluateFrame(kind)
  \/ \E success \in BOOLEAN : Record(success)

Spec == Init /\ [][Next]_vars
-----------------------------------------------------------------------------
(***************************************************************************)
(* Safety.                                                                 *)
(***************************************************************************)

\* A release is only ever dispatched after ReleaseOkStreak Ok frames in a
\* row, all of them seen since the brake came on, with no other frame
\* between (hysteresis of policy_for, against every order of frames,
\* failures and restarts; docs/safety.md, Hysteresis 4).
ReleaseIsEarned ==
  [][inflight = "None" /\ inflight' = "Release"
       => machine.engaged /\ okRun >= ReleaseOkStreak]_vars

\* A fail-closed frame is never forgotten: as long as it is the last one
\* evaluated, an unbraked machine wants the brake, whatever failed, was
\* released or finished in between (desired_from_last_policy agrees with
\* policy_for).
FaultStaysDemanded ==
  mode = "running" /\ lastKind \in FailClosedKinds =>
    IF machine.engaged
    THEN SnapshotIntent(machine) = "None"
    ELSE SnapshotIntent(machine) = "Apply"

\* Estimates from --force-software-only move no hardware in either
\* direction: nothing is dispatched while a simulated frame is the last one
\* evaluated, or before any frame was (docs/safety.md, Named states).
OnlyRealFramesActuate ==
  [][inflight = "None" /\ inflight' # "None"
       => lastKind \in Kinds \ {"Simulated"}]_vars

\* An actuator error stays reported until an actuation succeeds, a real Ok
\* frame arrives with no brake claimed, or the process ends: no other frame
\* and no failure hides it (compose_and_store's overlay).
ErrorStaysReported ==
  [][machine.error =>
       \/ machine'.error /\ machine'.state = "ActuatorFailure"
       \/ mode' = "reassessing"
       \/ lastKind' = "Ok" /\ ~ machine.engaged
       \/ mode = "stopped"]_vars

\* The count that authorises a release only exists under a brake and never
\* runs ahead of the Ok frames really seen in a row.
CountIsHonest ==
  /\ machine.okCount > 0 => machine.engaged
  /\ mode # "stopped" => machine.okCount <= okRun

\* The actuation in flight always works against the claim: nothing applies a
\* brake already claimed or releases one that is not.
InFlightMatchesClaim ==
  /\ inflight = "Apply" => ~ machine.engaged
  /\ inflight = "Release" => machine.engaged
-----------------------------------------------------------------------------
(***************************************************************************)
(* What makes the properties inductive.  The only machine that wants a     *)
(* release is one whose last frame was Ok under a full streak; the one     *)
(* exception, a machine that turned healthy while an apply was in flight,  *)
(* lasts until the frame that follows the recorded success.                *)
(***************************************************************************)
StateIsReported == machine.state = Reported(machine.error, machine.policy)

\* What the policy state remembers of the last frame.
PolicyFollowsFrame ==
  /\ lastKind = NoKind =>
       machine.policy = IF machine.engaged THEN "Recovering"
                                           ELSE "TelemetryMissing"
  /\ lastKind \in FailClosedKinds =>
       machine.policy = PolicyAfter(machine, lastKind)
  /\ lastKind = "Warn" => machine.policy = "Warning"
  /\ lastKind = "Simulated" => machine.policy = "SimulatedSoftwareOnly"
  /\ lastKind = "Ok" =>
       machine.policy = IF machine.engaged THEN "Recovering"
                                           ELSE "HealthyReal"

NothingInFlightUnlessRunning == mode # "running" => inflight = "None"

IInv ==
  /\ TypeOK
  /\ CountIsHonest
  /\ InFlightMatchesClaim
  /\ NothingInFlightUnlessRunning
  /\ StateIsReported
  /\ mode = "running" => PolicyFollowsFrame
  /\ lastKind = NoKind => inflight = "None"
=============================================================================
