---------------------------- MODULE BrakePolicy ----------------------------
(***************************************************************************)
(* Which power-limit commands the relay may plan.  A GPU has a default     *)
(* limit and a current limit, both read in whole watts; the emergency      *)
(* brake sets half of the default.  The relay recognises its own brake     *)
(* only by its value, so what it reads is sorted into bands: within the    *)
(* tolerance of the target it is the relay's brake, within the tolerance   *)
(* of the default (or above) it is unbraked, and anything else below the   *)
(* default is a cap somebody else set.                                     *)
(*                                                                         *)
(* classify_power_limit and unambiguous_brake_target (src/safety.rs),      *)
(* plan_brake_apply and plan_brake_release (src/gpu.rs), for the one brake *)
(* fraction the daemon uses, BRAKE_FRACTION = 0.5.                         *)
(***************************************************************************)
EXTENDS Integers

BrakeMatchTolerance == 2

\* What a failed NVML query leaves in place of watts.
NoReading == -1

Watts == Nat
Readings == Watts \cup {NoReading}

AbsDiff(a, b) == IF a >= b THEN a - b ELSE b - a

\* Half of the default: the f32 product truncated to whole watts.
BrakeTarget(default) == default \div 2

\* The bands around target and default must not overlap, and a target of
\* zero watts is no target.
Unambiguous(default) ==
  /\ BrakeTarget(default) > 0
  /\ default - BrakeTarget(default) > 2 * BrakeMatchTolerance

InBrakeBand(current, default) ==
  AbsDiff(current, BrakeTarget(default)) <= BrakeMatchTolerance

Observations ==
  {"Unreadable", "RelayOwnedBrake", "AtOrAboveDefault", "ForeignSubDefaultCap"}

\* The target band is asked for before the default band.
ClassifyPowerLimit(current, default) ==
  IF NoReading \in {current, default} \/ ~ Unambiguous(default)
    THEN "Unreadable"
  ELSE IF InBrakeBand(current, default)
    THEN "RelayOwnedBrake"
  ELSE IF current + BrakeMatchTolerance >= default
    THEN "AtOrAboveDefault"
  ELSE "ForeignSubDefaultCap"

\* Planning never trusts a limit of zero watts.
Readable(reading) == reading # NoReading /\ reading > 0

\* A plan: what is decided, and the watts to set when that is "set".
Plan(decision, watts) == [decision |-> decision, watts |-> watts]

NothingToSet == 0

\* Mutants of the two plans: half of the current limit, which compounds when
\* the limit is not the default; an apply that takes any readable limit; a
\* release that does not ask whose cap it lifts.
ApplyHalfOfCurrent(current, default) ==
  IF Readable(current) /\ Readable(default) /\ Unambiguous(default)
     /\ current >= default - BrakeMatchTolerance
    THEN Plan("set", BrakeTarget(current))
  ELSE Plan("limit_unavailable", NothingToSet)

ApplyToAnyLimit(current, default) ==
  IF Readable(current) /\ Readable(default) /\ Unambiguous(default)
    THEN Plan("set", BrakeTarget(default))
  ELSE Plan("limit_unavailable", NothingToSet)

ReleaseWithoutOwnership(current, default) ==
  IF Readable(current) /\ Readable(default)
    THEN Plan("set", default)
  ELSE Plan("limit_unavailable", NothingToSet)

PlanBrakeApply(current, default) ==
  LET target == BrakeTarget(default) IN
  IF ~ (Readable(current) /\ Readable(default) /\ Unambiguous(default))
    THEN Plan("limit_unavailable", NothingToSet)
  ELSE IF current < target - BrakeMatchTolerance
    THEN Plan("below_target", NothingToSet)
  ELSE IF InBrakeBand(current, default)
    THEN Plan("already_braked", NothingToSet)
  ELSE IF current < default - BrakeMatchTolerance
    THEN Plan("foreign_cap", NothingToSet)
  ELSE Plan("set", target)

PlanBrakeRelease(current, default) ==
  IF ~ (Readable(current) /\ Readable(default))
    THEN Plan("limit_unavailable", NothingToSet)
  ELSE IF ClassifyPowerLimit(current, default) = "RelayOwnedBrake"
    THEN Plan("set", default)
  ELSE Plan("not_relay_brake", NothingToSet)

\* Finding the limit already at the target counts as a successful apply.
PlanSucceeds(plan) == plan.decision \in {"set", "already_braked"}
=============================================================================
