------------------------------- MODULE Telemetry -------------------------------
(***************************************************************************)
(* What one reading is worth: the validity of a sample when it is received *)
(* and later (telemetry.rs), the stamp of the sample clock (time.rs), the  *)
(* resolved safety policy (safety/policy.rs) and the kind the safety       *)
(* machine gives the frame (classify_frame_with_policy, safety.rs).        *)
(*                                                                         *)
(* Times are natural numbers of one unit; temperatures and watts are whole *)
(* numbers, and power limits are hundredths of a watt so that 85 % of the  *)
(* device default is exact.                                                *)
(***************************************************************************)
EXTENDS Integers, FiniteSets

(* The places that a filter keeps, in order. *)
InOrder(places) ==
  [i \in 1 .. Cardinality(places) |->
     CHOOSE n \in places : Cardinality({m \in places : m <= n}) = i]

(* A raw reading: nothing, a number, or something that is not finite. *)
NoValue == [is |-> "none", value |-> 0]
NotFinite == [is |-> "nan", value |-> 0]
Number(v) == [is |-> "number", value |-> v]

NoTime == -1   \* Option::None of a source timestamp

TempRange == 0..125      \* signal_spec of the two safety channels
PowerRange == 0..2000

-----------------------------------------------------------------------------
(***************************************************************************)
(* Samples                                                                 *)
(***************************************************************************)

(* TelemetrySample::from_raw_with_stale_after: a missing reading is missing *)
(* whatever its time; a reading from the future is invalid whatever it is. *)
ValidityAt(raw, range, observed, now, staleAfter) ==
  CASE raw.is = "none" -> "Missing"
    [] raw.is = "nan" -> "Invalid"
    [] raw.is = "number" /\ (observed > now \/ raw.value \notin range) -> "Invalid"
    [] raw.is = "number" /\ observed <= now /\ raw.value \in range ->
         IF now - observed >= staleAfter THEN "Stale" ELSE "Valid"

Sample(raw, range, observed, now, staleAfter) ==
  [raw |-> raw, observed |-> observed,
   validity |-> ValidityAt(raw, range, observed, now, staleAfter)]

Elapsed(now, since) == IF now < since THEN 0 ELSE now - since   \* saturating_sub

(* Mutant: a held sample keeps its validity. *)
HeldForever(sample, now, received, staleAfter) == sample.validity

(* at_time_from: a held sample ages from its receipt, and only a valid one. *)
HeldValidity(sample, now, received, staleAfter) ==
  IF sample.validity = "Valid" /\ Elapsed(now, received) >= staleAfter
  THEN "Stale" ELSE sample.validity

(* Mutant: one evaluation period. *)
StaleAfterOne(cadence, evalTicks) == (IF cadence = 0 THEN 1 ELSE cadence) * evalTicks

(* stale_after_ms of the safety channels: two evaluation periods. *)
StaleAfter(cadence, evalTicks) == (IF cadence = 0 THEN 1 ELSE cadence) * evalTicks * 2

-----------------------------------------------------------------------------
(***************************************************************************)
(* The sample clock                                                        *)
(***************************************************************************)
NewClock == [next |-> 0, last |-> NoTime]

SourceTimeStatus(source, received, last) ==
  CASE source = NoTime -> "Missing"
    [] source > received -> "Future"
    [] source # NoTime /\ source <= received ->
         IF last = NoTime \/ source > last THEN "InOrder"
         ELSE IF source = last THEN "Duplicate" ELSE "Backward"

(* Mutant: a source time that is not newer gets no number of its own. *)
StampNewerOnly(clock, source) ==
  [next |-> IF source > clock.last THEN clock.next + 1 ELSE clock.next,
   last |-> IF source = NoTime THEN clock.last ELSE source]

(* SampleClock::stamp: the clock after the frame; the frame gets clock.next. *)
Stamp(clock, source) ==
  [next |-> clock.next + 1, last |-> IF source = NoTime THEN clock.last ELSE source]

-----------------------------------------------------------------------------
(***************************************************************************)
(* Frames: the two safety channels of a raw reading, stamped and assessed, *)
(* and what a frame is worth when it is mapped for the consumer later.     *)
(***************************************************************************)
Raw(source, at, reading) ==
  [source |-> source, at |-> at, temp |-> reading.temp, power |-> reading.power]

Sensorless == [temp |-> NoValue, power |-> NoValue]
IdleEstimates == [temp |-> Number(35), power |-> Number(25)]

NvmlUnavailable(now) == Raw("NvmlUnavailable", now, Sensorless)
SoftwareFallback(now) == Raw("SoftwareFallback", now, IdleEstimates)

(* assess_with_clock; the clock moves to Stamp(clock, raw.at). *)
Assess(raw, now, cadence, evalTicks, clock) ==
  LET observed == IF raw.at = NoTime THEN now ELSE raw.at
      limit == StaleAfter(cadence, evalTicks)
  IN [source |-> raw.source,
      batch |-> clock.next,
      status |-> SourceTimeStatus(raw.at, now, clock.last),
      received |-> now,
      cadence |-> IF cadence = 0 THEN 1 ELSE cadence,
      temp |-> Sample(raw.temp, TempRange, observed, now, limit),
      power |-> Sample(raw.power, PowerRange, observed, now, limit)]

(* to_sensory_mapping_at: a value is only passed on when it is Valid. *)
MapAt(frame, now, evalTicks) ==
  LET limit == StaleAfter(frame.cadence, evalTicks)
  IN [batch |-> frame.batch,
      temp |-> HeldValidity(frame.temp, now, frame.received, limit),
      power |-> HeldValidity(frame.power, now, frame.received, limit)]

-----------------------------------------------------------------------------
(***************************************************************************)
(* The policy                                                              *)
(***************************************************************************)
NoLimits == [warn |-> 0, critical |-> 0]
Unresolved == [ok |-> FALSE]

ThermalValid(c) == 0 < c.tempWarn /\ c.tempWarn < c.tempCritical /\ c.tempCritical <= 125
TimingValid(c, staleLimit) == /\ 0 < c.maxAge /\ c.maxAge <= staleLimit
                              /\ 0 < c.maxInterval /\ c.maxInterval <= c.maxAge
DeviceValid(default) == default = NoTime \/ default \in 1..2000

(* SafetyPolicyConfig::resolve.  An operator gives both power limits or    *)
(* neither (NoTime); without a device default and without them there are   *)
(* no limits.                                                              *)
OperatorLimits(c) == [warn |-> 100 * c.powerWarn, critical |-> 100 * c.powerCritical]
(* Mutant: the operator may exceed what the device reports. *)
OperatorOrdered(c, default) ==
  0 < c.powerWarn /\ c.powerWarn < c.powerCritical /\ c.powerCritical <= 2000
OperatorValid(c, default) ==
  /\ 0 < c.powerWarn /\ c.powerWarn < c.powerCritical /\ c.powerCritical <= 2000
  /\ default # NoTime => c.powerCritical <= default
PowerLimits(c, default) ==
  CASE c.powerWarn # NoTime -> OperatorLimits(c)
    [] c.powerWarn = NoTime /\ default # NoTime -> [warn |-> 85 * default, critical |-> 100 * default]
    [] OTHER -> NoLimits

(* Of resolve's refusals, that of a zero release streak is left to         *)
(* StreakAssumption of SafetyMachine: no reading depends on the streak.    *)
Resolve(c, default, staleLimit) ==
  IF /\ ThermalValid(c) /\ TimingValid(c, staleLimit) /\ DeviceValid(default)
     /\ (c.powerWarn = NoTime) = (c.powerCritical = NoTime)
     /\ c.powerWarn # NoTime => OperatorValid(c, default)
  THEN [ok |-> TRUE, config |-> c, limits |-> PowerLimits(c, default)]
  ELSE Unresolved

-----------------------------------------------------------------------------
(***************************************************************************)
(* Classification                                                          *)
(***************************************************************************)
FaultRank(sample) ==
  CASE sample.validity = "Valid" -> 0
    [] sample.validity = "Stale" -> 1
    [] sample.validity = "Invalid" -> 2
    [] sample.validity = "Missing" -> 3

(* worst_safety_fault: the channel with the higher rank, the temperature   *)
(* when they are equal.                                                    *)
WorstFault(frame) ==
  IF FaultRank(frame.temp) >= FaultRank(frame.power)
  THEN frame.temp.validity ELSE frame.power.validity

(* Mutant: only the declared interval is checked. *)
TooSlow(frame, config) == frame.cadence > config.maxInterval

TooOld(frame, config) ==
  \/ frame.cadence > config.maxInterval
  \/ \E sample \in {frame.temp, frame.power} :
       Elapsed(frame.received, sample.observed) >= config.maxAge

ByThresholds(frame, policy) ==
  LET temp == frame.temp.raw.value
      power == 100 * frame.power.raw.value
      config == policy.config
      limits == policy.limits
  IN IF temp > config.tempCritical \/ power > limits.critical THEN "Critical"
     ELSE IF temp >= config.tempWarn \/ power >= limits.warn THEN "Warn" ELSE "Ok"

(* classify_frame_with_policy *)
Classify(frame, policy) ==
  IF frame.source = "SoftwareFallback" THEN "Simulated"
  ELSE IF WorstFault(frame) # "Valid" THEN WorstFault(frame)
  ELSE IF TooOld(frame, policy.config) THEN "Stale"
  ELSE IF policy.limits = NoLimits THEN "Missing"
  ELSE ByThresholds(frame, policy)
===============================================================================
