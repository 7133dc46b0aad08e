------------------------------- MODULE Signals -------------------------------
(***************************************************************************)
(* The inventory of signals and what becomes of all eight of them: read    *)
(* from the sensors (gpu.rs), replayed from a CSV row or estimated,        *)
(* validated into a frame and mapped for the consumer and for dashboards   *)
(* (telemetry.rs), encoded as a batch for the wire (publish.rs), and       *)
(* looked at without hysteresis (safety.rs).  Telemetry has the validity   *)
(* of one sample and the two channels that decide about the brake.         *)
(*                                                                         *)
(* Volts are counted in hundredths, everything else in whole units.  Where *)
(* the code has f32 quotients there are fractions <<numerator,             *)
(* denominator>>.                                                          *)
(***************************************************************************)
EXTENDS Telemetry, Sequences, Functions

CONSTANTS
  EvalTicks,         \* SAFETY_EVAL_TICKS
  ObservabilityStale \* OBSERVABILITY_STALE_AFTER_MS

ASSUME SignalTimesAssumption == EvalTicks \in Nat \ {0} /\ ObservabilityStale \in Nat

-----------------------------------------------------------------------------
(***************************************************************************)
(* The inventory                                                           *)
(***************************************************************************)
AllSignals ==
  <<"gpu_temp_c", "vram_temp_c", "power_w", "vddcr_gfx_v",
    "gpu_clock_mhz", "mem_clock_mhz", "fan_speed_pct", "mem_util_pct">>
SignalIds == Range(AllSignals)

SpecOf(range, linear, class) == [range |-> range, linear |-> linear, class |-> class]

SignalSpec ==
  [s \in SignalIds |->
     CASE s = "gpu_temp_c"    -> SpecOf(TempRange, <<0, 100>>, "Both")
       [] s = "vram_temp_c"   -> SpecOf(TempRange, <<0, 100>>, "ObservabilityOnly")
       [] s = "power_w"       -> SpecOf(PowerRange, <<0, 350>>, "Both")
       [] s = "vddcr_gfx_v"   -> SpecOf(40 .. 150, <<50, 120>>, "ObservabilityOnly")
       [] s = "gpu_clock_mhz" -> SpecOf(0 .. 3000, <<0, 2500>>, "RuntimeInput")
       [] s = "mem_clock_mhz" -> SpecOf(0 .. 12000, <<0, 10000>>, "ObservabilityOnly")
       [] s = "fan_speed_pct" -> SpecOf(0 .. 100, <<0, 100>>, "ObservabilityOnly")
       [] s = "mem_util_pct"  -> SpecOf(0 .. 100, <<0, 100>>, "RuntimeInput")]

IncludesSafety(s) == SignalSpec[s].class \in {"SafetyOnly", "Both"}
IncludesRuntimeInput(s) == SignalSpec[s].class \in {"RuntimeInput", "Both"}

(* The channels of a batch: the runtime inputs, in inventory order. *)
RuntimeInputs ==
  LET kept == InOrder({n \in DOMAIN AllSignals : IncludesRuntimeInput(AllSignals[n])})
  IN [i \in DOMAIN kept |-> AllSignals[kept[i]]]

StaleAfterMs(s, cadence) ==
  IF IncludesSafety(s) THEN StaleAfter(cadence, EvalTicks) ELSE ObservabilityStale

(* Normalization::apply, a fraction clamped to [0, 1]. *)
Zero == <<0, 1>>
NoFraction == <<>>   \* Option::None of a normalized value

Apply(linear, v) ==
  LET span == linear[2] - linear[1]
      above == v - linear[1]
  IN IF span = 0 \/ above <= 0 THEN Zero
     ELSE IF above >= span THEN <<1, 1>> ELSE <<above, span>>

-----------------------------------------------------------------------------
(***************************************************************************)
(* Raw readings: a value or its absence for every signal, and a time       *)
(***************************************************************************)
RawTelemetry(source, at, origin, values) ==
  [source |-> source, at |-> at, origin |-> origin, values |-> values]

Unread == [s \in SignalIds |-> NoValue]

IdleEstimatesOf ==
  [s \in SignalIds |->
     CASE s = "gpu_temp_c"    -> Number(35)
       [] s = "vram_temp_c"   -> NoValue
       [] s = "power_w"       -> Number(25)
       [] s = "vddcr_gfx_v"   -> Number(70)
       [] s = "gpu_clock_mhz" -> Number(210)
       [] s = "mem_clock_mhz" -> Number(405)
       [] s = "fan_speed_pct" -> Number(30)
       [] s = "mem_util_pct"  -> Number(0)]

SoftwareFallbackRaw(now) == RawTelemetry("SoftwareFallback", now, "Simulated", IdleEstimatesOf)
NvmlUnavailableRaw(now) == RawTelemetry("NvmlUnavailable", now, "LiveAcquire", Unread)

(* derive_vddcr_gfx_v: 0.70 V at 50 W up to 1.05 V at 300 W, cut off to     *)
(* whole hundredths.                                                       *)
DeriveVddcr(watts) ==
  CASE watts <= 50 -> 70
    [] watts \in 51 .. 299 -> 70 + (35 * (watts - 50)) \div 250
    [] watts >= 300 -> 105

(* read_nvml.  "sensors" is what each sensor query gives, NoValue for one   *)
(* that fails; nothing reads a VRAM temperature, and the voltage is        *)
(* computed from the power.                                                *)
ReadNvml(sensors, now) ==
  RawTelemetry("Nvml", now, "LiveAcquire",
    [sensors EXCEPT !["vram_temp_c"] = NoValue,
                    !["vddcr_gfx_v"] = IF sensors["power_w"] = NoValue THEN NoValue
                                       ELSE Number(DeriveVddcr(sensors["power_w"].value))])

(* acquire_raw.  "device" says whether the bridge has a target, nvidia-smi *)
(* answers and NVML finds the device.                                      *)
AcquireRaw(forceSoftware, device, sensors, now) ==
  CASE forceSoftware -> SoftwareFallbackRaw(now)
    [] ~forceSoftware /\ device -> ReadNvml(sensors, now)
    [] ~forceSoftware /\ ~device -> NvmlUnavailableRaw(now)

-----------------------------------------------------------------------------
(***************************************************************************)
(* Frames, and what they look like later                                   *)
(***************************************************************************)

(* TelemetryFrame::from_raw_with_clock; the clock moves to Stamp(clock,    *)
(* raw.at), and the frame has the session the clock belongs to.            *)
FrameOf(raw, now, cadence, clock) ==
  LET observed == IF raw.at = NoTime THEN now ELSE raw.at IN
  [source |-> raw.source, batch |-> clock.next, origin |-> raw.origin,
   sourceTime |-> raw.at, status |-> SourceTimeStatus(raw.at, now, clock.last),
   received |-> now, cadence |-> IF cadence = 0 THEN 1 ELSE cadence,
   samples |-> [s \in SignalIds |->
     Sample(raw.values[s], SignalSpec[s].range, observed, now, StaleAfterMs(s, cadence))]]

(* TelemetrySample::normalized *)
Normalized(s, sample, validity) ==
  IF validity = "Valid" THEN Apply(SignalSpec[s].linear, sample.raw.value) ELSE NoFraction

(* MappedStimulus::from_sample of the sample as it is at the time now; a   *)
(* number that is not finite has been dropped by from_raw.                 *)
MappedStimulus(frame, s, now) ==
  LET sample == frame.samples[s]
      stale == StaleAfterMs(s, frame.cadence)
      validity == HeldValidity(sample, now, frame.received, stale)
  IN [signal |-> s, source |-> frame.source, validity |-> validity,
      raw |-> IF sample.raw.is = "number" THEN sample.raw ELSE NoValue,
      normalized |-> Normalized(s, sample, validity), staleAfter |-> stale]

ViewAt(frame, now, signals) ==
  [batch |-> frame.batch, source |-> frame.source, cadence |-> frame.cadence,
   sourceTime |-> frame.sourceTime, status |-> frame.status, origin |-> frame.origin,
   received |-> frame.received, emitted |-> now,
   stimuli |-> [i \in DOMAIN signals |-> MappedStimulus(frame, signals[i], now)]]

ToSensoryMappingAt(frame, now) == ViewAt(frame, now, RuntimeInputs)
ToObservabilitySnapshotAt(frame, now) == ViewAt(frame, now, AllSignals)

-----------------------------------------------------------------------------
(***************************************************************************)
(* The wire                                                                *)
(***************************************************************************)

(* Mutant: the mask says that there is a number, whatever its validity. *)
MaskOfNumbers(stimulus) == stimulus.raw # NoValue

(* mapping_to_stimulus_batch: a value that may not be used is a zero under *)
(* a mask that says so.                                                    *)
MaskOf(stimulus) == stimulus.validity = "Valid" /\ stimulus.normalized # NoFraction

MappingToStimulusBatch(mapping, session, batch) ==
  LET of(stimulus) == IF stimulus.normalized = NoFraction THEN Zero ELSE stimulus.normalized IN
  [session |-> session, batch |-> batch, timestamp |-> mapping.emitted,
   values |-> [i \in DOMAIN mapping.stimuli |-> of(mapping.stimuli[i])],
   mask |-> [i \in DOMAIN mapping.stimuli |-> MaskOf(mapping.stimuli[i])],
   validity |-> [i \in DOMAIN mapping.stimuli |-> mapping.stimuli[i].validity],
   staleAfter |-> [i \in DOMAIN mapping.stimuli |-> mapping.stimuli[i].staleAfter],
   source |-> mapping.source, cadence |-> mapping.cadence]

=============================================================================
