-------------------------------- MODULE Sampling --------------------------------
(***************************************************************************)
(* The way of a reading through the daemon: captured on a worker, received *)
(* and assessed by the loop, classified, published, and exported by the    *)
(* metrics collector, under a wall clock that may be stepped at any time   *)
(* and a loop that may be delayed anywhere.                                *)
(*                                                                         *)
(* Everything the relay computes uses the wall clock.  True elapsed time   *)
(* is kept as ages, which only the properties look at.  What a snapshot    *)
(* contains is the business of SafetyMachine: here a snapshot is the       *)
(* number of the frame it was evaluated on, plus one.                      *)
(***************************************************************************)
EXTENDS Telemetry

CONSTANTS
  Configs,     \* operator settings: records with the fields Resolve reads
  Defaults,    \* device default limits in watts; NoTime for "not readable"
  Cadences,    \* acquisition intervals
  Readings,    \* what the two safety sensors may show: [temp, power]
  EvalTicks,   \* SAFETY_EVAL_TICKS
  StaleLimit,  \* SAFETY_STALE_AFTER_MS
  MaxTime,     \* bound on the clock and on ages
  MaxFrames    \* bound on the frames of a run

ASSUME TimingAssumption ==
  /\ EvalTicks \in Nat \ {0} /\ StaleLimit \in Nat /\ Cadences \subseteq Nat
  /\ MaxTime \in Nat /\ MaxFrames \in Nat

\* NVML gives temperatures and milliwatts as unsigned numbers.
ASSUME SettingsAssumption ==
  /\ \A c \in Configs : \A f \in {"tempWarn", "tempCritical", "maxAge", "maxInterval",
                                "powerWarn", "powerCritical"} : c[f] \in Int
  /\ Defaults \subseteq Int
  /\ \A r \in Readings : \A c \in {"temp", "power"} :
       r[c] \in [is : {"none", "number"}, value : Nat]

VARIABLES
  setup,       \* what the relay was started with, fixed
  wall,        \* the clock the relay reads
  sampleClock, \* SampleClock
  phase,       \* where the loop is in its iteration
  reading,     \* the raw reading a worker holds for the loop, or NoReading
  frame,       \* the frame the loop has not published yet, or NoFrame
  published,   \* the batch id of the last mapping handed to the publisher
  metrics,     \* RelayMetrics, shared with the collector
  copied,      \* the collector's clone of it between its two steps, or NoCopy
  gauges,      \* what a scrape would see
  history      \* for the properties: how long the read took and how long its
               \* frame has been held, the clock steps meanwhile, and the last
               \* snapshot the loop evaluated

loopVars == <<sampleClock, phase, reading, frame, published>>
metricsVars == <<metrics, copied, gauges>>
vars == <<setup, wall, loopVars, metricsVars, history>>

NoReading == [source |-> "none"]
NoFrame == [source |-> "none"]
NothingPublished == -1
NoCopy == [snapshot |-> -1]
Phases == {"idle", "reading", "received", "evaluated", "stored"}

-----------------------------------------------------------------------------
(***************************************************************************)
(* Start                                                                   *)
(***************************************************************************)

(* prepare: the settings alone must be consistent and the loop fast enough *)
(* for them; run: the device's default is known only outside software-only *)
(* mode, and must fit too.                                                 *)
Accepted(config, cadence) ==
  /\ Resolve(config, NoTime, StaleLimit).ok
  /\ cadence <= config.maxInterval /\ cadence * EvalTicks <= config.maxAge

Setups ==
  {s \in [config : Configs, default : Defaults, cadence : Cadences, software : BOOLEAN] :
     /\ Accepted(s.config, s.cadence)
     /\ Resolve(s.config, IF s.software THEN NoTime ELSE s.default, StaleLimit).ok}

Policy == Resolve(setup.config, IF setup.software THEN NoTime ELSE setup.default, StaleLimit)

Init ==
  /\ setup \in Setups
  /\ wall = 0
  /\ sampleClock = NewClock
  /\ phase = "idle" /\ reading = NoReading /\ frame = NoFrame
  /\ published = NothingPublished
  /\ metrics = [snapshot |-> 0, receivedInstant |-> NoTime, acquired |-> FALSE]
  /\ copied = NoCopy
  /\ gauges = [snapshot |-> 0, freshness |-> 0]
  /\ history = [age |-> 0, held |-> 0, stepped |-> {}, evaluated |-> 0]

-----------------------------------------------------------------------------
(***************************************************************************)
(* Time.  The loop, the worker and the collector may all be delayed, so    *)
(* time passes in every phase; NTP or an operator steps the wall clock.    *)
(***************************************************************************)
Tick ==
  /\ wall < MaxTime /\ history.age < MaxTime /\ history.held < MaxTime
  /\ wall' = wall + 1
  /\ history' = [history EXCEPT !.age = IF phase = "reading" THEN @ + 1 ELSE @,
                               !.held = IF phase = "received" THEN @ + 1 ELSE @]
  /\ UNCHANGED <<setup, loopVars, metricsVars>>

StepOf(now) ==
  CASE phase = "reading" -> IF now > wall THEN {"forward"} ELSE {"back"}
    [] phase = "received" /\ now < wall -> {"held back"}
    [] OTHER -> {}

StepWall ==
  \E now \in 0 .. MaxTime :
    /\ now # wall
    /\ wall' = now
    /\ history' = [history EXCEPT !.stepped = @ \cup StepOf(now)]
    /\ UNCHANGED <<setup, loopVars, metricsVars>>

-----------------------------------------------------------------------------
(***************************************************************************)
(* Acquisition                                                             *)
(***************************************************************************)

\* The ages of a frame that nothing refers to any more.
Forget(h) == [h EXCEPT !.age = 0, !.held = 0, !.stepped = {}]

(* read_nvml on the worker: the time is taken, then the sensors are read. *)
Capture ==
  /\ phase = "idle" /\ ~setup.software /\ sampleClock.next < MaxFrames
  /\ \E values \in Readings : reading' = Raw("Nvml", wall, values)
  /\ phase' = "reading"
  /\ UNCHANGED <<setup, wall, sampleClock, frame, published, metricsVars, history>>

(* assess_with_clock(&raw, unix_now_ms(), ...) *)
Assessed(raw) ==
  /\ frame' = Assess(raw, wall, setup.cadence, EvalTicks, sampleClock)
  /\ sampleClock' = Stamp(sampleClock, raw.at)
  /\ reading' = NoReading
  /\ phase' = "received"
  /\ UNCHANGED <<setup, wall, published, metricsVars>>

(* The result of the read.  NVML_TIMEOUT does not bound its age: a loop    *)
(* that was held up itself still finds the result before the timer.        *)
Receive ==
  /\ phase = "reading"
  /\ Assessed(reading)
  /\ UNCHANGED history

(* No result: no GPU, a failed or a late read, a busy gate. *)
ReceiveNothing ==
  /\ phase \in {"idle", "reading"} /\ ~setup.software /\ sampleClock.next < MaxFrames
  /\ Assessed(NvmlUnavailable(wall))
  /\ history' = Forget(history)

AcquireSimulated ==
  /\ phase = "idle" /\ setup.software /\ sampleClock.next < MaxFrames
  /\ Assessed(SoftwareFallback(wall))
  /\ history' = Forget(history)

-----------------------------------------------------------------------------
(***************************************************************************)
(* The rest of the iteration                                               *)
(***************************************************************************)

(* An actuation has ended: the loop takes another reading and publishes    *)
(* that one instead.                                                       *)
Reassess ==
  /\ phase = "received"
  /\ phase' = "idle" /\ frame' = NoFrame
  /\ history' = Forget(history)
  /\ UNCHANGED <<setup, wall, sampleClock, reading, published, metricsVars>>

(* What evaluate makes of the frame, and what the publisher is given. *)
Kind == Classify(frame, Policy)
SensoryMapping == MapAt(frame, wall, EvalTicks)

TryPublish ==
  /\ published' = SensoryMapping.batch
  /\ frame' = NoFrame
  /\ UNCHANGED <<setup, wall, sampleClock, reading, metricsVars>>

(* evaluate_then_try_publish, on the ticks that evaluate. *)
EvaluateThenTryPublish ==
  /\ phase = "received" /\ phase' = "evaluated"
  /\ TryPublish
  /\ history' = [Forget(history) EXCEPT !.evaluated = frame.batch + 1]

(* The other ticks; a frame without a reading is always evaluated. *)
PublishOnly ==
  /\ phase = "received" /\ frame.source # "NvmlUnavailable" /\ phase' = "stored"
  /\ TryPublish
  /\ history' = Forget(history)

(* Mutant: the record keeps the old snapshot and only the gauges are set. *)
RecordGaugesOnly(snapshot) ==
  /\ gauges' = [gauges EXCEPT !.snapshot = snapshot]
  /\ UNCHANGED metrics

(* record_safety_snapshot, under the lock. *)
RecordSafetySnapshot(snapshot) ==
  /\ metrics' = [metrics EXCEPT !.snapshot = snapshot]
  /\ gauges' = [gauges EXCEPT !.snapshot = snapshot]

StoreSafety ==
  /\ phase = "evaluated" /\ phase' = "stored"
  /\ RecordSafetySnapshot(published + 1)
  /\ UNCHANGED <<setup, wall, sampleClock, reading, frame, published, copied, history>>

(* metrics.telemetry_acquired_at = Some(...), and nothing else: nobody sets *)
(* telemetry_received_instant.                                             *)
RecordAcquired ==
  /\ phase = "stored" /\ phase' = "idle"
  /\ metrics' = [metrics EXCEPT !.acquired = TRUE]
  /\ UNCHANGED <<setup, wall, sampleClock, reading, frame, published, copied, gauges, history>>

-----------------------------------------------------------------------------
(***************************************************************************)
(* The collector: it clones the record under the lock and sets the gauges  *)
(* after giving the lock back.  Each of its gauges behaves like the one    *)
(* here.                                                                   *)
(***************************************************************************)
CollectorCopies ==
  /\ copied = NoCopy
  /\ copied' = metrics
  /\ UNCHANGED <<setup, wall, loopVars, metrics, gauges, history>>

(* An Instant is represented by the time that has passed since. *)
FreshnessSecondsMonotonic(sinceReceived) ==
  IF sinceReceived = NoTime THEN 0 ELSE sinceReceived

CollectorExports ==
  /\ copied # NoCopy
  /\ gauges' = [snapshot |-> copied.snapshot,
                freshness |-> FreshnessSecondsMonotonic(copied.receivedInstant)]
  /\ copied' = NoCopy
  /\ UNCHANGED <<setup, wall, loopVars, metrics, history>>

-----------------------------------------------------------------------------
Loop ==
  \/ Receive \/ EvaluateThenTryPublish \/ StoreSafety \/ RecordAcquired

Next ==
  \/ Tick \/ StepWall
  \/ Capture \/ ReceiveNothing \/ AcquireSimulated
  \/ Loop \/ Reassess \/ PublishOnly
  \/ CollectorCopies \/ CollectorExports

Spec == Init /\ [][Next]_vars

(* The loop and the collector are tasks of one runtime; nothing is assumed *)
(* of the clocks or of new readings.                                       *)
FairSpec == Spec /\ WF_vars(Loop) /\ WF_vars(CollectorCopies) /\ WF_vars(CollectorExports)
-----------------------------------------------------------------------------
(***************************************************************************)
(* Properties                                                              *)
(***************************************************************************)
Channels == {"temp", "power"}
Times == 0 .. MaxTime
Validities == {"Valid", "Stale", "Invalid", "Missing"}

(* The types of the state, and which parts of it exist in which phase.     *)
TypeOK ==
  /\ setup \in Setups /\ wall \in Times
  /\ history.age \in Times /\ history.held \in Times
  /\ sampleClock.next \in 0 .. MaxFrames /\ sampleClock.last \in Times \cup {NoTime}
  /\ phase \in Phases
  /\ (phase = "reading") = (reading # NoReading)
  /\ (phase = "received") = (frame # NoFrame)
  /\ frame # NoFrame =>
       /\ frame.batch \in 0 .. sampleClock.next - 1 /\ frame.received \in Times
       /\ \A c \in Channels : frame[c].validity \in Validities
  /\ published \in -1 .. sampleClock.next - 1
  /\ metrics.snapshot \in 0 .. MaxFrames /\ gauges.snapshot \in 0 .. MaxFrames
  /\ copied # NoCopy => copied.snapshot \in 0 .. metrics.snapshot

(* What the operator asked for is kept: no reading above the device's own  *)
(* default limit, above the critical temperature, or without a limit to    *)
(* compare with, passes for healthy, whatever combination of operator and  *)
(* device limits the relay accepted at its start (resolve, prepare,        *)
(* classify_frame_with_policy).                                            *)
HealthyIsEarned ==
  phase = "received" /\ Kind \in {"Ok", "Warn"} =>
    /\ \A c \in Channels : frame[c].raw.is = "number"
    /\ frame.temp.raw.value <= setup.config.tempCritical
    /\ setup.default # NoTime => frame.power.raw.value <= setup.default
    /\ setup.default = NoTime => setup.config.powerCritical # NoTime
    /\ Kind = "Ok" => frame.temp.raw.value < setup.config.tempWarn

(* A reading that passes for healthy is truly young: taken less than the   *)
(* policy's maximum age before it was received, however the wall clock was *)
(* set before, as long as it was not set back while the read was under way *)
(* (from_raw_with_clock, the age check of classify_frame_with_policy).     *)
HealthyIsRecent ==
  phase = "received" /\ Kind \in {"Ok", "Warn"} /\ "back" \notin history.stepped =>
    history.age < setup.config.maxAge

(* The other direction, without which no brake is ever released: a reading *)
(* of a cool GPU that arrives within the policy's age and two evaluation   *)
(* periods is Ok whenever its power has a limit, if the wall clock is not  *)
(* touched during the read.                                                *)
Quiet(readings) ==
  /\ \A c \in Channels : readings[c].raw.is = "number"
  /\ readings.temp.raw.value < setup.config.tempWarn
  /\ 100 * readings.power.raw.value < Policy.limits.warn

QuietIsOk ==
  /\ phase = "received" /\ frame.source = "Nvml" /\ Quiet(frame)
  /\ history.stepped \cap {"back", "forward"} = {}
  /\ history.age < setup.config.maxAge /\ history.age < 2 * EvalTicks * setup.cadence
  => Kind = "Ok"

(* A mapping only ages what the frame said (docs/telemetry.md, Pipeline):  *)
(* it never improves a sample, a step of the clock after receipt never     *)
(* makes one Invalid, and a value is passed on as Valid only while it is   *)
(* truly younger than the stale limit counted from receipt, unless the     *)
(* clock was set back since then.                                          *)
MappingIsHonest ==
  phase = "received" => \A c \in Channels :
    /\ SensoryMapping[c] # frame[c].validity =>
         frame[c].validity = "Valid" /\ SensoryMapping[c] = "Stale"
    /\ SensoryMapping[c] = "Valid" /\ "held back" \notin history.stepped =>
         history.held < StaleAfter(setup.cadence, EvalTicks)

(* The consumer's key within a session: whatever the wall clock does, and  *)
(* although a reassessment discards a frame, batch ids only go up          *)
(* (SampleClock::stamp).                                                   *)
BatchesGoUp ==
  [][phase = "received" /\ phase' \in {"evaluated", "stored"} => published' > published]_vars

(* The collector may overwrite newer gauges with its older clone, but once *)
(* frames stop every gauge comes to show the last snapshot and stays there *)
(* (record_safety_snapshot, run_metrics_collector).                        *)
GaugesSettle == <>[](gauges.snapshot = history.evaluated)

(* docs/telemetry.md: the freshness gauge is computed from a monotonic     *)
(* instant captured at receive.  So once a receipt has been recorded it    *)
(* shows no less than the age of the frame the loop holds.                 *)
FreshnessIsSampleAge ==
  [][CollectorExports /\ copied.acquired /\ frame # NoFrame =>
        gauges'.freshness >= history.held]_vars
=============================================================================
