---------------------------- MODULE SamplingProofs ----------------------------
(***************************************************************************)
(* Proofs about Sampling, for every set of settings, limits and readings,  *)
(* every interval and every number of ticks between evaluations.           *)
(*                                                                         *)
(* The verdict on a frame depends on wall times, the properties speak of   *)
(* true ages.  The inductive invariant carries what connects them: as long *)
(* as the clock was not set back, a wall time lies at least as far in the  *)
(* past as the event truly does.                                           *)
(***************************************************************************)
EXTENDS Sampling, TLAPS

Raws == [is : {"none", "number"}, value : Nat]

StepSets == SUBSET {"forward", "back", "held back"}
Histories == [age : Nat, held : Nat, stepped : StepSets, evaluated : Int]

(* The parts of the state that the proofs compute with. *)
Types ==
  /\ setup \in Setups
  /\ wall \in Nat
  /\ history \in Histories
  /\ sampleClock \in [next : Nat, last : Int]
  /\ phase \in Phases

(* Ages only run while something is being read or held. *)
AgesRest ==
  /\ phase \notin {"reading", "received"} => history.age = 0 /\ history.stepped = {}
  /\ phase # "received" => history.held = 0

(* What a stepped clock may still say of an event that truly was age ago. *)
AtLeastAge(then, now) == "back" \notin history.stepped => now - then >= history.age
ExactlyAge(then, now) ==
  history.stepped \cap {"back", "forward"} = {} => now - then = history.age

ReadingIsLive ==
  phase = "reading" =>
    /\ reading \in [source : {"Nvml"}, at : Nat, temp : Raws, power : Raws]
    /\ ~ setup.software
    /\ AtLeastAge(reading.at, wall) /\ ExactlyAge(reading.at, wall)

(* A frame in hand is the assessment of one raw reading of its kind. *)
Origin(raw) ==
  \/ raw.source = "Nvml" /\ ~ setup.software
  \/ raw.source = "NvmlUnavailable" /\ raw.temp = NoValue
  \/ raw.source = "SoftwareFallback"

FrameIsAssessed ==
  phase = "received" =>
    /\ frame \in [source : {"Nvml", "NvmlUnavailable", "SoftwareFallback"}, batch : Nat,
                  status : {"InOrder", "Duplicate", "Backward", "Future"}, received : Nat,
                  cadence : Nat,
                  temp : [raw : Raws, observed : Nat, validity : Validities],
                  power : [raw : Raws, observed : Nat, validity : Validities]]
    /\ frame.cadence = IF setup.cadence = 0 THEN 1 ELSE setup.cadence
    /\ frame.power.observed = frame.temp.observed
    /\ frame.temp.validity = ValidityAt(frame.temp.raw, TempRange, frame.temp.observed,
         frame.received, StaleAfter(setup.cadence, EvalTicks))
    /\ frame.power.validity = ValidityAt(frame.power.raw, PowerRange, frame.power.observed,
         frame.received, StaleAfter(setup.cadence, EvalTicks))
    /\ Origin([source |-> frame.source, temp |-> frame.temp.raw])
    /\ frame.batch = sampleClock.next - 1

FrameIsAged ==
  phase = "received" =>
    /\ frame.source = "Nvml" => /\ AtLeastAge(frame.temp.observed, frame.received)
                                /\ ExactlyAge(frame.temp.observed, frame.received)
    /\ "held back" \notin history.stepped => wall - frame.received >= history.held

BatchesAhead ==
  IF phase = "received" THEN published < frame.batch ELSE published < sampleClock.next

IInv ==
  /\ Types
  /\ AgesRest
  /\ ReadingIsLive
  /\ FrameIsAssessed
  /\ FrameIsAged
  /\ published \in Int /\ BatchesAhead

-----------------------------------------------------------------------------
(***************************************************************************)
(* Operators                                                               *)
(***************************************************************************)

(* from_raw_with_stale_after yields one of four validities, and Valid only *)
(* for a number in range whose age, by the clocks it is given, is not      *)
(* negative and below the limit.                                           *)
LEMMA ValidityFacts ==
  ASSUME NEW raw \in Raws, NEW range \in {TempRange, PowerRange},
         NEW observed \in Int, NEW now \in Int, NEW limit \in Int
  PROVE  /\ ValidityAt(raw, range, observed, now, limit) \in Validities
         /\ ValidityAt(raw, range, observed, now, limit) = "Valid" <=>
              /\ raw.is = "number" /\ raw.value \in range
              /\ observed <= now /\ now - observed < limit
         /\ raw.is = "none" => ValidityAt(raw, range, observed, now, limit) = "Missing"
  BY DEF ValidityAt, Raws, Validities, TempRange, PowerRange

(* The stale limit of a loop is two evaluation periods, a positive time. *)
LEMMA StaleAfterFacts ==
  ASSUME NEW cadence \in Nat
  PROVE  /\ StaleAfter(cadence, EvalTicks) \in Nat \ {0}
         /\ cadence # 0 => StaleAfter(cadence, EvalTicks) = 2 * EvalTicks * cadence
         /\ StaleAfter(IF cadence = 0 THEN 1 ELSE cadence, EvalTicks) = StaleAfter(cadence, EvalTicks)
  BY TimingAssumption, SMTT(30) DEF StaleAfter

(* classify_frame_with_policy calls a frame healthy only when both samples *)
(* are Valid, young enough and below the limits, which there must be.      *)
LEMMA HealthyFacts ==
  ASSUME NEW f, NEW policy,
         f.temp.validity \in Validities, f.power.validity \in Validities,
         Classify(f, policy) \in {"Ok", "Warn"}
  PROVE  /\ f.source # "SoftwareFallback"
         /\ f.temp.validity = "Valid" /\ f.power.validity = "Valid"
         /\ ~ TooOld(f, policy.config)
         /\ policy.limits # NoLimits
         /\ ~ f.temp.raw.value > policy.config.tempCritical
         /\ ~ 100 * f.power.raw.value > policy.limits.critical
         /\ Classify(f, policy) = "Ok" =>
              /\ ~ f.temp.raw.value >= policy.config.tempWarn
              /\ ~ 100 * f.power.raw.value >= policy.limits.warn
  BY DEF Classify, WorstFault, FaultRank, ByThresholds, Validities

(* And it calls Ok what is all that. *)
LEMMA OkFacts ==
  ASSUME NEW f, NEW policy,
         f.source # "SoftwareFallback",
         f.temp.validity = "Valid", f.power.validity = "Valid",
         ~ TooOld(f, policy.config), policy.limits # NoLimits,
         ~ f.temp.raw.value > policy.config.tempCritical,
         ~ 100 * f.power.raw.value > policy.limits.critical,
         ~ f.temp.raw.value >= policy.config.tempWarn,
         ~ 100 * f.power.raw.value >= policy.limits.warn
  PROVE  Classify(f, policy) = "Ok"
  BY DEF Classify, WorstFault, FaultRank, ByThresholds

(* What resolve and prepare guarantee of a relay that started. *)
LEMMA SetupFacts ==
  ASSUME NEW s \in Setups
  PROVE  LET policy == Resolve(s.config, IF s.software THEN NoTime ELSE s.default, StaleLimit)
             c == s.config
         IN  /\ c \in Configs /\ s.default \in Int /\ s.cadence \in Nat
             /\ policy.ok /\ policy.config = c
             /\ policy.limits = PowerLimits(c, IF s.software THEN NoTime ELSE s.default)
             /\ 0 < c.tempWarn /\ c.tempWarn < c.tempCritical /\ c.tempCritical <= 125
             /\ 0 < c.maxAge /\ c.maxAge <= StaleLimit
             /\ s.cadence <= c.maxInterval /\ c.maxInterval > 0
             /\ (c.powerWarn = NoTime) = (c.powerCritical = NoTime)
             /\ c.powerWarn # NoTime =>
                  OperatorValid(c, IF s.software THEN NoTime ELSE s.default)
             /\ ~ s.software => DeviceValid(s.default)
  BY TimingAssumption, SettingsAssumption
     DEF Setups, Accepted, Resolve, Unresolved, ThermalValid, TimingValid

-----------------------------------------------------------------------------
(***************************************************************************)
(* The invariant                                                           *)
(***************************************************************************)
LEMMA InitInv == Init => IInv
  <1> SUFFICES ASSUME Init PROVE IInv
    OBVIOUS
  <1>1. history \in Histories /\ history.age = 0 /\ history.held = 0 /\ history.stepped = {}
    BY DEF Init, Histories, StepSets
  <1>2. sampleClock \in [next : Nat, last : Int] /\ sampleClock.next = 0
    BY DEF Init, NewClock, NoTime
  <1>3. Types
    BY <1>1, <1>2 DEF Init, Types, Phases
  <1> QED BY <1>1, <1>2, <1>3 DEF Init, IInv, AgesRest, ReadingIsLive, FrameIsAssessed, FrameIsAged,
             BatchesAhead, NothingPublished

RawReadings ==
  [source : {"Nvml", "NvmlUnavailable", "SoftwareFallback"}, at : Nat, temp : Raws, power : Raws]

(* assess_with_clock makes a frame that FrameIsAssessed describes.         *)
LEMMA AssessedFrame ==
  ASSUME IInv, NEW raw \in RawReadings, Assessed(raw), Types', Origin(raw),
         phase # "received",
         raw.source = "Nvml" => AtLeastAge(raw.at, wall) /\ ExactlyAge(raw.at, wall),
         history' = history \/ raw.source # "Nvml", history'.held = 0
  PROVE  FrameIsAssessed' /\ FrameIsAged' /\ BatchesAhead' /\ published' \in Int
  <1> DEFINE limit == StaleAfter(setup.cadence, EvalTicks)
             validity(c, range) == ValidityAt(raw[c], range, raw.at, wall, limit)
             assessed == Assess(raw, wall, setup.cadence, EvalTicks, sampleClock)
  <1>1. setup \in Setups /\ setup.cadence \in Nat /\ wall \in Nat /\ sampleClock.next \in Nat
        /\ sampleClock.last \in Int
    BY SetupFacts DEF IInv, Types
  <1>2. limit \in Nat
    BY <1>1, StaleAfterFacts
  <1>3. raw.at \in Nat /\ raw.temp \in Raws /\ raw.power \in Raws /\ raw.at # NoTime
    BY DEF RawReadings, NoTime
  <1>4. validity("temp", TempRange) \in Validities /\ validity("power", PowerRange) \in Validities
    BY <1>1, <1>2, <1>3, ValidityFacts
  <1>5. assessed.status \in {"InOrder", "Duplicate", "Backward", "Future"}
    BY <1>1, <1>3 DEF Assess, SourceTimeStatus, NoTime
  <1>6. assessed = [source |-> raw.source, batch |-> sampleClock.next, status |-> assessed.status,
                    received |-> wall, cadence |-> IF setup.cadence = 0 THEN 1 ELSE setup.cadence,
                    temp |-> [raw |-> raw.temp, observed |-> raw.at,
                              validity |-> validity("temp", TempRange)],
                    power |-> [raw |-> raw.power, observed |-> raw.at,
                               validity |-> validity("power", PowerRange)]]
    BY <1>3 DEF Assess, Sample
  <1>7. frame' = assessed /\ phase' = "received" /\ sampleClock' = Stamp(sampleClock, raw.at)
        /\ setup' = setup /\ wall' = wall /\ published' = published
    BY DEF Assessed, metricsVars
  <1>8. sampleClock'.next = sampleClock.next + 1
    BY <1>7 DEF Stamp
  <1>9. published' \in Int /\ BatchesAhead'
    BY <1>1, <1>6, <1>7 DEF IInv, BatchesAhead
  <1>10. FrameIsAssessed' /\ FrameIsAged'
    <2> HIDE DEF assessed, validity
    <2>1. assessed.batch = sampleClock.next /\ assessed.received = wall
          /\ assessed.source = raw.source /\ assessed.temp.raw = raw.temp
          /\ assessed.temp.observed = raw.at /\ assessed.power.observed = raw.at
          /\ assessed.power.raw = raw.power
          /\ assessed.temp.validity = validity("temp", TempRange)
          /\ assessed.power.validity = validity("power", PowerRange)
          /\ assessed.cadence = IF setup.cadence = 0 THEN 1 ELSE setup.cadence
      BY <1>6
    <2>2. assessed \in [source : {"Nvml", "NvmlUnavailable", "SoftwareFallback"}, batch : Nat,
                  status : {"InOrder", "Duplicate", "Backward", "Future"}, received : Nat,
                  cadence : Nat,
                  temp : [raw : Raws, observed : Nat, validity : Validities],
                  power : [raw : Raws, observed : Nat, validity : Validities]]
      BY <1>1, <1>3, <1>4, <1>5, <1>6 DEF RawReadings
    <2>3. raw.source = "Nvml" => /\ AtLeastAge(raw.at, wall)'
                                 /\ ExactlyAge(raw.at, wall)'
      BY <1>7 DEF AtLeastAge, ExactlyAge
    <2> QED
      BY <1>1, <1>7, <1>8, <2>1, <2>2, <2>3
         DEF FrameIsAssessed, FrameIsAged, Origin, validity, AtLeastAge, ExactlyAge
  <1> QED BY <1>9, <1>10

(* What is recorded of time, piece by piece. *)
LEMMA HistoryFacts ==
  ASSUME NEW h \in Histories, NEW age \in Nat, NEW held \in Nat, NEW stepped \in StepSets,
         NEW evaluated \in Int
  PROVE  /\ h.age \in Nat /\ h.held \in Nat /\ h.stepped \in StepSets /\ h.evaluated \in Int
         /\ [h EXCEPT !.age = age, !.held = held] \in Histories
         /\ [h EXCEPT !.stepped = stepped] \in Histories
         /\ [h EXCEPT !.age = age, !.held = held, !.stepped = stepped] \in Histories
         /\ [h EXCEPT !.evaluated = evaluated] \in Histories
  BY DEF Histories

LEMMA ForgetFacts ==
  ASSUME Types
  PROVE  /\ Forget(history) \in Histories
         /\ Forget(history).age = 0 /\ Forget(history).held = 0 /\ Forget(history).stepped = {}
  <1>1. {} \in StepSets
    BY DEF StepSets
  <1> QED BY <1>1 DEF Types, Forget, Histories

(* Time passes. *)
LEMMA TickInv == ASSUME IInv, Tick PROVE IInv'
  <1>1. /\ setup' = setup /\ wall' = wall + 1 /\ sampleClock' = sampleClock /\ phase' = phase
        /\ reading' = reading /\ frame' = frame /\ published' = published
    BY DEF Tick, loopVars
  <1>2. /\ wall \in Nat /\ history \in Histories
        /\ history.age \in Nat /\ history.held \in Nat /\ history.stepped \in StepSets
    BY DEF IInv, Types, Histories
  <1> DEFINE age == IF phase = "reading" THEN history.age + 1 ELSE history.age
             held == IF phase = "received" THEN history.held + 1 ELSE history.held
  <1>3. history' = [history EXCEPT !.age = age, !.held = held]
    BY DEF Tick
  <1>4. age \in Nat /\ held \in Nat
    BY <1>2
  <1>5. /\ history' \in Histories
        /\ history'.age = age /\ history'.held = held /\ history'.stepped = history.stepped
    <2> HIDE DEF age, held
    <2> QED BY <1>2, <1>3, <1>4 DEF Histories
  <1>6. Types'
    BY <1>1, <1>2, <1>5 DEF IInv, Types
  <1>7. AgesRest'
    BY <1>1, <1>5 DEF IInv, AgesRest
  <1>8. ReadingIsLive'
    <2> SUFFICES ASSUME phase = "reading" PROVE ReadingIsLive'
      BY <1>1 DEF ReadingIsLive
    <2>1. reading.at \in Nat /\ AtLeastAge(reading.at, wall) /\ ExactlyAge(reading.at, wall)
      BY DEF IInv, ReadingIsLive
    <2>2. AtLeastAge(reading.at, wall)' /\ ExactlyAge(reading.at, wall)'
      BY <1>1, <1>2, <1>5, <2>1 DEF AtLeastAge, ExactlyAge
    <2> QED BY <1>1, <2>2 DEF IInv, ReadingIsLive
  <1>9. FrameIsAssessed'
    BY <1>1 DEF IInv, FrameIsAssessed, Origin
  <1>10. FrameIsAged'
    <2> SUFFICES ASSUME phase = "received" PROVE FrameIsAged'
      BY <1>1 DEF FrameIsAged
    <2>1. frame.received \in Nat
      BY DEF IInv, FrameIsAssessed
    <2>2. age = history.age /\ held = history.held + 1
      OBVIOUS
    <2>3. history'.age = history.age /\ history'.held = history.held + 1
          /\ history'.stepped = history.stepped
      BY <1>5, <2>2
    <2>4. frame.source = "Nvml" => /\ AtLeastAge(frame.temp.observed, frame.received)'
                                  /\ ExactlyAge(frame.temp.observed, frame.received)'
      BY <1>1, <2>3 DEF IInv, FrameIsAged, AtLeastAge, ExactlyAge
    <2>5. "held back" \notin history'.stepped => wall' - frame.received >= history'.held
      <3>1. SUFFICES ASSUME "held back" \notin history'.stepped
                     PROVE  wall' - frame.received >= history'.held
        OBVIOUS
      <3>2. wall - frame.received >= history.held
        BY <2>3, <3>1 DEF IInv, FrameIsAged
      <3>3. wall \in Nat /\ history.held \in Nat
        BY <1>2
      <3>4. wall' = wall + 1 /\ history'.held = history.held + 1
        BY <1>1, <2>3
      <3> QED BY <2>1, <3>2, <3>3, <3>4
    <2> QED BY <1>1, <2>4, <2>5 DEF FrameIsAged, AtLeastAge, ExactlyAge
  <1>11. published' \in Int /\ BatchesAhead'
    BY <1>1 DEF IInv, BatchesAhead
  <1> QED BY <1>6, <1>7, <1>8, <1>9, <1>10, <1>11 DEF IInv

(* The clock is set. *)
LEMMA StepWallInv == ASSUME IInv, StepWall PROVE IInv'
  <1>1. PICK now \in 0 .. MaxTime :
          /\ now # wall /\ wall' = now
          /\ history' = [history EXCEPT !.stepped = @ \cup StepOf(now)]
          /\ UNCHANGED <<setup, loopVars, metricsVars>>
    BY DEF StepWall
  <1>2. /\ setup' = setup /\ sampleClock' = sampleClock /\ phase' = phase
        /\ reading' = reading /\ frame' = frame /\ published' = published
    BY <1>1 DEF loopVars
  <1>3. /\ wall \in Nat /\ history \in Histories
        /\ history.age \in Nat /\ history.held \in Nat /\ history.stepped \in StepSets
        /\ now \in Nat /\ wall' \in Nat
    BY <1>1, TimingAssumption DEF IInv, Types, Histories
  <1>4. /\ StepOf(now) \in StepSets
        /\ phase = "reading" => IF now > wall THEN "forward" \in StepOf(now)
                                              ELSE "back" \in StepOf(now)
        /\ phase = "received" /\ now < wall => "held back" \in StepOf(now)
        /\ phase = "received" => "back" \notin StepOf(now) /\ "forward" \notin StepOf(now)
        /\ phase \notin {"reading", "received"} => StepOf(now) = {}
    BY <1>3 DEF StepOf, StepSets
  <1>5. history.stepped \cup StepOf(now) \in StepSets
    BY <1>3, <1>4 DEF StepSets
  <1>6. /\ history' \in Histories
        /\ history'.age = history.age /\ history'.held = history.held
        /\ history'.stepped = history.stepped \cup StepOf(now)
    <2> DEFINE stepped == history.stepped \cup StepOf(now)
    <2>1. stepped \in StepSets /\ history' = [history EXCEPT !.stepped = stepped]
      BY <1>1, <1>5
    <2> HIDE DEF stepped
    <2>2. /\ history' \in Histories /\ history'.stepped = stepped
          /\ history'.age = history.age /\ history'.held = history.held
      BY <1>3, <2>1 DEF Histories
    <2> QED BY <2>2 DEF stepped
  <1>7. Types'
    BY <1>2, <1>3, <1>6 DEF IInv, Types
  <1>8. AgesRest'
    BY <1>2, <1>4, <1>6 DEF IInv, AgesRest
  <1>9. ReadingIsLive'
    <2> SUFFICES ASSUME phase = "reading" PROVE ReadingIsLive'
      BY <1>2 DEF ReadingIsLive
    <2>1. reading.at \in Nat /\ AtLeastAge(reading.at, wall) /\ ExactlyAge(reading.at, wall)
      BY DEF IInv, ReadingIsLive
    <2>2. AtLeastAge(reading.at, wall)' /\ ExactlyAge(reading.at, wall)'
      BY <1>1, <1>2, <1>3, <1>4, <1>6, <2>1 DEF AtLeastAge, ExactlyAge
    <2> QED BY <1>2, <2>2 DEF IInv, ReadingIsLive
  <1>10. FrameIsAssessed'
    BY <1>2 DEF IInv, FrameIsAssessed, Origin
  <1>11. FrameIsAged'
    <2> SUFFICES ASSUME phase = "received" PROVE FrameIsAged'
      BY <1>2 DEF FrameIsAged
    <2>1. frame.received \in Nat
      BY DEF IInv, FrameIsAssessed
    <2>2. frame.source = "Nvml" => /\ AtLeastAge(frame.temp.observed, frame.received)'
                                  /\ ExactlyAge(frame.temp.observed, frame.received)'
      BY <1>2, <1>4, <1>6 DEF IInv, FrameIsAged, AtLeastAge, ExactlyAge
    <2>3. "held back" \notin history'.stepped => wall' - frame.received >= history'.held
      <3>1. SUFFICES ASSUME "held back" \notin history'.stepped
                     PROVE  wall' - frame.received >= history'.held
        OBVIOUS
      <3>2. ~ now < wall
        BY <1>4, <1>6, <3>1
      <3>3. wall - frame.received >= history.held
        BY <1>6, <3>1 DEF IInv, FrameIsAged
      <3>4. wall \in Nat /\ now \in Nat /\ history.held \in Nat
        BY <1>3
      <3>5. wall' = now /\ history'.held = history.held
        BY <1>1, <1>6
      <3> QED BY <2>1, <3>2, <3>3, <3>4, <3>5
    <2> QED BY <1>2, <2>2, <2>3 DEF FrameIsAged, AtLeastAge, ExactlyAge
  <1>12. published' \in Int /\ BatchesAhead'
    BY <1>2 DEF IInv, BatchesAhead
  <1> QED BY <1>7, <1>8, <1>9, <1>10, <1>11, <1>12 DEF IInv

(* What Assessed leaves of the types. *)
LEMMA AssessedTypes ==
  ASSUME Types, NEW raw \in RawReadings, Assessed(raw), history' \in Histories
  PROVE  Types'
  <1>1. /\ setup' = setup /\ wall' = wall /\ phase' = "received"
        /\ sampleClock' = Stamp(sampleClock, raw.at)
    BY DEF Assessed
  <1>2. raw.at \in Nat
    BY DEF RawReadings
  <1>3. sampleClock' \in [next : Nat, last : Int]
    BY <1>1, <1>2 DEF Types, Stamp
  <1> QED BY <1>1, <1>3 DEF Types, Phases

(* A reading is begun, arrives, fails to arrive, or is simulated. *)
LEMMA AcquisitionInv ==
  ASSUME IInv, Capture \/ Receive \/ ReceiveNothing \/ AcquireSimulated
  PROVE  IInv'
  <1> USE DEF IInv
  <1>1. CASE Capture
    <2> PICK values \in Readings : reading' = Raw("Nvml", wall, values)
      BY <1>1 DEF Capture
    <2>1. values.temp \in Raws /\ values.power \in Raws
      BY SettingsAssumption DEF Raws
    <2>2. reading' \in [source : {"Nvml"}, at : Nat, temp : Raws, power : Raws]
          /\ reading'.at = wall
      BY <2>1 DEF Raw, Types
    <2>3. Types' /\ AgesRest'
      BY <1>1 DEF Capture, Types, AgesRest, Phases, metricsVars
    <2>4. ReadingIsLive'
      BY <1>1, <2>2 DEF Capture, ReadingIsLive, AgesRest, AtLeastAge, ExactlyAge, Types
    <2> QED BY <1>1, <2>3, <2>4 DEF Capture, FrameIsAssessed, FrameIsAged, BatchesAhead, metricsVars
  <1>2. CASE Receive
    <2>1. reading \in RawReadings /\ reading.source = "Nvml" /\ Origin(reading)
          /\ AtLeastAge(reading.at, wall) /\ ExactlyAge(reading.at, wall)
      BY <1>2 DEF Receive, ReadingIsLive, RawReadings, Origin
    <2>2. Types' /\ history'.held = 0
      BY <1>2, <2>1, AssessedTypes DEF Receive, Types, AgesRest
    <2>3. FrameIsAssessed' /\ FrameIsAged' /\ BatchesAhead' /\ published' \in Int
      BY <1>2, <2>1, <2>2, AssessedFrame DEF Receive
    <2>4. AgesRest' /\ ReadingIsLive'
      BY <1>2 DEF Receive, Assessed, AgesRest, ReadingIsLive
    <2> QED BY <2>2, <2>3, <2>4
  <1>3. ASSUME NEW raw \in RawReadings, raw.source # "Nvml", Origin(raw), Assessed(raw),
               history' = Forget(history), phase # "received"
        PROVE  IInv'
    <2>1. Types' /\ history'.held = 0
      BY <1>3, AssessedTypes, ForgetFacts
    <2>2. FrameIsAssessed' /\ FrameIsAged' /\ BatchesAhead' /\ published' \in Int
      BY <1>3, <2>1, AssessedFrame
    <2>3. AgesRest' /\ ReadingIsLive'
      BY <1>3 DEF Assessed, AgesRest, ReadingIsLive
    <2> QED BY <2>1, <2>2, <2>3
  <1>4. CASE ReceiveNothing
    <2>1. NvmlUnavailable(wall) \in RawReadings /\ Origin(NvmlUnavailable(wall))
          /\ NvmlUnavailable(wall).source # "Nvml"
      BY DEF NvmlUnavailable, Raw, Sensorless, NoValue, RawReadings, Raws, Origin, Types
    <2> QED BY <1>3, <1>4, <2>1 DEF ReceiveNothing
  <1>5. CASE AcquireSimulated
    <2>1. SoftwareFallback(wall) \in RawReadings /\ Origin(SoftwareFallback(wall))
          /\ SoftwareFallback(wall).source # "Nvml"
      BY DEF SoftwareFallback, Raw, IdleEstimates, Number, RawReadings, Raws, Origin, Types
    <2> QED BY <1>3, <1>5, <2>1 DEF AcquireSimulated
  <1> QED BY <1>1, <1>2, <1>4, <1>5

(* The rest of the iteration gives the frame away; the collector touches   *)
(* nothing of it.                                                          *)
LEMMA RestInv ==
  ASSUME IInv,
         \/ Reassess \/ EvaluateThenTryPublish \/ PublishOnly \/ StoreSafety \/ RecordAcquired
         \/ CollectorCopies \/ CollectorExports
  PROVE  IInv'
  <1> USE DEF IInv
  <1>1. CASE Reassess
    <2>1. Types' /\ AgesRest'
      BY <1>1, ForgetFacts DEF Reassess, Types, AgesRest, Phases, metricsVars
    <2>2. BatchesAhead'
      BY <1>1 DEF Reassess, BatchesAhead, FrameIsAssessed, Types
    <2> QED BY <1>1, <2>1, <2>2 DEF Reassess, ReadingIsLive, FrameIsAssessed, FrameIsAged
  <1>2. CASE EvaluateThenTryPublish \/ PublishOnly
    <2>1. published' = frame.batch /\ frame.batch \in Nat /\ frame.batch = sampleClock.next - 1
          /\ sampleClock' = sampleClock /\ phase = "received" /\ phase' \in {"evaluated", "stored"}
      BY <1>2 DEF EvaluateThenTryPublish, PublishOnly, TryPublish, SensoryMapping, MapAt,
                  FrameIsAssessed
    <2>2. history' \in Histories
          /\ history'.age = 0 /\ history'.held = 0 /\ history'.stepped = {}
      <3> DEFINE forgotten == Forget(history)
      <3>1. /\ forgotten \in Histories
            /\ forgotten.age = 0 /\ forgotten.held = 0 /\ forgotten.stepped = {}
        BY ForgetFacts DEF IInv
      <3>2. \/ history' = [forgotten EXCEPT !.evaluated = frame.batch + 1]
            \/ history' = forgotten
        BY <1>2 DEF EvaluateThenTryPublish, PublishOnly
      <3> HIDE DEF forgotten
      <3> QED BY <2>1, <3>1, <3>2 DEF Histories
    <2>3. Types' /\ AgesRest'
      BY <1>2, <2>1, <2>2 DEF EvaluateThenTryPublish, PublishOnly, TryPublish, Types, AgesRest, Phases
    <2>4. BatchesAhead' /\ published' \in Int
      BY <2>1 DEF BatchesAhead, Types
    <2> QED BY <2>1, <2>3, <2>4 DEF ReadingIsLive, FrameIsAssessed, FrameIsAged
  <1>3. CASE StoreSafety \/ RecordAcquired
    <2>1. Types' /\ AgesRest'
      BY <1>3 DEF StoreSafety, RecordAcquired, Types, AgesRest, Phases
    <2> QED BY <1>3, <2>1 DEF StoreSafety, RecordAcquired, ReadingIsLive, FrameIsAssessed, FrameIsAged, BatchesAhead
  <1>4. CASE CollectorCopies \/ CollectorExports
    BY <1>4 DEF CollectorCopies, CollectorExports, loopVars, Types, AgesRest, ReadingIsLive,
                FrameIsAssessed, FrameIsAged, BatchesAhead, AtLeastAge, ExactlyAge, Origin
  <1> QED BY <1>1, <1>2, <1>3, <1>4

LEMMA NextInv == IInv /\ [Next]_vars => IInv'
  <1> SUFFICES ASSUME IInv, [Next]_vars PROVE IInv'
    OBVIOUS
  <1>1. CASE UNCHANGED vars
    BY <1>1 DEF vars, loopVars, metricsVars, IInv, Types, AgesRest, ReadingIsLive,
                FrameIsAssessed, FrameIsAged, BatchesAhead, AtLeastAge, ExactlyAge, Origin
  <1>2. CASE Next
    BY <1>2, TickInv, StepWallInv, AcquisitionInv, RestInv DEF Next, Loop
  <1> QED BY <1>1, <1>2

(* The connection between wall times and true ages holds in every state. *)
THEOREM SamplingInvariance == Spec => []IInv
  BY InitInv, NextInv, PTL DEF Spec

-----------------------------------------------------------------------------
(***************************************************************************)
(* What follows                                                            *)
(***************************************************************************)

(* What is known of a frame in hand. *)
LEMMA FrameFacts ==
  ASSUME IInv, phase = "received"
  PROVE  LET limit == StaleAfter(setup.cadence, EvalTicks)
         IN  /\ frame.source \in {"Nvml", "NvmlUnavailable", "SoftwareFallback"}
             /\ frame.batch \in Nat /\ frame.received \in Nat
             /\ frame.temp.raw \in Raws /\ frame.power.raw \in Raws
             /\ frame.temp.observed \in Nat /\ frame.power.observed = frame.temp.observed
             /\ frame.temp.validity \in Validities /\ frame.power.validity \in Validities
             /\ frame.cadence \in Nat \ {0}
             /\ frame.cadence = IF setup.cadence = 0 THEN 1 ELSE setup.cadence
             /\ setup.cadence \in Nat /\ limit \in Nat
             /\ frame.temp.validity = ValidityAt(frame.temp.raw, TempRange, frame.temp.observed,
                                                 frame.received, limit)
             /\ frame.power.validity = ValidityAt(frame.power.raw, PowerRange,
                                                  frame.power.observed, frame.received, limit)
  <1>1. setup \in Setups /\ setup.cadence \in Nat
    BY SetupFacts DEF IInv, Types
  <1>2. StaleAfter(setup.cadence, EvalTicks) \in Nat
    BY <1>1, StaleAfterFacts
  <1> QED BY <1>1, <1>2 DEF IInv, FrameIsAssessed

(* A frame that passes for healthy carries a reading of the GPU. *)
LEMMA HealthyIsMeasured ==
  ASSUME IInv, phase = "received", Kind \in {"Ok", "Warn"}
  PROVE  /\ frame.source = "Nvml" /\ ~ setup.software
         /\ frame.temp.raw.is = "number" /\ frame.power.raw.is = "number"
         /\ frame.temp.observed <= frame.received
  <1>1. /\ frame.source # "SoftwareFallback"
        /\ frame.temp.validity = "Valid" /\ frame.power.validity = "Valid"
    BY FrameFacts, HealthyFacts DEF Kind
  <1>2. /\ frame.temp.raw.is = "number" /\ frame.power.raw.is = "number"
        /\ frame.temp.observed <= frame.received
    <2> DEFINE limit == StaleAfter(setup.cadence, EvalTicks)
    <2>1. /\ frame.temp.observed \in Int /\ frame.received \in Int /\ limit \in Int
          /\ frame.temp.raw \in Raws /\ frame.power.raw \in Raws
          /\ frame.power.observed = frame.temp.observed
          /\ ValidityAt(frame.temp.raw, TempRange, frame.temp.observed, frame.received, limit)
               = "Valid"
          /\ ValidityAt(frame.power.raw, PowerRange, frame.temp.observed, frame.received, limit)
               = "Valid"
      BY FrameFacts, <1>1
    <2> HIDE DEF limit
    <2> QED BY <2>1, ValidityFacts
  <1>3. frame.temp.raw # NoValue
    BY <1>2 DEF NoValue
  <1>4. Origin([source |-> frame.source, temp |-> frame.temp.raw])
    BY DEF IInv, FrameIsAssessed
  <1> QED BY <1>1, <1>2, <1>3, <1>4 DEF Origin

(* A reading that passes for healthy is truly young, unless the clock was  *)
(* set back during the read: the invariant ties the age to the wall times  *)
(* that classify_frame_with_policy compares.                               *)
THEOREM YoungIfHealthy == Spec => []HealthyIsRecent
  <1>1. IInv => HealthyIsRecent
    <2> SUFFICES ASSUME IInv, phase = "received", Kind \in {"Ok", "Warn"},
                        "back" \notin history.stepped
                 PROVE  history.age < setup.config.maxAge
      BY DEF HealthyIsRecent
    <2>1. frame.source = "Nvml" /\ frame.temp.observed <= frame.received
      BY HealthyIsMeasured
    <2>2. frame.received - frame.temp.observed >= history.age
      BY <2>1 DEF IInv, FrameIsAged, AtLeastAge
    <2>3. ~ TooOld(frame, Policy.config)
      BY FrameFacts, HealthyFacts DEF Kind
    <2>4. Policy.config = setup.config /\ setup.config.maxAge \in Int
      BY SetupFacts, SettingsAssumption DEF Policy, IInv, Types
    <2>5. ~ Elapsed(frame.received, frame.temp.observed) >= setup.config.maxAge
      BY <2>3, <2>4 DEF TooOld
    <2>6. frame.received \in Nat /\ frame.temp.observed \in Nat
      BY FrameFacts
    <2>7. history.age \in Nat
      BY DEF IInv, Types, Histories
    <2>8. Elapsed(frame.received, frame.temp.observed) = frame.received - frame.temp.observed
      BY <2>1, <2>6 DEF Elapsed
    <2> QED BY <2>2, <2>4, <2>5, <2>6, <2>7, <2>8
  <1> QED BY <1>1, SamplingInvariance, PTL

(* The limits that resolve gives, for an operator's pair and for a default. *)
LEMMA LimitFacts ==
  ASSUME IInv
  PROVE  LET c == setup.config
             default == IF setup.software THEN NoTime ELSE setup.default
         IN  /\ Policy.config = c /\ Policy.limits = PowerLimits(c, default)
             /\ c.tempWarn \in Int /\ c.tempCritical \in Int
             /\ c.maxAge \in Int /\ c.maxInterval \in Int
             /\ c.powerWarn \in Int /\ c.powerCritical \in Int /\ default \in Int
             /\ c.powerWarn # NoTime =>
                  /\ Policy.limits = [warn |-> 100 * c.powerWarn, critical |-> 100 * c.powerCritical]
                  /\ c.powerCritical # NoTime /\ OperatorValid(c, default)
             /\ c.powerWarn = NoTime /\ default # NoTime =>
                  Policy.limits = [warn |-> 85 * default, critical |-> 100 * default]
             /\ c.powerWarn = NoTime /\ default = NoTime => Policy.limits = NoLimits
  <1> DEFINE c == setup.config
             default == IF setup.software THEN NoTime ELSE setup.default
  <1>1. /\ c \in Configs /\ setup.default \in Int
        /\ Policy.config = c /\ Policy.limits = PowerLimits(c, default)
        /\ (c.powerWarn = NoTime) = (c.powerCritical = NoTime)
        /\ c.powerWarn # NoTime => OperatorValid(c, default)
    BY SetupFacts DEF Policy, IInv, Types
  <1>2. /\ c.tempWarn \in Int /\ c.tempCritical \in Int /\ c.maxAge \in Int
        /\ c.maxInterval \in Int /\ c.powerWarn \in Int /\ c.powerCritical \in Int
    BY <1>1, SettingsAssumption
  <1>3. default \in Int
    BY <1>1 DEF NoTime
  <1> HIDE DEF c, default
  <1>4. /\ c.powerWarn # NoTime =>
             /\ Policy.limits = [warn |-> 100 * c.powerWarn, critical |-> 100 * c.powerCritical]
             /\ c.powerCritical # NoTime /\ OperatorValid(c, default)
        /\ c.powerWarn = NoTime /\ default # NoTime =>
             Policy.limits = [warn |-> 85 * default, critical |-> 100 * default]
        /\ c.powerWarn = NoTime /\ default = NoTime => Policy.limits = NoLimits
    BY <1>1 DEF PowerLimits, OperatorLimits
  <1> QED BY <1>1, <1>2, <1>3, <1>4 DEF c, default

(* What the operator asked for is kept, for every combination of operator  *)
(* and device limits that resolve and prepare accept.                      *)
THEOREM EarnedIfHealthy == Spec => []HealthyIsEarned
  <1>1. IInv => HealthyIsEarned
    <2> DEFINE c == setup.config
               power == frame.power.raw.value
               temp == frame.temp.raw.value
    <2> SUFFICES ASSUME IInv, phase = "received", Kind \in {"Ok", "Warn"}
                 PROVE  /\ \A channel \in Channels : frame[channel].raw.is = "number"
                        /\ temp <= c.tempCritical
                        /\ setup.default # NoTime => power <= setup.default
                        /\ setup.default = NoTime => c.powerCritical # NoTime
                        /\ Kind = "Ok" => temp < c.tempWarn
      BY DEF HealthyIsEarned
    <2>1. ~ setup.software /\ \A channel \in Channels : frame[channel].raw.is = "number"
      BY HealthyIsMeasured DEF Channels
    <2>2. temp \in Nat /\ power \in Nat
      BY FrameFacts DEF Raws
    <2>3. /\ Policy.limits # NoLimits
          /\ ~ temp > Policy.config.tempCritical
          /\ ~ 100 * power > Policy.limits.critical
          /\ Kind = "Ok" => ~ temp >= Policy.config.tempWarn
      BY FrameFacts, HealthyFacts DEF Kind
    <2>4. temp <= c.tempCritical /\ (Kind = "Ok" => temp < c.tempWarn)
      BY <2>2, <2>3, LimitFacts
    <2>5. setup.default # NoTime => power <= setup.default
      <3>1. SUFFICES ASSUME setup.default # NoTime PROVE power <= setup.default
        OBVIOUS
      <3>2. CASE c.powerWarn # NoTime
        <4>1. /\ Policy.limits.critical = 100 * c.powerCritical /\ c.powerCritical \in Int
              /\ setup.default \in Int /\ c.powerCritical <= setup.default
          BY <2>1, <3>1, <3>2, LimitFacts DEF OperatorValid
        <4> HIDE DEF c, power
        <4> QED BY <2>2, <2>3, <4>1
      <3>3. CASE c.powerWarn = NoTime
        <4>1. Policy.limits.critical = 100 * setup.default /\ setup.default \in Int
          BY <2>1, <3>1, <3>3, LimitFacts
        <4> HIDE DEF c, power
        <4> QED BY <2>2, <2>3, <4>1
      <3> QED BY <3>2, <3>3
    <2>6. setup.default = NoTime => c.powerCritical # NoTime
      BY <2>1, <2>3, LimitFacts
    <2> QED BY <2>1, <2>4, <2>5, <2>6
  <1> QED BY <1>1, SamplingInvariance, PTL

(* A mapping only ages what the frame said, and by true time unless the    *)
(* clock was set back while the frame was held (to_sensory_mapping_at).    *)
THEOREM HonestMapping == Spec => []MappingIsHonest
  <1>1. IInv => MappingIsHonest
    <2> SUFFICES ASSUME IInv, phase = "received", NEW channel \in Channels
                 PROVE  /\ SensoryMapping[channel] # frame[channel].validity =>
                             /\ frame[channel].validity = "Valid"
                             /\ SensoryMapping[channel] = "Stale"
                        /\ SensoryMapping[channel] = "Valid" /\ "held back" \notin history.stepped
                             => history.held < StaleAfter(setup.cadence, EvalTicks)
      BY DEF MappingIsHonest
    <2> DEFINE limit == StaleAfter(setup.cadence, EvalTicks)
    <2>1. StaleAfter(frame.cadence, EvalTicks) = limit
      BY FrameFacts, StaleAfterFacts
    <2>2. SensoryMapping[channel] = HeldValidity(frame[channel], wall, frame.received, limit)
      BY <2>1 DEF SensoryMapping, MapAt, Channels
    <2>3. \/ SensoryMapping[channel] = frame[channel].validity
          \/ frame[channel].validity = "Valid" /\ SensoryMapping[channel] = "Stale"
      BY <2>2 DEF HeldValidity
    <2>4. SensoryMapping[channel] = "Valid" => ~ Elapsed(wall, frame.received) >= limit
      BY <2>2 DEF HeldValidity
    <2>5. ASSUME SensoryMapping[channel] = "Valid", "held back" \notin history.stepped
          PROVE  history.held < limit
      <3>1. wall - frame.received >= history.held
        BY <2>5 DEF IInv, FrameIsAged
      <3>2. ~ Elapsed(wall, frame.received) >= limit
        BY <2>4, <2>5
      <3>3. wall \in Nat /\ frame.received \in Nat /\ history.held \in Nat /\ limit \in Nat
        BY FrameFacts DEF IInv, Types, Histories
      <3>4. Elapsed(wall, frame.received) = wall - frame.received
        BY <3>1, <3>3 DEF Elapsed
      <3> HIDE DEF limit
      <3> QED BY <3>1, <3>3, <3>4, <3>2
    <2> QED BY <2>3, <2>5
  <1> QED BY <1>1, SamplingInvariance, PTL

(* Batch ids only go up: every frame is stamped with a number of its own,  *)
(* above all that were published, and a reassessment wastes one.           *)
THEOREM PublishedGoesUp == Spec => BatchesGoUp
  <1>1. IInv /\ [Next]_vars =>
          [phase = "received" /\ phase' \in {"evaluated", "stored"} => published' > published]_vars
    <2> SUFFICES ASSUME IInv, Next, phase = "received", phase' \in {"evaluated", "stored"}
                 PROVE  published' > published
      OBVIOUS
    <2>1. EvaluateThenTryPublish \/ PublishOnly
      BY DEF Next, Loop, Tick, StepWall, Capture, Receive, ReceiveNothing, AcquireSimulated,
             Reassess, StoreSafety, RecordAcquired, CollectorCopies, CollectorExports, Assessed,
             loopVars
    <2>2. published' = frame.batch
      BY <2>1 DEF EvaluateThenTryPublish, PublishOnly, TryPublish, SensoryMapping, MapAt
    <2>3. frame.batch \in Nat /\ published \in Int /\ published < frame.batch
      BY FrameFacts DEF IInv, BatchesAhead
    <2> QED BY <2>2, <2>3
  <1> QED BY <1>1, SamplingInvariance, PTL DEF Spec, BatchesGoUp

(* The reading of a cool GPU that arrives in time is Ok: a capture whose   *)
(* clock nobody touched has the age that the wall times say, and nothing   *)
(* between receipt and verdict adds to it.                                 *)
THEOREM OkIfQuiet == Spec => []QuietIsOk
  <1>1. IInv => QuietIsOk
    <2> DEFINE c == setup.config
               period == StaleAfter(setup.cadence, EvalTicks)
               default == IF setup.software THEN NoTime ELSE setup.default
    <2> SUFFICES ASSUME IInv, phase = "received", frame.source = "Nvml", Quiet(frame),
                        history.stepped \cap {"back", "forward"} = {},
                        history.age < c.maxAge,
                        history.age < 2 * EvalTicks * setup.cadence
                 PROVE  Kind = "Ok"
      BY DEF QuietIsOk
    <2>1. /\ frame.received - frame.temp.observed = history.age
          /\ history.age \in Nat /\ frame.received \in Nat /\ frame.temp.observed \in Nat
          /\ frame.power.observed = frame.temp.observed
      BY FrameFacts DEF IInv, Types, Histories, FrameIsAged, ExactlyAge
    <2>2. /\ frame.temp.raw.is = "number" /\ frame.power.raw.is = "number"
          /\ frame.temp.raw.value \in Nat /\ frame.power.raw.value \in Nat
          /\ frame.temp.raw.value < c.tempWarn
          /\ 100 * frame.power.raw.value < Policy.limits.warn
      BY FrameFacts DEF Quiet, Channels, Raws
    <2>3. /\ setup \in Setups
          /\ 0 < c.tempWarn /\ c.tempWarn < c.tempCritical /\ c.tempCritical <= 125
          /\ c.tempWarn \in Int /\ c.tempCritical \in Int
          /\ setup.cadence <= c.maxInterval /\ c.maxInterval > 0 /\ c.maxInterval \in Int
          /\ setup.cadence \in Nat /\ c.maxAge \in Int
          /\ default = NoTime \/ default \in 1..2000
      BY SetupFacts, LimitFacts DEF IInv, Types, DeviceValid
    <2>4. /\ Policy.limits # NoLimits /\ Policy.limits.warn <= 200000
          /\ Policy.limits.warn <= Policy.limits.critical
          /\ Policy.limits.warn \in Int /\ Policy.limits.critical \in Int
      <3>1. CASE c.powerWarn # NoTime
        <4>1. /\ Policy.limits = [warn |-> 100 * c.powerWarn, critical |-> 100 * c.powerCritical]
              /\ c.powerWarn \in Int /\ c.powerCritical \in Int
              /\ 0 < c.powerWarn /\ c.powerWarn < c.powerCritical /\ c.powerCritical <= 2000
          BY <3>1, LimitFacts DEF OperatorValid
        <4> HIDE DEF c
        <4> QED BY <4>1 DEF NoLimits
      <3>2. CASE c.powerWarn = NoTime
        <4>1. CASE default = NoTime
          BY <2>2, <3>2, <4>1, LimitFacts DEF NoLimits
        <4>2. CASE default # NoTime
          <5>1. Policy.limits = [warn |-> 85 * default, critical |-> 100 * default]
            BY <3>2, <4>2, LimitFacts
          <5>2. default \in 1..2000
            BY <2>3, <4>2
          <5> HIDE DEF default
          <5> QED BY <5>1, <5>2 DEF NoLimits
        <4> QED BY <4>1, <4>2
      <3> QED BY <3>1, <3>2
    <2>5. frame.temp.raw.value \in TempRange /\ frame.power.raw.value \in PowerRange
      <3>1. frame.temp.raw.value <= 125
        <4> HIDE DEF c
        <4> QED BY <2>2, <2>3
      <3>2. frame.power.raw.value <= 2000
        BY <2>2, <2>4
      <3>3. frame.temp.raw.value \in Nat /\ frame.power.raw.value \in Nat
        BY <2>2
      <3>4. \A v \in Nat : (v <= 125 => v \in TempRange) /\ (v <= 2000 => v \in PowerRange)
        BY DEF TempRange, PowerRange
      <3> QED BY <3>1, <3>2, <3>3, <3>4
    <2>6. period \in Nat /\ history.age < period
      <3>1. /\ period \in Nat
            /\ setup.cadence # 0 => period = 2 * EvalTicks * setup.cadence
        BY <2>3, StaleAfterFacts
      <3>2. setup.cadence # 0
        <4>1. CASE setup.cadence = 0
          <5>1. 2 * EvalTicks * setup.cadence = 0
            BY <4>1, TimingAssumption
          <5> QED BY <2>1, <5>1
        <4> QED BY <4>1
      <3> HIDE DEF period
      <3> QED BY <3>1, <3>2
    <2>7. frame.temp.observed <= frame.received /\ frame.received - frame.temp.observed < period
      BY <2>1, <2>6
    <2>8. frame.temp.validity = "Valid" /\ frame.power.validity = "Valid"
      <3>1. /\ frame.temp.raw \in Raws /\ frame.power.raw \in Raws
            /\ frame.temp.validity = ValidityAt(frame.temp.raw, TempRange, frame.temp.observed,
                                                frame.received, period)
            /\ frame.power.validity = ValidityAt(frame.power.raw, PowerRange, frame.temp.observed,
                                                 frame.received, period)
        BY <2>1, FrameFacts
      <3> HIDE DEF period
      <3> QED BY <2>1, <2>2, <2>5, <2>6, <2>7, <3>1, ValidityFacts
    <2>9. ~ TooOld(frame, Policy.config)
      <3>1. Policy.config = c
        BY LimitFacts
      <3>2. frame.cadence = IF setup.cadence = 0 THEN 1 ELSE setup.cadence
        BY FrameFacts
      <3>3. Elapsed(frame.received, frame.temp.observed) = history.age
        BY <2>1 DEF Elapsed
      <3>4. history.age < c.maxAge /\ ~ history.age >= c.maxAge
        BY <2>1, <2>3
      <3>5. ~ frame.cadence > c.maxInterval
        <4> HIDE DEF c
        <4> QED BY <2>3, <3>2
      <3> QED BY <2>1, <3>1, <3>3, <3>4, <3>5 DEF TooOld
    <2>10. /\ ~ frame.temp.raw.value > Policy.config.tempCritical
           /\ ~ frame.temp.raw.value >= Policy.config.tempWarn
      BY <2>2, <2>3, LimitFacts
    <2>11. /\ ~ 100 * frame.power.raw.value > Policy.limits.critical
           /\ ~ 100 * frame.power.raw.value >= Policy.limits.warn
      BY <2>2, <2>4
    <2> QED BY <2>4, <2>8, <2>9, <2>10, <2>11, OkFacts DEF Kind
  <1> QED BY <1>1, SamplingInvariance, PTL

-----------------------------------------------------------------------------
(***************************************************************************)
(* Types.  What the collector holds is no newer than the record, and the   *)
(* record no newer than what was published.                                *)
(***************************************************************************)
Metrics == [snapshot : Int, receivedInstant : Int, acquired : BOOLEAN]

InBounds ==
  /\ wall \in Times /\ history.age \in Times /\ history.held \in Times
  /\ sampleClock.next \in 0 .. MaxFrames /\ sampleClock.last \in Times \cup {NoTime}
  /\ IF phase = "reading" THEN sampleClock.next < MaxFrames /\ reading.at \in Times
                          ELSE reading = NoReading
  /\ IF phase = "received" THEN frame.received \in Times ELSE frame = NoFrame

RecordsInBounds ==
  /\ published \in -1 .. sampleClock.next - 1
  /\ metrics \in Metrics /\ metrics.snapshot \in 0 .. published + 1
  /\ gauges \in [snapshot : Int, freshness : Int] /\ gauges.snapshot \in 0 .. published + 1
  /\ copied # NoCopy => copied \in Metrics /\ copied.snapshot \in 0 .. metrics.snapshot

LEMMA InitBounds == Init => InBounds /\ RecordsInBounds
  BY TimingAssumption DEF Init, InBounds, RecordsInBounds, NewClock, NothingPublished, Times,
     NoReading, NoFrame, Metrics, NoTime, NoCopy

LEMMA BoundsStep ==
  ASSUME IInv, InBounds, [Next]_vars
  PROVE  InBounds'
  <1> USE TimingAssumption DEF InBounds, Times
  <1>1. CASE UNCHANGED vars
    BY <1>1 DEF vars, loopVars
  <1>2. CASE Tick
    <2>1. history \in Histories /\ history.age \in Nat /\ history.held \in Nat /\ wall \in Nat
      BY DEF IInv, Types, Histories
    <2>2. history'.age \in {history.age, history.age + 1}
          /\ history'.held \in {history.held, history.held + 1}
      BY <1>2, <2>1 DEF Tick, Histories
    <2> QED BY <1>2, <2>1, <2>2 DEF Tick, loopVars
  <1>3. CASE StepWall
    <2>1. history'.age = history.age /\ history'.held = history.held
      BY <1>3 DEF StepWall, IInv, Types, Histories
    <2> QED BY <1>3, <2>1 DEF StepWall, loopVars
  <1>4. CASE Capture
    BY <1>4 DEF Capture, Raw, IInv, Types
  <1>5. ASSUME NEW raw \in RawReadings, Assessed(raw), raw.at \in Times,
               sampleClock.next < MaxFrames, history' \in {history, Forget(history)}
        PROVE  InBounds'
    <2>1. sampleClock'.next = sampleClock.next + 1 /\ sampleClock'.last \in {sampleClock.last, raw.at}
      BY <1>5 DEF Assessed, Stamp
    <2>2. history'.age \in Times /\ history'.held \in Times
      BY <1>5, ForgetFacts DEF IInv
    <2>3. frame'.received = wall
      BY <1>5 DEF Assessed, Assess
    <2> QED BY <1>5, <2>1, <2>2, <2>3 DEF Assessed, IInv, Types
  <1>6. CASE Receive
    <2>1. reading \in RawReadings
      BY <1>6 DEF Receive, IInv, ReadingIsLive, RawReadings
    <2> QED BY <1>5, <1>6, <2>1 DEF Receive
  <1>7. CASE ReceiveNothing
    <2>1. NvmlUnavailable(wall) \in RawReadings /\ NvmlUnavailable(wall).at = wall
      BY DEF NvmlUnavailable, Raw, Sensorless, NoValue, RawReadings, Raws, IInv, Types
    <2> QED BY <1>5, <1>7, <2>1 DEF ReceiveNothing
  <1>8. CASE AcquireSimulated
    <2>1. SoftwareFallback(wall) \in RawReadings /\ SoftwareFallback(wall).at = wall
      BY DEF SoftwareFallback, Raw, IdleEstimates, Number, RawReadings, Raws, IInv, Types
    <2> QED BY <1>5, <1>8, <2>1 DEF AcquireSimulated
  <1>9. CASE Reassess
    BY <1>9, ForgetFacts DEF Reassess, IInv
  <1>10. CASE EvaluateThenTryPublish \/ PublishOnly
    <2>1. history'.age = 0 /\ history'.held = 0
      <3>1. history' \in {Forget(history), [Forget(history) EXCEPT !.evaluated = frame.batch + 1]}
        BY <1>10 DEF EvaluateThenTryPublish, PublishOnly
      <3> QED BY <3>1, ForgetFacts DEF IInv, Histories
    <2> QED BY <1>10, <2>1 DEF EvaluateThenTryPublish, PublishOnly, TryPublish
  <1>11. CASE StoreSafety \/ RecordAcquired
    BY <1>11 DEF StoreSafety, RecordAcquired
  <1>12. CASE CollectorCopies \/ CollectorExports
    BY <1>12 DEF CollectorCopies, CollectorExports, loopVars
  <1> QED BY <1>1, <1>2, <1>3, <1>4, <1>6, <1>7, <1>8, <1>9, <1>10, <1>11, <1>12 DEF Next, Loop

LEMMA RecordsStep ==
  ASSUME IInv, InBounds, RecordsInBounds, [Next]_vars
  PROVE  RecordsInBounds'
  <1> USE DEF RecordsInBounds
  <1>1. sampleClock.next \in Nat /\ published \in Int
    BY DEF IInv, Types
  <1>2. CASE UNCHANGED metricsVars /\ published' = published
             /\ sampleClock'.next \in {sampleClock.next, sampleClock.next + 1}
    BY <1>1, <1>2 DEF metricsVars
  <1>3. CASE EvaluateThenTryPublish \/ PublishOnly
    <2>1. published < frame.batch /\ frame.batch \in Nat /\ frame.batch = sampleClock.next - 1
      BY <1>3 DEF EvaluateThenTryPublish, PublishOnly, IInv, BatchesAhead, FrameIsAssessed
    <2>2. published' = frame.batch /\ UNCHANGED <<metricsVars, sampleClock>>
      BY <1>3 DEF EvaluateThenTryPublish, PublishOnly, TryPublish, SensoryMapping, MapAt
    <2> QED BY <1>1, <2>1, <2>2 DEF metricsVars
  <1>4. CASE StoreSafety
    <2>1. /\ metrics' = [metrics EXCEPT !.snapshot = published + 1]
          /\ gauges' = [gauges EXCEPT !.snapshot = published + 1]
          /\ UNCHANGED <<published, sampleClock, copied>>
      BY <1>4 DEF StoreSafety, RecordSafetySnapshot
    <2> QED BY <1>1, <2>1 DEF Metrics
  <1>5. CASE RecordAcquired
    BY <1>1, <1>5 DEF RecordAcquired, Metrics
  <1>6. CASE CollectorCopies
    BY <1>1, <1>6 DEF CollectorCopies, loopVars
  <1>7. CASE CollectorExports
    <2>1. FreshnessSecondsMonotonic(copied.receivedInstant) \in Int
      BY <1>7 DEF CollectorExports, FreshnessSecondsMonotonic, Metrics
    <2> QED BY <1>1, <1>7, <2>1 DEF CollectorExports, loopVars, Metrics
  <1>8. CASE Receive \/ ReceiveNothing \/ AcquireSimulated
    <2>1. UNCHANGED metricsVars /\ published' = published /\ sampleClock'.next = sampleClock.next + 1
      BY <1>8 DEF Receive, ReceiveNothing, AcquireSimulated, Assessed, Stamp
    <2> QED BY <1>2, <2>1
  <1>9. CASE Tick \/ StepWall \/ Capture \/ Reassess \/ UNCHANGED vars
    <2>1. UNCHANGED metricsVars /\ published' = published /\ sampleClock' = sampleClock
      BY <1>9 DEF Tick, StepWall, Capture, Reassess, vars, loopVars
    <2> QED BY <1>2, <2>1
  <1> QED BY <1>3, <1>4, <1>5, <1>6, <1>7, <1>8, <1>9 DEF Next, Loop

(* The state stays in its types: no more frames are numbered than stamped, *)
(* a reading or a frame exists exactly in its phase, and no gauge or clone *)
(* is ahead of the frames that were published.                             *)
THEOREM SamplingTypes == Spec => []TypeOK
  <1>1. IInv /\ InBounds /\ RecordsInBounds => TypeOK
    <2> SUFFICES ASSUME IInv, InBounds, RecordsInBounds PROVE TypeOK
      OBVIOUS
    <2>1. phase = "reading" => reading.source = "Nvml"
      BY DEF IInv, ReadingIsLive
    <2>2. phase = "received" =>
            /\ frame.source # "none" /\ frame.batch = sampleClock.next - 1 /\ frame.batch \in Nat
            /\ frame.temp.validity \in Validities /\ frame.power.validity \in Validities
      BY DEF IInv, FrameIsAssessed
    <2>3. (phase = "reading") = (reading # NoReading)
      BY <2>1 DEF InBounds, NoReading
    <2>4. (phase = "received") = (frame # NoFrame)
      BY <2>2 DEF InBounds, NoFrame
    <2>5. frame # NoFrame =>
            /\ frame.batch \in 0 .. sampleClock.next - 1 /\ frame.received \in Times
            /\ \A c \in Channels : frame[c].validity \in Validities
      BY <2>2, <2>4 DEF InBounds, Channels, IInv, Types
    <2>6. published \in -1 .. sampleClock.next - 1 /\ sampleClock.next \in 0 .. MaxFrames
      BY DEF InBounds, RecordsInBounds
    <2>7. metrics.snapshot \in 0 .. MaxFrames /\ gauges.snapshot \in 0 .. MaxFrames
      BY <2>6, TimingAssumption DEF RecordsInBounds
    <2> QED BY <2>3, <2>4, <2>5, <2>6, <2>7 DEF TypeOK, IInv, Types, InBounds, RecordsInBounds
  <1>2. Init => IInv /\ InBounds /\ RecordsInBounds
    BY InitInv, InitBounds
  <1>3. IInv /\ InBounds /\ RecordsInBounds /\ [Next]_vars
          => IInv' /\ InBounds' /\ RecordsInBounds'
    BY NextInv, BoundsStep, RecordsStep
  <1> QED BY <1>1, <1>2, <1>3, PTL DEF Spec
===============================================================================
