---------------------------- MODULE ActuatorProofs ----------------------------
(***************************************************************************)
(* Proofs about Actuator, for every set of cards, every default and every  *)
(* limit an operator may set, and any number of commands that are still    *)
(* under way when they are overtaken.                                      *)
(*                                                                         *)
(* A command that no operator interfered with finds its card in one of two *)
(* conditions when it takes effect: as it was read, or as another command  *)
(* of the relay's left it.  That is what the inductive invariant says of   *)
(* every command, and of the actuation that is being planned.              *)
(***************************************************************************)
EXTENDS Actuator, TLAPS

-----------------------------------------------------------------------------
(***************************************************************************)
(* The planning rules, for every pair of readings in watts, however large  *)
(***************************************************************************)
\* The target is below the default by as much as it measures, up to the watt
\* the f32 product loses.
LEMMA TargetIsHalf ==
  ASSUME NEW dflt \in Watts
  PROVE  /\ BrakeTarget(dflt) \in Nat
         /\ dflt - 2 * BrakeTarget(dflt) \in {0, 1}
  BY Z3 DEF BrakeTarget, Watts

LEMMA AbsDiffIsDistance ==
  ASSUME NEW a \in Int, NEW b \in Int
  PROVE  /\ AbsDiff(a, b) \in Nat
         /\ AbsDiff(a, b) <= BrakeMatchTolerance
              <=> a - b <= BrakeMatchTolerance /\ b - a <= BrakeMatchTolerance
  BY DEF AbsDiff, BrakeMatchTolerance

\* A pair that classify_power_limit reads has two real readings of a device
\* whose bands are apart.
LEMMA ClassifiedIsUnambiguous ==
  ASSUME NEW current \in Readings, NEW dflt \in Readings,
         ClassifyPowerLimit(current, dflt) # "Unreadable"
  PROVE  current \in Watts /\ dflt \in Watts /\ Unambiguous(dflt)
  BY DEF ClassifyPowerLimit, Readings

\* No limit is in both bands: what counts as the relay's brake never counts as
\* unbraked (unambiguous_brake_target's reason to refuse small defaults).
THEOREM BandsAreDisjoint ==
  ASSUME NEW current \in Watts, NEW dflt \in Watts, Unambiguous(dflt)
  PROVE  ~ (/\ InBrakeBand(current, dflt)
            /\ current + BrakeMatchTolerance >= dflt)
  <1>1. BrakeTarget(dflt) \in Nat
    BY TargetIsHalf
  <1>2. InBrakeBand(current, dflt)
          => current - BrakeTarget(dflt) <= BrakeMatchTolerance
    BY <1>1, AbsDiffIsDistance DEF InBrakeBand, Watts
  <1>3. dflt - BrakeTarget(dflt) > 2 * BrakeMatchTolerance
    BY DEF Unambiguous
  <1>4. QED
    BY <1>1, <1>2, <1>3 DEF BrakeMatchTolerance, Watts

\* plan_brake_apply sets a limit exactly when classify_power_limit calls the
\* GPU unbraked: the two sets of comparisons in gpu.rs and safety.rs agree.
THEOREM ApplyOnlyUnbraked ==
  ASSUME NEW current \in Readings, NEW dflt \in Readings
  PROVE  PlanBrakeApply(current, dflt).decision = "set"
           <=> /\ current # 0
               /\ ClassifyPowerLimit(current, dflt) = "AtOrAboveDefault"
  <1>1. CASE current \in Watts /\ dflt \in Watts
    <2>1. BrakeTarget(dflt) \in Nat
      BY <1>1, TargetIsHalf
    <2>2. Unambiguous(dflt) => dflt > 0
      BY <1>1, <2>1 DEF Unambiguous, BrakeMatchTolerance, Watts
    <2>3. InBrakeBand(current, dflt)
            <=> /\ current - BrakeTarget(dflt) <= BrakeMatchTolerance
                /\ BrakeTarget(dflt) - current <= BrakeMatchTolerance
      <3>1. current \in Int /\ BrakeTarget(dflt) \in Int
        BY <1>1, <2>1 DEF Watts
      <3>2. QED
        BY <3>1, AbsDiffIsDistance DEF InBrakeBand
    <2>4. current # NoReading /\ dflt # NoReading
      BY <1>1 DEF NoReading, Watts
    <2>5. CASE ~ Unambiguous(dflt)
      BY <2>5 DEF PlanBrakeApply, ClassifyPowerLimit, Plan
    <2>6. CASE Unambiguous(dflt) /\ current = 0
      BY <2>6 DEF PlanBrakeApply, Readable, Plan
    <2>7. CASE Unambiguous(dflt) /\ current # 0
      <3>1. Readable(current) /\ Readable(dflt)
        BY <1>1, <2>2, <2>4, <2>7 DEF Readable, Watts
      <3>2. PlanBrakeApply(current, dflt).decision = "set"
              <=> /\ ~ (current < BrakeTarget(dflt) - BrakeMatchTolerance)
                  /\ ~ InBrakeBand(current, dflt)
                  /\ ~ (current < dflt - BrakeMatchTolerance)
        BY <2>7, <3>1 DEF PlanBrakeApply, Plan
      <3>3. ClassifyPowerLimit(current, dflt) = "AtOrAboveDefault"
              <=> /\ ~ InBrakeBand(current, dflt)
                  /\ current + BrakeMatchTolerance >= dflt
        BY <2>4, <2>7 DEF ClassifyPowerLimit
      <3>4. current + BrakeMatchTolerance >= dflt
              => ~ (current < BrakeTarget(dflt) - BrakeMatchTolerance)
        BY <1>1, <2>1, <2>7 DEF Unambiguous, BrakeMatchTolerance, Watts
      <3>5. QED
        BY <1>1, <2>7, <3>2, <3>3, <3>4 DEF BrakeMatchTolerance, Watts
    <2>8. QED
      BY <2>5, <2>6, <2>7
  <1>2. CASE current = NoReading \/ dflt = NoReading
    BY <1>2 DEF PlanBrakeApply, ClassifyPowerLimit, Readable, Plan
  <1>3. QED
    BY <1>1, <1>2 DEF Readings

\* A brake that is set lowers the limit, and read back it is the relay's own,
\* so the release and the next process recognise it.
THEOREM ApplyLowersAndIsRecognised ==
  ASSUME NEW current \in Readings, NEW dflt \in Readings,
         PlanBrakeApply(current, dflt).decision = "set"
  PROVE  LET watts == PlanBrakeApply(current, dflt).watts
         IN  /\ watts < current
             /\ ClassifyPowerLimit(watts, dflt) = "RelayOwnedBrake"
  <1>1. /\ current \in Watts
        /\ dflt \in Watts
        /\ Unambiguous(dflt)
        /\ current + BrakeMatchTolerance >= dflt
    <2>1. ClassifyPowerLimit(current, dflt) = "AtOrAboveDefault"
      BY ApplyOnlyUnbraked
    <2>2. QED
      BY <2>1, ClassifiedIsUnambiguous DEF ClassifyPowerLimit
  <1>2. BrakeTarget(dflt) \in Nat
    BY <1>1, TargetIsHalf
  <1>3. PlanBrakeApply(current, dflt).watts = BrakeTarget(dflt)
    BY DEF PlanBrakeApply, Plan
  <1>4. BrakeTarget(dflt) < current
    BY <1>1, <1>2 DEF Unambiguous, BrakeMatchTolerance, Watts
  <1>5. InBrakeBand(BrakeTarget(dflt), dflt)
    BY <1>2 DEF InBrakeBand, AbsDiff, BrakeMatchTolerance
  <1>6. NoReading \notin {BrakeTarget(dflt), dflt}
    BY <1>1, <1>2 DEF NoReading, Watts
  <1>7. ClassifyPowerLimit(BrakeTarget(dflt), dflt) = "RelayOwnedBrake"
    BY <1>1, <1>5, <1>6 DEF ClassifyPowerLimit
  <1>8. QED
    BY <1>3, <1>4, <1>7

\* A release only lifts a limit that reads as the relay's brake, always to the
\* default, and always upwards: a foreign cap is never raised.
THEOREM ReleaseOnlyRaisesOwnBrake ==
  ASSUME NEW current \in Readings, NEW dflt \in Readings,
         PlanBrakeRelease(current, dflt).decision = "set"
  PROVE  /\ ClassifyPowerLimit(current, dflt) = "RelayOwnedBrake"
         /\ PlanBrakeRelease(current, dflt).watts = dflt
         /\ current < dflt
         /\ ClassifyPowerLimit(dflt, dflt) = "AtOrAboveDefault"
  <1>1. /\ ClassifyPowerLimit(current, dflt) = "RelayOwnedBrake"
        /\ PlanBrakeRelease(current, dflt).watts = dflt
    BY DEF PlanBrakeRelease, Plan
  <1>2. /\ current \in Watts
        /\ dflt \in Watts
        /\ Unambiguous(dflt)
        /\ InBrakeBand(current, dflt)
    BY <1>1, ClassifiedIsUnambiguous DEF ClassifyPowerLimit
  <1>3. ~ (current + BrakeMatchTolerance >= dflt)
    BY <1>2, BandsAreDisjoint
  <1>4. ~ InBrakeBand(dflt, dflt)
    BY <1>2, BandsAreDisjoint DEF BrakeMatchTolerance, Watts
  <1>5. NoReading \notin {dflt}
    BY <1>2 DEF NoReading, Watts
  <1>6. ClassifyPowerLimit(dflt, dflt) = "AtOrAboveDefault"
    BY <1>2, <1>4, <1>5 DEF ClassifyPowerLimit, BrakeMatchTolerance, Watts
  <1>7. QED
    BY <1>1, <1>2, <1>3, <1>6 DEF BrakeMatchTolerance, Watts

-----------------------------------------------------------------------------
(***************************************************************************)
(* Watts                                                                   *)
(***************************************************************************)
High(watts, dflt) == watts + BrakeMatchTolerance >= dflt

LEMMA HalvesAreWatts ==
  ASSUME NEW watts \in Nat
  PROVE  WattsOf(2 * watts) = watts /\ WattsOf(watts) \in Nat
  <1>1. (2 * watts) \div 2 = watts
    BY Z3
  <1>2. watts \div 2 \in Nat
    BY Z3
  <1>3. QED
    BY <1>1, <1>2 DEF WattsOf

(* The two limits the relay sets are in the bands they belong to, and these *)
(* are apart.                                                               *)
LEMMA Bands ==
  ASSUME NEW dflt \in Nat, Unambiguous(dflt)
  PROVE  /\ BrakeTarget(dflt) \in Nat /\ BrakeTarget(dflt) + 4 < dflt
         /\ InBrakeBand(BrakeTarget(dflt), dflt) /\ High(dflt, dflt)
         /\ ~InBrakeBand(dflt, dflt) /\ ~High(BrakeTarget(dflt), dflt)
  <1>1. BrakeTarget(dflt) \in Nat
    BY TargetIsHalf DEF Watts
  <1>2. BrakeTarget(dflt) + 4 < dflt
    BY <1>1 DEF Unambiguous, BrakeMatchTolerance
  <1>3. \A w \in Nat : InBrakeBand(w, dflt) <=>
          w - BrakeTarget(dflt) <= 2 /\ BrakeTarget(dflt) - w <= 2
    BY <1>1 DEF InBrakeBand, AbsDiff, BrakeMatchTolerance
  <1>4. InBrakeBand(BrakeTarget(dflt), dflt) /\ ~InBrakeBand(dflt, dflt)
    BY <1>1, <1>2, <1>3
  <1>5. High(dflt, dflt) /\ ~High(BrakeTarget(dflt), dflt)
    BY <1>1, <1>2 DEF High, BrakeMatchTolerance
  <1>6. QED
    BY <1>1, <1>2, <1>4, <1>5

LEMMA ApplyPlan ==
  ASSUME NEW current \in Readings, NEW dflt \in Readings,
         PlanBrakeApply(current, dflt).decision = "set"
  PROVE  /\ current \in Nat /\ dflt \in Nat /\ Unambiguous(dflt) /\ High(current, dflt)
         /\ PlanBrakeApply(current, dflt).watts = BrakeTarget(dflt)
  <1>1. ClassifyPowerLimit(current, dflt) = "AtOrAboveDefault"
    BY ApplyOnlyUnbraked
  <1>2. current \in Watts /\ dflt \in Watts /\ Unambiguous(dflt)
    BY <1>1, ClassifiedIsUnambiguous
  <1>3. High(current, dflt)
    BY <1>1 DEF ClassifyPowerLimit, High
  <1>4. PlanBrakeApply(current, dflt).watts = BrakeTarget(dflt)
    BY DEF PlanBrakeApply, Plan
  <1>5. QED
    BY <1>2, <1>3, <1>4 DEF Watts

LEMMA ReleasePlan ==
  ASSUME NEW current \in Readings, NEW dflt \in Readings,
         PlanBrakeRelease(current, dflt).decision = "set"
  PROVE  /\ current \in Nat /\ dflt \in Nat /\ Unambiguous(dflt) /\ InBrakeBand(current, dflt)
         /\ PlanBrakeRelease(current, dflt).watts = dflt
  <1>1. /\ ClassifyPowerLimit(current, dflt) = "RelayOwnedBrake"
        /\ PlanBrakeRelease(current, dflt).watts = dflt
    BY ReleaseOnlyRaisesOwnBrake
  <1>2. current \in Watts /\ dflt \in Watts /\ Unambiguous(dflt)
    BY <1>1, ClassifiedIsUnambiguous
  <1>3. InBrakeBand(current, dflt)
    BY <1>1 DEF ClassifyPowerLimit
  <1>4. QED
    BY <1>1, <1>2, <1>3 DEF Watts

-----------------------------------------------------------------------------
(***************************************************************************)
(* The inductive invariant                                                 *)
(***************************************************************************)
DefaultWatts(c) == WattsOf(default[c])

(* What a command of the relay's sets, for a default in watts. *)
Goal(op, dflt) == IF op = "apply" THEN BrakeTarget(dflt) ELSE dflt

(* The limits, in half watts, at which each command is in order. *)
MayApply(halves, dflt) == High(WattsOf(halves), dflt) \/ halves = 2 * Goal("apply", dflt)
MayRelease(halves, dflt) == InBrakeBand(WattsOf(halves), dflt) \/ halves = 2 * Goal("release", dflt)
InOrder(op, halves, dflt) == IF op = "apply" THEN MayApply(halves, dflt) ELSE MayRelease(halves, dflt)

Ops == {"apply", "release"}

CommandIsPlanned(command) ==
  LET dflt == DefaultWatts(command.card) IN
  /\ "raced" \in DOMAIN command
  /\ command.op \in Ops /\ command.card \in Physical /\ command.readFrom = command.card
  /\ Unambiguous(dflt) /\ command.watts = Goal(command.op, dflt)
  /\ command.raced \/ InOrder(command.op, limit[command.card], dflt)

WorkerHasRead ==
  worker # NoActuation =>
    /\ "raced" \in DOMAIN worker
    /\ worker.op \in Ops /\ worker.card \in Physical /\ worker.current \in Readings
    /\ \/ worker.raced \/ worker.current = NoReading
       \/ worker.current = WattsOf(limit[worker.card])
       \/ \E op \in Ops : limit[worker.card] = 2 * Goal(op, DefaultWatts(worker.card))

(* The relay was last, so the limit is one that it sets. *)
SetByRelay(c) ==
  lastBy[c] # "operator" => /\ Unambiguous(DefaultWatts(c))
                            /\ limit[c] = 2 * Goal(lastBy[c], DefaultWatts(c))

IInv ==
  /\ limit \in [Cards -> Nat] /\ default \in [Cards -> Nat]
  /\ lastBy \in [Cards -> {"operator"} \cup Ops]
  /\ process.at = "running" => process.card \in Physical \cup {NoCard}
  /\ \A command \in commands : CommandIsPlanned(command)
  /\ WorkerHasRead
  /\ \A c \in Cards : SetByRelay(c)

LEMMA InitIsInductive ==
  ASSUME Init
  PROVE  IInv
  <1>1. default \in [Cards -> Nat]
    BY CardsAssumption DEF Init
  <1>2. limit \in [Cards -> Nat]
    BY <1>1 DEF Init
  <1>3. lastBy \in [Cards -> {"operator"} \cup Ops] /\ \A c \in Cards : lastBy[c] = "operator"
    BY DEF Init
  <1>4. process.at # "running" /\ worker = NoActuation /\ commands = {}
    BY DEF Init, Down
  <1>5. QED
    BY <1>1, <1>2, <1>3, <1>4 DEF IInv, WorkerHasRead, SetByRelay

(* Where one of the relay's limits is set both commands are in order. *)
LEMMA SetIsInOrder ==
  ASSUME NEW dflt \in Nat, Unambiguous(dflt), NEW op \in Ops, NEW p \in Ops
  PROVE  InOrder(p, 2 * Goal(op, dflt), dflt)
  <1>1. BrakeTarget(dflt) \in Nat
    BY Bands
  <1>2. CASE op = "apply"
    <2>1. WattsOf(2 * Goal(op, dflt)) = BrakeTarget(dflt)
      BY <1>1, <1>2, HalvesAreWatts DEF Goal
    <2>2. MayApply(2 * Goal(op, dflt), dflt) /\ MayRelease(2 * Goal(op, dflt), dflt)
      BY <1>2, <2>1, Bands DEF MayApply, MayRelease
    <2>3. QED
      BY <2>2 DEF InOrder
  <1>3. CASE op = "release"
    <2>1. WattsOf(2 * Goal(op, dflt)) = dflt
      BY <1>3, HalvesAreWatts DEF Goal
    <2>2. MayApply(2 * Goal(op, dflt), dflt) /\ MayRelease(2 * Goal(op, dflt), dflt)
      BY <1>3, <2>1, Bands DEF MayApply, MayRelease
    <2>3. QED
      BY <2>2 DEF InOrder
  <1>4. QED
    BY <1>2, <1>3 DEF Ops

(* A command that is in order moves the limit its own way, away from one   *)
(* that is not foreign.                                                    *)
LEMMA InOrderMoves ==
  ASSUME NEW dflt \in Nat, Unambiguous(dflt), NEW halves \in Nat, NEW op \in Ops,
         InOrder(op, halves, dflt), halves # 2 * Goal(op, dflt)
  PROVE  /\ op = "apply" => 2 * Goal(op, dflt) < halves
         /\ op = "release" => halves < 2 * Goal(op, dflt)
         /\ \/ InBrakeBand(WattsOf(halves), dflt)
            \/ High(WattsOf(halves), dflt)
  <1> DEFINE w == WattsOf(halves)
  <1>1. /\ BrakeTarget(dflt) \in Nat /\ BrakeTarget(dflt) + 4 < dflt
        /\ InBrakeBand(w, dflt) => w - BrakeTarget(dflt) <= 2
    <2>1. w \in Nat
      BY HalvesAreWatts
    <2> HIDE DEF w
    <2>2. QED
      BY <2>1, Bands DEF InBrakeBand, AbsDiff, BrakeMatchTolerance
  <1>2. w \in Nat /\ halves \in {2 * w, 2 * w + 1}
    BY Z3 DEF WattsOf
  <1> HIDE DEF w
  <1>3. ASSUME op = "apply"
        PROVE  High(w, dflt) /\ 2 * BrakeTarget(dflt) < halves
    <2>1. High(w, dflt)
      BY <1>3 DEF InOrder, MayApply, w
    <2>2. w + 2 >= dflt
      BY <2>1 DEF High, BrakeMatchTolerance
    <2>3. QED
      BY <1>1, <1>2, <2>1, <2>2
  <1>4. ASSUME op = "release"
        PROVE  InBrakeBand(w, dflt) /\ halves < 2 * dflt
    <2>1. op # "apply"
      BY <1>4
    <2>2. InBrakeBand(w, dflt)
      BY <1>4, <2>1 DEF InOrder, MayRelease, w
    <2>3. QED
      BY <1>1, <1>2, <2>2
  <1>5. QED
    BY <1>3, <1>4 DEF Ops, Goal, w

(* What is planned for a limit that was read now is in order. *)
LEMMA PlansAreInOrder ==
  ASSUME NEW current \in Readings, NEW dflt \in Readings, NEW op \in Ops,
         PlanOf(op, current, dflt).decision = "set"
  PROVE  /\ current \in Nat /\ dflt \in Nat /\ Unambiguous(dflt)
         /\ PlanOf(op, current, dflt).watts = Goal(op, dflt)
         /\ \A halves \in Nat : current = WattsOf(halves) => InOrder(op, halves, dflt)
  <1>1. CASE op = "apply"
    BY <1>1, ApplyPlan DEF PlanOf, Goal, InOrder, MayApply
  <1>2. CASE op = "release"
    BY <1>2, ReleasePlan DEF PlanOf, Goal, InOrder, MayRelease
  <1>3. QED
    BY <1>1, <1>2 DEF Ops

(* A limit is moved by an operator, or by a command as it was planned.     *)
LEMMA LimitMoves ==
  ASSUME IInv, [Next]_vars
  PROVE  /\ default' = default
         /\ \/ limit' = limit /\ lastBy' = lastBy
            \/ OperatorWrites
            \/ \E command \in commands :
                 /\ limit' = [limit EXCEPT ![command.card] = 2 * Goal(command.op, DefaultWatts(command.card))]
                 /\ lastBy' = [lastBy EXCEPT ![command.card] = command.op]
                 /\ commands' = commands \ {command}
                 /\ worker' = worker /\ process' = process
  <1>1. default' = default
    BY DEF Next, vars, Start, Resolve, SmokeTest, BeginActuation, PlanActuation,
           CommandTakesEffect, CommandFails, ProcessEnds, Reenumerate, OperatorWrites
  <1>2. CASE CommandTakesEffect
    <2>1. PICK command \in commands :
            /\ limit' = [limit EXCEPT ![command.card] = 2 * command.watts]
            /\ lastBy' = [lastBy EXCEPT ![command.card] = command.op]
            /\ commands' = commands \ {command}
            /\ worker' = worker /\ process' = process
      BY <1>2 DEF CommandTakesEffect
    <2>2. command.watts = Goal(command.op, DefaultWatts(command.card))
      BY <2>1 DEF IInv, CommandIsPlanned
    <2>3. QED
      BY <1>1, <2>1, <2>2
  <1>3. CASE OperatorWrites
    BY <1>1, <1>3
  <1>4. CASE Start \/ Resolve \/ SmokeTest \/ BeginActuation \/ PlanActuation \/ CommandFails
               \/ ProcessEnds \/ Reenumerate \/ UNCHANGED vars
    <2>1. limit' = limit /\ lastBy' = lastBy
      BY <1>4 DEF Start, Resolve, SmokeTest, BeginActuation, PlanActuation, CommandFails,
                  ProcessEnds, Reenumerate, vars
    <2>2. QED
      BY <1>1, <2>1
  <1>5. QED
    BY <1>2, <1>3, <1>4 DEF Next

LEMMA DefaultsAreNat ==
  ASSUME IInv, NEW c \in Cards
  PROVE  DefaultWatts(c) \in Nat /\ \A op \in Ops, d \in Nat : Goal(op, d) \in Nat
  BY HalvesAreWatts, TargetIsHalf DEF IInv, DefaultWatts, Goal, Watts

(* Types, the card of the process and the author of each limit. *)
LEMMA LimitsStep ==
  ASSUME IInv, [Next]_vars
  PROVE  /\ limit' \in [Cards -> Nat] /\ default' \in [Cards -> Nat]
         /\ lastBy' \in [Cards -> {"operator"} \cup Ops]
         /\ \A c \in Cards : SetByRelay(c)'
  <1>1. /\ limit \in [Cards -> Nat] /\ default \in [Cards -> Nat] /\ default' = default
        /\ lastBy \in [Cards -> {"operator"} \cup Ops] /\ \A c \in Cards : SetByRelay(c)
    BY LimitMoves DEF IInv
  <1>2. CASE limit' = limit /\ lastBy' = lastBy
    BY <1>1, <1>2 DEF SetByRelay, DefaultWatts
  <1>3. CASE OperatorWrites
    <2>1. PICK c \in Cards : \E halves \in OperatorLimits[c] :
            /\ limit' = [limit EXCEPT ![c] = halves]
            /\ lastBy' = [lastBy EXCEPT ![c] = "operator"]
      BY <1>3 DEF OperatorWrites
    <2>2. limit' \in [Cards -> Nat] /\ lastBy' \in [Cards -> {"operator"} \cup Ops]
      BY <1>1, <2>1, CardsAssumption
    <2>3. ASSUME NEW d \in Cards PROVE SetByRelay(d)'
      BY <1>1, <2>1 DEF SetByRelay, DefaultWatts
    <2>4. QED
      BY <1>1, <2>2, <2>3
  <1>4. CASE \E command \in commands :
               /\ limit' = [limit EXCEPT ![command.card] = 2 * Goal(command.op, DefaultWatts(command.card))]
               /\ lastBy' = [lastBy EXCEPT ![command.card] = command.op]
    <2>1. PICK command \in commands :
            /\ limit' = [limit EXCEPT ![command.card] = 2 * Goal(command.op, DefaultWatts(command.card))]
            /\ lastBy' = [lastBy EXCEPT ![command.card] = command.op]
      BY <1>4
    <2>2. /\ command.op \in Ops /\ command.card \in Cards
          /\ Unambiguous(DefaultWatts(command.card))
      BY CardsAssumption DEF IInv, CommandIsPlanned
    <2> DEFINE goal == Goal(command.op, DefaultWatts(command.card))
    <2>3. goal \in Nat
      BY <2>2, DefaultsAreNat
    <2>4. 2 * goal \in Nat
      BY <2>3
    <2> HIDE DEF goal
    <2>5. limit' \in [Cards -> Nat] /\ lastBy' \in [Cards -> {"operator"} \cup Ops]
      BY <1>1, <2>1, <2>2, <2>4 DEF goal
    <2>6. ASSUME NEW c \in Cards PROVE SetByRelay(c)'
      <3>1. CASE c = command.card
        BY <1>1, <2>1, <2>2, <3>1 DEF SetByRelay, DefaultWatts
      <3>2. CASE c # command.card
        BY <1>1, <2>1, <2>2, <3>2 DEF SetByRelay, DefaultWatts
      <3>3. QED
        BY <3>1, <3>2
    <2>7. QED
      BY <1>1, <2>5, <2>6
  <1>5. QED
    BY <1>2, <1>3, <1>4, LimitMoves

LEMMA ProcessStep ==
  ASSUME IInv, [Next]_vars
  PROVE  (process.at = "running" => process.card \in Physical \cup {NoCard})'
  BY DEF IInv, Next, vars, Start, Resolve, ResolvedCards, SmokeTest, BeginActuation, PlanActuation,
         CommandTakesEffect, CommandFails, ProcessEnds, Reenumerate, OperatorWrites, Down

(* A command stays in order, whatever other command takes effect. *)
LEMMA CommandsStayPlanned ==
  ASSUME IInv, [Next]_vars, ~OperatorWrites, NEW command \in commands
  PROVE  CommandIsPlanned(command)'
  <1>1. /\ CommandIsPlanned(command) /\ default' = default /\ command.card \in Cards
        /\ limit \in [Cards -> Nat] /\ DefaultWatts(command.card) \in Nat
    BY LimitMoves, DefaultsAreNat, CardsAssumption DEF IInv, CommandIsPlanned
  <1>2. CASE limit'[command.card] = limit[command.card]
    BY <1>1, <1>2 DEF CommandIsPlanned, DefaultWatts
  <1>3. CASE \E op \in Ops : limit'[command.card] = 2 * Goal(op, DefaultWatts(command.card))
    <2>1. InOrder(command.op, limit'[command.card], DefaultWatts(command.card))
      BY <1>1, <1>3, SetIsInOrder DEF CommandIsPlanned
    <2>2. QED
      BY <1>1, <2>1 DEF CommandIsPlanned, DefaultWatts
  <1>4. limit' = limit \/ \E other \in commands : other.op \in Ops /\ other.card \in Cards
           /\ limit' = [limit EXCEPT ![other.card] = 2 * Goal(other.op, DefaultWatts(other.card))]
    BY LimitMoves, CardsAssumption DEF IInv, CommandIsPlanned
  <1>5. QED
    BY <1>1, <1>2, <1>3, <1>4

(* What a query of the default shows is the default or nothing. *)
LEMMA QueriesRead ==
  ASSUME NEW c, NEW halves \in Nat, NEW watts \in QueryOf(c, halves)
  PROVE  watts \in Readings /\ (watts = NoReading \/ watts = WattsOf(halves))
  BY HalvesAreWatts DEF QueryOf, Readings, Watts

LEMMA NewCommandIsPlanned ==
  ASSUME IInv, PlanActuation, NEW command \in commands', command \notin commands
  PROVE  CommandIsPlanned(command)'
  <1>1. PICK dflt \in QueryOf(worker.card, default[worker.card]) :
          LET plan == PlanOf(worker.op, worker.current, dflt) IN
          /\ plan.decision = "set"
          /\ command = [op |-> worker.op, card |-> Selector(worker.card), watts |-> plan.watts,
                        readFrom |-> worker.card, raced |-> worker.raced, live |-> TRUE]
    BY DEF PlanActuation
  <1> DEFINE c == worker.card
             d == DefaultWatts(c)
  <1>2. /\ worker.op \in Ops /\ c \in Physical /\ c \in Cards /\ worker.current \in Readings
        /\ \/ worker.raced \/ worker.current = NoReading
           \/ worker.current = WattsOf(limit[c]) \/ \E op \in Ops : limit[c] = 2 * Goal(op, d)
    BY CardsAssumption DEF PlanActuation, IInv, WorkerHasRead
  <1>3. /\ default[c] \in Nat /\ limit[c] \in Nat /\ d \in Nat
        /\ limit' = limit /\ default' = default
    BY <1>2, DefaultsAreNat DEF IInv, PlanActuation
  <1>4. dflt \in Readings /\ (dflt = NoReading \/ dflt = d)
    BY <1>1, <1>3, QueriesRead DEF DefaultWatts
  <1>5. PlanOf(worker.op, worker.current, dflt).decision = "set"
    BY <1>1
  <1>6. /\ worker.current \in Nat /\ dflt \in Nat /\ Unambiguous(dflt)
        /\ PlanOf(worker.op, worker.current, dflt).watts = Goal(worker.op, dflt)
        /\ \A halves \in Nat : worker.current = WattsOf(halves) => InOrder(worker.op, halves, dflt)
    BY <1>2, <1>4, <1>5, PlansAreInOrder
  <1>7. dflt = d /\ worker.current # NoReading
    BY <1>4, <1>6 DEF NoReading
  <1>8. worker.raced \/ InOrder(worker.op, limit[c], d)
    <2>1. CASE worker.current = WattsOf(limit[c])
      BY <1>3, <1>6, <1>7, <2>1
    <2>2. CASE \E op \in Ops : limit[c] = 2 * Goal(op, d)
      BY <1>2, <1>3, <1>6, <1>7, <2>2, SetIsInOrder
    <2>3. QED
      BY <1>2, <1>7, <2>1, <2>2
  <1>9. /\ "raced" \in DOMAIN command
        /\ command.op = worker.op /\ command.card = c /\ command.readFrom = c
        /\ command.watts = PlanOf(worker.op, worker.current, dflt).watts /\ command.raced = worker.raced
    BY <1>1 DEF Selector
  <1>10. WattsOf(default'[c]) = d
    BY <1>3 DEF DefaultWatts
  <1> HIDE DEF c, d
  <1>11. InOrder(command.op, limit'[command.card], d) \/ command.raced
    BY <1>3, <1>8, <1>9
  <1>12. command.watts = Goal(command.op, d)
    BY <1>6, <1>7, <1>9
  <1>13. QED
    BY <1>2, <1>6, <1>7, <1>9, <1>10, <1>11, <1>12 DEF CommandIsPlanned, DefaultWatts

LEMMA CommandsStep ==
  ASSUME IInv, [Next]_vars
  PROVE  \A command \in commands' : CommandIsPlanned(command)'
  <1>1. ASSUME ~OperatorWrites, NEW command \in commands', command \in commands
        PROVE  CommandIsPlanned(command)'
    BY <1>1, CommandsStayPlanned
  <1>2. CASE ProcessEnds
    <2>1. ASSUME NEW command \in commands' PROVE CommandIsPlanned(command)'
      <3>1. PICK before \in commands : command = [before EXCEPT !.live = FALSE]
        BY <1>2 DEF ProcessEnds
      <3>2. /\ command.op = before.op /\ command.card = before.card /\ command.watts = before.watts
            /\ command.readFrom = before.readFrom /\ command.raced = before.raced
            /\ DOMAIN command = DOMAIN before
        BY <3>1
      <3>3. limit' = limit /\ default' = default
        BY <1>2 DEF ProcessEnds
      <3>4. CommandIsPlanned(before)
        BY DEF IInv
      <3>5. QED
        BY <3>2, <3>3, <3>4 DEF CommandIsPlanned, DefaultWatts
    <2>2. QED
      BY <2>1
  <1>3. CASE OperatorWrites
    <2>1. PICK c \in Cards : \E halves \in OperatorLimits[c] :
            /\ limit' = [limit EXCEPT ![c] = halves] /\ default' = default
            /\ commands' = {[command EXCEPT !.raced = @ \/ command.readFrom = c] : command \in commands}
      BY <1>3 DEF OperatorWrites
    <2>2. ASSUME NEW command \in commands' PROVE CommandIsPlanned(command)'
      <3>1. PICK before \in commands : command = [before EXCEPT !.raced = @ \/ before.readFrom = c]
        BY <2>1
      <3>2. /\ command.op = before.op /\ command.card = before.card /\ command.watts = before.watts
            /\ command.readFrom = before.readFrom /\ DOMAIN command = DOMAIN before
        BY <3>1
      <3>3. CommandIsPlanned(before) /\ before.card \in Cards /\ limit \in [Cards -> Nat]
        BY CardsAssumption DEF IInv, CommandIsPlanned
      <3>4. CASE command.raced
        BY <2>1, <3>2, <3>3, <3>4 DEF CommandIsPlanned, DefaultWatts
      <3>5. CASE ~command.raced
        <4>1. ~before.raced /\ before.readFrom # c
          <5>1. "raced" \in DOMAIN before
            BY <3>3 DEF CommandIsPlanned
          <5>2. command.raced <=> (before.raced \/ before.readFrom = c)
            BY <3>1, <5>1
          <5>3. QED
            BY <3>5, <5>2
        <4>2. limit'[before.card] = limit[before.card]
          BY <2>1, <3>3, <4>1 DEF CommandIsPlanned
        <4>3. QED
          BY <2>1, <3>2, <3>3, <4>1, <4>2 DEF CommandIsPlanned, DefaultWatts
      <3>6. QED
        BY <3>4, <3>5
    <2>3. QED
      BY <2>2
  <1>4. CASE PlanActuation
    <2>1. ASSUME ~OperatorWrites, NEW command \in commands' PROVE CommandIsPlanned(command)'
      BY <1>1, <1>4, <2>1, NewCommandIsPlanned
    <2>2. QED
      BY <1>3, <2>1
  <1>5. CASE Start \/ Resolve \/ SmokeTest \/ BeginActuation \/ CommandTakesEffect \/ CommandFails
               \/ Reenumerate \/ UNCHANGED vars
    <2>1. commands' \subseteq commands
      BY <1>5 DEF Start, Resolve, SmokeTest, BeginActuation, CommandTakesEffect, CommandFails,
                  Reenumerate, vars
    <2>2. QED
      BY <1>1, <1>3, <2>1
  <1>6. QED
    BY <1>2, <1>3, <1>4, <1>5 DEF Next

(* What the worker read is still there, or one of the relay's own limits   *)
(* is, or an operator was at the card since.                               *)
LEMMA WorkerStep ==
  ASSUME IInv, [Next]_vars
  PROVE  WorkerHasRead'
  <1>1. /\ limit \in [Cards -> Nat] /\ default \in [Cards -> Nat] /\ default' = default
        /\ WorkerHasRead /\ Physical \subseteq Cards
    BY LimitMoves, CardsAssumption DEF IInv
  <1>2. CASE worker' = NoActuation
    BY <1>2 DEF WorkerHasRead
  <1>3. CASE BeginActuation
    <2>1. PICK op \in Ops, watts \in QueryOf(process.card, limit[process.card]) :
            worker' = [op |-> op, card |-> process.card, current |-> watts, raced |-> FALSE]
      BY <1>3 DEF BeginActuation, Ops
    <2>2. process.card \in Physical /\ limit' = limit
      BY <1>3 DEF BeginActuation, IInv
    <2>3. watts \in Readings /\ (watts = NoReading \/ watts = WattsOf(limit[process.card]))
      BY <1>1, <2>2, QueriesRead
    <2>4. /\ "raced" \in DOMAIN worker' /\ worker'.op = op /\ worker'.card = process.card
          /\ worker'.current = watts
      BY <2>1
    <2>5. QED
      BY <2>2, <2>3, <2>4 DEF WorkerHasRead
  <1>4. CASE OperatorWrites
    <2>1. PICK c \in Cards : \E halves \in OperatorLimits[c] :
            /\ limit' = [limit EXCEPT ![c] = halves]
            /\ worker' = IF worker # NoActuation /\ worker.card = c
                         THEN [worker EXCEPT !.raced = TRUE] ELSE worker
      BY <1>4 DEF OperatorWrites
    <2>2. CASE worker # NoActuation /\ worker.card = c
      <3>1. worker' = [worker EXCEPT !.raced = TRUE] /\ "raced" \in DOMAIN worker
        BY <1>1, <2>1, <2>2 DEF WorkerHasRead
      <3>2. /\ worker'.op = worker.op /\ worker'.card = worker.card
            /\ worker'.current = worker.current /\ worker'.raced /\ "raced" \in DOMAIN worker'
        BY <3>1
      <3>3. QED
        BY <1>1, <2>2, <3>2 DEF WorkerHasRead
    <2>3. CASE worker # NoActuation /\ worker.card # c
      <3>1. worker' = worker /\ worker.card \in Cards
        BY <1>1, <2>1, <2>3 DEF WorkerHasRead
      <3>2. limit'[worker.card] = limit[worker.card]
        BY <1>1, <2>1, <2>3, <3>1
      <3>3. QED
        BY <1>1, <3>1, <3>2 DEF WorkerHasRead, DefaultWatts
    <2>4. CASE worker = NoActuation
      BY <2>1, <2>4 DEF WorkerHasRead
    <2>5. QED
      BY <2>2, <2>3, <2>4
  <1>5. CASE worker' = worker /\ worker # NoActuation /\ ~OperatorWrites
    <2>1. \/ limit' = limit
          \/ \E other \in commands : other.op \in Ops /\ other.card \in Cards
               /\ limit' = [limit EXCEPT ![other.card] = 2 * Goal(other.op, DefaultWatts(other.card))]
      BY <1>5, LimitMoves, CardsAssumption DEF IInv, CommandIsPlanned
    <2>2. worker.card \in Cards
      BY <1>1, <1>5 DEF WorkerHasRead
    <2>3. \/ limit'[worker.card] = limit[worker.card]
          \/ \E op \in Ops : limit'[worker.card] = 2 * Goal(op, DefaultWatts(worker.card))
      BY <1>1, <2>1, <2>2
    <2>4. QED
      BY <1>1, <1>5, <2>3 DEF WorkerHasRead, DefaultWatts
  <1>6. worker' = NoActuation \/ BeginActuation \/ OperatorWrites \/ worker' = worker
    BY DEF Next, vars, Start, Resolve, SmokeTest, PlanActuation, CommandTakesEffect, CommandFails,
           ProcessEnds, Reenumerate
  <1>7. QED
    BY <1>2, <1>3, <1>4, <1>5, <1>6

LEMMA SpecInductive == Spec => []IInv
  <1>1. Init => IInv
    BY InitIsInductive
  <1>2. IInv /\ [Next]_vars => IInv'
    <2> SUFFICES ASSUME IInv, [Next]_vars PROVE IInv'
      OBVIOUS
    <2>1. QED
      BY LimitsStep, ProcessStep, CommandsStep, WorkerStep DEF IInv
  <1>3. QED
    BY <1>1, <1>2, PTL DEF Spec

-----------------------------------------------------------------------------
(***************************************************************************)
(* The theorems                                                            *)
(***************************************************************************)

(* What an actuation leaves behind is recognised by the next start, for    *)
(* every default and whatever else moves the limit in between: a brake as  *)
(* the relay's own, a lifted one as an unbraked card.                      *)
THEOREM LeftoversStayKnown == Spec => []LeftoversAreRecognised
  <1>1. IInv => LeftoversAreRecognised
    <2> SUFFICES ASSUME IInv, NEW c \in Cards
                 PROVE  LET watts == WattsOf(limit[c])
                            dflt == WattsOf(default[c])
                        IN /\ lastBy[c] = "apply" =>
                                PlanBrakeRelease(watts, dflt) = Plan("set", dflt)
                           /\ lastBy[c] = "release" =>
                                ClassifyPowerLimit(watts, dflt) = "AtOrAboveDefault"
      BY DEF LeftoversAreRecognised
    <2> DEFINE d == DefaultWatts(c)
    <2>1. d \in Nat /\ SetByRelay(c)
      BY DefaultsAreNat DEF IInv
    <2>2. ASSUME lastBy[c] = "apply"
          PROVE  PlanBrakeRelease(WattsOf(limit[c]), d) = Plan("set", d)
      <3>1. Unambiguous(d) /\ limit[c] = 2 * BrakeTarget(d)
        BY <2>1, <2>2 DEF SetByRelay, Goal
      <3>2. BrakeTarget(d) \in Nat /\ InBrakeBand(BrakeTarget(d), d)
        BY <2>1, <3>1, Bands
      <3>3. WattsOf(limit[c]) = BrakeTarget(d)
        BY <3>1, <3>2, HalvesAreWatts
      <3>4. ClassifyPowerLimit(BrakeTarget(d), d) = "RelayOwnedBrake"
        BY <2>1, <3>1, <3>2, Bands DEF ClassifyPowerLimit, High, NoReading
      <3>5. Readable(BrakeTarget(d)) /\ Readable(d)
        BY <2>1, <3>1, <3>2, Bands DEF Unambiguous, Readable, NoReading
      <3>6. QED
        BY <3>3, <3>4, <3>5 DEF PlanBrakeRelease
    <2>3. ASSUME lastBy[c] = "release"
          PROVE  ClassifyPowerLimit(WattsOf(limit[c]), d) = "AtOrAboveDefault"
      <3>1. Unambiguous(d) /\ limit[c] = 2 * d
        BY <2>1, <2>3 DEF SetByRelay, Goal
      <3>2. WattsOf(limit[c]) = d
        BY <2>1, <3>1, HalvesAreWatts
      <3>3. ClassifyPowerLimit(d, d) = "AtOrAboveDefault"
        BY <2>1, <3>1, Bands DEF ClassifyPowerLimit, High, NoReading
      <3>4. QED
        BY <3>2, <3>3
    <2>4. QED
      BY <2>2, <2>3 DEF DefaultWatts
  <1>2. QED
    BY <1>1, SpecInductive, PTL

(* A limit that the relay moves is moved by a command whose own card it is *)
(* and which was planned for it.                                           *)
LEMMA RelayMoves ==
  ASSUME IInv, [Next]_vars, NEW c \in Cards, MovedByRelay(c)
  PROVE  \E command \in commands :
           /\ CommandIsPlanned(command) /\ command.card = c
           /\ commands \ commands' = {command}
           /\ limit'[c] = 2 * Goal(command.op, DefaultWatts(c))
  <1>1. \E command \in commands :
          /\ limit' = [limit EXCEPT ![command.card] = 2 * Goal(command.op, DefaultWatts(command.card))]
          /\ commands' = commands \ {command}
    <2>1. ~OperatorWrites
      BY DEF OperatorWrites, MovedByRelay, IInv
    <2>2. limit'[c] # limit[c]
      BY DEF MovedByRelay
    <2>3. QED
      BY <2>1, <2>2, LimitMoves
  <1>2. PICK command \in commands :
          /\ limit' = [limit EXCEPT ![command.card] = 2 * Goal(command.op, DefaultWatts(command.card))]
          /\ commands' = commands \ {command}
    BY <1>1
  <1>3. CommandIsPlanned(command) /\ limit \in [Cards -> Nat]
    BY DEF IInv
  <1>4. command.card = c /\ limit'[c] = 2 * Goal(command.op, DefaultWatts(c))
    BY <1>2, <1>3 DEF MovedByRelay
  <1>5. commands \ commands' = {command}
    BY <1>2
  <1>6. QED
    BY <1>3, <1>4, <1>5

(* The relay moves no card but the one whose limits it planned from, and   *)
(* that is a whole GPU, under every enumeration of the devices.            *)
THEOREM TargetIsNeverMistaken == Spec => OnlyTargetMoves
  <1>1. IInv /\ [Next]_vars =>
          \A c \in Cards : MovedByRelay(c) =>
            c \in Physical /\ \E command \in commands \ commands' : command.readFrom = c
    <2> SUFFICES ASSUME IInv, [Next]_vars, NEW c \in Cards, MovedByRelay(c)
                 PROVE  c \in Physical /\ \E command \in commands \ commands' : command.readFrom = c
      OBVIOUS
    <2>1. QED
      BY RelayMoves DEF CommandIsPlanned
  <1>2. QED
    BY <1>1, SpecInductive, PTL DEF Spec, OnlyTargetMoves

(* Apply lowers a limit and release raises it, under every race between    *)
(* commands of processes that are gone and the one that runs.              *)
THEOREM CommandsKeepTheirDirection == Spec => CommandsMoveTheRightWay
  <1>1. IInv /\ [Next]_vars =>
          \A c \in Cards : MovedByRelay(c) =>
            \A command \in commands \ commands' : ~command.raced =>
              /\ command.op = "apply" => limit'[c] < limit[c]
              /\ command.op = "release" => limit'[c] > limit[c]
    <2> SUFFICES ASSUME IInv, [Next]_vars, NEW c \in Cards, MovedByRelay(c),
                        NEW command \in commands \ commands', ~command.raced
                 PROVE  /\ command.op = "apply" => limit'[c] < limit[c]
                        /\ command.op = "release" => limit'[c] > limit[c]
      OBVIOUS
    <2>1. /\ CommandIsPlanned(command) /\ command.card = c
          /\ limit'[c] = 2 * Goal(command.op, DefaultWatts(c))
      BY RelayMoves
    <2>2. DefaultWatts(c) \in Nat /\ limit[c] \in Nat /\ limit'[c] # limit[c]
      BY DefaultsAreNat DEF IInv, MovedByRelay
    <2>3. /\ Unambiguous(DefaultWatts(c)) /\ command.op \in Ops
          /\ InOrder(command.op, limit[c], DefaultWatts(c))
      BY <2>1 DEF CommandIsPlanned
    <2>4. QED
      BY <2>1, <2>2, <2>3, InOrderMoves
  <1>2. QED
    BY <1>1, SpecInductive, PTL DEF Spec, CommandsMoveTheRightWay

(* The property's bands are the code's. *)
LEMMA NotForeign ==
  ASSUME NEW dflt \in Nat, Unambiguous(dflt)
  PROVE  /\ ~BandsOverlap(dflt)
         /\ \A w \in Nat : InBrakeBand(w, dflt) => NearTarget(w, dflt)
         /\ \A w \in Nat : High(w, dflt) => ~(w < dflt - 2)
  <1>1. BrakeTarget(dflt) = dflt \div 2 /\ BrakeTarget(dflt) \in Nat /\ BrakeTarget(dflt) + 4 < dflt
    BY Bands DEF BrakeTarget
  <1>2. \A w \in Nat : NearTarget(w, dflt) <=> w - BrakeTarget(dflt) \in -2 .. 2
    BY <1>1 DEF NearTarget
  <1>3. \A w \in Nat : InBrakeBand(w, dflt) => NearTarget(w, dflt)
    BY <1>1, <1>2 DEF InBrakeBand, AbsDiff, BrakeMatchTolerance
  <1>4. ~BandsOverlap(dflt)
    BY <1>1, <1>2 DEF BandsOverlap
  <1>5. \A w \in Nat : High(w, dflt) => ~(w < dflt - 2)
    BY DEF High, BrakeMatchTolerance
  <1>6. QED
    BY <1>3, <1>4, <1>5

(* A cap that an operator set is overwritten only by a command that it     *)
(* overtook, and the cap of an ambiguous card not at all.                  *)
THEOREM ForeignCapsSurvive == Spec => ForeignCapPreserved
  <1>1. IInv /\ [Next]_vars =>
          \A c \in Cards : MovedByRelay(c) /\ ForeignCap(c) =>
            /\ ~BandsOverlap(WattsOf(default[c]))
            /\ \E command \in commands \ commands' : command.card = c /\ command.raced
    <2> SUFFICES ASSUME IInv, [Next]_vars, NEW c \in Cards, MovedByRelay(c), ForeignCap(c)
                 PROVE  /\ ~BandsOverlap(DefaultWatts(c))
                        /\ \E command \in commands \ commands' : command.card = c /\ command.raced
      BY DEF DefaultWatts
    <2>1. PICK command \in commands \ commands' :
            /\ CommandIsPlanned(command) /\ command.card = c
            /\ limit'[c] = 2 * Goal(command.op, DefaultWatts(c))
      BY RelayMoves
    <2>2. /\ DefaultWatts(c) \in Nat /\ limit[c] \in Nat /\ WattsOf(limit[c]) \in Nat
          /\ limit'[c] # limit[c]
      BY DefaultsAreNat, HalvesAreWatts DEF IInv, MovedByRelay
    <2>3. Unambiguous(DefaultWatts(c)) /\ command.op \in Ops
      BY <2>1 DEF CommandIsPlanned
    <2>4. ~BandsOverlap(DefaultWatts(c))
      BY <2>2, <2>3, NotForeign
    <2>5. ~NearTarget(WattsOf(limit[c]), DefaultWatts(c)) /\ WattsOf(limit[c]) < DefaultWatts(c) - 2
      BY <2>4 DEF ForeignCap, DefaultWatts
    <2>6. ~InOrder(command.op, limit[c], DefaultWatts(c))
      BY <2>1, <2>2, <2>3, <2>5, InOrderMoves, NotForeign
    <2>7. command.raced
      BY <2>1, <2>6 DEF CommandIsPlanned
    <2>8. QED
      BY <2>1, <2>4, <2>7
  <1>2. QED
    BY <1>1, SpecInductive, PTL DEF Spec, ForeignCapPreserved
===============================================================================
