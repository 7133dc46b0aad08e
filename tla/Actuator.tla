------------------------------- MODULE Actuator -------------------------------
(***************************************************************************)
(* From a decision to the GPU (gpu.rs, and the part of daemon.rs that      *)
(* starts it): which card a process binds to, the queries and the command  *)
(* of one actuation, and what becomes of them when cards are enumerated    *)
(* anew, an operator sets limits too, or the process dies in between.      *)
(*                                                                         *)
(* What the relay wants is the business of SafetyMachine: here it may want *)
(* either command at any time.  A card is its UUID.  Limits are counted in *)
(* half watts, so that the whole watts of a query and of nvidia-smi lose   *)
(* something, as NVML's milliwatts do.                                     *)
(***************************************************************************)
EXTENDS BrakePolicy, Sequences, FiniteSets

CONSTANTS
  Cards,           \* the devices that may ever be enumerated
  Physical,        \* those with a UUID of a whole GPU; the others are MIG slices
  NoCard,
  DefaultsOf,      \* the default limits each card may have, in half watts
  OperatorLimits,  \* what an operator may set on each card, in half watts
  MaxCommands      \* bound on the nvidia-smi processes alive at one time

ASSUME CardsAssumption ==
  /\ Physical \subseteq Cards /\ NoCard \notin Cards
  /\ DefaultsOf \in [Cards -> SUBSET Nat]
  /\ OperatorLimits \in [Cards -> SUBSET Nat]

VARIABLES
  bus,       \* NVML's enumeration: the cards present, index 0 first
  default,   \* the default limit of each card, fixed
  limit,     \* the limit each card enforces
  process,   \* the relay: how far it is, and the card it is bound to
  worker,    \* the actuation being planned, or NoActuation
  commands,  \* nvidia-smi processes; they outlive the relay
  lastBy     \* history: who moved each card's limit last

vars == <<bus, default, limit, process, worker, commands, lastBy>>

NoActuation == [op |-> "none"]
Down == [at |-> "down", card |-> NoCard]

Present(c) == \E i \in DOMAIN bus : bus[i] = c

Enumerations ==
  {s \in UNION {[1 .. n -> Cards] : n \in 0 .. Cardinality(Cards)} :
     \A i, j \in DOMAIN s : i # j => s[i] # s[j]}

(* query_power_limit_w, query_default_power_limit_w: device_by_uuid, then  *)
(* milliwatts truncated to watts; each query may fail on its own.          *)
WattsOf(halves) == halves \div 2
QueryOf(c, halves) ==
  {NoReading} \cup (IF Present(c) THEN {WattsOf(halves)} ELSE {})

Init ==
  /\ bus \in Enumerations
  /\ default \in {d \in [Cards -> UNION {DefaultsOf[c] : c \in Cards}] :
                    \A c \in Cards : d[c] \in DefaultsOf[c]}
  /\ limit = default
  /\ process = Down /\ worker = NoActuation /\ commands = {}
  /\ lastBy = [c \in Cards |-> "operator"]

-----------------------------------------------------------------------------
(***************************************************************************)
(* Binding to a card                                                       *)
(***************************************************************************)

(* GpuTarget::resolve up to the UUID: NVML may be missing, index 0 empty,  *)
(* the UUID unreadable.  A hardware smoke test goes the same way.          *)
Start ==
  /\ process.at = "down"
  /\ \E task \in {"relay", "smoke"} :
       \/ bus # <<>> /\ process' = [at |-> "resolving", card |-> bus[1], task |-> task]
       \/ process' = IF task = "relay" THEN [at |-> "running", card |-> NoCard] ELSE Down
  /\ UNCHANGED <<bus, default, limit, worker, commands, lastBy>>

(* is_valid_gpu_uuid and the round trip through device_by_uuid; a failure, *)
(* or NVML_TIMEOUT, leaves the relay without a card and ends the test.     *)
ResolvedCards(c) == {NoCard} \cup (IF c \in Physical /\ Present(c) THEN {c} ELSE {})

Resolve ==
  /\ process.at = "resolving"
  /\ \E card \in ResolvedCards(process.card) :
       process' = IF process.task = "relay" THEN [at |-> "running", card |-> card]
                  ELSE IF card = NoCard THEN Down
                  ELSE [at |-> "testing", card |-> card]
  /\ UNCHANGED <<bus, default, limit, worker, commands, lastBy>>

(* run_gpu_hardware_smoke: it reads the sensors and both limits of its     *)
(* card, passes if they are there and positive, and changes nothing.       *)
SmokeTest ==
  /\ process.at = "testing"
  /\ process' = Down
  /\ UNCHANGED <<bus, default, limit, worker, commands, lastBy>>

-----------------------------------------------------------------------------
(***************************************************************************)
(* One actuation                                                           *)
(***************************************************************************)
LiveCommand == \E command \in commands : command.live

(* The first query of apply_emergency_brake or release_emergency_brake;    *)
(* without a card both refuse before it.                                   *)
BeginActuation ==
  /\ process.at = "running" /\ process.card # NoCard
  /\ worker = NoActuation /\ ~LiveCommand
  /\ \E op \in {"apply", "release"}, watts \in QueryOf(process.card, limit[process.card]) :
       worker' = [op |-> op, card |-> process.card, current |-> watts, raced |-> FALSE]
  /\ UNCHANGED <<bus, default, limit, process, commands, lastBy>>

(* Mutant: the command names the device by its index. *)
IndexedSelector(card) == IF bus = <<>> THEN card ELSE bus[1]

(* power_limit_command_args: -i <UUID>. *)
Selector(card) == card

PlanOf(op, current, dflt) ==
  IF op = "apply" THEN PlanBrakeApply(current, dflt) ELSE PlanBrakeRelease(current, dflt)

(* The second query and the plan.  The command keeps, for the properties,  *)
(* the card whose limits were read and whether they have changed since.    *)
PlanActuation ==
  /\ worker # NoActuation /\ Cardinality(commands) < MaxCommands
  /\ \E dflt \in QueryOf(worker.card, default[worker.card]) :
       LET plan == PlanOf(worker.op, worker.current, dflt) IN
       \/ /\ plan.decision = "set"
          /\ commands' = commands \cup
               {[op |-> worker.op, card |-> Selector(worker.card), watts |-> plan.watts,
                 readFrom |-> worker.card, raced |-> worker.raced, live |-> TRUE]}
       \/ /\ plan.decision # "set"
          /\ UNCHANGED commands
  /\ worker' = NoActuation
  /\ UNCHANGED <<bus, default, limit, process, lastBy>>

(* nvidia-smi -pl reaches the driver.  What timeout(1) reports afterwards, *)
(* a failure perhaps, is between the worker and the safety machine.        *)
CommandTakesEffect ==
  \E command \in commands :
    /\ Present(command.card)
    /\ limit' = [limit EXCEPT ![command.card] = 2 * command.watts]
    /\ lastBy' = [lastBy EXCEPT ![command.card] = command.op]
    /\ commands' = commands \ {command}
    /\ UNCHANGED <<bus, default, process, worker>>

(* No passwordless sudo, no such device, killed by timeout(1). *)
CommandFails ==
  \E command \in commands :
    /\ commands' = commands \ {command}
    /\ UNCHANGED <<bus, default, limit, process, worker, lastBy>>

-----------------------------------------------------------------------------
(***************************************************************************)
(* What happens to the relay                                               *)
(***************************************************************************)

(* The process is killed, or it ends although its shutdown stopped waiting *)
(* for the actuation (join_in_flight): the command goes on.                *)
ProcessEnds ==
  /\ process.at # "down"
  /\ process' = Down /\ worker' = NoActuation
  /\ commands' = {[command EXCEPT !.live = FALSE] : command \in commands}
  /\ UNCHANGED <<bus, default, limit, lastBy>>

(* A driver is loaded again, a card comes or goes. *)
Reenumerate ==
  /\ bus' \in Enumerations \ {bus}
  /\ UNCHANGED <<default, limit, process, worker, commands, lastBy>>

OperatorWrites ==
  \E c \in Cards : \E halves \in OperatorLimits[c] :
    /\ limit' = [limit EXCEPT ![c] = halves]
    /\ lastBy' = [lastBy EXCEPT ![c] = "operator"]
    /\ worker' = IF worker # NoActuation /\ worker.card = c
                 THEN [worker EXCEPT !.raced = TRUE] ELSE worker
    /\ commands' = {[command EXCEPT !.raced = @ \/ command.readFrom = c] : command \in commands}
    /\ UNCHANGED <<bus, default, process>>

Next ==
  \/ Start \/ Resolve \/ SmokeTest
  \/ BeginActuation \/ PlanActuation \/ CommandTakesEffect \/ CommandFails
  \/ ProcessEnds \/ Reenumerate \/ OperatorWrites

Spec == Init /\ [][Next]_vars

-----------------------------------------------------------------------------
(***************************************************************************)
(* Properties                                                              *)
(***************************************************************************)

(* The state stays in its types; one process plans one actuation or waits  *)
(* for one command.                                                        *)
TypeOK ==
  /\ bus \in Enumerations
  /\ process.at \in {"down", "resolving", "running", "testing"}
  /\ process.card \in Cards \cup {NoCard}
  /\ worker # NoActuation => process.at = "running" /\ worker.card = process.card /\ ~LiveCommand
  /\ Cardinality({command \in commands : command.live}) <= 1
  /\ lastBy \in [Cards -> {"operator", "apply", "release"}]

(* The bands, stated once more from docs/safety.md, on the whole watts     *)
(* that a query shows: a foreign cap is a limit more than 2 W below the    *)
(* default and more than 2 W away from half of it, or any limit when the   *)
(* two bands of a small default would overlap.                             *)
NearTarget(watts, dflt) == \E t \in {dflt \div 2} : watts - t \in -2 .. 2
BandsOverlap(dflt) == \E w \in 0 .. dflt : NearTarget(w, dflt) /\ w >= dflt - 2

ForeignCap(c) ==
  LET watts == WattsOf(limit[c])
      dflt == WattsOf(default[c])
  IN BandsOverlap(dflt) \/ (~NearTarget(watts, dflt) /\ watts < dflt - 2)

MovedByRelay(c) == limit'[c] # limit[c] /\ lastBy'[c] # "operator"

(* A cap that somebody else set is only ever overwritten by a command that *)
(* was planned before it was set (the race docs/safety.md admits), and a   *)
(* card too small to tell the caps apart not at all, however late commands *)
(* take effect and however many processes they come from (plan_brake_apply *)
(* and plan_brake_release).                                                *)
ForeignCapPreserved ==
  [][\A c \in Cards : MovedByRelay(c) /\ ForeignCap(c) =>
       /\ ~BandsOverlap(WattsOf(default[c]))
       /\ \E command \in commands \ commands' : command.card = c /\ command.raced]_vars

(* Whatever an actuation leaves behind when its process is gone, or when   *)
(* it was reported as failed after it took effect, the next start can      *)
(* tell: an apply reads back as the relay's own brake, which a release     *)
(* then lifts, a release as an unbraked card (classify_power_limit in      *)
(* seed_startup_brake); otherwise the card stays throttled for ever.       *)
LeftoversAreRecognised ==
  \A c \in Cards :
    LET watts == WattsOf(limit[c])
        dflt == WattsOf(default[c])
    IN /\ lastBy[c] = "apply" => PlanBrakeRelease(watts, dflt) = Plan("set", dflt)
       /\ lastBy[c] = "release" => ClassifyPowerLimit(watts, dflt) = "AtOrAboveDefault"

(* Apply only lowers a limit and release only raises it, a command that    *)
(* was overtaken by an operator aside.                                     *)
CommandsMoveTheRightWay ==
  [][\A c \in Cards : MovedByRelay(c) =>
       \A command \in commands \ commands' : ~command.raced =>
         /\ command.op = "apply" => limit'[c] < limit[c]
         /\ command.op = "release" => limit'[c] > limit[c]]_vars

(* A command moves the card whose limits it was planned from, a whole GPU, *)
(* and no other, however the devices are numbered by then                  *)
(* (GpuTarget::resolve, power_limit_command_args).                         *)
OnlyTargetMoves ==
  [][\A c \in Cards : MovedByRelay(c) =>
       c \in Physical /\ \E command \in commands \ commands' : command.readFrom = c]_vars
===============================================================================
