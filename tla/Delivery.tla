------------------------------- MODULE Delivery -------------------------------
(***************************************************************************)
(* Frames on their way to the consumer across restarts of the relay: the   *)
(* session and the number they are known by (time.rs, publish.rs), the     *)
(* publisher the daemon builds (build_publisher), the queue and its        *)
(* detached worker, a network that delivers a datagram late, twice, out of *)
(* order or never, and a consumer that keeps to the key of docs/ipc.md.    *)
(*                                                                         *)
(* PublishQueue has the inside of the queue, one step per critical         *)
(* section; here publishing is one step that may also end in a counted     *)
(* loss.  Sampling has the delays between capture, receipt and mapping;    *)
(* here a reading has the age it was captured with.                        *)
(***************************************************************************)
EXTENDS Signals, FiniteSets

CONSTANTS
  Pids,      \* process ids, which the system reuses
  Sensed,    \* what the sensors may show and how long before it is assessed:
             \* [sensors : functions from SignalIds, lag : Int]
  Cadence,   \* --step-interval-ms
  Capacity,  \* --sensory-queue-capacity
  FirstTime, \* the clock at the beginning, late enough for every lag
  MaxTime,   \* bound on the clock
  MaxStarts, \* bound on the processes of a behaviour
  MaxFrames  \* bound on the frames of each process

ASSUME DeliveryAssumption ==
  /\ \A s \in Sensed :
       /\ s.lag \in Int /\ s.lag <= FirstTime
       /\ DOMAIN s.sensors = SignalIds
       /\ \A c \in SignalIds : s.sensors[c].is \in {"none", "nan", "number"} /\ s.sensors[c].value \in Int
  /\ Cadence \in Nat /\ Capacity \in 1 .. 4096
  /\ FirstTime \in Nat /\ MaxTime \in Nat /\ MaxStarts \in Nat /\ MaxFrames \in [1 .. MaxStarts -> Nat]

VARIABLES
  acquired,  \* what every acquisition finds, fixed: no batch depends on another's
  wall,      \* the clock of the host
  setBack,   \* history: whether it was ever set back
  started,   \* how many processes have been started
  relay,     \* the process that runs, or NotRunning
  queue,     \* its batches that wait for the worker
  hand,      \* the batch the worker has taken from the queue, at most one
  counted,   \* the frames of each process that a loss counter stands for
  published, \* how many frames each process has handed to its publisher
  wire,      \* every datagram ever sent; the network delivers any of them
  accepted,  \* the datagrams the consumer has taken
  discarded  \* those it has not, because it had seen their key before

process == <<wall, setBack, started, relay>>
outbox == <<queue, hand, counted, published>>
network == <<wire, accepted, discarded>>
vars == <<acquired, process, outbox, network>>

Processes == 1 .. MaxStarts
NotRunning == [up |-> FALSE]

(* --force-software-only, no device, or its sensors as they were a while ago. *)
Acquisitions ==
  {[software |-> FALSE, device |-> TRUE, sensors |-> s.sensors, lag |-> s.lag] : s \in Sensed}
    \cup [software : BOOLEAN, device : {FALSE}, sensors : {Unread}, lag : {0}]

Init ==
  /\ acquired \in Acquisitions
  /\ wall = FirstTime /\ setBack = FALSE
  /\ started = 0 /\ relay = NotRunning
  /\ queue = <<>> /\ hand = <<>>
  /\ counted = [p \in Processes |-> {}]
  /\ published = [p \in Processes |-> 0]
  /\ wire = {} /\ accepted = {} /\ discarded = {}

-----------------------------------------------------------------------------
(***************************************************************************)
(* Processes                                                               *)
(***************************************************************************)

(* Mutant: the process id alone names the session. *)
SessionOfPid(pid, now) == [operator |-> FALSE, pid |-> pid, at |-> 0]

(* generate_session_id.  A process makes one SampleClock, so its           *)
(* discriminator is always zero.                                           *)
GenerateSessionId(pid, now) == [operator |-> FALSE, pid |-> pid, at |-> now]

(* --ipc-session-id *)
OperatorSession == [operator |-> TRUE, pid |-> 0, at |-> 0]

(* run: the sample clock, then the publisher.  It is absent when IPC is    *)
(* disabled, the endpoint does not parse or the socket cannot be bound.    *)
(* Starting a process takes longer than the clock's resolution.            *)
Start ==
  /\ ~relay.up /\ started < MaxStarts /\ wall < MaxTime
  /\ wall' = wall + 1
  /\ started' = started + 1
  /\ \E pid \in Pids, publisher \in {"corpus-ipc", "absent"},
        policy \in {"DropOldest", "RejectNewest"}, operator \in BOOLEAN :
       relay' = [up |-> TRUE, publisher |-> publisher, policy |-> policy, seq |-> 0,
                 clock |-> NewClock, operator |-> operator,
                 session |-> IF operator THEN OperatorSession
                             ELSE GenerateSessionId(pid, wall')]
  /\ UNCHANGED <<acquired, setBack, outbox, network>>

(* main returns, or the process is killed: the worker is detached, and     *)
(* what it has not sent is gone with the counters.                         *)
End ==
  /\ relay.up
  /\ relay' = NotRunning /\ queue' = <<>> /\ hand' = <<>>
  /\ UNCHANGED <<acquired, wall, setBack, started, counted, published, network>>

SetClockBack ==
  \E now \in FirstTime .. MaxTime :
    /\ now < wall
    /\ wall' = now /\ setBack' = TRUE
    /\ UNCHANGED <<acquired, started, relay, outbox, network>>

-----------------------------------------------------------------------------
(***************************************************************************)
(* Publishing                                                              *)
(***************************************************************************)

(* A batch with its history: the process that made it and its place among  *)
(* the frames that process published.                                      *)
Message(batch) == [batch |-> batch, from |-> started, place |-> published[started]]

Count(places) == counted' = [counted EXCEPT ![started] = @ \cup places]

(* Mutant: the oldest frame goes without being counted. *)
EnqueueForgetting(message) ==
  \/ /\ Len(queue) < Capacity
     /\ queue' = Append(queue, message) /\ UNCHANGED counted
  \/ /\ Len(queue) = Capacity
     /\ queue' = Append(Tail(queue), message) /\ UNCHANGED counted

(* try_enqueue *)
TryEnqueue(message) ==
  \/ /\ Len(queue) < Capacity
     /\ queue' = Append(queue, message) /\ UNCHANGED counted
  \/ /\ Len(queue) = Capacity /\ relay.policy = "DropOldest"
     /\ queue' = Append(Tail(queue), message) /\ Count({Head(queue).place})
  \/ /\ Len(queue) = Capacity /\ relay.policy = "RejectNewest"
     /\ Count({message.place}) /\ UNCHANGED queue

(* Validation failed, or the mutex was contended. *)
Loss(message) == Count({message.place}) /\ UNCHANGED queue

(* CorpusIpcPublisher::try_publish.  A session of the operator's comes     *)
(* with a sequence of the publisher's own.                                 *)
TryPublish(mapping) ==
  LET number == IF relay.operator THEN relay.seq ELSE mapping.batch
      message == Message(MappingToStimulusBatch(mapping, relay.session, number))
  IN IF relay.publisher = "absent" THEN Loss(message)
     ELSE TryEnqueue(message) \/ Loss(message)

RawNow == AcquireRaw(acquired.software, acquired.device, acquired.sensors, wall - acquired.lag)

(* A tick, or the reassessment after an actuation: assess_with_clock, then *)
(* try_publish of the mapping.                                             *)
PublishFrame ==
  /\ relay.up /\ relay.clock.next < MaxFrames[started]
  /\ TryPublish(ToSensoryMappingAt(FrameOf(RawNow, wall, Cadence, relay.clock), wall))
  /\ relay' = [relay EXCEPT !.clock = Stamp(@, RawNow.at),
                            !.seq = IF relay.publisher = "corpus-ipc" /\ relay.operator
                                    THEN @ + 1 ELSE @]
  /\ published' = [published EXCEPT ![started] = @ + 1]
  /\ UNCHANGED <<acquired, wall, setBack, started, hand, network>>

(* A tick whose frame a reassessment replaces is stamped and not published. *)
DiscardFrame ==
  /\ relay.up /\ relay.clock.next < MaxFrames[started]
  /\ relay' = [relay EXCEPT !.clock = Stamp(@, RawNow.at)]
  /\ UNCHANGED <<acquired, wall, setBack, started, outbox, network>>

-----------------------------------------------------------------------------
(***************************************************************************)
(* The worker and the network                                              *)
(***************************************************************************)

(* run_udp_worker *)
Take ==
  /\ hand = <<>> /\ queue # <<>>
  /\ hand' = <<Head(queue)>> /\ queue' = Tail(queue)
  /\ UNCHANGED <<acquired, process, counted, published, network>>

(* send_dequeued_message *)
Send ==
  /\ hand # <<>> /\ hand' = <<>>
  /\ wire' = wire \cup {hand[1]}
  /\ UNCHANGED <<acquired, process, queue, counted, published, accepted, discarded>>

SendFails ==
  /\ hand # <<>> /\ hand' = <<>>
  /\ Count({hand[1].place})
  /\ UNCHANGED <<acquired, process, queue, published, network>>

Key(message) == <<message.batch.session, message.batch.batch>>

(* docs/ipc.md: (session_id, batch_id) is the idempotency key.  A datagram *)
(* that is lost is one that is never received.                             *)
Receive ==
  \E message \in wire \ (accepted \cup discarded) :
    /\ IF \E seen \in accepted : Key(seen) = Key(message)
       THEN discarded' = discarded \cup {message} /\ UNCHANGED accepted
       ELSE accepted' = accepted \cup {message} /\ UNCHANGED discarded
    /\ UNCHANGED <<acquired, process, outbox, wire>>

Next ==
  \/ Start \/ End \/ SetClockBack
  \/ PublishFrame \/ DiscardFrame
  \/ Take \/ Send \/ SendFails \/ Receive

Spec == Init /\ [][Next]_vars

-----------------------------------------------------------------------------
(***************************************************************************)
(* Properties                                                              *)
(***************************************************************************)

(* A consumer that discards what it has seen before loses no frame it has  *)
(* not seen: the key names one frame across all processes (SampleClock,    *)
(* generate_session_id).  The exceptions are a session the operator fixed  *)
(* for two processes, and a clock that was set back between two processes  *)
(* of one pid; within a process there is none.                             *)
OnlyReplaysDiscarded ==
  \A lost \in discarded : \E seen \in accepted :
    /\ Key(seen) = Key(lost) /\ seen.from # lost.from
    /\ lost.batch.session.operator \/ setBack

(* What a process publishes is sent or counted, except for its very last   *)
(* frames: no more than the queue and the worker's hand hold, and none     *)
(* older than a frame that was sent (spawn detaches the worker, and        *)
(* nothing joins it).                                                      *)
SentOf(p) == {message.place : message \in {m \in wire : m.from = p}}
Unaccounted(p) == ((0 .. published[p] - 1) \ counted[p]) \ SentOf(p)

SilentLossBounded ==
  \A p \in Processes :
    /\ Cardinality(Unaccounted(p)) <= Capacity + 1
    /\ \A lost \in Unaccounted(p), sent \in SentOf(p) : sent < lost

(* A value on the wire is what a sensor showed: where the mask admits it,  *)
(* the sensor gave a number in its range, younger than its stale limit,    *)
(* and the value is that number's place in the channel's span; a reading   *)
(* like that is never masked, and estimates are only sent as such.  So a   *)
(* zero the consumer may use is a zero that was read (read_nvml, from_raw, *)
(* mapping_to_stimulus_batch).                                             *)
Usable(channel) ==
  /\ acquired.device
  /\ acquired.sensors[channel].is = "number"
  /\ acquired.sensors[channel].value \in SignalSpec[channel].range
  /\ acquired.lag \in 0 .. StaleAfterMs(channel, Cadence) - 1

Honest(batch) ==
  \A i \in DOMAIN batch.values :
    LET channel == RuntimeInputs[i]
        value == batch.values[i]
        read == acquired.sensors[channel].value
        span == SignalSpec[channel].linear[2]
    IN /\ batch.source = "SoftwareFallback" <=> acquired.software
       /\ ~acquired.software =>
            /\ batch.mask[i] <=> Usable(channel)
            /\ batch.mask[i] /\ read <= span => value[1] * span = read * value[2]
            /\ batch.mask[i] /\ read > span => value[1] = value[2]

MaskIsHonest == \A message \in wire : Honest(message.batch)

(* Each process has one outbox after another (run_udp_worker, try_enqueue; *)
(* nothing joins the worker), and no other is left when it starts.         *)
TheOutbox == INSTANCE Outbox WITH
  policy <- IF relay.up THEN relay.policy ELSE "none",
  sent <- {message \in wire : message.from = started},
  lost <- IF started \in Processes THEN Cardinality(counted[started]) ELSE 0

(* So each process is bounded, sends in order and nothing twice, and      *)
(* counts every frame it loses but those it ends with.                     *)
RefinesOutbox == TheOutbox!SpecAcross
===============================================================================
