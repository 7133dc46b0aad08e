----------------------------- MODULE PublishQueue -----------------------------
(***************************************************************************)
(* The bounded queue between the supervisor and the UDP worker             *)
(* (publish.rs).  Producer handles clone, drop and publish; one consumer   *)
(* polls, sends and, when the last handle is gone or it is dropped itself, *)
(* disconnects the queue.  A step is what happens between two moments at   *)
(* which another thread can look: taking the mutex and the body it guards  *)
(* are separate steps, because a publishing thread that finds the mutex    *)
(* held gives up after a bounded spin and counts the loss without it.      *)
(*                                                                         *)
(* A frame is the handle that published it and its sequence number.  No    *)
(* body can panic, so a poisoned mutex is not modelled; counters saturate  *)
(* at 2^64 in the code and are far below it here.                          *)
(***************************************************************************)
EXTENDS Naturals, Sequences, FiniteSets, Functions

CONSTANTS
  Handles,    \* the publisher handles that may ever exist
  First,      \* the handle IsolatedPublishQueue::new returns
  Consumer,   \* SensoryQueueConsumer, owned by the worker thread
  NoOne,      \* the owner of a free mutex
  Capacity,   \* QueueConfig::capacity
  MaxFrames   \* bound on the frames published in a behaviour

ASSUME HandlesAssumption ==
  /\ IsFiniteSet(Handles) /\ First \in Handles
  /\ Consumer \notin Handles
  /\ NoOne \notin Handles \cup {Consumer}
ASSUME CapacityAssumption == Capacity \in Nat \ {0} /\ MaxFrames \in Nat

VARIABLES
  policy,     \* QueueFullPolicy, chosen once
  owner,      \* the thread inside the mutex
  buf, connected, producers, dropped,   \* QueueInner
  lockFree,   \* dropped_lock_free: losses counted without the mutex
  exported,   \* sensory_queue_dropped_total, the Prometheus counter
  seq,        \* session_seq
  op,         \* what each handle is doing; "none" for one that does not exist
  frame,      \* the frame a handle is publishing
  result,     \* what its last try_publish returned
  worker,     \* what the consumer is doing
  hand,       \* the frame the worker has dequeued
  leftover,   \* frames found by Drop whose Prometheus increment is still due
  abandoned,  \* history: the consumer was dropped before poll_worker said Finished
  sent        \* history: frames handed to the socket

inner == <<policy, buf, connected, producers, dropped>>
handles == <<seq, op, frame, result>>
consumer == <<worker, hand, leftover, abandoned, sent>>
vars == <<owner, inner, lockFree, exported, handles, consumer>>

Reasons == {"RejectNewest", "DropOldest", "Disconnected", "SendFailed", "MutexContended"}
Results == {"none", "Ok", "SlowConsumer", "Disconnected", "SendFailed"}
NoFrame == [from |-> NoOne, id |-> 0]
Frames == [from : Handles \cup {NoOne}, id : Nat]

Live(h) == op[h] # "none"

Init ==
  /\ policy \in {"RejectNewest", "DropOldest"}
  /\ owner = NoOne
  /\ buf = <<>> /\ connected = TRUE /\ producers = 1
  /\ dropped = [r \in Reasons |-> 0]
  /\ lockFree = [r \in Reasons |-> 0]
  /\ exported = [r \in Reasons |-> 0]
  /\ seq = 0
  /\ op = [h \in Handles |-> IF h = First THEN "ready" ELSE "none"]
  /\ frame = [h \in Handles |-> NoFrame]
  /\ result = [h \in Handles |-> "none"]
  /\ worker = "polling" /\ hand = NoFrame /\ leftover = 0
  /\ abandoned = FALSE /\ sent = <<>>

(***************************************************************************)
(* The mutex.  Clone, Drop and the consumer wait in lock(); a publishing   *)
(* handle spins on try_lock and may instead give up (Contended).           *)
(***************************************************************************)
Locking == {"offering", "losing", "cloning", "dropping"}

Lock(h) ==
  /\ op[h] \in Locking /\ owner = NoOne
  /\ owner' = h
  /\ UNCHANGED <<inner, lockFree, exported, handles, consumer>>

(* The body of h that ends its call and leaves the mutex. *)
Leave(h, next) == /\ owner = h /\ owner' = NoOne
                  /\ op' = [op EXCEPT ![h] = next]

Return(h, r) == /\ Leave(h, "ready")
                /\ result' = [result EXCEPT ![h] = r]
                /\ frame' = [frame EXCEPT ![h] = NoFrame]
                /\ UNCHANGED seq

(* QueueInner::record_drop: the slot and the Prometheus counter, under the mutex. *)
RecordDrop(r) == /\ dropped' = [dropped EXCEPT ![r] = @ + 1]
                 /\ exported' = [exported EXCEPT ![r] = @ + 1]

(***************************************************************************)
(* A producer handle                                                       *)
(***************************************************************************)

(* CorpusIpcPublisher::try_publish takes the next number, then the batch   *)
(* passes corpus-ipc's validation or is counted as a failed send.          *)
Publish(h) ==
  /\ op[h] = "ready" /\ seq < MaxFrames
  /\ seq' = seq + 1
  /\ frame' = [frame EXCEPT ![h] = [from |-> h, id |-> seq]]
  /\ \E next \in {"offering", "losing"} : op' = [op EXCEPT ![h] = next]
  /\ result' = [result EXCEPT ![h] = "none"]
  /\ UNCHANGED <<owner, inner, lockFree, exported, consumer>>

(* Mutant: the capacity test is off by one. *)
EnqueueOffByOne(h) ==
  /\ op[h] = "offering" /\ connected
  /\ \/ /\ Len(buf) <= Capacity
        /\ buf' = Append(buf, frame[h]) /\ Return(h, "Ok")
        /\ UNCHANGED <<dropped, exported>>
     \/ /\ Len(buf) > Capacity
        /\ RecordDrop("RejectNewest") /\ Return(h, "SlowConsumer")
        /\ UNCHANGED buf
  /\ UNCHANGED <<policy, connected, producers, lockFree, consumer>>

TryEnqueue(h) ==
  /\ op[h] = "offering"
  /\ \/ /\ ~connected
        /\ RecordDrop("Disconnected") /\ Return(h, "Disconnected")
        /\ UNCHANGED buf
     \/ /\ connected /\ Len(buf) < Capacity
        /\ buf' = Append(buf, frame[h]) /\ Return(h, "Ok")
        /\ UNCHANGED <<dropped, exported>>
     \/ /\ connected /\ Len(buf) >= Capacity /\ policy = "RejectNewest"
        /\ RecordDrop("RejectNewest") /\ Return(h, "SlowConsumer")
        /\ UNCHANGED buf
     \/ /\ connected /\ Len(buf) >= Capacity /\ policy = "DropOldest"
        /\ buf' = Append(Tail(buf), frame[h])
        /\ RecordDrop("DropOldest") /\ Return(h, "Ok")
  /\ UNCHANGED <<policy, connected, producers, lockFree, consumer>>

RecordPublishLoss(h) ==
  /\ op[h] = "losing"
  /\ RecordDrop("SendFailed") /\ Return(h, "SendFailed")
  /\ UNCHANGED <<policy, buf, connected, producers, lockFree, consumer>>

(* Mutant: try_publish calls lock() and never gives up. *)
ContendedWaits(h) == UNCHANGED vars

(* 128 spins found the mutex held: the loss goes to the atomic slot of its *)
(* reason, and the Prometheus counter follows in CountExported.            *)
Contended(h) ==
  /\ owner \notin {NoOne, h}
  /\ \E next \in {"MutexContended", "SendFailed"} :
       /\ op[h] = (IF next = "SendFailed" THEN "losing" ELSE "offering")
       /\ lockFree' = [lockFree EXCEPT ![next] = @ + 1]
       /\ op' = [op EXCEPT ![h] = next]
  /\ UNCHANGED <<owner, inner, exported, seq, frame, result, consumer>>

CountExported(h) ==
  /\ op[h] \in Reasons
  /\ exported' = [exported EXCEPT ![op[h]] = @ + 1]
  /\ op' = [op EXCEPT ![h] = "ready"]
  /\ result' = [result EXCEPT ![h] = IF op[h] = "SendFailed" THEN op[h] ELSE "SlowConsumer"]
  /\ frame' = [frame EXCEPT ![h] = NoFrame]
  /\ UNCHANGED <<owner, inner, lockFree, seq, consumer>>

(* Clone and Drop of a handle begin; the bound is that only Handles exist. *)
RoomForAClone == Cardinality({h \in Handles : Live(h)})
                 + Cardinality({h \in Handles : op[h] = "cloning"}) < Cardinality(Handles)

Begin(h) ==
  /\ op[h] = "ready"
  /\ \/ op' = [op EXCEPT ![h] = "dropping"]
     \/ RoomForAClone /\ op' = [op EXCEPT ![h] = "cloning"]
  /\ result' = [result EXCEPT ![h] = "none"]
  /\ UNCHANGED <<owner, inner, lockFree, exported, seq, frame, consumer>>

(* Mutant: a derived Clone that does not count the new handle. *)
CloneUncounted(h) ==
  /\ op[h] = "cloning" /\ owner = h /\ owner' = NoOne
  /\ \E new \in Handles : /\ ~Live(new)
                          /\ op' = [op EXCEPT ![h] = "ready", ![new] = "ready"]
  /\ UNCHANGED <<inner, lockFree, exported, seq, frame, result, consumer>>

Clone(h) ==
  /\ op[h] = "cloning" /\ owner = h /\ owner' = NoOne
  /\ producers' = producers + 1
  /\ \E new \in Handles : /\ ~Live(new)
                          /\ op' = [op EXCEPT ![h] = "ready", ![new] = "ready"]
  /\ UNCHANGED <<policy, buf, connected, dropped, lockFree, exported, seq, frame, result, consumer>>

(* Mutant: no Drop for the handle. *)
DropUncounted(h) ==
  /\ op[h] = "dropping"
  /\ Leave(h, "none")
  /\ UNCHANGED <<inner, lockFree, exported, seq, frame, result, consumer>>

DropHandle(h) ==
  /\ op[h] = "dropping"
  /\ Leave(h, "none")
  /\ producers' = producers - 1
  /\ UNCHANGED <<policy, buf, connected, dropped, lockFree, exported, seq, frame, result, consumer>>

(***************************************************************************)
(* The consumer and its worker                                             *)
(***************************************************************************)
ConsumerLock ==
  /\ worker \in {"polling", "losing", "closing"} /\ owner = NoOne
  /\ owner' = Consumer
  /\ UNCHANGED <<inner, lockFree, exported, handles, consumer>>

ConsumerLeaves == owner = Consumer /\ owner' = NoOne

PollWorker ==
  /\ worker = "polling" /\ ConsumerLeaves
  /\ \/ /\ buf # <<>>
        /\ buf' = Tail(buf) /\ hand' = Head(buf) /\ worker' = "sending"
     \/ /\ buf = <<>> /\ producers = 0
        /\ worker' = "closing" /\ UNCHANGED <<buf, hand>>
     \/ /\ buf = <<>> /\ producers > 0
        /\ UNCHANGED <<buf, hand, worker>>
  /\ UNCHANGED <<policy, connected, producers, dropped, lockFree, exported,
                 handles, leftover, abandoned, sent>>

(* Mutant: a frame whose send failed is queued again. *)
SendRequeuing ==
  /\ worker = "sending" /\ owner = NoOne
  /\ hand' = NoFrame /\ worker' = "polling"
  /\ \/ sent' = Append(sent, hand) /\ UNCHANGED buf
     \/ Len(buf) < Capacity /\ buf' = Append(buf, hand) /\ UNCHANGED sent
  /\ UNCHANGED <<owner, policy, connected, producers, dropped, lockFree, exported,
                 handles, leftover, abandoned>>

(* Serialisation and send_to: the frame leaves, or it is lost. *)
SendDequeuedMessage ==
  /\ worker = "sending"
  /\ hand' = NoFrame
  /\ \/ worker' = "polling" /\ sent' = Append(sent, hand)
     \/ worker' = "losing" /\ UNCHANGED sent
  /\ UNCHANGED <<owner, inner, lockFree, exported, handles, leftover, abandoned>>

RecordLoss ==
  /\ worker = "losing" /\ ConsumerLeaves
  /\ RecordDrop("SendFailed") /\ worker' = "polling"
  /\ UNCHANGED <<policy, buf, connected, producers, lockFree, handles,
                 hand, leftover, abandoned, sent>>

(* Whoever owns the consumer of channel() or new() drops it. *)
Abandon ==
  /\ worker = "polling" /\ owner # Consumer
  /\ worker' = "closing" /\ abandoned' = TRUE
  /\ UNCHANGED <<owner, inner, lockFree, exported, handles, hand, leftover, sent>>

(* Mutants: the buffer is cleared before its length is taken; the leftover *)
(* frames are counted with record_drop and exported once more afterwards.  *)
DropConsumerClearingFirst ==
  /\ worker = "closing" /\ ConsumerLeaves
  /\ connected' = FALSE /\ buf' = <<>> /\ leftover' = 0 /\ worker' = "exporting"
  /\ UNCHANGED <<policy, producers, dropped, lockFree, exported, handles, hand, abandoned, sent>>
DropConsumerExportingTwice ==
  /\ worker = "closing" /\ ConsumerLeaves
  /\ connected' = FALSE /\ buf' = <<>> /\ leftover' = Len(buf) /\ worker' = "exporting"
  /\ dropped' = [dropped EXCEPT !["Disconnected"] = @ + Len(buf)]
  /\ exported' = [exported EXCEPT !["Disconnected"] = @ + Len(buf)]
  /\ UNCHANGED <<policy, producers, lockFree, handles, hand, abandoned, sent>>

(* SensoryQueueConsumer::drop, and the counter it increments after unlocking. *)
DropConsumer ==
  /\ worker = "closing" /\ ConsumerLeaves
  /\ connected' = FALSE
  /\ buf' = <<>> /\ leftover' = Len(buf)
  /\ dropped' = [dropped EXCEPT !["Disconnected"] = @ + Len(buf)]
  /\ worker' = "exporting"
  /\ UNCHANGED <<policy, producers, lockFree, exported, handles, hand, abandoned, sent>>

ExportLeftover ==
  /\ worker = "exporting"
  /\ \/ /\ leftover > 0
        /\ leftover' = leftover - 1
        /\ exported' = [exported EXCEPT !["Disconnected"] = @ + 1]
        /\ UNCHANGED worker
     \/ /\ leftover = 0 /\ worker' = "gone" /\ UNCHANGED <<leftover, exported>>
  /\ UNCHANGED <<owner, inner, lockFree, handles, hand, abandoned, sent>>

HandleStep(h) == \/ Lock(h)
                 \/ TryEnqueue(h) \/ RecordPublishLoss(h)
                 \/ Contended(h) \/ CountExported(h)
                 \/ Clone(h) \/ DropHandle(h)

ConsumerStep == \/ ConsumerLock \/ PollWorker \/ SendDequeuedMessage
                \/ RecordLoss \/ DropConsumer \/ ExportLeftover

Next == \/ \E h \in Handles : HandleStep(h) \/ Publish(h) \/ Begin(h)
        \/ ConsumerStep \/ Abandon

(***************************************************************************)
(* A call that has begun gets to its end: a thread that keeps asking for   *)
(* the mutex gets it when it is free again and again (the worker sleeps a  *)
(* millisecond between idle polls).  Nothing is assumed of the consumer;   *)
(* DrainEnds states what it needs of it.                                   *)
(***************************************************************************)
Fairness == \A h \in Handles : SF_vars(HandleStep(h))

Spec == Init /\ [][Next]_vars /\ Fairness

-----------------------------------------------------------------------------
(***************************************************************************)
(* Properties                                                              *)
(***************************************************************************)

(* The state stays in its types; above all the buffer stays within its     *)
(* capacity and producers is the number of live handles (QueueInner).      *)
TypeOK ==
  /\ policy \in {"RejectNewest", "DropOldest"}
  /\ owner \in Handles \cup {Consumer, NoOne}
  /\ buf \in Seq(Frames) /\ Len(buf) <= Capacity
  /\ connected \in BOOLEAN
  /\ producers = Cardinality({h \in Handles : Live(h)})
  /\ {dropped, lockFree, exported} \subseteq [Reasons -> Nat]
  /\ seq \in 0..MaxFrames
  /\ op \in [Handles -> {"none", "ready"} \cup Locking \cup Reasons]
  /\ frame \in [Handles -> Frames] /\ result \in [Handles -> Results]
  /\ worker \in {"polling", "sending", "losing", "closing", "exporting", "gone"}
  /\ hand \in Frames /\ leftover \in Nat
  /\ abandoned \in BOOLEAN /\ sent \in Seq(Frames)

Total(counts) == counts["RejectNewest"] + counts["DropOldest"] + counts["Disconnected"]
                 + counts["SendFailed"] + counts["MutexContended"]

Publishing == {h \in Handles : op[h] \in {"offering", "losing"}}
InHand == IF worker \in {"sending", "losing"} THEN 1 ELSE 0

(* No frame is lost in silence or counted twice: every number try_publish  *)
(* gave out is on its way into the queue, buffered, in the worker's hands, *)
(* sent, or in exactly one loss counter, whoever races with whom           *)
(* (try_enqueue, record_publish_loss, record_loss and the consumer's Drop).*)
EveryFrameAccounted ==
  seq = Cardinality(Publishing) + Len(buf) + InHand + Len(sent) + Total(dropped) + Total(lockFree)

(* What snapshot() reports of a reason is what Prometheus has been told,   *)
(* but for the increments that follow a lock-free count or the consumer's  *)
(* Drop and are still due (record_lock_free_drop, SensoryQueueConsumer).   *)
CountersAgree ==
  \A r \in Reasons :
    dropped[r] + lockFree[r] = exported[r] + Cardinality({h \in Handles : op[h] = r})
                               + (IF r = "Disconnected" THEN leftover ELSE 0)

(* Frames of one handle leave in the order of their numbers, none twice,   *)
(* whatever was dropped in between; the daemon has one handle, so its      *)
(* batch ids only ever grow on the wire (docs/ipc.md, Wire schema).        *)
Way == sent \o (IF worker = "sending" THEN <<hand>> ELSE <<>>) \o buf
DeliveredInOrder ==
  \A i, j \in DOMAIN Way :
    i < j /\ Way[i].from = Way[j].from => Way[i].id < Way[j].id

(* A worker that ends because poll_worker said Finished leaves nothing     *)
(* behind: no handle that could still publish, no buffered frame, nothing  *)
(* counted as Disconnected (Clone and Drop of the handle against           *)
(* poll_worker).                                                           *)
NothingStranded ==
  worker \in {"closing", "exporting", "gone"} /\ ~abandoned =>
    /\ buf = <<>>
    /\ \A h \in Handles : ~Live(h)
    /\ dropped["Disconnected"] = 0

(* What the two sets of counters stand for, and what the worker has given  *)
(* up on.                                                                  *)
Lost == Total(dropped) + Total(lockFree) + (IF worker = "losing" THEN 1 ELSE 0)

TheOutbox == INSTANCE Outbox WITH
  queue <- buf, hand <- IF worker = "sending" THEN <<hand>> ELSE <<>>,
  sent <- Range(sent), lost <- Lost

(* The queue is the outbox its callers count on, whoever holds the mutex   *)
(* when: a publication takes effect in the step that enqueues the frame or *)
(* counts it, a failed send when the worker gives up on it, before it is   *)
(* counted (try_enqueue, record_publish_loss, poll_worker, record_loss).   *)
RefinesOutbox == TheOutbox!Spec

(* try_publish returns although the consumer may stall for ever, inside    *)
(* the mutex too: nothing of the consumer is needed for it ("never waits", *)
(* try_enqueue and try_lock_with_spin).                                    *)
NeverWaits == \A h \in Handles : Live(h) /\ op[h] \in {"offering", "losing"} ~> op[h] = "ready"

(* Once every handle is being dropped, a worker that gets to run sends or  *)
(* counts what is left and ends (run_udp_worker, poll_worker).             *)
DrainEnds ==
  WF_vars(ConsumerStep) =>
    ((\A h \in Handles : op[h] \in {"dropping", "none"}) ~> worker = "gone")
===============================================================================
