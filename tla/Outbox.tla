-------------------------------- MODULE Outbox --------------------------------
(***************************************************************************)
(* What a publisher promises the loop that calls it (publish.rs): it never *)
(* holds more than its capacity, sends in the order it accepted, sends     *)
(* nothing twice, replaces a frame only under DropOldest, and counts what  *)
(* it loses.  There are no threads, no mutex and no counters by reason     *)
(* here; PublishQueue has them and implements this specification.          *)
(* Delivery implements it too, from one process to the next, so its queue  *)
(* without threads is one that PublishQueue is allowed to be.              *)
(***************************************************************************)
EXTENDS Naturals, Sequences, Functions

CONSTANT Capacity   \* QueueConfig::capacity

VARIABLES
  policy,  \* QueueFullPolicy, "none" while no process runs
  queue,   \* the frames accepted and not yet taken
  hand,    \* the one that is being sent, at most
  sent,    \* the frames the socket took
  lost     \* how many the loss counters stand for

vars == <<policy, queue, hand, sent, lost>>

Policies == {"RejectNewest", "DropOldest"}
Held == Range(queue) \cup Range(hand)

Empty == queue = <<>> /\ hand = <<>> /\ sent = {} /\ lost = 0

Init == policy \in Policies /\ Empty

(* A new frame that finds room. *)
Accept ==
  /\ Len(queue) < Capacity
  /\ \E message \in Range(queue') \ (Held \cup sent) : queue' = Append(queue, message)
  /\ UNCHANGED <<policy, hand, sent, lost>>

(* A new frame that takes the place of the oldest. *)
Replace ==
  /\ Len(queue) = Capacity /\ policy = "DropOldest"
  /\ \E message \in Range(queue') \ (Held \cup sent) : queue' = Append(Tail(queue), message)
  /\ lost' = lost + 1
  /\ UNCHANGED <<policy, hand, sent>>

(* A new frame that is turned away: the queue is full, its mutex is held,  *)
(* the consumer is gone, or the batch does not pass validation.            *)
Refuse ==
  /\ lost' = lost + 1
  /\ UNCHANGED <<policy, queue, hand, sent>>

Take ==
  /\ hand = <<>> /\ queue # <<>>
  /\ hand' = <<Head(queue)>> /\ queue' = Tail(queue)
  /\ UNCHANGED <<policy, sent, lost>>

Send ==
  /\ hand # <<>> /\ hand[1] \notin sent
  /\ hand' = <<>> /\ sent' = sent \cup {hand[1]}
  /\ UNCHANGED <<policy, queue, lost>>

SendFails ==
  /\ hand # <<>> /\ hand' = <<>>
  /\ lost' = lost + 1
  /\ UNCHANGED <<policy, queue, sent>>

(* The consumer is dropped: what was queued is counted, all of it. *)
Flush ==
  /\ queue # <<>> /\ queue' = <<>>
  /\ lost' = lost + Len(queue)
  /\ UNCHANGED <<policy, hand, sent>>

Next == Accept \/ Replace \/ Refuse \/ Take \/ Send \/ SendFails \/ Flush

Spec == Init /\ [][Next]_vars

(***************************************************************************)
(* The outboxes of one process after another: one that ends takes with it  *)
(* what it has not sent, uncounted, and the next one starts empty.         *)
(***************************************************************************)
End ==
  /\ policy' = "none" /\ queue' = <<>> /\ hand' = <<>>
  /\ UNCHANGED <<sent, lost>>

Restart == policy = "none" /\ policy' \in Policies /\ Empty'

InitAcross == policy = "none" /\ Empty

SpecAcross == InitAcross /\ [][Next \/ End \/ Restart]_vars
===============================================================================
