-------------------------- MODULE PublishQueueProofs --------------------------
(***************************************************************************)
(* Proofs about PublishQueue, for every number of handles, every capacity  *)
(* and every number of frames.                                             *)
(*                                                                         *)
(* Types and the discipline of the mutex come first.  The two laws about   *)
(* counting then follow from how each step moves one frame, and the order  *)
(* on the wire and the end of the drain from what they relate.  With these *)
(* invariants every step is a step of Outbox, or none that it sees.        *)
(***************************************************************************)
EXTENDS PublishQueue, FiniteSetTheorems, SequenceTheorems, TLAPS

(***************************************************************************)
(* Types                                                                   *)
(***************************************************************************)

(* TypeOK but for the count of the handles. *)
Queue ==
  /\ policy \in {"RejectNewest", "DropOldest"}
  /\ buf \in Seq(Frames) /\ Len(buf) <= Capacity
  /\ connected \in BOOLEAN
Counters ==
  /\ dropped \in [Reasons -> Nat]
  /\ lockFree \in [Reasons -> Nat]
  /\ exported \in [Reasons -> Nat]
Calls ==
  /\ owner \in Handles \cup {Consumer, NoOne}
  /\ seq \in 0..MaxFrames
  /\ op \in [Handles -> {"none", "ready"} \cup Locking \cup Reasons]
  /\ frame \in [Handles -> Frames] /\ result \in [Handles -> Results]
Worker ==
  /\ worker \in {"polling", "sending", "losing", "closing", "exporting", "gone"}
  /\ hand \in Frames /\ leftover \in Nat
  /\ abandoned \in BOOLEAN /\ sent \in Seq(Frames)
Shape == Queue /\ Counters /\ Calls /\ Worker

LEMMA NoFrameIsAFrame == NoFrame \in Frames
  BY DEF NoFrame, Frames

LEMMA QueueStep ==
  ASSUME Shape, [Next]_vars
  PROVE  Queue'
  <1> USE DEF Shape, Queue
  <1>1. ASSUME NEW h \in Handles, TryEnqueue(h) PROVE Queue'
    <2>1. frame[h] \in Frames /\ Capacity \in Nat \ {0}
      BY CapacityAssumption DEF Calls
    <2>2. buf' = buf \/ (Len(buf) < Capacity /\ buf' = Append(buf, frame[h]))
            \/ (Len(buf) >= Capacity /\ buf' = Append(Tail(buf), frame[h]))
      BY <1>1 DEF TryEnqueue
    <2>3. buf' \in Seq(Frames) /\ Len(buf') <= Capacity
      BY <2>1, <2>2
    <2>4. QED
      BY <1>1, <2>3 DEF TryEnqueue
  <1>2. ASSUME NEW h \in Handles, HandleStep(h) \/ Publish(h) \/ Begin(h), ~TryEnqueue(h)
        PROVE  Queue'
    BY <1>2 DEF HandleStep, Lock, RecordPublishLoss, Contended, CountExported, Clone, DropHandle,
                Publish, Begin, inner
  <1>3. ASSUME ConsumerStep \/ Abandon PROVE Queue'
    <2>1. buf' = buf \/ buf' = <<>> \/ (buf # <<>> /\ buf' = Tail(buf))
      BY <1>3 DEF ConsumerStep, ConsumerLock, PollWorker, SendDequeuedMessage, RecordLoss,
                  DropConsumer, ExportLeftover, Abandon, inner
    <2>2. buf' \in Seq(Frames) /\ Len(buf') <= Capacity
      <3>1. CASE buf' = <<>>
        BY <3>1, CapacityAssumption
      <3>2. CASE buf # <<>> /\ buf' = Tail(buf)
        BY <3>2, HeadTailProperties, CapacityAssumption
      <3>3. QED
        BY <2>1, <3>1, <3>2
    <2>3. policy' = policy /\ connected' \in BOOLEAN
      BY <1>3 DEF ConsumerStep, ConsumerLock, PollWorker, SendDequeuedMessage, RecordLoss,
                  DropConsumer, ExportLeftover, Abandon, inner
    <2>4. QED
      BY <2>2, <2>3
  <1>4. ASSUME UNCHANGED vars PROVE Queue'
    BY <1>4 DEF vars, inner
  <1>5. QED
    BY <1>1, <1>2, <1>3, <1>4 DEF Next, HandleStep

LEMMA RecordDropTypes ==
  ASSUME Counters, NEW r \in Reasons, RecordDrop(r)
  PROVE  dropped' \in [Reasons -> Nat] /\ exported' \in [Reasons -> Nat]
  BY DEF Counters, RecordDrop

LEMMA CountersStep ==
  ASSUME Shape, [Next]_vars
  PROVE  Counters'
  <1> USE DEF Shape, Counters
  <1>0. {"RejectNewest", "DropOldest", "Disconnected", "SendFailed", "MutexContended"} = Reasons
    BY DEF Reasons
  <1>1. ASSUME NEW h \in Handles, TryEnqueue(h) \/ RecordPublishLoss(h) PROVE Counters'
    <2>1. lockFree' = lockFree
      BY <1>1 DEF TryEnqueue, RecordPublishLoss
    <2>2. \/ dropped' = dropped /\ exported' = exported
          \/ \E r \in Reasons : RecordDrop(r)
      BY <1>0, <1>1 DEF TryEnqueue, RecordPublishLoss
    <2>3. QED
      BY <2>1, <2>2, RecordDropTypes
  <1>2. ASSUME NEW h \in Handles, Contended(h) PROVE Counters'
    <2>1. \E r \in Reasons : lockFree' = [lockFree EXCEPT ![r] = @ + 1]
      BY <1>0, <1>2 DEF Contended
    <2>2. dropped' = dropped /\ exported' = exported
      BY <1>2 DEF Contended, inner
    <2>3. QED
      BY <2>1, <2>2
  <1>3. ASSUME NEW h \in Handles, CountExported(h) PROVE Counters'
    BY <1>3 DEF CountExported, inner
  <1>4. ASSUME NEW h \in Handles, Lock(h) \/ Clone(h) \/ DropHandle(h) \/ Publish(h) \/ Begin(h)
        PROVE  Counters'
    BY <1>4 DEF Lock, Clone, DropHandle, Publish, Begin, inner
  <1>5. CASE RecordLoss
    BY <1>0, <1>5, RecordDropTypes DEF RecordLoss
  <1>6. CASE DropConsumer
    <2>1. Len(buf) \in Nat /\ "Disconnected" \in Reasons
      BY <1>0 DEF Queue
    <2>2. dropped' = [dropped EXCEPT !["Disconnected"] = @ + Len(buf)]
      BY <1>6 DEF DropConsumer
    <2>3. dropped' \in [Reasons -> Nat]
      BY <2>1, <2>2
    <2>4. QED
      BY <1>6, <2>3 DEF DropConsumer
  <1>7. CASE ExportLeftover
    <2>1. dropped' = dropped /\ lockFree' = lockFree
      BY <1>7 DEF ExportLeftover, inner
    <2>2. exported' = exported \/ exported' = [exported EXCEPT !["Disconnected"] = @ + 1]
      BY <1>7 DEF ExportLeftover
    <2>3. QED
      BY <1>0, <2>1, <2>2
  <1>8. CASE ConsumerLock \/ PollWorker \/ SendDequeuedMessage \/ Abandon
    BY <1>8 DEF ConsumerLock, PollWorker, SendDequeuedMessage, Abandon, inner
  <1>9. CASE UNCHANGED vars
    BY <1>9 DEF vars, inner
  <1>10. QED
    BY <1>1, <1>2, <1>3, <1>4, <1>5, <1>6, <1>7, <1>8, <1>9 DEF Next, HandleStep, ConsumerStep

LEMMA CallsStep ==
  ASSUME Shape, [Next]_vars
  PROVE  Calls'
  <1> USE DEF Shape, Calls, Locking, Reasons, Results
  <1>1. ASSUME NEW h \in Handles, HandleStep(h) \/ Begin(h) PROVE Calls'
    BY <1>1, NoFrameIsAFrame
       DEF HandleStep, Lock, TryEnqueue, RecordPublishLoss, Contended, CountExported, Clone,
           DropHandle, Begin, handles, Leave, Return
  <1>2. ASSUME NEW h \in Handles, Publish(h) PROVE Calls'
    <2>1. [from |-> h, id |-> seq] \in Frames
      BY CapacityAssumption DEF Frames
    <2>2. seq + 1 \in 0..MaxFrames
      BY <1>2, CapacityAssumption DEF Publish
    <2>3. QED
      BY <1>2, <2>1, <2>2 DEF Publish
  <1>3. ASSUME ConsumerStep \/ Abandon PROVE Calls'
    BY <1>3 DEF ConsumerStep, ConsumerLock, PollWorker, SendDequeuedMessage, RecordLoss,
                DropConsumer, ExportLeftover, Abandon, handles, ConsumerLeaves
  <1>4. ASSUME UNCHANGED vars PROVE Calls'
    BY <1>4 DEF vars, handles
  <1>5. QED
    BY <1>1, <1>2, <1>3, <1>4 DEF Next

LEMMA WorkerStep ==
  ASSUME Shape, [Next]_vars
  PROVE  Worker'
  <1> USE DEF Shape, Worker
  <1>1. ASSUME NEW h \in Handles, HandleStep(h) \/ Publish(h) \/ Begin(h) PROVE Worker'
    BY <1>1 DEF HandleStep, Lock, TryEnqueue, RecordPublishLoss, Contended, CountExported, Clone,
                DropHandle, Publish, Begin, consumer
  <1>2. ASSUME ConsumerStep \/ Abandon PROVE Worker'
    <2>1. CASE PollWorker
      <3>1. buf # <<>> => Head(buf) \in Frames
        BY DEF Queue
      <3>2. QED
        BY <2>1, <3>1 DEF PollWorker
    <2>2. CASE SendDequeuedMessage
      BY <2>2, NoFrameIsAFrame DEF SendDequeuedMessage
    <2>3. CASE DropConsumer
      <3>1. leftover' \in Nat
        BY <2>3 DEF DropConsumer, Queue
      <3>2. QED
        BY <2>3, <3>1 DEF DropConsumer
    <2>4. CASE ExportLeftover
      <3>1. leftover' \in Nat
        BY <2>4 DEF ExportLeftover
      <3>2. QED
        BY <2>4, <3>1 DEF ExportLeftover
    <2>5. CASE ConsumerLock \/ RecordLoss \/ Abandon
      BY <2>5 DEF ConsumerLock, RecordLoss, Abandon, consumer
    <2>6. QED
      BY <1>2, <2>1, <2>2, <2>3, <2>4, <2>5 DEF ConsumerStep
  <1>3. ASSUME UNCHANGED vars PROVE Worker'
    BY <1>3 DEF vars, consumer
  <1>4. QED
    BY <1>1, <1>2, <1>3 DEF Next

-----------------------------------------------------------------------------
(***************************************************************************)
(* Counting handles and losses                                             *)
(***************************************************************************)
States == {"none", "ready"} \cup Locking \cup Reasons

(* The handles that are at one of some points of their calls. *)
At(o, S) == {h \in Handles : o[h] \in S}

LEMMA AtIsFinite ==
  ASSUME NEW o, NEW S
  PROVE  IsFiniteSet(At(o, S)) /\ Cardinality(At(o, S)) \in Nat
  BY HandlesAssumption, FS_Subset, FS_CardinalityType DEF At

(* One handle moves on: it is counted where it goes and no longer where it *)
(* was.                                                                    *)
LEMMA OneMoves ==
  ASSUME NEW o \in [Handles -> States], NEW h \in Handles, NEW next \in States,
         NEW moved, moved = [o EXCEPT ![h] = next], NEW S
  PROVE  /\ next \in S /\ o[h] \notin S => Cardinality(At(moved, S)) = Cardinality(At(o, S)) + 1
         /\ next \notin S /\ o[h] \in S => Cardinality(At(moved, S)) = Cardinality(At(o, S)) - 1
         /\ (next \in S <=> o[h] \in S) => Cardinality(At(moved, S)) = Cardinality(At(o, S))
  <1> DEFINE before == At(o, S)
             after == At(moved, S)
  <1>1. IsFiniteSet(before) /\ Cardinality(before) \in Nat
    BY AtIsFinite
  <1>2. ASSUME next \in S /\ o[h] \notin S PROVE Cardinality(after) = Cardinality(before) + 1
    <2>1. after = before \cup {h} /\ h \notin before
      BY <1>2 DEF At
    <2>2. QED
      BY <1>1, <2>1, FS_AddElement
  <1>3. ASSUME next \notin S /\ o[h] \in S PROVE Cardinality(after) = Cardinality(before) - 1
    <2>1. after = before \ {h} /\ h \in before
      BY <1>3 DEF At
    <2>2. QED
      BY <1>1, <2>1, FS_RemoveElement
  <1>4. ASSUME next \in S <=> o[h] \in S PROVE Cardinality(after) = Cardinality(before)
    <2>1. after = before
      BY <1>4 DEF At
    <2>2. QED
      BY <2>1
  <1> HIDE DEF before, after
  <1>5. QED
    BY <1>2, <1>3, <1>4 DEF before, after

LEMMA TotalUpdate ==
  ASSUME NEW f \in [Reasons -> Nat], NEW r \in Reasons, NEW n \in Nat
  PROVE  Total(f) \in Nat /\ Total([f EXCEPT ![r] = @ + n]) = Total(f) + n
  <1>1. /\ f["RejectNewest"] \in Nat /\ f["DropOldest"] \in Nat /\ f["Disconnected"] \in Nat
        /\ f["SendFailed"] \in Nat /\ f["MutexContended"] \in Nat
    BY DEF Reasons
  <1>2. \/ r = "RejectNewest" \/ r = "DropOldest" \/ r = "Disconnected"
        \/ r = "SendFailed" \/ r = "MutexContended"
    BY DEF Reasons
  <1> DEFINE g == [f EXCEPT ![r] = @ + n]
  <1>3. \A q \in Reasons : g[q] = IF q = r THEN f[q] + n ELSE f[q]
    OBVIOUS
  <1>4. /\ g["RejectNewest"] = IF "RejectNewest" = r THEN f["RejectNewest"] + n ELSE f["RejectNewest"]
        /\ g["DropOldest"] = IF "DropOldest" = r THEN f["DropOldest"] + n ELSE f["DropOldest"]
        /\ g["Disconnected"] = IF "Disconnected" = r THEN f["Disconnected"] + n ELSE f["Disconnected"]
        /\ g["SendFailed"] = IF "SendFailed" = r THEN f["SendFailed"] + n ELSE f["SendFailed"]
        /\ g["MutexContended"] = IF "MutexContended" = r THEN f["MutexContended"] + n ELSE f["MutexContended"]
    BY <1>3 DEF Reasons
  <1> HIDE DEF g
  <1>5. Total(g) = Total(f) + n
    BY <1>1, <1>2, <1>4 DEF Total
  <1>6. QED
    BY <1>1, <1>5 DEF Total, g

LEMMA RecordDropCounts ==
  ASSUME Counters, NEW r \in Reasons, RecordDrop(r)
  PROVE  Total(dropped') = Total(dropped) + 1
  BY TotalUpdate DEF Counters, RecordDrop

(* The clone and the handle it was made from go on together. *)
LEMMA CloneMoves ==
  ASSUME Shape, NEW h \in Handles, Clone(h), NEW S, "none" \notin S
  PROVE  /\ "ready" \in S /\ "cloning" \in S => Cardinality(At(op', S)) = Cardinality(At(op, S)) + 1
         /\ "ready" \notin S /\ "cloning" \notin S => Cardinality(At(op', S)) = Cardinality(At(op, S))
  <1>1. op \in [Handles -> States] /\ op[h] = "cloning" /\ "ready" \in States
    BY DEF Shape, Calls, States, Clone
  <1>2. PICK new \in Handles : /\ ~Live(new)
                               /\ op' = [op EXCEPT ![h] = "ready", ![new] = "ready"]
    BY DEF Clone
  <1> DEFINE first == [op EXCEPT ![h] = "ready"]
  <1>3. first \in [Handles -> States] /\ op' = [first EXCEPT ![new] = "ready"]
    BY <1>1, <1>2
  <1>4. first[new] = "none"
    BY <1>1, <1>2 DEF Live
  <1>5. ("ready" \in S <=> "cloning" \in S) => Cardinality(At(first, S)) = Cardinality(At(op, S))
    <2>1. ("ready" \in S <=> op[h] \in S) => Cardinality(At(first, S)) = Cardinality(At(op, S))
      BY <1>1, OneMoves DEF At
    <2>2. QED
      BY <1>1, <2>1
  <1> HIDE DEF first
  <1>6. /\ "ready" \in S => Cardinality(At(op', S)) = Cardinality(At(first, S)) + 1
        /\ "ready" \notin S => Cardinality(At(op', S)) = Cardinality(At(first, S))
    <2>1. first[new] \notin S
      BY <1>4
    <2>2. QED
      BY <1>1, <1>3, <2>1, OneMoves DEF At
  <1>7. QED
    BY <1>5, <1>6

(* producers is the number of handles that exist. *)
HandleCount == producers = Cardinality(At(op, States \ {"none"}))

LEMMA HandleCountStep ==
  ASSUME Shape, HandleCount, [Next]_vars
  PROVE  HandleCount'
  <1> DEFINE L == States \ {"none"}
  <1>0. /\ op \in [Handles -> States]
        /\ Cardinality(At(op, L)) \in Nat
        /\ producers = Cardinality(At(op, L))
        /\ {"ready", "none", "cloning", "dropping", "offering", "losing"} \subseteq States
    BY AtIsFinite DEF HandleCount, Shape, Calls, States, Locking
  <1>1. ASSUME NEW h \in Handles, NEW next \in L, op[h] \in L, op' = [op EXCEPT ![h] = next],
               producers' = producers
        PROVE  HandleCount'
    <2>1. next \in States
      OBVIOUS
    <2> HIDE DEF L
    <2>2. Cardinality(At(op', L)) = Cardinality(At(op, L))
      BY <1>0, <1>1, <2>1, OneMoves DEF At
    <2>3. QED
      BY <1>0, <1>1, <2>2 DEF HandleCount, L
  <1>2. ASSUME NEW h \in Handles, TryEnqueue(h) \/ RecordPublishLoss(h) \/ Contended(h)
                 \/ CountExported(h) \/ Publish(h) \/ Begin(h)
        PROVE  HandleCount'
    <2>1. producers' = producers
      BY <1>2 DEF TryEnqueue, RecordPublishLoss, Contended, CountExported, Publish, Begin, inner
    <2>2. op[h] \in L
      BY <1>0, <1>2 DEF TryEnqueue, RecordPublishLoss, Contended, CountExported, Publish, Begin, Reasons
    <2>3. \E next \in L : op' = [op EXCEPT ![h] = next]
      BY <1>0, <1>2 DEF TryEnqueue, RecordPublishLoss, Contended, CountExported, Publish, Begin,
                        Return, Leave, States, Reasons
    <2>4. QED
      BY <1>1, <2>1, <2>2, <2>3
  <1>3. ASSUME NEW h \in Handles, Clone(h) PROVE HandleCount'
    <2>1. "ready" \in L /\ "cloning" \in L /\ "none" \notin L
      BY <1>0
    <2>2. Cardinality(At(op', L)) = Cardinality(At(op, L)) + 1
      BY <1>3, <2>1, CloneMoves
    <2>3. producers' = producers + 1
      BY <1>3 DEF Clone
    <2>4. QED
      BY <1>0, <2>2, <2>3 DEF HandleCount
  <1>4. ASSUME NEW h \in Handles, DropHandle(h) PROVE HandleCount'
    <2>1. op[h] \in L /\ op' = [op EXCEPT ![h] = "none"] /\ producers' = producers - 1
      BY <1>0, <1>4 DEF DropHandle, Leave
    <2>2. Cardinality(At(op', L)) = Cardinality(At(op, L)) - 1
      <3>1. "none" \notin L /\ "none" \in States
        BY <1>0
      <3> HIDE DEF L
      <3>2. QED
        BY <1>0, <2>1, <3>1, OneMoves DEF At
    <2>3. QED
      BY <1>0, <2>1, <2>2 DEF HandleCount
  <1>5. ASSUME producers' = producers, op' = op PROVE HandleCount'
    BY <1>5 DEF HandleCount
  <1>6. ASSUME NEW h \in Handles, Lock(h) PROVE HandleCount'
    BY <1>5, <1>6 DEF Lock, inner, handles
  <1>7. ASSUME ConsumerStep \/ Abandon \/ UNCHANGED vars PROVE HandleCount'
    <2>1. producers' = producers /\ op' = op
      BY <1>7 DEF ConsumerStep, ConsumerLock, PollWorker, SendDequeuedMessage, RecordLoss,
                  DropConsumer, ExportLeftover, Abandon, vars, inner, handles
    <2>2. QED
      BY <1>5, <2>1
  <1>8. QED
    BY <1>2, <1>3, <1>4, <1>6, <1>7 DEF Next, HandleStep

-----------------------------------------------------------------------------
(***************************************************************************)
(* Every frame is somewhere                                                *)
(***************************************************************************)
Offering == {"offering", "losing"}

LEMMA PublishingIsAt == Publishing = At(op, Offering)
  BY DEF Publishing, At, Offering

LEMMA OfferingStates ==
  /\ Offering \subseteq States /\ {"ready", "none"} \cup Reasons \subseteq States \ Offering
  /\ "cloning" \notin Offering /\ "dropping" \notin Offering
  BY DEF Offering, States, Locking, Reasons

(* What a handle leaves behind when its publication is over. *)
LEMMA OneLessOffering ==
  ASSUME Shape, NEW h \in Handles, NEW next \in States \ Offering, op[h] \in Offering,
         op' = [op EXCEPT ![h] = next]
  PROVE  Cardinality(At(op', Offering)) = Cardinality(At(op, Offering)) - 1
  <1>1. op \in [Handles -> States] /\ next \in States /\ next \notin Offering
    BY DEF Shape, Calls, States
  <1>2. Cardinality(At(op, Offering)) \in Nat
    BY AtIsFinite
  <1>3. ASSUME NEW moved, moved = [op EXCEPT ![h] = next]
        PROVE  Cardinality(At(moved, Offering)) = Cardinality(At(op, Offering)) - 1
    BY <1>1, <1>3, OneMoves DEF At
  <1>4. QED
    BY <1>3

LEMMA OfferingUnmoved ==
  ASSUME Shape, NEW h \in Handles, NEW next \in States \ Offering, op[h] \notin Offering,
         op' = [op EXCEPT ![h] = next]
  PROVE  Cardinality(At(op', Offering)) = Cardinality(At(op, Offering))
  <1>1. op \in [Handles -> States]
    BY DEF Shape, Calls, States
  <1>2. QED
    BY <1>1, OneMoves DEF At

LEMMA AccountsStep ==
  ASSUME Shape, EveryFrameAccounted, [Next]_vars
  PROVE  EveryFrameAccounted'
  <1> DEFINE a == Cardinality(At(op, Offering))
             b == Len(buf)
             c == InHand
             d == Len(sent)
             e == Total(dropped)
             f == Total(lockFree)
  <1>1. /\ a \in Nat /\ b \in Nat /\ c \in Nat /\ d \in Nat /\ e \in Nat /\ f \in Nat /\ seq \in Nat
    <2>1. a \in Nat
      BY AtIsFinite
    <2>2. b \in Nat /\ d \in Nat
      BY DEF Shape, Queue, Worker
    <2>3. c \in Nat
      BY DEF InHand
    <2>4. e \in Nat /\ f \in Nat
      <3>1. \A g \in [Reasons -> Nat] : Total(g) \in Nat
        BY DEF Total, Reasons
      <3>2. QED
        BY <3>1 DEF Shape, Counters
    <2>5. seq \in Nat
      BY CapacityAssumption DEF Shape, Calls
    <2>6. QED
      BY <2>1, <2>2, <2>3, <2>4, <2>5
  <1>2. /\ EveryFrameAccounted <=> seq = a + b + c + d + e + f
        /\ EveryFrameAccounted' <=> seq' = a' + b' + c' + d' + e' + f'
    BY PublishingIsAt DEF EveryFrameAccounted, Publishing, At, Offering
  <1>3. "SendFailed" \in Reasons /\ "RejectNewest" \in Reasons /\ "DropOldest" \in Reasons
        /\ "Disconnected" \in Reasons /\ "MutexContended" \in Reasons
    BY DEF Reasons
  <1>4. ASSUME NEW h \in Handles, Publish(h) PROVE EveryFrameAccounted'
    <2>1. b' = b /\ c' = c /\ d' = d /\ e' = e /\ f' = f /\ seq' = seq + 1
      BY <1>4 DEF Publish, inner, consumer, InHand
    <2>2. a' = a + 1
      <3>1. op \in [Handles -> States] /\ op[h] \notin Offering
        BY <1>4 DEF Shape, Calls, States, Publish, Offering
      <3>2. PICK next \in Offering : op' = [op EXCEPT ![h] = next]
        BY <1>4 DEF Publish, Offering
      <3>3. QED
        BY <3>1, <3>2, OfferingStates, OneMoves DEF At
    <2> HIDE DEF a, b, c, d, e, f
    <2>3. QED
      BY <1>1, <1>2, <2>1, <2>2
  <1>5. ASSUME NEW h \in Handles, TryEnqueue(h) PROVE EveryFrameAccounted'
    <2>1. a' = a - 1
      <3>1. op[h] \in Offering /\ op' = [op EXCEPT ![h] = "ready"]
        BY <1>5 DEF TryEnqueue, Return, Leave, Offering
      <3>2. QED
        BY <3>1, OfferingStates, OneLessOffering
    <2>2. c' = c /\ d' = d /\ f' = f /\ seq' = seq
      BY <1>5 DEF TryEnqueue, Return, consumer, InHand
    <2>3. frame[h] \in Frames /\ buf \in Seq(Frames) /\ Capacity \in Nat \ {0}
      BY CapacityAssumption DEF Shape, Calls, Queue
    <2>4. CASE buf' = Append(buf, frame[h]) /\ dropped' = dropped
      <3>1. b' = b + 1 /\ e' = e
        BY <2>3, <2>4
      <3> HIDE DEF a, b, c, d, e, f
      <3>2. QED
        BY <1>1, <1>2, <2>1, <2>2, <3>1
    <2>5. CASE buf' = buf /\ \E r \in Reasons : RecordDrop(r)
      <3>1. b' = b
        BY <2>5
      <3>2. e' = e + 1
        BY <2>5, RecordDropCounts DEF Shape
      <3> HIDE DEF a, b, c, d, e, f
      <3>3. QED
        BY <1>1, <1>2, <2>1, <2>2, <3>1, <3>2
    <2>6. CASE /\ Len(buf) >= Capacity /\ buf' = Append(Tail(buf), frame[h])
               /\ \E r \in Reasons : RecordDrop(r)
      <3>1. b' = b
        BY <2>3, <2>6
      <3>2. e' = e + 1
        BY <2>6, RecordDropCounts DEF Shape
      <3> HIDE DEF a, b, c, d, e, f
      <3>3. QED
        BY <1>1, <1>2, <2>1, <2>2, <3>1, <3>2
    <2>7. QED
      BY <1>3, <1>5, <2>4, <2>5, <2>6 DEF TryEnqueue
  <1>6. ASSUME NEW h \in Handles, RecordPublishLoss(h) PROVE EveryFrameAccounted'
    <2>1. a' = a - 1
      <3>1. op[h] \in Offering /\ op' = [op EXCEPT ![h] = "ready"]
        BY <1>6 DEF RecordPublishLoss, Return, Leave, Offering
      <3>2. QED
        BY <3>1, OfferingStates, OneLessOffering
    <2>2. b' = b /\ c' = c /\ d' = d /\ f' = f /\ seq' = seq
      BY <1>6 DEF RecordPublishLoss, Return, consumer, InHand
    <2>3. e' = e + 1
      BY <1>3, <1>6, RecordDropCounts DEF Shape, RecordPublishLoss
    <2> HIDE DEF a, b, c, d, e, f
    <2>4. QED
      BY <1>1, <1>2, <2>1, <2>2, <2>3
  <1>7. ASSUME NEW h \in Handles, Contended(h) PROVE EveryFrameAccounted'
    <2>1. PICK next \in Reasons : /\ op[h] \in Offering /\ op' = [op EXCEPT ![h] = next]
                                  /\ lockFree' = [lockFree EXCEPT ![next] = @ + 1]
      BY <1>3, <1>7 DEF Contended, Offering
    <2>2. a' = a - 1
      BY <2>1, OfferingStates, OneLessOffering
    <2>3. b' = b /\ c' = c /\ d' = d /\ e' = e /\ seq' = seq
      BY <1>7 DEF Contended, inner, consumer, InHand
    <2>4. f' = f + 1
      BY <2>1, TotalUpdate DEF Shape, Counters
    <2> HIDE DEF a, b, c, d, e, f
    <2>5. QED
      BY <1>1, <1>2, <2>2, <2>3, <2>4
  <1>8. ASSUME a' = a, b' = b, c' = c, d' = d, e' = e, f' = f, seq' = seq PROVE EveryFrameAccounted'
    BY <1>2, <1>8
  <1>9. ASSUME NEW h \in Handles,
               Lock(h) \/ CountExported(h) \/ Clone(h) \/ DropHandle(h) \/ Begin(h)
        PROVE  EveryFrameAccounted'
    <2>1. b' = b /\ c' = c /\ d' = d /\ e' = e /\ f' = f /\ seq' = seq
      BY <1>9 DEF Lock, CountExported, Clone, DropHandle, Begin, inner, handles, consumer, InHand
    <2>2. CASE Lock(h)
      BY <1>8, <2>1, <2>2 DEF Lock, handles
    <2>3. CASE Clone(h)
      BY <1>8, <2>1, <2>3, OfferingStates, CloneMoves
    <2>4. CASE CountExported(h) \/ DropHandle(h) \/ Begin(h)
      <3>1. op[h] \notin Offering /\ \E next \in States \ Offering : op' = [op EXCEPT ![h] = next]
        BY <2>4, OfferingStates
           DEF CountExported, DropHandle, Begin, Leave, Offering, Reasons, States, Locking
      <3>2. a' = a
        BY <3>1, OfferingUnmoved
      <3>3. QED
        BY <1>8, <2>1, <3>2
    <2>5. QED
      BY <1>9, <2>2, <2>3, <2>4
  <1>10. ASSUME op' = op PROVE a' = a
    BY <1>10
  <1>11. CASE PollWorker
    <2>1. op' = op /\ d' = d /\ e' = e /\ f' = f /\ seq' = seq
      BY <1>11 DEF PollWorker, handles
    <2>2. CASE buf # <<>> /\ buf' = Tail(buf) /\ worker' = "sending"
      <3>1. b' = b - 1
        BY <2>2, HeadTailProperties DEF Shape, Queue
      <3>2. c = 0 /\ c' = 1
        BY <1>11, <2>2 DEF PollWorker, InHand
      <3>3. a' = a
        BY <1>10, <2>1
      <3> HIDE DEF a, b, c, d, e, f
      <3>4. QED
        BY <1>1, <1>2, <2>1, <3>1, <3>2, <3>3
    <2>3. CASE buf' = buf /\ worker' \in {worker, "closing"}
      <3>1. b' = b /\ c' = c
        BY <1>11, <2>3 DEF PollWorker, InHand
      <3>2. QED
        BY <1>8, <1>10, <2>1, <3>1
    <2>4. QED
      BY <1>11, <2>2, <2>3 DEF PollWorker
  <1>12. CASE SendDequeuedMessage
    <2>1. op' = op /\ b' = b /\ e' = e /\ f' = f /\ seq' = seq /\ c = 1
      BY <1>12 DEF SendDequeuedMessage, inner, handles, InHand
    <2>2. CASE worker' = "polling" /\ sent' = Append(sent, hand)
      <3>1. c' = 0 /\ d' = d + 1
        BY <2>2 DEF InHand, Shape, Worker
      <3>2. a' = a
        BY <1>10, <2>1
      <3> HIDE DEF a, b, c, d, e, f
      <3>3. QED
        BY <1>1, <1>2, <2>1, <3>1, <3>2
    <2>3. CASE worker' = "losing" /\ sent' = sent
      <3>1. c' = c /\ d' = d
        BY <2>1, <2>3 DEF InHand
      <3>2. QED
        BY <1>8, <1>10, <2>1, <3>1
    <2>4. QED
      BY <1>12, <2>2, <2>3 DEF SendDequeuedMessage
  <1>13. CASE RecordLoss
    <2>1. op' = op /\ b' = b /\ d' = d /\ f' = f /\ seq' = seq
      BY <1>13 DEF RecordLoss, handles
    <2>2. c = 1 /\ c' = 0
      BY <1>13 DEF RecordLoss, InHand
    <2>3. e' = e + 1
      BY <1>3, <1>13, RecordDropCounts DEF Shape, RecordLoss
    <2>4. a' = a
      BY <1>10, <2>1
    <2> HIDE DEF a, b, c, d, e, f
    <2>5. QED
      BY <1>1, <1>2, <2>1, <2>2, <2>3, <2>4
  <1>14. CASE DropConsumer
    <2>1. op' = op /\ d' = d /\ f' = f /\ seq' = seq
      BY <1>14 DEF DropConsumer, handles
    <2>2. c' = c /\ buf' = <<>> /\ dropped' = [dropped EXCEPT !["Disconnected"] = @ + b]
      BY <1>14 DEF DropConsumer, InHand
    <2>3. b' = 0
      BY <2>2
    <2>4. e' = e + b
      BY <1>1, <1>3, <2>2, TotalUpdate DEF Shape, Counters
    <2>5. a' = a
      BY <1>10, <2>1
    <2> HIDE DEF a, b, c, d, e, f
    <2>6. QED
      BY <1>1, <1>2, <2>1, <2>2, <2>3, <2>4, <2>5
  <1>15. CASE ConsumerLock \/ ExportLeftover \/ Abandon \/ UNCHANGED vars
    <2>1. op' = op /\ b' = b /\ c' = c /\ d' = d /\ e' = e /\ f' = f /\ seq' = seq
      BY <1>15 DEF ConsumerLock, ExportLeftover, Abandon, vars, inner, handles, consumer, InHand
    <2>2. QED
      BY <1>8, <1>10, <2>1
  <1>16. QED
    BY <1>4, <1>5, <1>6, <1>7, <1>9, <1>11, <1>12, <1>13, <1>14, <1>15
       DEF Next, HandleStep, ConsumerStep

-----------------------------------------------------------------------------
(***************************************************************************)
(* The two kinds of counters                                               *)
(***************************************************************************)

(* Increments that are still due belong to a consumer that is being        *)
(* dropped; before that nothing counts as disconnected.                    *)
Closing ==
  /\ worker # "exporting" => leftover = 0
  /\ worker \notin {"exporting", "gone"} => connected /\ dropped["Disconnected"] = 0

LEMMA ClosingStep ==
  ASSUME Shape, Closing, [Next]_vars
  PROVE  Closing'
  <1>0. dropped \in [Reasons -> Nat] /\ "Disconnected" \in Reasons
    BY DEF Shape, Counters, Reasons
  <1>1. ASSUME NEW h \in Handles, TryEnqueue(h) \/ RecordPublishLoss(h) PROVE Closing'
    <2>1. worker' = worker /\ leftover' = leftover /\ connected' = connected
      BY <1>1 DEF TryEnqueue, RecordPublishLoss, consumer
    <2>2. ~connected \/ dropped' = dropped
            \/ \E r \in {"RejectNewest", "DropOldest", "SendFailed"} : RecordDrop(r)
      BY <1>1 DEF TryEnqueue, RecordPublishLoss
    <2>3. ~connected \/ dropped'["Disconnected"] = dropped["Disconnected"]
      BY <1>0, <2>2 DEF RecordDrop
    <2>4. QED
      BY <2>1, <2>3 DEF Closing
  <1>2. ASSUME NEW h \in Handles, Lock(h) \/ Contended(h) \/ CountExported(h) \/ Clone(h)
                 \/ DropHandle(h) \/ Publish(h) \/ Begin(h)
        PROVE  Closing'
    BY <1>2 DEF Closing, Lock, Contended, CountExported, Clone, DropHandle, Publish, Begin,
                inner, consumer
  <1>3. CASE RecordLoss
    <2>1. dropped'["Disconnected"] = dropped["Disconnected"]
      BY <1>0, <1>3 DEF RecordLoss, RecordDrop
    <2>2. QED
      BY <1>3, <2>1 DEF Closing, RecordLoss
  <1>4. CASE DropConsumer
    BY <1>4 DEF Closing, DropConsumer
  <1>5. CASE ExportLeftover
    BY <1>5 DEF Closing, ExportLeftover, inner
  <1>6. CASE ConsumerLock \/ PollWorker \/ SendDequeuedMessage \/ Abandon
    BY <1>6 DEF Closing, ConsumerLock, PollWorker, SendDequeuedMessage, Abandon, inner, consumer
  <1>7. CASE UNCHANGED vars
    BY <1>7 DEF Closing, vars, inner, consumer
  <1>8. QED
    BY <1>1, <1>2, <1>3, <1>4, <1>5, <1>6, <1>7 DEF Next, HandleStep, ConsumerStep

LEMMA CountersAgreeStep ==
  ASSUME Shape, Closing, CountersAgree, [Next]_vars
  PROVE  CountersAgree'
  <1> SUFFICES ASSUME NEW r \in Reasons
               PROVE  dropped'[r] + lockFree'[r]
                        = exported'[r] + Cardinality(At(op', {r}))
                          + (IF r = "Disconnected" THEN leftover' ELSE 0)
    BY DEF CountersAgree, At
  <1> DEFINE x == dropped[r]
             y == lockFree[r]
             z == exported[r]
             k == Cardinality(At(op, {r}))
             l == IF r = "Disconnected" THEN leftover ELSE 0
  <1>1. x \in Nat /\ y \in Nat /\ z \in Nat /\ k \in Nat /\ l \in Nat
    BY AtIsFinite DEF Shape, Counters, Worker
  <1>2. x + y = z + k + l
    BY DEF CountersAgree, At
  <1>3. /\ op \in [Handles -> States] /\ {"ready", "none"} \cup Locking \cup Reasons \subseteq States
        /\ r \notin {"ready", "none"} \cup Locking
    BY DEF Shape, Calls, States, Reasons, Locking
  <1>4. ASSUME \/ x' = x /\ y' = y /\ z' = z /\ k' = k /\ l' = l
               \/ x' = x + 1 /\ y' = y /\ z' = z + 1 /\ k' = k /\ l' = l
               \/ x' = x /\ y' = y + 1 /\ z' = z /\ k' = k + 1 /\ l' = l
               \/ x' = x /\ y' = y /\ z' = z + 1 /\ k' = k - 1 /\ l' = l
               \/ x' = x /\ y' = y /\ z' = z + 1 /\ k' = k /\ l' = l - 1
               \/ \E n \in Nat : x' = x + n /\ y' = y /\ z' = z /\ k' = k /\ l' = n /\ l = 0
        PROVE  x' + y' = z' + k' + l'
    <2> HIDE DEF x, y, z, k, l
    <2>1. QED
      BY <1>1, <1>2, <1>4
  <1>5. ASSUME NEW q \in Reasons, RecordDrop(q)
        PROVE  \/ x' = x /\ z' = z
               \/ x' = x + 1 /\ z' = z + 1
    <2>1. CASE q = r
      <3>1. dropped'[r] = dropped[r] + 1
        BY <1>5, <2>1 DEF RecordDrop, Shape, Counters
      <3>2. exported'[r] = exported[r] + 1
        BY <1>5, <2>1 DEF RecordDrop, Shape, Counters
      <3>3. QED
        BY <3>1, <3>2
    <2>2. CASE q # r
      <3>1. dropped'[r] = dropped[r] /\ exported'[r] = exported[r]
        BY <1>5, <2>2 DEF RecordDrop, Shape, Counters
      <3>2. QED
        BY <3>1
    <2>3. QED
      BY <2>1, <2>2
  <1>6. ASSUME NEW h \in Handles, NEW next \in {"ready", "none"} \cup Locking, op[h] # r,
               op' = [op EXCEPT ![h] = next]
        PROVE  k' = k
    <2>1. ASSUME NEW moved, moved = [op EXCEPT ![h] = next]
          PROVE  Cardinality(At(moved, {r})) = Cardinality(At(op, {r}))
      <3>1. next \in States /\ next \notin {r} /\ op[h] \notin {r}
        BY <1>3, <1>6
      <3>2. QED
        BY <1>3, <2>1, <3>1, OneMoves DEF At
    <2>2. QED
      BY <1>6, <2>1
  <1>7. ASSUME NEW h \in Handles, TryEnqueue(h) \/ RecordPublishLoss(h) PROVE x' + y' = z' + k' + l'
    <2>1. y' = y /\ l' = l
      BY <1>7 DEF TryEnqueue, RecordPublishLoss, consumer
    <2>2. k' = k
      <3>1. op' = [op EXCEPT ![h] = "ready"] /\ op[h] # r
        BY <1>3, <1>7 DEF TryEnqueue, RecordPublishLoss, Return, Leave, Locking
      <3>2. QED
        BY <1>6, <3>1
    <2>3. (dropped' = dropped /\ exported' = exported) \/ \E q \in Reasons : RecordDrop(q)
      BY <1>7 DEF TryEnqueue, RecordPublishLoss, Reasons
    <2>4. \/ x' = x /\ z' = z
          \/ x' = x + 1 /\ z' = z + 1
      <3>1. CASE dropped' = dropped /\ exported' = exported
        BY <3>1
      <3>2. CASE \E q \in Reasons : RecordDrop(q)
        <4> HIDE DEF x, z
        <4>1. QED
          BY <1>5, <3>2
      <3>3. QED
        BY <2>3, <3>1, <3>2
    <2>5. QED
      BY <1>4, <2>1, <2>2, <2>4
  <1>8. ASSUME NEW h \in Handles, Contended(h) PROVE x' + y' = z' + k' + l'
    <2>1. PICK next \in Reasons : /\ op[h] \in Locking /\ op' = [op EXCEPT ![h] = next]
                                  /\ lockFree' = [lockFree EXCEPT ![next] = @ + 1]
      BY <1>8 DEF Contended, Locking, Reasons
    <2>2. x' = x /\ z' = z /\ l' = l
      BY <1>8 DEF Contended, inner, consumer
    <2>3. next = r => y' = y + 1
      BY <2>1 DEF Shape, Counters
    <2>4. next # r => y' = y
      BY <2>1 DEF Shape, Counters
    <2>5. (next = r => k' = k + 1) /\ (next # r => k' = k)
      <3>1. ASSUME NEW moved, moved = [op EXCEPT ![h] = next], NEW R, R = {r}
            PROVE  /\ next = r => Cardinality(At(moved, R)) = Cardinality(At(op, R)) + 1
                   /\ next # r => Cardinality(At(moved, R)) = Cardinality(At(op, R))
        <4>1. next \in States /\ op[h] \notin R
          BY <1>3, <2>1, <3>1
        <4>2. ASSUME next \in R PROVE Cardinality(At(moved, R)) = Cardinality(At(op, R)) + 1
          <5>1. op \in [Handles -> States] /\ moved = [op EXCEPT ![h] = next]
            BY <1>3, <3>1
          <5>2. QED
            BY <4>1, <4>2, <5>1, OneMoves DEF At
        <4>3. ASSUME next \notin R PROVE Cardinality(At(moved, R)) = Cardinality(At(op, R))
          BY <1>3, <3>1, <4>1, <4>3, OneMoves DEF At
        <4>4. QED
          BY <3>1, <4>2, <4>3
      <3>2. QED
        BY <2>1, <3>1
    <2>6. QED
      BY <1>4, <2>2, <2>3, <2>4, <2>5
  <1>9. ASSUME NEW h \in Handles, CountExported(h) PROVE x' + y' = z' + k' + l'
    <2>1. /\ op[h] \in Reasons /\ op' = [op EXCEPT ![h] = "ready"]
          /\ exported' = [exported EXCEPT ![op[h]] = @ + 1]
      BY <1>9 DEF CountExported
    <2>2. x' = x /\ y' = y /\ l' = l
      BY <1>9 DEF CountExported, inner, consumer
    <2>3. op[h] = r => z' = z + 1
      BY <2>1 DEF Shape, Counters
    <2>4. op[h] # r => z' = z
      BY <2>1 DEF Shape, Counters
    <2>5. (op[h] = r => k' = k - 1) /\ (op[h] # r => k' = k)
      <3>1. ASSUME NEW moved, moved = [op EXCEPT ![h] = "ready"], NEW R, R = {r}
            PROVE  /\ op[h] = r => Cardinality(At(moved, R)) = Cardinality(At(op, R)) - 1
                   /\ op[h] # r => Cardinality(At(moved, R)) = Cardinality(At(op, R))
        <4>1. "ready" \in States /\ "ready" \notin R
          BY <1>3, <3>1
        <4>2. ASSUME op[h] \in R PROVE Cardinality(At(moved, R)) = Cardinality(At(op, R)) - 1
          <5>1. op \in [Handles -> States] /\ moved = [op EXCEPT ![h] = "ready"]
            BY <1>3, <3>1
          <5>2. QED
            BY <4>1, <4>2, <5>1, OneMoves DEF At
        <4>3. ASSUME op[h] \notin R PROVE Cardinality(At(moved, R)) = Cardinality(At(op, R))
          BY <1>3, <3>1, <4>1, <4>3, OneMoves DEF At
        <4>4. QED
          BY <3>1, <4>2, <4>3
      <3>2. QED
        BY <2>1, <3>1
    <2>6. QED
      BY <1>4, <2>2, <2>3, <2>4, <2>5
  <1>10. ASSUME NEW h \in Handles,
                Lock(h) \/ Clone(h) \/ DropHandle(h) \/ Publish(h) \/ Begin(h)
         PROVE  x' + y' = z' + k' + l'
    <2>1. x' = x /\ y' = y /\ z' = z /\ l' = l
      BY <1>10 DEF Lock, Clone, DropHandle, Publish, Begin, inner, consumer
    <2>2. CASE Lock(h)
      BY <1>4, <2>1, <2>2 DEF Lock, handles
    <2>3. CASE Clone(h)
      <3>1. "ready" \notin {r} /\ "cloning" \notin {r} /\ "none" \notin {r}
        BY <1>3 DEF Locking
      <3>2. k' = k
        BY <2>3, <3>1, CloneMoves
      <3>3. QED
        BY <1>4, <2>1, <3>2
    <2>4. CASE DropHandle(h) \/ Publish(h) \/ Begin(h)
      <3>1. op[h] # r /\ \E next \in {"ready", "none"} \cup Locking : op' = [op EXCEPT ![h] = next]
        BY <1>3, <2>4 DEF DropHandle, Publish, Begin, Leave, Locking
      <3>2. k' = k
        BY <1>6, <3>1
      <3>3. QED
        BY <1>4, <2>1, <3>2
    <2>5. QED
      BY <1>10, <2>2, <2>3, <2>4
  <1>11. ASSUME op' = op PROVE k' = k
    BY <1>11
  <1>12. CASE RecordLoss
    <2>1. y' = y /\ l' = l /\ op' = op /\ RecordDrop("SendFailed")
      BY <1>12 DEF RecordLoss, handles
    <2>2. \/ x' = x /\ z' = z
          \/ x' = x + 1 /\ z' = z + 1
      <3>1. "SendFailed" \in Reasons
        BY DEF Reasons
      <3> HIDE DEF x, z
      <3>2. QED
        BY <1>5, <2>1, <3>1
    <2>3. k' = k
      BY <1>11, <2>1
    <2>4. QED
      BY <1>4, <2>1, <2>2, <2>3
  <1>13. CASE DropConsumer
    <2>1. y' = y /\ z' = z /\ op' = op /\ dropped' = [dropped EXCEPT !["Disconnected"] = @ + Len(buf)]
      BY <1>13 DEF DropConsumer, handles
    <2>2. leftover = 0 /\ leftover' = Len(buf)
      BY <1>13 DEF Closing, DropConsumer
    <2>3. Len(buf) \in Nat
      BY DEF Shape, Queue
    <2>4. k' = k
      BY <1>11, <2>1
    <2>5. CASE r = "Disconnected"
      <3>1. x' = x + Len(buf)
        BY <2>1, <2>5 DEF Shape, Counters
      <3>2. l = 0 /\ l' = Len(buf)
        BY <2>2, <2>5
      <3>3. QED
        BY <1>4, <2>1, <2>3, <2>4, <3>1, <3>2
    <2>6. CASE r # "Disconnected"
      <3>1. x' = x
        BY <2>1, <2>6 DEF Shape, Counters
      <3>2. l' = l
        BY <2>6
      <3>3. QED
        BY <1>4, <2>1, <2>4, <3>1, <3>2
    <2>7. QED
      BY <2>5, <2>6
  <1>14. CASE ExportLeftover
    <2>1. x' = x /\ y' = y /\ op' = op
      BY <1>14 DEF ExportLeftover, inner, handles
    <2>2. k' = k
      BY <1>11, <2>1
    <2>3. CASE leftover' = leftover /\ exported' = exported
      BY <1>4, <2>1, <2>2, <2>3
    <2>4. CASE leftover' = leftover - 1 /\ exported' = [exported EXCEPT !["Disconnected"] = @ + 1]
      <3>1. CASE r = "Disconnected"
        <4>1. z' = z + 1
          BY <2>4, <3>1 DEF Shape, Counters
        <4>2. l' = l - 1
          BY <2>4, <3>1
        <4>3. QED
          BY <1>4, <2>1, <2>2, <4>1, <4>2
      <3>2. CASE r # "Disconnected"
        <4>1. z' = z
          BY <2>4, <3>2 DEF Shape, Counters
        <4>2. l' = l
          BY <3>2
        <4>3. QED
          BY <1>4, <2>1, <2>2, <4>1, <4>2
      <3>3. QED
        BY <3>1, <3>2
    <2>5. QED
      BY <1>14, <2>3, <2>4 DEF ExportLeftover
  <1>15. CASE ConsumerLock \/ PollWorker \/ SendDequeuedMessage \/ Abandon \/ UNCHANGED vars
    <2>1. x' = x /\ y' = y /\ z' = z /\ l' = l /\ op' = op
      BY <1>15 DEF ConsumerLock, PollWorker, SendDequeuedMessage, Abandon, vars,
                   inner, handles, consumer
    <2>2. QED
      BY <1>4, <1>11, <2>1
  <1>16. QED
    BY <1>7, <1>8, <1>9, <1>10, <1>12, <1>13, <1>14, <1>15 DEF Next, HandleStep, ConsumerStep

-----------------------------------------------------------------------------
(***************************************************************************)
(* The end of the drain                                                    *)
(***************************************************************************)
LEMMA NobodyIsLeft ==
  ASSUME Shape, HandleCount, producers = 0
  PROVE  \A h \in Handles : ~Live(h)
  <1>1. At(op, States \ {"none"}) = {}
    BY AtIsFinite, FS_EmptySet DEF HandleCount
  <1>2. op \in [Handles -> States]
    BY DEF Shape, Calls, States
  <1>3. QED
    BY <1>1, <1>2 DEF At, Live

LEMMA NothingStrandedStep ==
  ASSUME Shape, HandleCount, Closing, NothingStranded, [Next]_vars
  PROVE  NothingStranded'
  <1> DEFINE Ended == worker \in {"closing", "exporting", "gone"} /\ ~abandoned
  <1>0. Ended => /\ buf = <<>> /\ dropped["Disconnected"] = 0
                 /\ \A h \in Handles : ~Live(h)
    BY DEF NothingStranded
  <1>1. ASSUME NEW h \in Handles, HandleStep(h) \/ Publish(h) \/ Begin(h) PROVE NothingStranded'
    <2>1. Live(h) /\ worker' = worker /\ abandoned' = abandoned
      BY <1>1 DEF Live, HandleStep, Lock, TryEnqueue, RecordPublishLoss, Contended, CountExported,
                  Clone, DropHandle, Publish, Begin, consumer, Locking, Reasons
    <2>2. ~Ended'
      BY <1>0, <2>1
    <2>3. QED
      BY <2>2 DEF NothingStranded
  <1>2. CASE PollWorker
    <2>1. worker' # "closing" => ~Ended'
      BY <1>2 DEF PollWorker
    <2>2. CASE worker' = "closing"
      <3>1. buf = <<>> /\ buf' = <<>> /\ producers = 0 /\ op' = op /\ dropped' = dropped
        BY <1>2, <2>2 DEF PollWorker, handles
      <3>2. dropped["Disconnected"] = 0
        BY <1>2 DEF PollWorker, Closing
      <3>3. QED
        BY <3>1, <3>2, NobodyIsLeft DEF NothingStranded, Live
    <2>3. QED
      BY <2>1, <2>2 DEF NothingStranded
  <1>3. CASE DropConsumer
    <2>1. Ended' => Ended
      BY <1>3 DEF DropConsumer
    <2>2. op' = op /\ buf' = <<>> /\ dropped' = [dropped EXCEPT !["Disconnected"] = @ + Len(buf)]
      BY <1>3 DEF DropConsumer, handles
    <2>3. Ended => dropped'["Disconnected"] = 0
      <3>1. "Disconnected" \in Reasons /\ dropped \in [Reasons -> Nat] /\ Len(<<>>) = 0
        BY DEF Reasons, Shape, Counters
      <3>2. QED
        BY <1>0, <2>2, <3>1
    <2>4. QED
      BY <1>0, <2>1, <2>2, <2>3 DEF NothingStranded, Live
  <1>4. CASE ExportLeftover
    <2>1. Ended' => Ended
      BY <1>4 DEF ExportLeftover
    <2>2. op' = op /\ buf' = buf /\ dropped' = dropped
      BY <1>4 DEF ExportLeftover, handles, inner
    <2>3. QED
      BY <1>0, <2>1, <2>2 DEF NothingStranded, Live
  <1>5. CASE SendDequeuedMessage \/ RecordLoss \/ Abandon
    BY <1>5 DEF SendDequeuedMessage, RecordLoss, Abandon, NothingStranded
  <1>6. CASE ConsumerLock \/ UNCHANGED vars
    BY <1>6 DEF ConsumerLock, vars, inner, handles, consumer, NothingStranded, Live
  <1>7. QED
    BY <1>1, <1>2, <1>3, <1>4, <1>5, <1>6 DEF Next, ConsumerStep

-----------------------------------------------------------------------------
(***************************************************************************)
(* The order on the wire                                                   *)
(***************************************************************************)

(* In s, the numbers of one handle rise; those of h are below n, or above. *)
Rising(s) == \A i, j \in DOMAIN s : i < j /\ s[i].from = s[j].from => s[i].id < s[j].id
Under(s, h, n) == \A i \in DOMAIN s : s[i].from = h => s[i].id < n
Over(s, h, n) == \A i \in DOMAIN s : s[i].from = h => n < s[i].id
Before(s, t) == \A i \in DOMAIN s, j \in DOMAIN t : s[i].from = t[j].from => s[i].id < t[j].id

(* What is sent comes before what is in the worker's hands, and that       *)
(* before what is buffered; what a handle is about to offer comes last.    *)
Numbered ==
  /\ Rising(sent) /\ Rising(buf) /\ Before(sent, buf)
  /\ worker = "sending" => Under(sent, hand.from, hand.id) /\ Over(buf, hand.from, hand.id)
  /\ \A h \in Handles : Under(sent, h, seq) /\ Under(buf, h, seq)
  /\ \A h \in Handles : worker = "sending" /\ hand.from = h => hand.id < seq
  /\ \A h \in Handles : op[h] \in Offering =>
       /\ frame[h].from = h /\ frame[h].id < seq
       /\ Under(sent, h, frame[h].id) /\ Under(buf, h, frame[h].id)
       /\ worker = "sending" /\ hand.from = h => hand.id < frame[h].id

LEMMA FrameParts ==
  ASSUME NEW f \in Frames
  PROVE  f.id \in Nat
  BY DEF Frames

LEMMA AppendFrame ==
  ASSUME NEW s \in Seq(Frames), NEW f \in Frames, NEW t \in Seq(Frames), NEW h, NEW n
  PROVE  /\ Rising(s) /\ Under(s, f.from, f.id) => Rising(Append(s, f))
         /\ Under(s, h, n) /\ (f.from = h => f.id < n) => Under(Append(s, f), h, n)
         /\ Over(s, h, n) /\ (f.from = h => n < f.id) => Over(Append(s, f), h, n)
         /\ Before(t, s) /\ Under(t, f.from, f.id) => Before(t, Append(s, f))
         /\ Before(s, t) /\ Over(t, f.from, f.id) => Before(Append(s, f), t)
  <1> DEFINE a == Append(s, f)
  <1>1. /\ DOMAIN s = 1 .. Len(s) /\ Len(s) \in Nat
        /\ DOMAIN a = 1 .. Len(s) + 1
        /\ \A i \in 1 .. Len(s) : a[i] = s[i]
        /\ a[Len(s) + 1] = f
    BY AppendProperties, LenProperties
  <1> HIDE DEF a
  <1>2. /\ \A i \in DOMAIN a : \/ i \in DOMAIN s /\ a[i] = s[i]
                               \/ i = Len(s) + 1 /\ a[i] = f
        /\ DOMAIN a \subseteq Int /\ DOMAIN s \subseteq 1 .. Len(s)
    <2>1. \A i \in 1 .. Len(s) + 1 : i \in 1 .. Len(s) \/ i = Len(s) + 1
      BY <1>1
    <2>2. QED
      BY <1>1, <2>1
  <1>3. Rising(s) /\ Under(s, f.from, f.id) => Rising(a)
    BY <1>1, <1>2 DEF Rising, Under
  <1>4. Under(s, h, n) /\ (f.from = h => f.id < n) => Under(a, h, n)
    BY <1>2 DEF Under
  <1>5. Over(s, h, n) /\ (f.from = h => n < f.id) => Over(a, h, n)
    BY <1>2 DEF Over
  <1>6. Before(t, s) /\ Under(t, f.from, f.id) => Before(t, a)
    BY <1>2 DEF Before, Under
  <1>7. Before(s, t) /\ Over(t, f.from, f.id) => Before(a, t)
    BY <1>2 DEF Before, Over
  <1>8. QED
    BY <1>3, <1>4, <1>5, <1>6, <1>7 DEF a

LEMMA TailFrames ==
  ASSUME NEW s \in Seq(Frames), s # <<>>, NEW t \in Seq(Frames), NEW h, NEW n
  PROVE  /\ Rising(s) => Rising(Tail(s)) /\ Over(Tail(s), Head(s).from, Head(s).id)
         /\ Under(s, h, n) => Under(Tail(s), h, n) /\ (Head(s).from = h => Head(s).id < n)
         /\ Over(s, h, n) => Over(Tail(s), h, n)
         /\ Before(t, s) => Before(t, Tail(s)) /\ Under(t, Head(s).from, Head(s).id)
  <1> DEFINE a == Tail(s)
  <1>1. /\ DOMAIN s = 1 .. Len(s) /\ Len(s) \in Nat \ {0} /\ Head(s) = s[1]
        /\ DOMAIN a = 1 .. Len(s) - 1
        /\ \A i \in 1 .. Len(s) - 1 : a[i] = s[i + 1]
    BY HeadTailProperties, LenProperties, EmptySeq
  <1> HIDE DEF a
  <1>2. \A i \in DOMAIN a : i + 1 \in DOMAIN s /\ a[i] = s[i + 1] /\ i \in Nat /\ 1 < i + 1
    BY <1>1
  <1>9. \A i, j \in DOMAIN a : i < j => i + 1 < j + 1
    BY <1>2
  <1>3. 1 \in DOMAIN s
    BY <1>1
  <1>4. Rising(s) => Rising(a) /\ Over(a, s[1].from, s[1].id)
    <2>1. Rising(s) => Rising(a)
      BY <1>2, <1>9 DEF Rising
    <2>2. Rising(s) => Over(a, s[1].from, s[1].id)
      BY <1>2, <1>3 DEF Rising, Over
    <2>3. QED
      BY <2>1, <2>2
  <1>5. Under(s, h, n) => Under(a, h, n) /\ (s[1].from = h => s[1].id < n)
    BY <1>2, <1>3 DEF Under
  <1>6. Over(s, h, n) => Over(a, h, n)
    BY <1>2 DEF Over
  <1>7. Before(t, s) => Before(t, a) /\ Under(t, s[1].from, s[1].id)
    BY <1>2, <1>3 DEF Before, Under
  <1>8. QED
    BY <1>1, <1>4, <1>5, <1>6, <1>7 DEF a

LEMMA NumberedStep ==
  ASSUME Shape, Numbered, [Next]_vars
  PROVE  Numbered'
  <1>1. /\ sent \in Seq(Frames) /\ buf \in Seq(Frames) /\ hand \in Frames
        /\ frame \in [Handles -> Frames] /\ seq \in Nat /\ Capacity \in Nat \ {0}
    BY CapacityAssumption DEF Shape, Queue, Calls, Worker
  <1>2. op \in [Handles -> States]
    BY DEF Shape, Calls, States
  <1>3. ASSUME NEW h \in Handles, Publish(h) PROVE Numbered'
    <2>1. /\ sent' = sent /\ buf' = buf /\ hand' = hand /\ worker' = worker /\ seq' = seq + 1
          /\ frame' = [frame EXCEPT ![h] = [from |-> h, id |-> seq]]
          /\ \E next \in States : op' = [op EXCEPT ![h] = next]
      BY <1>3, OfferingStates DEF Publish, inner, consumer, Offering
    <2>2. \A n \in Nat : n < seq => n < seq + 1
      BY <1>1
    <2>3. \A g \in Handles : Under(sent', g, seq') /\ Under(buf', g, seq')
      <3>1. \A t \in Seq(Frames), g \in Handles : Under(t, g, seq) => Under(t, g, seq + 1)
        <4>1. \A t \in Seq(Frames) : \A i \in DOMAIN t : t[i].id \in Nat
          BY FrameParts, LenProperties
        <4>2. QED
          BY <2>2, <4>1 DEF Under
      <3>2. QED
        BY <1>1, <2>1, <3>1 DEF Numbered
    <2>4. \A g \in Handles : worker' = "sending" /\ hand'.from = g => hand'.id < seq'
      BY <1>1, <2>1, <2>2, FrameParts DEF Numbered
    <2>5. \A g \in Handles : op'[g] \in Offering =>
            /\ frame'[g].from = g /\ frame'[g].id < seq'
            /\ Under(sent', g, frame'[g].id) /\ Under(buf', g, frame'[g].id)
            /\ worker' = "sending" /\ hand'.from = g => hand'.id < frame'[g].id
      <3> TAKE g \in Handles
      <3>1. CASE g = h
        <4>1. frame'[g] = [from |-> h, id |-> seq] /\ seq < seq + 1
          BY <1>1, <2>1, <3>1
        <4>2. QED
          BY <2>1, <3>1, <4>1 DEF Numbered
      <3>2. CASE g # h
        <4>1. frame'[g] = frame[g] /\ op'[g] = op[g]
          BY <1>1, <1>2, <2>1, <3>2
        <4>2. frame[g].id < seq => frame[g].id < seq'
          BY <1>1, <2>1, <2>2, FrameParts
        <4>3. QED
          BY <2>1, <4>1, <4>2 DEF Numbered
      <3>3. QED
        BY <3>1, <3>2
    <2>6. QED
      BY <2>1, <2>3, <2>4, <2>5 DEF Numbered
  <1>4. ASSUME NEW h \in Handles, TryEnqueue(h) PROVE Numbered'
    <2>1. /\ sent' = sent /\ hand' = hand /\ worker' = worker /\ seq' = seq
          /\ frame' = [frame EXCEPT ![h] = NoFrame] /\ op' = [op EXCEPT ![h] = "ready"]
          /\ op[h] \in Offering
      BY <1>4 DEF TryEnqueue, Return, Leave, consumer, Offering
    <2>2. \/ buf' = buf
          \/ buf' = Append(buf, frame[h])
          \/ buf # <<>> /\ buf' = Append(Tail(buf), frame[h])
      <3>1. Len(buf) >= Capacity => buf # <<>>
        BY <1>1
      <3>2. QED
        BY <1>4, <3>1 DEF TryEnqueue
    <2> DEFINE f == frame[h]
    <2>3. /\ f \in Frames /\ f.from = h /\ f.id < seq
          /\ Under(sent, h, f.id) /\ Under(buf, h, f.id)
          /\ worker = "sending" /\ hand.from = h => hand.id < f.id
      BY <1>1, <2>1 DEF Numbered
    <2> HIDE DEF f
    <2>4. \A g \in Handles : op'[g] \in Offering =>
            g # h /\ frame'[g] = frame[g] /\ op[g] \in Offering
      BY <1>1, <1>2, <2>1, OfferingStates
    <2>5. ASSUME NEW b \in Seq(Frames), Rising(b), Before(sent, b),
                 worker = "sending" => Over(b, hand.from, hand.id),
                 \A g \in Handles : Under(b, g, seq),
                 \A g \in Handles : op'[g] \in Offering => Under(b, g, frame[g].id),
                 buf' = b
          PROVE  Numbered'
      BY <2>1, <2>4, <2>5 DEF Numbered
    <2>6. ASSUME NEW b \in Seq(Frames), Rising(b), Before(sent, b),
                 worker = "sending" => Over(b, hand.from, hand.id),
                 \A g \in Handles : Under(b, g, seq),
                 \A g \in Handles : op[g] \in Offering => Under(b, g, frame[g].id),
                 buf' = Append(b, f)
          PROVE  Numbered'
      <3>1. Under(b, f.from, f.id)
        BY <2>1, <2>3, <2>6 DEF f
      <3>2. Rising(Append(b, f)) /\ Before(sent, Append(b, f)) /\ Append(b, f) \in Seq(Frames)
        BY <1>1, <2>3, <2>6, <3>1, AppendFrame
      <3>3. worker = "sending" => Over(Append(b, f), hand.from, hand.id)
        BY <1>1, <2>3, <2>6, AppendFrame
      <3>4. \A g \in Handles : Under(Append(b, f), g, seq)
        BY <1>1, <2>3, <2>6, AppendFrame
      <3>5. \A g \in Handles : op'[g] \in Offering => Under(Append(b, f), g, frame[g].id)
        BY <1>1, <2>3, <2>4, <2>6, AppendFrame
      <3>6. QED
        BY <2>5, <2>6, <3>2, <3>3, <3>4, <3>5
    <2>7. CASE buf' = buf
      BY <1>1, <2>4, <2>5, <2>7 DEF Numbered
    <2>8. CASE buf' = Append(buf, frame[h])
      BY <1>1, <2>6, <2>8 DEF Numbered, f
    <2>9. CASE buf # <<>> /\ buf' = Append(Tail(buf), frame[h])
      <3>1. Tail(buf) \in Seq(Frames) /\ Rising(Tail(buf)) /\ Before(sent, Tail(buf))
        BY <1>1, <2>9, TailFrames, HeadTailProperties DEF Numbered
      <3>2. worker = "sending" => Over(Tail(buf), hand.from, hand.id)
        BY <1>1, <2>9, TailFrames DEF Numbered
      <3>3. \A g \in Handles : Under(Tail(buf), g, seq)
        BY <1>1, <2>9, TailFrames DEF Numbered
      <3>4. \A g \in Handles : op[g] \in Offering => Under(Tail(buf), g, frame[g].id)
        BY <1>1, <2>9, TailFrames DEF Numbered
      <3>5. QED
        BY <2>6, <2>9, <3>1, <3>2, <3>3, <3>4 DEF f
    <2>10. QED
      BY <2>2, <2>7, <2>8, <2>9
  <1>5. ASSUME sent' = sent, buf' = buf, hand' = hand, seq' = seq,
               worker' = "sending" => worker = "sending",
               \A g \in Handles : op'[g] \in Offering => op[g] \in Offering /\ frame'[g] = frame[g]
        PROVE  Numbered'
    BY <1>5 DEF Numbered
  <1>6. ASSUME NEW h \in Handles, Lock(h) \/ RecordPublishLoss(h) \/ Contended(h)
                 \/ CountExported(h) \/ Clone(h) \/ DropHandle(h) \/ Begin(h)
        PROVE  Numbered'
    <2>1. sent' = sent /\ buf' = buf /\ hand' = hand /\ seq' = seq /\ worker' = worker
      BY <1>6 DEF Lock, RecordPublishLoss, Contended, CountExported, Clone, DropHandle, Begin,
                  inner, handles, consumer, Return
    <2>2. ASSUME NEW g \in Handles, op'[g] \in Offering
          PROVE  op[g] \in Offering /\ frame'[g] = frame[g]
      <3>1. op'[g] \notin {"ready", "none", "dropping", "cloning"} \cup Reasons
        BY <2>2, OfferingStates
      <3>2. CASE Lock(h)
        BY <2>2, <3>2 DEF Lock, handles
      <3>3. CASE RecordPublishLoss(h) \/ CountExported(h)
        BY <1>1, <1>2, <2>2, <3>1, <3>3 DEF RecordPublishLoss, CountExported, Return, Leave
      <3>4. CASE Contended(h)
        BY <1>2, <2>2, <3>1, <3>4 DEF Contended, Reasons
      <3>5. CASE Clone(h) \/ DropHandle(h) \/ Begin(h)
        BY <1>2, <2>2, <3>1, <3>5 DEF Clone, DropHandle, Begin, Leave
      <3>6. QED
        BY <1>6, <3>2, <3>3, <3>4, <3>5
    <2>3. QED
      BY <1>5, <2>1, <2>2
  <1>7. CASE PollWorker
    <2>1. /\ sent' = sent /\ seq' = seq /\ op' = op /\ frame' = frame /\ worker # "sending"
      BY <1>7 DEF PollWorker, handles
    <2>2. CASE buf # <<>> /\ buf' = Tail(buf) /\ hand' = Head(buf) /\ worker' = "sending"
      <3>1. Rising(Tail(buf)) /\ Over(Tail(buf), Head(buf).from, Head(buf).id)
        BY <1>1, <2>2, TailFrames DEF Numbered
      <3>2. Before(sent, Tail(buf)) /\ Under(sent, Head(buf).from, Head(buf).id)
        BY <1>1, <2>2, TailFrames DEF Numbered
      <3>3. \A h \in Handles : Under(Tail(buf), h, seq) /\ (Head(buf).from = h => Head(buf).id < seq)
        BY <1>1, <2>2, TailFrames DEF Numbered
      <3>4. \A h \in Handles : op[h] \in Offering =>
              Under(Tail(buf), h, frame[h].id) /\ (Head(buf).from = h => Head(buf).id < frame[h].id)
        BY <1>1, <2>2, TailFrames DEF Numbered
      <3>5. QED
        BY <2>1, <2>2, <3>1, <3>2, <3>3, <3>4 DEF Numbered
    <2>3. CASE buf' = buf /\ hand' = hand /\ worker' \in {worker, "closing"}
      BY <1>5, <2>1, <2>3
    <2>4. QED
      BY <1>7, <2>2, <2>3 DEF PollWorker
  <1>8. CASE SendDequeuedMessage
    <2>1. /\ buf' = buf /\ seq' = seq /\ op' = op /\ frame' = frame
          /\ worker = "sending" /\ worker' # "sending"
      BY <1>8 DEF SendDequeuedMessage, inner, handles
    <2>2. CASE sent' = sent
      BY <2>1, <2>2 DEF Numbered
    <2>3. CASE sent' = Append(sent, hand)
      <3>1. Rising(sent') /\ Before(sent', buf)
        BY <1>1, <2>1, <2>3, AppendFrame DEF Numbered
      <3>2. \A h \in Handles : Under(sent', h, seq)
        BY <1>1, <2>1, <2>3, AppendFrame DEF Numbered
      <3>3. \A h \in Handles : op[h] \in Offering => Under(sent', h, frame[h].id)
        BY <1>1, <2>1, <2>3, AppendFrame DEF Numbered
      <3>4. QED
        BY <2>1, <3>1, <3>2, <3>3 DEF Numbered
    <2>4. QED
      BY <1>8, <2>2, <2>3 DEF SendDequeuedMessage
  <1>9. CASE DropConsumer
    <2>1. /\ sent' = sent /\ seq' = seq /\ op' = op /\ frame' = frame /\ buf' = <<>>
          /\ worker' # "sending"
      BY <1>9 DEF DropConsumer, handles
    <2>2. /\ Rising(<<>>) /\ Before(sent, <<>>) /\ \A h, n : Under(<<>>, h, n)
      BY DEF Rising, Before, Under
    <2>3. QED
      BY <2>1, <2>2 DEF Numbered
  <1>10. CASE ConsumerLock \/ RecordLoss \/ ExportLeftover \/ Abandon \/ UNCHANGED vars
    <2>1. /\ sent' = sent /\ buf' = buf /\ hand' = hand /\ seq' = seq /\ op' = op /\ frame' = frame
          /\ worker' = "sending" => worker = "sending"
      BY <1>10 DEF ConsumerLock, RecordLoss, ExportLeftover, Abandon, vars, inner, handles, consumer
    <2>2. QED
      BY <1>5, <2>1
  <1>11. QED
    BY <1>3, <1>4, <1>6, <1>7, <1>8, <1>9, <1>10 DEF Next, HandleStep, ConsumerStep

LEMMA NumberedIsInOrder ==
  ASSUME Shape, Numbered
  PROVE  DeliveredInOrder
  <1> DEFINE h == IF worker = "sending" THEN <<hand>> ELSE <<>>
             first == sent \o h
  <1>1. sent \in Seq(Frames) /\ buf \in Seq(Frames) /\ hand \in Frames
    BY DEF Shape, Queue, Worker
  <1>2. Rising(first) /\ Before(first, buf) /\ first \in Seq(Frames)
    <2>1. CASE worker = "sending"
      <3>1. first = Append(sent, hand)
        BY <1>1, <2>1, AppendIsConcat
      <3>2. Rising(Append(sent, hand)) /\ Before(Append(sent, hand), buf)
        BY <1>1, <2>1, AppendFrame DEF Numbered
      <3>3. Append(sent, hand) \in Seq(Frames)
        BY <1>1
      <3> HIDE DEF first
      <3>4. QED
        BY <3>1, <3>2, <3>3
    <2>2. CASE worker # "sending"
      <3>1. first = sent
        BY <1>1, <2>2, ConcatEmptySeq
      <3>2. QED
        BY <1>1, <3>1 DEF Numbered
    <2>3. QED
      BY <2>1, <2>2
  <1>3. Way = first \o buf
    BY DEF Way
  <1> HIDE DEF first
  <1>4. /\ Way \in Seq(Frames) /\ DOMAIN Way = 1 .. Len(first) + Len(buf)
        /\ \A i \in 1 .. Len(first) + Len(buf) :
             Way[i] = IF i <= Len(first) THEN first[i] ELSE buf[i - Len(first)]
        /\ DOMAIN first = 1 .. Len(first) /\ DOMAIN buf = 1 .. Len(buf)
        /\ Len(first) \in Nat /\ Len(buf) \in Nat
    BY <1>1, <1>2, <1>3, ConcatProperties, LenProperties
  <1>5. ASSUME NEW i \in DOMAIN Way, NEW j \in DOMAIN Way, i < j, Way[i].from = Way[j].from
        PROVE  Way[i].id < Way[j].id
    <2>1. CASE j <= Len(first)
      <3>1. i \in DOMAIN first /\ j \in DOMAIN first /\ Way[i] = first[i] /\ Way[j] = first[j]
        BY <1>4, <1>5, <2>1
      <3>2. QED
        BY <1>2, <1>5, <3>1 DEF Rising
    <2>2. CASE i <= Len(first) /\ ~(j <= Len(first))
      <3>1. /\ i \in DOMAIN first /\ j - Len(first) \in DOMAIN buf
            /\ Way[i] = first[i] /\ Way[j] = buf[j - Len(first)]
        BY <1>4, <1>5, <2>2
      <3>2. QED
        BY <1>2, <1>5, <3>1 DEF Before
    <2>3. CASE ~(i <= Len(first))
      <3>1. /\ i - Len(first) \in DOMAIN buf /\ j - Len(first) \in DOMAIN buf
            /\ i - Len(first) < j - Len(first)
            /\ Way[i] = buf[i - Len(first)] /\ Way[j] = buf[j - Len(first)]
        BY <1>4, <1>5, <2>3
      <3>2. QED
        BY <1>5, <3>1 DEF Numbered, Rising
    <2>4. QED
      BY <1>4, <1>5, <2>1, <2>2, <2>3
  <1>6. QED
    BY <1>5 DEF DeliveredInOrder

-----------------------------------------------------------------------------
(***************************************************************************)
(* The inductive invariant                                                 *)
(***************************************************************************)
IInv ==
  /\ Shape /\ HandleCount /\ Closing
  /\ EveryFrameAccounted /\ CountersAgree /\ NothingStranded /\ Numbered

LEMMA InitIsInductive ==
  ASSUME Init
  PROVE  IInv
  <1>1. \A r \in Reasons : dropped[r] = 0 /\ lockFree[r] = 0 /\ exported[r] = 0
    BY DEF Init
  <1>2. Shape
    <2>1. Queue /\ Worker
      <3>1. <<>> \in Seq(Frames) /\ Len(<<>>) = 0 /\ 0 <= Capacity
        BY EmptySeq, CapacityAssumption
      <3>2. QED
        BY <3>1, NoFrameIsAFrame DEF Init, Queue, Worker
    <2>2. Counters
      BY DEF Init, Counters
    <2>3. Calls
      BY NoFrameIsAFrame, CapacityAssumption DEF Init, Calls, Results
    <2>4. QED
      BY <2>1, <2>2, <2>3 DEF Shape
  <1>3. HandleCount
    <2>1. At(op, States \ {"none"}) = {First}
      BY HandlesAssumption DEF Init, At, States
    <2>2. QED
      BY <2>1, FS_Singleton DEF Init, HandleCount
  <1>4. Closing /\ NothingStranded
    BY <1>1 DEF Init, Closing, NothingStranded, Reasons
  <1>5. Cardinality({}) = 0
    BY FS_EmptySet
  <1>6. EveryFrameAccounted
    <2>1. Publishing = {}
      BY DEF Init, Publishing
    <2>2. Len(buf) = 0 /\ InHand = 0 /\ Len(sent) = 0 /\ seq = 0
      BY DEF Init, InHand
    <2>3. Total(dropped) = 0 /\ Total(lockFree) = 0
      BY <1>1 DEF Total, Reasons
    <2>4. QED
      BY <1>5, <2>1, <2>2, <2>3 DEF EveryFrameAccounted
  <1>7. CountersAgree
    <2> SUFFICES ASSUME NEW r \in Reasons
                 PROVE  dropped[r] + lockFree[r] = exported[r] + Cardinality({h \in Handles : op[h] = r})
                          + (IF r = "Disconnected" THEN leftover ELSE 0)
      BY DEF CountersAgree
    <2>1. {h \in Handles : op[h] = r} = {}
      BY DEF Init, Reasons
    <2>2. leftover = 0
      BY DEF Init
    <2>3. QED
      BY <1>1, <1>5, <2>1, <2>2
  <1>8. Numbered
    <2>1. worker # "sending" /\ sent = <<>> /\ buf = <<>> /\ \A h \in Handles : op[h] \notin Offering
      BY DEF Init, Offering
    <2>2. QED
      BY <2>1 DEF Numbered, Rising, Before, Under
  <1>9. QED
    BY <1>2, <1>3, <1>4, <1>6, <1>7, <1>8 DEF IInv

LEMMA Inductive == IInv /\ [Next]_vars => IInv'
  BY QueueStep, CountersStep, CallsStep, WorkerStep, HandleCountStep, ClosingStep, AccountsStep,
     CountersAgreeStep, NothingStrandedStep, NumberedStep
     DEF IInv, Shape

LEMMA SpecInductive == Spec => []IInv
  BY InitIsInductive, Inductive, PTL DEF Spec

(* The queue keeps within its capacity, and producers is the number of the *)
(* handles that exist (TypeOK of PublishQueue; QueueInner).                *)
THEOREM QueueStaysBounded == Spec => []TypeOK
  <1>1. Shape /\ HandleCount => TypeOK
    <2>1. ASSUME Shape PROVE {h \in Handles : Live(h)} = At(op, States \ {"none"})
      BY <2>1 DEF Shape, Calls, States, At, Live
    <2>2. QED
      BY <2>1 DEF Shape, Queue, Counters, Calls, Worker, HandleCount, TypeOK
  <1>2. QED
    BY <1>1, SpecInductive, PTL DEF IInv

(* Every number try_publish gave out is accounted for exactly once, with   *)
(* any number of handles racing each other and the worker.                 *)
THEOREM NoFrameIsLostSilently == Spec => []EveryFrameAccounted
  BY SpecInductive, PTL DEF IInv

(* The Prometheus counters trail the snapshot only by increments that are  *)
(* still due.                                                              *)
THEOREM BothCountersAgree == Spec => []CountersAgree
  BY SpecInductive, PTL DEF IInv

(* Frames of one handle are sent in the order of their numbers, without    *)
(* repetition, under either policy.                                        *)
THEOREM FramesKeepTheirOrder == Spec => []DeliveredInOrder
  BY NumberedIsInOrder, SpecInductive, PTL DEF IInv

(* A worker that ends of its own accord ends after the last publisher, with *)
(* nothing left in the queue.                                              *)
THEOREM DrainLeavesNothing == Spec => []NothingStranded
  BY SpecInductive, PTL DEF IInv

(***************************************************************************)
(* The queue is an outbox                                                  *)
(***************************************************************************)

(* What the worker is sending, as the outbox sees it. *)
Sending == IF worker = "sending" THEN <<hand>> ELSE <<>>

(* A frame that is about to be offered is nowhere on its way yet, and one  *)
(* that is being sent has not been sent.                                   *)
LEMMA OfferedIsNew ==
  ASSUME Shape, Numbered, NEW h \in Handles, op[h] = "offering"
  PROVE  frame[h] \notin Range(buf) \cup Range(Sending) \cup Range(sent)
  <1>1. /\ frame[h].from = h /\ frame[h].id \in Nat
        /\ Under(sent, h, frame[h].id) /\ Under(buf, h, frame[h].id)
        /\ worker = "sending" /\ hand.from = h => hand.id < frame[h].id
    BY FrameParts DEF Shape, Calls, Numbered, Offering
  <1>2. frame[h] \notin Range(buf) /\ frame[h] \notin Range(sent)
    BY <1>1 DEF Under, Range
  <1>3. frame[h] \notin Range(Sending)
    BY <1>1 DEF Range, Sending
  <1>4. QED
    BY <1>2, <1>3

LEMMA SentIsNew ==
  ASSUME Shape, Numbered, worker = "sending"
  PROVE  hand \notin Range(sent) /\ Sending # <<>> /\ Sending[1] = hand
  <1>1. Under(sent, hand.from, hand.id) /\ hand.id \in Nat
    BY FrameParts DEF Shape, Worker, Numbered
  <1>2. QED
    BY <1>1 DEF Under, Range, Sending

LEMMA RangeOfAppend ==
  ASSUME NEW S, NEW s \in Seq(S), NEW e
  PROVE  Range(Append(s, e)) = Range(s) \cup {e}
  <1> DEFINE T == S \cup {e}
             a == Append(s, e)
  <1>1. s \in Seq(T) /\ e \in T
    BY SeqMonotonic
  <1>2. /\ DOMAIN s = 1 .. Len(s) /\ Len(s) \in Nat /\ DOMAIN a = 1 .. Len(s) + 1
        /\ \A i \in 1 .. Len(s) : a[i] = s[i]
        /\ a[Len(s) + 1] = e
    BY <1>1, AppendProperties, LenProperties
  <1> HIDE DEF a
  <1>3. ASSUME NEW i \in DOMAIN a PROVE a[i] \in Range(s) \cup {e}
    BY <1>2 DEF Range
  <1>4. ASSUME NEW i \in DOMAIN s PROVE s[i] \in Range(a)
    BY <1>2 DEF Range
  <1>5. e \in Range(a)
    BY <1>2 DEF Range
  <1>6. QED
    BY <1>3, <1>4, <1>5 DEF Range, a

(* Nothing happens that the outbox sees. *)
OutboxRests == UNCHANGED <<policy, buf, Sending, sent, Lost>>

LEMMA RestIsAStutter ==
  ASSUME OutboxRests
  PROVE  UNCHANGED TheOutbox!vars
  BY DEF OutboxRests, TheOutbox!vars, Sending, Range

LEMMA LostCounts ==
  ASSUME Counters, worker' = worker
  PROVE  /\ Lost \in Nat
         /\ UNCHANGED <<dropped, lockFree>> => Lost' = Lost
         /\ \A r \in Reasons : RecordDrop(r) /\ UNCHANGED lockFree => Lost' = Lost + 1
         /\ \A r \in Reasons : lockFree' = [lockFree EXCEPT ![r] = @ + 1] /\ UNCHANGED dropped =>
              Lost' = Lost + 1
  <1>1. Total(dropped) \in Nat /\ Total(lockFree) \in Nat
    BY TotalUpdate DEF Counters, Reasons
  <1>2. \A r \in Reasons : RecordDrop(r) => Total(dropped') = Total(dropped) + 1
    BY RecordDropCounts
  <1>3. ASSUME NEW r \in Reasons, lockFree' = [lockFree EXCEPT ![r] = @ + 1]
        PROVE  Total(lockFree') = Total(lockFree) + 1
    <2>1. lockFree \in [Reasons -> Nat]
      BY DEF Counters
    <2>2. Total([lockFree EXCEPT ![r] = @ + 1]) = Total(lockFree) + 1
      BY <2>1, TotalUpdate
    <2>3. QED
      BY <1>3, <2>2
  <1>4. UNCHANGED <<dropped, lockFree>> => Lost' = Lost
    BY DEF Lost, Total
  <1>5. UNCHANGED lockFree => Total(lockFree)' = Total(lockFree)
    BY DEF Total
  <1>6. UNCHANGED dropped => Total(dropped)' = Total(dropped)
    BY DEF Total
  <1>7. Lost = Total(dropped) + Total(lockFree) + (IF worker = "losing" THEN 1 ELSE 0)
    BY DEF Lost
  <1>8. Lost' = Total(dropped)' + Total(lockFree)' + (IF worker = "losing" THEN 1 ELSE 0)
    BY DEF Lost
  <1>9. Total(dropped)' = Total(dropped') /\ Total(lockFree)' = Total(lockFree')
    BY DEF Total
  <1>10. QED
    BY <1>1, <1>2, <1>3, <1>4, <1>5, <1>6, <1>7, <1>8, <1>9

LEMMA OutboxStep ==
  ASSUME IInv, [Next]_vars
  PROVE  [TheOutbox!Next]_(TheOutbox!vars)
  <1>1. /\ Shape /\ Numbered /\ Counters
        /\ buf \in Seq(Frames) /\ Len(buf) <= Capacity /\ Len(buf) \in Nat
        /\ sent \in Seq(Frames) /\ hand \in Frames /\ Capacity \in Nat \ {0}
    BY CapacityAssumption DEF IInv, Shape, Queue, Worker
  <1>2. /\ "RejectNewest" \in Reasons /\ "DropOldest" \in Reasons /\ "Disconnected" \in Reasons
        /\ "SendFailed" \in Reasons /\ "MutexContended" \in Reasons
    BY DEF Reasons
  <1>3. ASSUME UNCHANGED <<policy, buf, Sending, sent>>, Lost' = Lost + 1
        PROVE  TheOutbox!Refuse
    BY <1>3 DEF TheOutbox!Refuse, Sending, Range
  <1>4. ASSUME NEW h \in Handles, TryEnqueue(h) PROVE [TheOutbox!Next]_(TheOutbox!vars)
    <2>1. /\ op[h] = "offering"
          /\ UNCHANGED <<policy, lockFree, worker, hand, sent, Sending>>
      BY <1>4 DEF TryEnqueue, consumer, Sending
    <2>2. CASE buf' = buf /\ \E r \in Reasons : RecordDrop(r)
      <3>1. Lost' = Lost + 1
        BY <1>1, <2>1, <2>2, LostCounts
      <3>2. QED
        BY <1>3, <2>1, <2>2, <3>1 DEF TheOutbox!Next
    <2>3. frame[h] \notin Range(buf) \cup Range(Sending) \cup Range(sent)
      BY <1>1, <2>1, OfferedIsNew
    <2>4. CASE Len(buf) < Capacity /\ buf' = Append(buf, frame[h]) /\ UNCHANGED dropped
      <3>1. Lost' = Lost
        BY <1>1, <2>1, <2>4, LostCounts
      <3>2. frame[h] \in Range(buf')
        BY <1>1, <2>4, RangeOfAppend
      <3>3. TheOutbox!Accept
        BY <2>1, <2>3, <2>4, <3>1, <3>2 DEF TheOutbox!Accept, TheOutbox!Held, TheOutbox!Range, Range, Sending
      <3>4. QED
        BY <3>3 DEF TheOutbox!Next
    <2>5. CASE /\ Len(buf) >= Capacity /\ policy = "DropOldest"
               /\ buf' = Append(Tail(buf), frame[h]) /\ RecordDrop("DropOldest")
      <3>1. Lost' = Lost + 1
        BY <1>1, <1>2, <2>1, <2>5, LostCounts
      <3>2. Tail(buf) \in Seq(Frames)
        BY <1>1, <2>5, HeadTailProperties
      <3>3. frame[h] \in Range(buf')
        <4> DEFINE rest == Tail(buf)
        <4>1. rest \in Seq(Frames) /\ buf' = Append(rest, frame[h])
          BY <2>5, <3>2
        <4> HIDE DEF rest
        <4>2. Range(Append(rest, frame[h])) = Range(rest) \cup {frame[h]}
          BY <4>1, RangeOfAppend
        <4>3. QED
          BY <4>1, <4>2
      <3>4. TheOutbox!Replace
        BY <1>1, <2>1, <2>3, <2>5, <3>1, <3>3
           DEF TheOutbox!Replace, TheOutbox!Held, TheOutbox!Range, Range, Sending
      <3>5. QED
        BY <3>4 DEF TheOutbox!Next
    <2>6. QED
      BY <1>2, <1>4, <2>2, <2>4, <2>5 DEF TryEnqueue
  <1>5. ASSUME NEW h \in Handles, RecordPublishLoss(h) \/ Contended(h)
        PROVE  TheOutbox!Next
    <2>1. /\ UNCHANGED <<policy, buf, worker, hand, sent, Sending>>
          /\ \/ RecordDrop("SendFailed") /\ UNCHANGED lockFree
             \/ /\ UNCHANGED dropped
                /\ \E r \in Reasons : lockFree' = [lockFree EXCEPT ![r] = @ + 1]
      BY <1>2, <1>5 DEF RecordPublishLoss, Contended, consumer, inner, Sending
    <2>2. Lost' = Lost + 1
      BY <1>1, <1>2, <2>1, LostCounts
    <2>3. QED
      BY <1>3, <2>1, <2>2 DEF TheOutbox!Next
  <1>6. ASSUME NEW h \in Handles, Lock(h) \/ CountExported(h) \/ Clone(h) \/ DropHandle(h)
                 \/ Publish(h) \/ Begin(h)
        PROVE  OutboxRests
    <2>1. UNCHANGED <<policy, buf, worker, hand, sent, dropped, lockFree>>
      BY <1>6 DEF Lock, CountExported, Clone, DropHandle, Publish, Begin, inner, consumer
    <2>2. QED
      BY <1>1, <2>1, LostCounts DEF OutboxRests, Sending
  <1>7. CASE ConsumerLock \/ ExportLeftover \/ Abandon \/ UNCHANGED vars
    <2>1. /\ UNCHANGED <<policy, buf, hand, sent, dropped, lockFree>>
          /\ \/ worker' = worker
             \/ worker \notin {"sending", "losing"} /\ worker' \notin {"sending", "losing"}
      <3>1. CASE ConsumerLock \/ UNCHANGED vars
        <4>1. UNCHANGED inner /\ UNCHANGED lockFree /\ UNCHANGED consumer
          BY <3>1 DEF ConsumerLock, vars
        <4>2. QED
          BY <4>1 DEF inner, consumer
      <3>2. CASE ExportLeftover \/ Abandon
        BY <3>2 DEF ExportLeftover, Abandon, inner
      <3>3. QED
        BY <1>7, <3>1, <3>2
    <2>2. OutboxRests
      BY <2>1 DEF OutboxRests, Sending, Lost, Total
    <2>3. QED
      BY <2>2, RestIsAStutter
  <1>8. CASE PollWorker
    <2>1. worker = "polling" /\ UNCHANGED <<policy, sent, dropped, lockFree>>
      BY <1>8 DEF PollWorker
    <2>2. CASE buf # <<>> /\ buf' = Tail(buf) /\ hand' = Head(buf) /\ worker' = "sending"
      <3>1. Lost' = Lost /\ Sending = <<>> /\ Sending' = <<Head(buf)>>
        BY <2>1, <2>2 DEF Lost, Total, Sending
      <3>2. TheOutbox!Take
        BY <2>1, <2>2, <3>1 DEF TheOutbox!Take, Sending, Range
      <3>3. QED
        BY <3>2 DEF TheOutbox!Next
    <2>3. CASE UNCHANGED <<buf, hand>> /\ worker' \in {"polling", "closing"}
      <3>1. OutboxRests
        BY <2>1, <2>3 DEF OutboxRests, Sending, Lost, Total
      <3>2. QED
        BY <3>1, RestIsAStutter
    <2>4. QED
      BY <1>8, <2>1, <2>2, <2>3 DEF PollWorker
  <1>9. CASE SendDequeuedMessage
    <2>1. /\ worker = "sending" /\ UNCHANGED <<policy, buf, dropped, lockFree>>
          /\ hand \notin Range(sent) /\ Sending # <<>> /\ Sending[1] = hand
      BY <1>1, <1>9, SentIsNew DEF SendDequeuedMessage, inner
    <2>2. CASE worker' = "polling" /\ sent' = Append(sent, hand)
      <3>1. Lost' = Lost /\ Sending' = <<>>
        BY <2>1, <2>2 DEF Lost, Total, Sending
      <3>2. Range(sent)' = Range(sent) \cup {hand}
        <4>1. Range(Append(sent, hand)) = Range(sent) \cup {hand}
          BY <1>1, RangeOfAppend
        <4>2. QED
          BY <2>2, <4>1 DEF Range
      <3>3. TheOutbox!Send
        BY <2>1, <3>1, <3>2 DEF TheOutbox!Send, Sending
      <3>4. QED
        BY <3>3 DEF TheOutbox!Next
    <2>3. CASE worker' = "losing" /\ sent' = sent
      <3>1. Total(dropped) \in Nat /\ Total(lockFree) \in Nat
        BY <1>1, <1>2, TotalUpdate DEF Counters
      <3>2. Lost' = Lost + 1 /\ Sending' = <<>>
        <4>1. Total(dropped)' = Total(dropped) /\ Total(lockFree)' = Total(lockFree)
          BY <2>1 DEF Total
        <4>2. QED
          BY <2>1, <2>3, <3>1, <4>1 DEF Lost, Sending
      <3>3. TheOutbox!SendFails
        BY <2>1, <2>3, <3>2 DEF TheOutbox!SendFails, Sending, Range
      <3>4. QED
        BY <3>3 DEF TheOutbox!Next
    <2>4. QED
      BY <1>9, <2>2, <2>3 DEF SendDequeuedMessage
  <1>10. CASE RecordLoss
    <2>1. /\ worker = "losing" /\ worker' = "polling" /\ RecordDrop("SendFailed")
          /\ UNCHANGED <<policy, buf, hand, sent, lockFree>>
      BY <1>10 DEF RecordLoss
    <2>2. Total(dropped') = Total(dropped) + 1 /\ Total(dropped) \in Nat /\ Total(lockFree) \in Nat
      BY <1>1, <1>2, <2>1, RecordDropCounts, TotalUpdate DEF Counters
    <2>3. Lost' = Lost
      <3>1. Total(dropped)' = Total(dropped') /\ Total(lockFree)' = Total(lockFree)
        BY <2>1 DEF Total
      <3>2. QED
        BY <2>1, <2>2, <3>1 DEF Lost
    <2>4. OutboxRests
      BY <2>1, <2>3 DEF OutboxRests, Sending
    <2>5. QED
      BY <2>4, RestIsAStutter
  <1>11. CASE DropConsumer
    <2>1. /\ worker = "closing" /\ worker' = "exporting" /\ buf' = <<>>
          /\ dropped' = [dropped EXCEPT !["Disconnected"] = @ + Len(buf)]
          /\ UNCHANGED <<policy, hand, sent, lockFree>>
      BY <1>11 DEF DropConsumer
    <2>2. Total(dropped') = Total(dropped) + Len(buf) /\ Total(dropped) \in Nat /\ Total(lockFree) \in Nat
      BY <1>1, <1>2, <2>1, TotalUpdate DEF Counters
    <2>3. Lost' = Lost + Len(buf) /\ Sending' = Sending /\ Lost \in Nat
      <3>1. Total(dropped)' = Total(dropped') /\ Total(lockFree)' = Total(lockFree)
        BY <2>1 DEF Total
      <3>2. Lost' = Lost + Len(buf) /\ Lost \in Nat
        BY <1>1, <2>1, <2>2, <3>1 DEF Lost
      <3>3. QED
        BY <2>1, <3>2 DEF Sending
    <2>4. CASE buf # <<>>
      <3>1. TheOutbox!Flush
        BY <2>1, <2>3, <2>4 DEF TheOutbox!Flush, Sending, Range
      <3>2. QED
        BY <3>1 DEF TheOutbox!Next
    <2>5. CASE buf = <<>>
      <3>1. OutboxRests
        BY <1>1, <2>1, <2>3, <2>5 DEF OutboxRests
      <3>2. QED
        BY <3>1, RestIsAStutter
    <2>6. QED
      BY <2>4, <2>5
  <1>12. QED
    BY <1>4, <1>5, <1>6, <1>7, <1>8, <1>9, <1>10, <1>11, RestIsAStutter
       DEF Next, HandleStep, ConsumerStep

(* The queue with its threads, its mutex and its counters does what the    *)
(* outbox of one process may do: no thread sees a frame sent twice, sent   *)
(* out of order, replaced under RejectNewest or missing from the counters. *)
THEOREM QueueIsAnOutbox == Spec => RefinesOutbox
  <1>1. Init => TheOutbox!Init
    <2>1. Init => Range(sent) = {} /\ Lost = 0
      BY DEF Init, Range, Lost, Total, Reasons
    <2>2. QED
      BY <2>1 DEF Init, TheOutbox!Init, TheOutbox!Empty, TheOutbox!Policies
  <1>2. QED
    BY <1>1, OutboxStep, SpecInductive, PTL DEF Spec, RefinesOutbox, TheOutbox!Spec
===============================================================================
