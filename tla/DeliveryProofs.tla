---------------------------- MODULE DeliveryProofs ----------------------------
(***************************************************************************)
(* Proofs about Delivery, for every number of processes and frames, every  *)
(* capacity, every reuse of process ids and every network.                 *)
(*                                                                         *)
(* Three laws: a key names one frame, what is not accounted for is still   *)
(* in the process, and a mask is TRUE where a sensor was read.  The first  *)
(* is about numbers and sessions, the second about places, the third about *)
(* values; all are about the frames between publisher and network.  Places *)
(* also give the refinement: what a process keeps, sends and counts is the *)
(* outbox that PublishQueue has with all its threads.                      *)
(***************************************************************************)
EXTENDS Delivery, FiniteSetTheorems, SequenceTheorems, TLAPS

InQueue == {queue[i] : i \in 1 .. Len(queue)}
InHand == {hand[i] : i \in 1 .. Len(hand)}
Inside == InQueue \cup InHand
Known == Inside \cup wire

(* What the next batch is numbered. *)
NextNumber == IF relay.operator THEN relay.seq ELSE relay.clock.next

-----------------------------------------------------------------------------
(***************************************************************************)
(* The inductive invariant                                                 *)
(***************************************************************************)
Shape ==
  /\ \E S : queue \in Seq(S) /\ hand \in Seq(S)
  /\ Len(queue) <= Capacity /\ Len(hand) <= 1
  /\ wall \in Nat /\ started \in 0 .. MaxStarts
  /\ counted \in [Processes -> SUBSET Nat] /\ published \in [Processes -> Nat]
  /\ accepted \subseteq wire /\ discarded \subseteq wire
  /\ ~relay.up => queue = <<>> /\ hand = <<>>
  /\ relay.up =>
       /\ started \in Processes
       /\ {"clock", "seq"} \subseteq DOMAIN relay
       /\ relay.seq \in Nat /\ relay.clock.next \in Nat
       /\ relay.publisher \in {"corpus-ipc", "absent"}
       /\ relay.policy \in {"DropOldest", "RejectNewest"}
       /\ relay.operator <=> relay.session.operator
       /\ relay.session.at \in Nat

(* Where a frame is from, and the key it has. *)
Keyed(message) ==
  /\ message.from \in 1 .. started
  /\ message.place \in Nat /\ message.place < published[message.from]
  /\ message.batch.batch \in Nat /\ message.batch.session.at \in Nat
  /\ relay.up /\ message.from = started =>
       message.batch.session = relay.session /\ message.batch.batch < NextNumber
  /\ ~setBack /\ ~message.batch.session.operator => message.batch.session.at <= wall

Later(one, other) == ~one.operator /\ ~other.operator => one.at < other.at

Keys ==
  /\ \A message \in Known : Keyed(message)
  /\ \A one, other \in Known :
       one.from = other.from /\ one.batch.batch = other.batch.batch => one = other
  /\ ~setBack => \A one, other \in Known :
       one.from < other.from => Later(one.batch.session, other.batch.session)
  /\ ~setBack /\ relay.up =>
       /\ ~relay.operator => relay.session.at <= wall
       /\ \A message \in Known :
            message.from < started => Later(message.batch.session, relay.session)

(* The frames inside the process are its own, in order, and later than     *)
(* what it has sent.                                                       *)
Places ==
  /\ \A message \in Inside : message.from = started /\ message.place \in Nat
  /\ \A i, j \in 1 .. Len(queue) : i < j => queue[i].place < queue[j].place
  /\ \A i \in 1 .. Len(queue), message \in InHand : message.place < queue[i].place
  /\ \A message \in Inside, gone \in wire :
       gone.from = started => gone.place < message.place

(* What a running process has not accounted for is inside. *)
NothingVanishes ==
  relay.up => \A k \in Unaccounted(started) : \E message \in Inside : message.place = k

BoundedLoss(p) ==
  /\ Cardinality(Unaccounted(p)) <= Capacity + 1
  /\ \A lost \in Unaccounted(p), sent \in SentOf(p) : sent < lost

Unborn == \A p \in Processes : p > started => published[p] = 0
DeadLoss == \A p \in Processes : (p # started \/ ~relay.up) => BoundedLoss(p)

IInv == Shape /\ Keys /\ Places /\ NothingVanishes /\ Unborn /\ DeadLoss /\ OnlyReplaysDiscarded

LEMMA NothingUnaccounted ==
  ASSUME NEW p \in Processes, published[p] = 0
  PROVE  Unaccounted(p) = {} /\ BoundedLoss(p)
  <1>1. 0 .. published[p] - 1 = {}
    OBVIOUS
  <1>2. Unaccounted(p) = {}
    BY <1>1 DEF Unaccounted
  <1>3. QED
    BY <1>2, FS_EmptySet, DeliveryAssumption DEF BoundedLoss

LEMMA InitIsInductive ==
  ASSUME Init
  PROVE  IInv
  <1>1. relay.up = FALSE /\ Inside = {} /\ Known = {}
    BY DEF Init, NotRunning, Inside, InQueue, InHand, Known
  <1>2. Shape
    <2>1. queue \in Seq({}) /\ hand \in Seq({}) /\ Len(queue) = 0 /\ Len(hand) = 0
      BY DEF Init
    <2>2. QED
      BY <1>1, <2>1, DeliveryAssumption DEF Init, Shape
  <1>3. Keys /\ Places /\ NothingVanishes /\ OnlyReplaysDiscarded
    BY <1>1, <1>2 DEF Init, Keys, Places, NothingVanishes, OnlyReplaysDiscarded
  <1>4. Unborn
    BY DEF Init, Unborn
  <1>5. DeadLoss
    BY NothingUnaccounted DEF Init, DeadLoss
  <1>6. QED
    BY <1>2, <1>3, <1>4, <1>5 DEF IInv

-----------------------------------------------------------------------------
(***************************************************************************)
(* How frames move                                                         *)
(***************************************************************************)

(* The batch that is published now. *)
Published == Message(MappingToStimulusBatch(
  ToSensoryMappingAt(FrameOf(RawNow, wall, Cadence, relay.clock), wall), relay.session, NextNumber))

LEMMA PublishedHas ==
  /\ Published.from = started /\ Published.place = published[started]
  /\ Published.batch.session = relay.session /\ Published.batch.batch = NextNumber
  BY DEF Published, Message, MappingToStimulusBatch

(* A queue after it has lost its head, or won a tail. *)
LEMMA TailMoves ==
  ASSUME NEW S, NEW q \in Seq(S), q # <<>>
  PROVE  /\ Tail(q) \in Seq(S) /\ Len(Tail(q)) = Len(q) - 1 /\ Len(q) \in Nat \ {0}
         /\ \A i \in 1 .. Len(Tail(q)) : Tail(q)[i] = q[i + 1]
         /\ Head(q) = q[1]
         /\ {q[i] : i \in 1 .. Len(q)} = {Head(q)} \cup {Tail(q)[i] : i \in 1 .. Len(Tail(q))}
  <1>1. /\ Tail(q) \in Seq(S) /\ Len(Tail(q)) = Len(q) - 1 /\ Len(q) \in Nat \ {0}
        /\ \A i \in 1 .. Len(Tail(q)) : Tail(q)[i] = q[i + 1]
        /\ Head(q) = q[1]
    BY HeadTailProperties
  <1>2. \A i \in 1 .. Len(q) : i = 1 \/ (i - 1 \in 1 .. Len(Tail(q)) /\ q[i] = Tail(q)[i - 1])
    BY <1>1
  <1>3. \A i \in 1 .. Len(Tail(q)) : i + 1 \in 1 .. Len(q)
    BY <1>1
  <1> DEFINE rest == Tail(q)
  <1> HIDE DEF rest
  <1>4. {q[i] : i \in 1 .. Len(q)} = {q[1]} \cup {rest[i] : i \in 1 .. Len(rest)}
    <2>1. ASSUME NEW i \in 1 .. Len(q), i # 1
          PROVE  \E j \in 1 .. Len(rest) : q[i] = rest[j]
      BY <1>2, <2>1 DEF rest
    <2>2. ASSUME NEW j \in 1 .. Len(rest)
          PROVE  \E i \in 1 .. Len(q) : rest[j] = q[i]
      BY <1>1, <1>3 DEF rest
    <2>3. 1 \in 1 .. Len(q)
      BY <1>1
    <2>4. ASSUME NEW i \in 1 .. Len(q)
          PROVE  q[i] \in {q[1]} \cup {rest[j] : j \in 1 .. Len(rest)}
      BY <2>1
    <2>5. ASSUME NEW e \in {q[1]} \cup {rest[j] : j \in 1 .. Len(rest)}
          PROVE  e \in {q[i] : i \in 1 .. Len(q)}
      BY <2>2, <2>3
    <2>6. QED
      BY <2>4, <2>5
  <1>5. QED
    BY <1>1, <1>4 DEF rest

LEMMA AppendMoves ==
  ASSUME NEW S, NEW q \in Seq(S), NEW e
  PROVE  /\ Append(q, e) \in Seq(S \cup {e}) /\ Len(Append(q, e)) = Len(q) + 1 /\ Len(q) \in Nat
         /\ \A i \in 1 .. Len(q) : Append(q, e)[i] = q[i]
         /\ Append(q, e)[Len(q) + 1] = e
         /\ {Append(q, e)[i] : i \in 1 .. Len(Append(q, e))} = {q[i] : i \in 1 .. Len(q)} \cup {e}
  <1> DEFINE T == S \cup {e}
  <1>1. q \in Seq(T) /\ e \in T
    BY SeqMonotonic
  <1>2. /\ Append(q, e) \in Seq(T) /\ Len(Append(q, e)) = Len(q) + 1 /\ Len(q) \in Nat
        /\ \A i \in 1 .. Len(q) : Append(q, e)[i] = q[i]
        /\ Append(q, e)[Len(q) + 1] = e
    BY <1>1, AppendProperties
  <1> DEFINE longer == Append(q, e)
  <1> HIDE DEF longer
  <1>3. {longer[i] : i \in 1 .. Len(longer)} = {q[i] : i \in 1 .. Len(q)} \cup {e}
    BY <1>2 DEF longer
  <1>4. QED
    BY <1>2, <1>3 DEF longer

LEMMA MappingIsNumbered ==
  ASSUME NEW frame, NEW now
  PROVE  ToSensoryMappingAt(frame, now).batch = frame.batch
  BY DEF ToSensoryMappingAt, ViewAt

LEMMA FrameIsNumbered ==
  ASSUME NEW raw, NEW now, NEW cadence, NEW clock
  PROVE  FrameOf(raw, now, cadence, clock).batch = clock.next
  BY DEF FrameOf

(* What publishing does to the process and its queue. *)
LEMMA PublishMoves ==
  ASSUME Shape, PublishFrame
  PROVE  /\ relay.up /\ relay'.up /\ started \in Processes
         /\ relay'.publisher = relay.publisher /\ relay'.policy = relay.policy
         /\ relay'.operator = relay.operator /\ relay'.session = relay.session
         /\ DOMAIN relay' = DOMAIN relay
         /\ relay'.clock.next = relay.clock.next + 1
         /\ relay'.seq = relay.seq + 1 \/ (relay'.seq = relay.seq /\
                                          ~(relay.operator /\ relay.publisher = "corpus-ipc"))
         /\ published' = [published EXCEPT ![started] = @ + 1]
         /\ hand' = hand /\ wire' = wire /\ accepted' = accepted /\ discarded' = discarded
         /\ wall' = wall /\ setBack' = setBack /\ started' = started
         /\ \/ /\ queue' = queue
               /\ counted' = [counted EXCEPT ![started] = @ \cup {published[started]}]
            \/ /\ relay.publisher = "corpus-ipc" /\ Len(queue) < Capacity
               /\ queue' = Append(queue, Published) /\ counted' = counted
            \/ /\ relay.publisher = "corpus-ipc" /\ Len(queue) = Capacity /\ relay.policy = "DropOldest"
               /\ queue' = Append(Tail(queue), Published)
               /\ counted' = [counted EXCEPT ![started] = @ \cup {Head(queue).place}]
  <1> DEFINE frame == FrameOf(RawNow, wall, Cadence, relay.clock)
             mapping == ToSensoryMappingAt(frame, wall)
             number == IF relay.operator THEN relay.seq ELSE mapping.batch
             message == Message(MappingToStimulusBatch(mapping, relay.session, number))
  <1>1. number = NextNumber
    BY MappingIsNumbered, FrameIsNumbered DEF NextNumber
  <1>2. message = Published /\ message.place = published[started]
    BY <1>1, PublishedHas DEF Published
  <1>3. IF relay.publisher = "absent" THEN Loss(message) ELSE TryEnqueue(message) \/ Loss(message)
    BY DEF PublishFrame, TryPublish
  <1> HIDE DEF message
  <1>4. \/ /\ queue' = queue
           /\ counted' = [counted EXCEPT ![started] = @ \cup {published[started]}]
        \/ /\ relay.publisher = "corpus-ipc" /\ Len(queue) < Capacity
           /\ queue' = Append(queue, Published) /\ counted' = counted
        \/ /\ relay.publisher = "corpus-ipc" /\ Len(queue) = Capacity /\ relay.policy = "DropOldest"
           /\ queue' = Append(Tail(queue), Published)
           /\ counted' = [counted EXCEPT ![started] = @ \cup {Head(queue).place}]
    BY <1>2, <1>3 DEF PublishFrame, Shape, TryEnqueue, Loss, Count
  <1>5. /\ relay.up /\ started \in Processes /\ {"clock", "seq"} \subseteq DOMAIN relay
        /\ relay' = [relay EXCEPT !.clock = Stamp(@, RawNow.at),
                                  !.seq = IF relay.publisher = "corpus-ipc" /\ relay.operator
                                          THEN @ + 1 ELSE @]
    BY DEF PublishFrame, Shape
  <1>6. /\ relay'.up /\ relay'.publisher = relay.publisher /\ relay'.policy = relay.policy
        /\ relay'.operator = relay.operator /\ relay'.session = relay.session
        /\ DOMAIN relay' = DOMAIN relay
    BY <1>5
  <1>7. relay'.clock.next = relay.clock.next + 1
    BY <1>5 DEF Stamp
  <1>8. relay'.seq = relay.seq + 1 \/ (relay'.seq = relay.seq /\
                                        ~(relay.operator /\ relay.publisher = "corpus-ipc"))
    BY <1>5
  <1>9. /\ published' = [published EXCEPT ![started] = @ + 1]
        /\ hand' = hand /\ wire' = wire /\ accepted' = accepted /\ discarded' = discarded
        /\ wall' = wall /\ setBack' = setBack /\ started' = started
    BY DEF PublishFrame, network
  <1>10. QED
    BY <1>4, <1>5, <1>6, <1>7, <1>8, <1>9

LEMMA DiscardMoves ==
  ASSUME Shape, DiscardFrame
  PROVE  /\ relay.up /\ relay'.up
         /\ relay'.publisher = relay.publisher /\ relay'.policy = relay.policy
         /\ relay'.operator = relay.operator /\ relay'.session = relay.session
         /\ DOMAIN relay' = DOMAIN relay
         /\ relay'.clock.next = relay.clock.next + 1 /\ relay'.seq = relay.seq
  <1>1. relay.up /\ "clock" \in DOMAIN relay /\ relay' = [relay EXCEPT !.clock = Stamp(@, RawNow.at)]
    BY DEF DiscardFrame, Shape
  <1>2. relay'.clock.next = relay.clock.next + 1
    BY <1>1 DEF Stamp
  <1>3. QED
    BY <1>1, <1>2

LEMMA StartMoves ==
  ASSUME Shape, Start
  PROVE  /\ ~relay.up /\ relay'.up /\ started' = started + 1 /\ started' \in Processes
         /\ wall' = wall + 1 /\ setBack' = setBack
         /\ {"clock", "seq"} \subseteq DOMAIN relay' /\ relay'.seq \in Nat /\ relay'.clock.next \in Nat
         /\ relay'.publisher \in {"corpus-ipc", "absent"}
         /\ relay'.policy \in {"DropOldest", "RejectNewest"}
         /\ relay'.operator <=> relay'.session.operator
         /\ relay'.session.at \in Nat /\ (~relay'.operator => relay'.session.at = wall + 1)
         /\ queue' = queue /\ hand' = hand /\ counted' = counted /\ published' = published
         /\ wire' = wire /\ accepted' = accepted /\ discarded' = discarded
  <1>1. PICK pid \in Pids, publisher \in {"corpus-ipc", "absent"},
             policy \in {"DropOldest", "RejectNewest"}, operator \in BOOLEAN :
          relay' = [up |-> TRUE, publisher |-> publisher, policy |-> policy, seq |-> 0,
                    clock |-> NewClock, operator |-> operator,
                    session |-> IF operator THEN OperatorSession
                                ELSE GenerateSessionId(pid, wall')]
    BY DEF Start
  <1>2. /\ ~relay.up /\ started' = started + 1 /\ started < MaxStarts
        /\ wall' = wall + 1 /\ setBack' = setBack
        /\ queue' = queue /\ hand' = hand /\ counted' = counted /\ published' = published
        /\ wire' = wire /\ accepted' = accepted /\ discarded' = discarded
    BY DEF Start, outbox, network
  <1>3. started \in 0 .. MaxStarts /\ wall \in Nat
    BY DEF Shape
  <1>4. started' \in Processes
    BY <1>2, <1>3, DeliveryAssumption DEF Processes
  <1>5. /\ relay'.up /\ relay'.seq = 0 /\ relay'.clock.next = 0 /\ {"clock", "seq"} \subseteq DOMAIN relay'
        /\ relay'.publisher = publisher /\ relay'.policy = policy /\ relay'.operator = operator
    BY <1>1 DEF NewClock
  <1>6. /\ relay'.operator <=> relay'.session.operator
        /\ relay'.session.at \in Nat /\ (~relay'.operator => relay'.session.at = wall + 1)
    BY <1>1, <1>2, <1>3 DEF OperatorSession, GenerateSessionId
  <1>7. QED
    BY <1>2, <1>4, <1>5, <1>6

(* The frames inside: one may come in from the publisher, one may go out   *)
(* to the network; none comes back.                                        *)
LEMMA InsideMoves ==
  ASSUME Shape, [Next]_vars
  PROVE  /\ wire \subseteq wire' /\ wire' \subseteq wire \cup InHand
         /\ \/ Inside' \subseteq Inside
            \/ PublishFrame /\ relay.publisher = "corpus-ipc" /\ Inside' \subseteq Inside \cup {Published}
  <1>1. PICK S : queue \in Seq(S) /\ hand \in Seq(S)
    BY DEF Shape
  <1>2. CASE PublishFrame
    <2>1. wire' = wire /\ InHand' = InHand
      BY <1>2, PublishMoves DEF InHand
    <2>2. CASE queue' = queue
      BY <2>1, <2>2 DEF Inside, InQueue
    <2>3. CASE relay.publisher = "corpus-ipc" /\ queue' = Append(queue, Published)
      <3>1. InQueue' = InQueue \cup {Published}
        BY <1>1, <2>3, AppendMoves DEF InQueue
      <3>2. QED
        BY <1>2, <2>1, <2>3, <3>1 DEF Inside
    <2>4. CASE /\ relay.publisher = "corpus-ipc" /\ Len(queue) = Capacity
               /\ queue' = Append(Tail(queue), Published)
      <3>1. queue # <<>>
        BY <1>1, <2>4, DeliveryAssumption
      <3>2. Tail(queue) \in Seq(S) /\ {Tail(queue)[i] : i \in 1 .. Len(Tail(queue))} \subseteq InQueue
        BY <1>1, <3>1, TailMoves DEF InQueue
      <3>3. InQueue' = {Tail(queue)[i] : i \in 1 .. Len(Tail(queue))} \cup {Published}
        <4> DEFINE rest == Tail(queue)
        <4>1. rest \in Seq(S) /\ queue' = Append(rest, Published)
          BY <2>4, <3>2
        <4> HIDE DEF rest
        <4>2. InQueue' = {rest[i] : i \in 1 .. Len(rest)} \cup {Published}
          BY <4>1, AppendMoves DEF InQueue
        <4>3. QED
          BY <4>2 DEF rest
      <3>4. QED
        BY <1>2, <2>1, <2>4, <3>2, <3>3 DEF Inside
    <2>5. QED
      BY <1>2, <2>2, <2>3, <2>4, PublishMoves
  <1>3. CASE Take
    <2>1. hand' = <<Head(queue)>> /\ queue' = Tail(queue) /\ queue # <<>> /\ wire' = wire
      BY <1>3 DEF Take, network
    <2>2. InHand' = {Head(queue)}
      BY <2>1 DEF InHand
    <2>3. InQueue' \subseteq InQueue /\ Head(queue) \in InQueue
      <3>1. PICK q \in Seq(S) : q = queue
        BY <1>1
      <3>2. queue' = Tail(q) /\ q # <<>>
        BY <2>1, <3>1
      <3>3. /\ \A i \in 1 .. Len(Tail(q)) : i + 1 \in 1 .. Len(q) /\ Tail(q)[i] = q[i + 1]
            /\ 1 \in 1 .. Len(q) /\ Head(q) = q[1]
        BY <3>2, HeadTailProperties
      <3>4. Head(queue) \in InQueue
        BY <3>1, <3>3 DEF InQueue
      <3>5. ASSUME NEW i \in 1 .. Len(queue') PROVE queue'[i] \in InQueue
        BY <3>1, <3>2, <3>3 DEF InQueue
      <3>6. QED
        BY <3>4, <3>5 DEF InQueue
    <2>4. QED
      BY <2>1, <2>2, <2>3 DEF Inside
  <1>4. CASE Send \/ SendFails
    <2>1. /\ hand # <<>> /\ hand' = <<>> /\ queue' = queue
          /\ wire' = wire \cup {hand[1]} \/ wire' = wire
      BY <1>4 DEF Send, SendFails, network
    <2>2. hand[1] \in InHand
      BY <1>1, <2>1 DEF InHand
    <2>3. InHand' = {} /\ InQueue' = InQueue
      BY <2>1 DEF InHand, InQueue
    <2>4. QED
      BY <2>1, <2>2, <2>3 DEF Inside
  <1>5. CASE End
    <2>1. InHand' = {} /\ InQueue' = {} /\ wire' = wire
      BY <1>5 DEF InHand, InQueue, End, network
    <2>2. QED
      BY <2>1 DEF Inside
  <1>6. CASE Start \/ SetClockBack \/ DiscardFrame \/ Receive \/ UNCHANGED vars
    <2>1. queue' = queue /\ hand' = hand /\ wire' = wire
      BY <1>6 DEF Start, SetClockBack, DiscardFrame, Receive, vars, outbox, network
    <2>2. QED
      BY <2>1 DEF Inside, InQueue, InHand
  <1>7. QED
    BY <1>2, <1>3, <1>4, <1>5, <1>6 DEF Next

LEMMA ShapeStep ==
  ASSUME Shape, Places, [Next]_vars
  PROVE  Shape'
  <1>1. PICK S : queue \in Seq(S) /\ hand \in Seq(S)
    BY DEF Shape
  <1>2. CASE PublishFrame
    <2>1. published[started] \in Nat /\ published' \in [Processes -> Nat]
      BY <1>2, PublishMoves DEF Shape
    <2>2. \E T : queue' \in Seq(T) /\ hand' \in Seq(T) /\ Len(queue') <= Capacity
      <3> DEFINE T == S \cup {Published}
      <3>1. hand \in Seq(T) /\ hand' = hand /\ Len(queue) <= Capacity
        BY <1>1, <1>2, PublishMoves, SeqMonotonic DEF Shape
      <3>2. CASE queue' = queue
        BY <1>1, <3>1, <3>2, SeqMonotonic
      <3>3. CASE Len(queue) < Capacity /\ queue' = Append(queue, Published)
        <4>1. queue' \in Seq(T) /\ Len(queue') = Len(queue) + 1
          BY <1>1, <3>3, AppendMoves
        <4>2. QED
          BY <1>1, <3>1, <3>3, <4>1, DeliveryAssumption
      <3>4. CASE Len(queue) = Capacity /\ queue' = Append(Tail(queue), Published)
        <4>1. queue # <<>>
          BY <1>1, <3>4, DeliveryAssumption
        <4>2. Tail(queue) \in Seq(S) /\ Len(Tail(queue)) = Capacity - 1
          BY <1>1, <3>4, <4>1, TailMoves
        <4>3. queue' \in Seq(T) /\ Len(queue') = Len(Tail(queue)) + 1
          BY <3>4, <4>2, AppendMoves
        <4>4. QED
          BY <3>1, <4>2, <4>3, DeliveryAssumption
      <3>5. QED
        BY <1>2, <3>2, <3>3, <3>4, PublishMoves
    <2>3. counted' \in [Processes -> SUBSET Nat]
      <3>1. counted' = [counted EXCEPT ![started] = @ \cup {published[started]}]
              \/ counted' = counted
              \/ (queue # <<>> /\ counted' = [counted EXCEPT ![started] = @ \cup {Head(queue).place}])
        BY <1>1, <1>2, PublishMoves, DeliveryAssumption
      <3>2. queue # <<>> => Head(queue).place \in Nat
        BY <1>1, TailMoves DEF Places, Inside, InQueue
      <3>3. QED
        BY <2>1, <3>1, <3>2 DEF Shape
    <2>4. relay'.seq \in Nat /\ relay'.clock.next \in Nat /\ relay.up /\ relay'.up
      BY <1>2, PublishMoves DEF Shape
    <2>5. /\ wall' \in Nat /\ started' \in 0 .. MaxStarts /\ started' \in Processes
          /\ accepted' \subseteq wire' /\ discarded' \subseteq wire' /\ Len(hand') <= 1
          /\ {"clock", "seq"} \subseteq DOMAIN relay'
          /\ relay'.publisher \in {"corpus-ipc", "absent"}
          /\ relay'.policy \in {"DropOldest", "RejectNewest"}
          /\ relay'.operator <=> relay'.session.operator
          /\ relay'.session.at \in Nat
      BY <1>2, PublishMoves DEF Shape
    <2>6. QED
      BY <2>1, <2>2, <2>3, <2>4, <2>5 DEF Shape
  <1>3. CASE Start
    <2>1. queue' = queue /\ hand' = hand /\ started' \in 0 .. MaxStarts
      BY <1>3, StartMoves, DeliveryAssumption DEF Processes
    <2>2. QED
      BY <1>1, <1>3, <2>1, StartMoves DEF Shape
  <1>4. CASE DiscardFrame
    BY <1>4, DiscardMoves DEF Shape, DiscardFrame, outbox, network
  <1>5. CASE End
    <2>1. /\ ~relay'.up /\ queue' = <<>> /\ hand' = <<>>
          /\ UNCHANGED <<acquired, wall, setBack, started, counted, published, network>>
      BY <1>5 DEF End, NotRunning
    <2>2. queue' \in Seq(S) /\ hand' \in Seq(S) /\ Len(queue') <= Capacity /\ Len(hand') <= 1
      BY <2>1, DeliveryAssumption
    <2>3. QED
      BY <2>1, <2>2 DEF Shape, network
  <1>6. CASE Take
    <2>1. /\ hand' = <<Head(queue)>> /\ queue' = Tail(queue) /\ queue # <<>>
          /\ UNCHANGED <<acquired, process, counted, published, network>>
      BY <1>6 DEF Take
    <2>2. /\ hand' \in Seq(S) /\ Len(hand') = 1 /\ queue' \in Seq(S) /\ Len(queue') = Len(queue) - 1
      BY <1>1, <2>1, HeadTailProperties
    <2>3. Len(queue') <= Capacity /\ Len(hand') <= 1
      <3>1. Len(queue) \in Nat /\ Len(queue) <= Capacity /\ Capacity \in Nat
        BY <1>1, DeliveryAssumption DEF Shape
      <3>2. QED
        BY <2>2, <3>1
    <2>4. relay'.up
      BY <2>1 DEF Shape, process
    <2>5. QED
      BY <1>1, <2>1, <2>2, <2>3, <2>4 DEF Shape, process, network
  <1>7. CASE Send
    BY <1>1, <1>7 DEF Shape, Send, process
  <1>8. CASE SendFails
    <2>1. /\ hand # <<>> /\ hand' = <<>> /\ queue' = queue
          /\ counted' = [counted EXCEPT ![started] = @ \cup {hand[1].place}]
          /\ UNCHANGED <<acquired, process, published, network>>
      BY <1>8 DEF SendFails, Count
    <2>2. hand[1].place \in Nat
      BY <1>1, <2>1 DEF Places, Inside, InHand
    <2>3. QED
      BY <1>1, <2>1, <2>2 DEF Shape, process, network
  <1>9. CASE Receive
    BY <1>1, <1>9 DEF Shape, Receive, process, outbox
  <1>10. CASE SetClockBack
    BY <1>1, <1>10, DeliveryAssumption DEF Shape, SetClockBack, outbox, network
  <1>11. CASE UNCHANGED vars
    BY <1>1, <1>11 DEF Shape, vars, process, outbox, network
  <1>12. QED
    BY <1>2, <1>3, <1>4, <1>5, <1>6, <1>7, <1>8, <1>9, <1>10, <1>11 DEF Next

LEMMA UnbornStep ==
  ASSUME Shape, Unborn, [Next]_vars
  PROVE  Unborn'
  <1>1. CASE PublishFrame
    BY <1>1, PublishMoves DEF Unborn, Shape
  <1>2. CASE Start
    <2>1. started \in Nat /\ started' = started + 1 /\ published' = published
      BY <1>2, StartMoves DEF Shape
    <2>2. QED
      BY <2>1, DeliveryAssumption DEF Unborn, Processes
  <1>3. CASE ~PublishFrame /\ ~Start
    <2>1. published' = published /\ started' = started
      BY <1>3 DEF Next, End, SetClockBack, DiscardFrame, Take, Send, SendFails, Receive, vars,
                  process, outbox
    <2>2. QED
      BY <2>1 DEF Unborn
  <1>4. QED
    BY <1>1, <1>2, <1>3

-----------------------------------------------------------------------------
(***************************************************************************)
(* A key names one frame                                                   *)
(***************************************************************************)

(* The next number, in a running process. *)
Larger == NextNumber \in Nat /\ NextNumber' \in Nat /\ NextNumber' >= NextNumber

(* What a step that publishes nothing does to numbers, sessions and clock. *)
LEMMA QuietMoves ==
  ASSUME Shape, [Next]_vars, ~PublishFrame
  PROVE  /\ Known' \subseteq Known /\ published' = published
         /\ \/ Start
            \/ /\ started' = started
               /\ relay'.up => relay.up /\ relay'.session = relay.session /\ Larger
                                /\ relay'.operator = relay.operator
               /\ setBack' \/ (wall' = wall /\ setBack' = setBack)
  <1>1. Known' \subseteq Known
    BY InsideMoves DEF Known, Inside
  <1>2. CASE Start
    BY <1>1, <1>2, StartMoves
  <1>3. CASE DiscardFrame
    <2>1. Larger
      BY <1>3, DiscardMoves DEF NextNumber, Larger, Shape
    <2>2. started' = started /\ wall' = wall /\ setBack' = setBack /\ published' = published
      BY <1>3 DEF DiscardFrame, outbox
    <2>3. QED
      BY <1>1, <1>3, <2>1, <2>2, DiscardMoves
  <1>4. CASE End
    BY <1>1, <1>4 DEF End, NotRunning
  <1>5. CASE SetClockBack \/ Take \/ Send \/ SendFails \/ Receive \/ UNCHANGED vars
    <2>1. /\ started' = started /\ relay' = relay /\ published' = published
          /\ setBack' \/ (wall' = wall /\ setBack' = setBack)
      BY <1>5 DEF SetClockBack, Take, Send, SendFails, Receive, vars, process, outbox
    <2>2. relay.up => Larger
      BY <2>1 DEF NextNumber, Larger, Shape
    <2>3. QED
      BY <1>1, <2>1, <2>2
  <1>6. QED
    BY <1>2, <1>3, <1>4, <1>5 DEF Next

LEMMA QuietKeys ==
  ASSUME Shape, Keys, [Next]_vars, ~PublishFrame
  PROVE  Keys'
  <1>1. CASE Start
    <2>1. ASSUME NEW message \in Known' PROVE Keyed(message)'
      <3>1. Keyed(message) /\ message.from # started' /\ message.from \in 1 .. started'
        BY <1>1, <2>1, QuietMoves, StartMoves DEF Keys, Keyed, Shape
      <3>2. QED
        BY <1>1, <3>1, StartMoves DEF Keyed, Shape
    <2>2. ~setBack' /\ relay'.up =>
            /\ ~relay'.operator => relay'.session.at <= wall'
            /\ \A message \in Known' : message.from < started' => Later(message.batch.session, relay'.session)
      <3>1. ASSUME ~setBack', NEW message \in Known', ~relay'.session.operator,
                   ~message.batch.session.operator
            PROVE  message.batch.session.at < relay'.session.at
        BY <1>1, <3>1, QuietMoves, StartMoves DEF Keys, Keyed, Shape
      <3>2. QED
        BY <1>1, <3>1, StartMoves DEF Later, Shape
    <2>3. QED
      BY <1>1, <2>1, <2>2, QuietMoves, StartMoves DEF Keys
  <1>2. CASE ~Start
    <2>1. /\ started' = started /\ published' = published /\ Known' \subseteq Known
          /\ relay'.up => relay.up /\ relay'.session = relay.session /\ Larger
                           /\ relay'.operator = relay.operator
          /\ setBack' \/ (wall' = wall /\ setBack' = setBack)
      BY <1>2, QuietMoves
    <2>2. ASSUME NEW message \in Known' PROVE Keyed(message)'
      <3>1. Keyed(message)
        BY <2>1 DEF Keys
      <3>2. QED
        BY <2>1, <3>1 DEF Keyed, Larger
    <2>3. QED
      BY <2>1, <2>2 DEF Keys
  <1>3. QED
    BY <1>1, <1>2

LEMMA PublishKeys ==
  ASSUME Shape, Keys, PublishFrame
  PROVE  Keys'
  <1>1. /\ relay.up /\ relay'.up /\ started' = started /\ started \in Processes /\ started \in Nat
        /\ relay'.session = relay.session /\ relay'.operator = relay.operator
        /\ wall' = wall /\ setBack' = setBack
        /\ published' = [published EXCEPT ![started] = @ + 1] /\ published \in [Processes -> Nat]
    BY PublishMoves DEF Shape
  <1>2. Larger
    BY PublishMoves DEF Larger, NextNumber, Shape
  <1>3. Known' \subseteq Known \/ (Known' \subseteq Known \cup {Published} /\ NextNumber' > NextNumber)
    <2>1. wire' = wire /\ (Inside' \subseteq Inside \/
            (Inside' \subseteq Inside \cup {Published} /\ relay.publisher = "corpus-ipc"))
      BY InsideMoves, PublishMoves DEF Next
    <2>2. relay.publisher = "corpus-ipc" => NextNumber' > NextNumber
      BY PublishMoves DEF NextNumber, Shape
    <2>3. QED
      BY <2>1, <2>2 DEF Known
  <1>4. ASSUME NEW message \in Known PROVE Keyed(message)'
    <2>1. Keyed(message)
      BY DEF Keys
    <2>2. started <= MaxStarts /\ MaxStarts \in Nat
      BY DeliveryAssumption DEF Shape
    <2>3. message.from \in Processes /\ published[message.from] <= published'[message.from]
            /\ published[message.from] \in Nat /\ published'[message.from] \in Nat
      BY <1>1, <2>1, <2>2 DEF Keyed, Processes
    <2>4. QED
      BY <1>1, <1>2, <2>1, <2>3 DEF Keyed, Larger
  <1>5. ASSUME NextNumber' > NextNumber, NEW message, message = Published
        PROVE  /\ Keyed(message)'
               /\ message.from = started /\ message.batch.batch = NextNumber
               /\ message.batch.session = relay.session
    <2>1. /\ message.from = started /\ message.place = published[started]
          /\ message.batch.session = relay.session /\ message.batch.batch = NextNumber
      BY <1>5, PublishedHas
    <2>2. /\ relay.session.at \in Nat /\ (relay.operator <=> relay.session.operator)
          /\ 1 <= started /\ published[started] \in Nat
      BY <1>1 DEF Shape, Processes
    <2>3. ~setBack /\ ~relay.operator => relay.session.at <= wall
      BY <1>1 DEF Keys
    <2>4. published'[started] = published[started] + 1
      BY <1>1
    <2>5. /\ message.from \in 1 .. started' /\ message.place < published'[message.from]
          /\ message.place \in Nat
      BY <1>1, <2>1, <2>2, <2>4
    <2>6. /\ message.batch.batch \in Nat /\ message.batch.session.at \in Nat
          /\ message.batch.session = relay'.session /\ message.batch.batch < NextNumber'
      BY <1>1, <1>2, <1>5, <2>1, <2>2 DEF Larger
    <2>7. ~setBack' /\ ~message.batch.session.operator => message.batch.session.at <= wall'
      BY <1>1, <2>1, <2>2, <2>3
    <2>8. QED
      BY <2>1, <2>5, <2>6, <2>7 DEF Keyed
  <1>6. PICK newest : newest = Published
    OBVIOUS
  <1>7. ASSUME NEW message \in Known' PROVE Keyed(message)'
    BY <1>3, <1>4, <1>5, <1>6, <1>7
  <1>8. ASSUME NEW one \in Known', NEW other \in Known',
               one.from = other.from, one.batch.batch = other.batch.batch
        PROVE  one = other
    <2>1. ASSUME NextNumber' > NextNumber, NEW old \in Known
          PROVE  ~(old.from = newest.from /\ old.batch.batch = newest.batch.batch)
      <3>1. newest.from = started /\ newest.batch.batch = NextNumber
        BY <1>5, <1>6, <2>1
      <3>2. Keyed(old)
        BY DEF Keys
      <3>3. QED
        BY <1>1, <1>2, <3>1, <3>2 DEF Keyed, Larger
    <2>2. CASE one \in Known /\ other \in Known
      BY <1>8, <2>2 DEF Keys
    <2>3. QED
      BY <1>3, <1>6, <1>8, <2>1, <2>2
  <1>9. ASSUME ~setBack', NEW one \in Known', NEW other \in Known', one.from < other.from
        PROVE  Later(one.batch.session, other.batch.session)
    <2>1. one \in Known
      <3>1. CASE one = newest /\ NextNumber' > NextNumber
        <4>1. one.from = started /\ other.from \in 1 .. started
          BY <1>1, <1>5, <1>6, <1>7, <3>1 DEF Keyed
        <4>2. QED
          BY <1>1, <1>9, <4>1
      <3>2. QED
        BY <1>3, <1>6, <3>1
    <2>2. CASE other \in Known
      BY <1>1, <1>9, <2>1, <2>2 DEF Keys
    <2>3. CASE other = newest /\ NextNumber' > NextNumber
      <3>1. other.from = started /\ other.batch.session = relay.session
        BY <1>5, <1>6, <2>3
      <3>2. QED
        BY <1>1, <1>9, <2>1, <3>1 DEF Keys
    <2>4. QED
      BY <1>3, <1>6, <2>2, <2>3
  <1>10. ASSUME ~setBack'
         PROVE  /\ ~relay'.operator => relay'.session.at <= wall'
                /\ \A message \in Known' :
                     message.from < started' => Later(message.batch.session, relay'.session)
    <2>1. ~relay'.operator => relay'.session.at <= wall'
      BY <1>1, <1>10 DEF Keys
    <2>2. ASSUME NEW message \in Known', message.from < started'
          PROVE  Later(message.batch.session, relay'.session)
      <3>1. message \in Known
        <4>1. CASE message = newest /\ NextNumber' > NextNumber
          BY <1>1, <1>5, <1>6, <2>2, <4>1
        <4>2. QED
          BY <1>3, <1>6, <4>1
      <3>2. QED
        BY <1>1, <1>10, <2>2, <3>1 DEF Keys
    <2>3. QED
      BY <2>1, <2>2
  <1>11. QED
    BY <1>7, <1>8, <1>9, <1>10 DEF Keys

(* What is discarded was seen, under the key of another process. *)
LEMMA ReplaysStep ==
  ASSUME Shape, Keys, OnlyReplaysDiscarded, [Next]_vars
  PROVE  OnlyReplaysDiscarded'
  <1>1. CASE Receive
    <2>1. PICK message \in wire \ (accepted \cup discarded) :
            \/ /\ \E seen \in accepted : Key(seen) = Key(message)
               /\ discarded' = discarded \cup {message} /\ accepted' = accepted
            \/ accepted' = accepted \cup {message} /\ discarded' = discarded
      BY <1>1 DEF Receive
    <2>2. setBack' = setBack /\ accepted \subseteq wire
      BY <1>1 DEF Receive, process, Shape
    <2>3. ASSUME NEW seen \in accepted, Key(seen) = Key(message)
          PROVE  seen.from # message.from /\ (message.batch.session.operator \/ setBack)
      <3>1. /\ seen \in Known /\ message \in Known /\ seen # message
            /\ seen.batch.session = message.batch.session /\ seen.batch.batch = message.batch.batch
        BY <2>1, <2>2, <2>3 DEF Known, Key
      <3>2. Keyed(seen) /\ Keyed(message)
        BY <3>1 DEF Keys
      <3>3. seen.from # message.from
        BY <3>1 DEF Keys
      <3>4. ~setBack => Later(seen.batch.session, message.batch.session)
                          \/ Later(message.batch.session, seen.batch.session)
        <4>1. seen.from \in Int /\ message.from \in Int
          BY <3>2 DEF Keyed
        <4>2. seen.from < message.from \/ message.from < seen.from
          BY <3>3, <4>1
        <4>3. QED
          BY <3>1, <4>2 DEF Keys
      <3>5. QED
        BY <3>1, <3>2, <3>3, <3>4 DEF Later, Keyed
    <2>4. QED
      BY <2>1, <2>2, <2>3 DEF OnlyReplaysDiscarded
  <1>2. CASE ~Receive
    <2>1. accepted' = accepted /\ discarded' = discarded /\ (setBack => setBack')
      BY <1>2 DEF Next, Start, End, SetClockBack, PublishFrame, DiscardFrame, Take, Send, SendFails,
                  vars, network, process
    <2>2. QED
      BY <2>1 DEF OnlyReplaysDiscarded
  <1>3. QED
    BY <1>1, <1>2

-----------------------------------------------------------------------------
(***************************************************************************)
(* What is not accounted for is inside                                     *)
(***************************************************************************)

(* The head of the queue is the frame that leaves it, to the hand or as    *)
(* the oldest that is dropped; the rest keeps its order.                   *)
LEMMA HeadIsOldest ==
  ASSUME Shape, Places, queue # <<>>, NEW rest, rest = Tail(queue), NEW head, head = Head(queue)
  PROVE  /\ head \in InQueue
         /\ \A message \in InQueue : message = head \/ \E i \in 1 .. Len(rest) : message = rest[i]
         /\ Len(rest) \in Nat
         /\ \A i \in 1 .. Len(rest) : rest[i] \in InQueue /\ head.place < rest[i].place
         /\ \A i, j \in 1 .. Len(rest) : i < j => rest[i].place < rest[j].place
         /\ \A i \in 1 .. Len(rest), message \in InHand : message.place < rest[i].place
  <1>1. PICK S : queue \in Seq(S)
    BY DEF Shape
  <1>2. /\ Len(rest) = Len(queue) - 1 /\ Len(queue) \in Nat \ {0} /\ head = queue[1]
        /\ \A i \in 1 .. Len(rest) : rest[i] = queue[i + 1]
        /\ InQueue = {head} \cup {rest[i] : i \in 1 .. Len(rest)}
    <2>1. /\ Len(Tail(queue)) = Len(queue) - 1 /\ Len(queue) \in Nat \ {0}
          /\ Head(queue) = queue[1]
          /\ \A i \in 1 .. Len(Tail(queue)) : Tail(queue)[i] = queue[i + 1]
      BY <1>1, TailMoves
    <2>2. {queue[i] : i \in 1 .. Len(queue)}
            = {Head(queue)} \cup {Tail(queue)[i] : i \in 1 .. Len(Tail(queue))}
      BY <1>1, TailMoves
    <2>3. InQueue = {head} \cup {rest[i] : i \in 1 .. Len(rest)}
      BY <2>2, Zenon DEF InQueue
    <2>4. QED
      BY <2>1, <2>3
  <1>3. \A i \in 1 .. Len(rest) : i + 1 \in 1 .. Len(queue) /\ 1 < i + 1
    BY <1>2
  <1>4. \A i, j \in 1 .. Len(rest) : i < j => rest[i].place < rest[j].place
    BY <1>2, <1>3 DEF Places
  <1>5. \A i \in 1 .. Len(rest), message \in InHand : message.place < rest[i].place
    BY <1>2, <1>3 DEF Places
  <1>6. \A i \in 1 .. Len(rest) : head.place < rest[i].place
    BY <1>2, <1>3 DEF Places
  <1>7. QED
    BY <1>2, <1>4, <1>5, <1>6

(* A new frame comes last. *)
LEMMA AppendKeepsOrder ==
  ASSUME NEW S, NEW q \in Seq(S), NEW e, NEW longer, longer = Append(q, e),
         \A i, j \in 1 .. Len(q) : i < j => q[i].place < q[j].place,
         \A i \in 1 .. Len(q) : q[i].place < e.place
  PROVE  \A i, j \in 1 .. Len(longer) : i < j => longer[i].place < longer[j].place
  <1>1. /\ Len(longer) = Len(q) + 1 /\ Len(q) \in Nat
        /\ \A i \in 1 .. Len(q) : longer[i] = q[i]
        /\ longer[Len(q) + 1] = e
    BY AppendMoves
  <1>2. QED
    BY <1>1

LEMMA NewestIsLast ==
  ASSUME Shape, Keys, PublishFrame, NEW message, message = Published
  PROVE  /\ message.from = started /\ message.place \in Nat
         /\ \A old \in Known : old.from = started => old.place < message.place
  <1>1. message.from = started /\ message.place = published[started]
    BY PublishedHas
  <1>2. started \in Processes /\ published \in [Processes -> Nat]
    BY PublishMoves DEF Shape
  <1>3. \A old \in Known : Keyed(old)
    BY DEF Keys
  <1>4. QED
    BY <1>1, <1>2, <1>3 DEF Keyed

LEMMA PublishPlaces ==
  ASSUME Shape, Keys, Places, PublishFrame
  PROVE  Places'
  <1>1. /\ hand' = hand /\ wire' = wire /\ started' = started /\ InHand' = InHand
    BY PublishMoves DEF InHand
  <1>2. PICK newest : newest = Published
    OBVIOUS
  <1>3. PICK S : queue \in Seq(S)
    BY DEF Shape
  <1>4. ASSUME NEW q, NEW T, q \in Seq(T), queue' = Append(q, newest),
               \A i \in 1 .. Len(q) : q[i] \in InQueue,
               \A i, j \in 1 .. Len(q) : i < j => q[i].place < q[j].place
        PROVE  Places'
    <2>1. newest.from = started /\ newest.place \in Nat
          /\ \A old \in Inside \cup wire : old.from = started => old.place < newest.place
      BY <1>2, NewestIsLast DEF Known
    <2>2. \A i \in 1 .. Len(q) : q[i].place < newest.place
      BY <1>4, <2>1 DEF Places, Inside
    <2>3. \A i, j \in 1 .. Len(queue') : i < j => queue'[i].place < queue'[j].place
      BY <1>4, <2>2, AppendKeepsOrder
    <2>4. InQueue' = {q[i] : i \in 1 .. Len(q)} \cup {newest}
      BY <1>4, AppendMoves DEF InQueue
    <2>5. Inside' \subseteq Inside \cup {newest}
      BY <1>1, <1>4, <2>4 DEF Inside
    <2>6. \A message \in Inside' : message.from = started' /\ message.place \in Nat
      BY <1>1, <2>1, <2>5 DEF Places
    <2>7. \A message \in Inside', gone \in wire' :
            gone.from = started' => gone.place < message.place
      BY <1>1, <2>1, <2>5 DEF Places
    <2>8. \A i \in 1 .. Len(queue'), message \in InHand' : message.place < queue'[i].place
      <3>1. ASSUME NEW i \in 1 .. Len(queue'), NEW message \in InHand
            PROVE  message.place < queue'[i].place
        <4>1. queue'[i] \in InQueue \cup {newest}
          BY <1>4, <2>4 DEF InQueue
        <4>2. CASE queue'[i] = newest
          BY <2>1, <4>2 DEF Places, Inside
        <4>3. CASE queue'[i] \in InQueue
          BY <4>3 DEF Places, InQueue
        <4>4. QED
          BY <4>1, <4>2, <4>3
      <3>2. QED
        BY <1>1, <3>1
    <2>9. QED
      BY <2>3, <2>6, <2>7, <2>8 DEF Places
  <1>5. CASE queue' = queue
    BY <1>1, <1>5 DEF Places, Inside, InQueue, InHand
  <1>6. CASE queue' = Append(queue, Published)
    <2>1. \A i \in 1 .. Len(queue) : queue[i] \in InQueue
      BY DEF InQueue
    <2>2. QED
      BY <1>2, <1>3, <1>4, <1>6, <2>1 DEF Places
  <1>7. CASE Len(queue) = Capacity /\ queue' = Append(Tail(queue), Published)
    <2>1. queue # <<>>
      BY <1>3, <1>7, DeliveryAssumption
    <2>2. PICK rest : rest = Tail(queue)
      OBVIOUS
    <2>3. rest \in Seq(S)
      BY <1>3, <2>1, <2>2, TailMoves
    <2>4. /\ \A i \in 1 .. Len(rest) : rest[i] \in InQueue
          /\ \A i, j \in 1 .. Len(rest) : i < j => rest[i].place < rest[j].place
      BY <2>1, <2>2, HeadIsOldest
    <2>5. QED
      BY <1>2, <1>4, <1>7, <2>2, <2>3, <2>4
  <1>8. QED
    BY <1>5, <1>6, <1>7, PublishMoves

LEMMA PlacesStep ==
  ASSUME Shape, Keys, Places, [Next]_vars
  PROVE  Places'
  <1>1. CASE PublishFrame
    BY <1>1, PublishPlaces
  <1>2. CASE Take
    <2>1. /\ hand = <<>> /\ queue # <<>> /\ hand' = <<Head(queue)>> /\ queue' = Tail(queue)
          /\ wire' = wire /\ started' = started
      BY <1>2 DEF Take, network, process
    <2>2. PICK head : head = Head(queue)
      OBVIOUS
    <2>3. InHand' = {head}
      BY <2>1, <2>2 DEF InHand
    <2>4. /\ head \in InQueue /\ InQueue' \subseteq InQueue
          /\ \A i \in 1 .. Len(queue') : head.place < queue'[i].place
          /\ \A i, j \in 1 .. Len(queue') : i < j => queue'[i].place < queue'[j].place
      <3>1. PICK rest : rest = queue' /\ rest = Tail(queue)
        BY <2>1
      <3>2. /\ head \in InQueue
            /\ \A i \in 1 .. Len(rest) : rest[i] \in InQueue /\ head.place < rest[i].place
            /\ \A i, j \in 1 .. Len(rest) : i < j => rest[i].place < rest[j].place
        BY <2>1, <2>2, <3>1, HeadIsOldest
      <3>3. QED
        BY <3>1, <3>2 DEF InQueue
    <2>5. Inside' \subseteq Inside
      BY <2>3, <2>4 DEF Inside
    <2>6. QED
      BY <2>1, <2>3, <2>4, <2>5 DEF Places
  <1>3. CASE Send
    <2>1. /\ hand # <<>> /\ hand' = <<>> /\ queue' = queue /\ started' = started
          /\ wire' = wire \cup {hand[1]}
      BY <1>3 DEF Send, process
    <2>2. hand[1] \in InHand
      BY <2>1 DEF Shape, InHand
    <2>3. InHand' = {} /\ InQueue' = InQueue /\ Inside' = InQueue
      BY <2>1 DEF InHand, InQueue, Inside
    <2>4. ASSUME NEW message \in InQueue PROVE hand[1].place < message.place
      BY <2>2 DEF Places, InQueue
    <2>5. \A message \in Inside', gone \in wire' :
            gone.from = started' => gone.place < message.place
      BY <2>1, <2>3, <2>4 DEF Places, Inside
    <2>6. QED
      BY <2>1, <2>3, <2>5 DEF Places, Inside
  <1>4. CASE SendFails
    <2>1. hand' = <<>> /\ queue' = queue /\ started' = started /\ wire' = wire
      BY <1>4 DEF SendFails, process, network
    <2>2. InHand' = {} /\ InQueue' = InQueue /\ Inside' \subseteq Inside
      BY <2>1 DEF InHand, InQueue, Inside
    <2>3. QED
      BY <2>1, <2>2 DEF Places
  <1>5. CASE End \/ Start
    <2>1. queue' = <<>> /\ hand' = <<>>
      BY <1>5, StartMoves DEF End, Shape
    <2>2. Inside' = {} /\ InHand' = {}
      BY <2>1 DEF Inside, InQueue, InHand
    <2>3. QED
      BY <2>1, <2>2 DEF Places
  <1>6. CASE SetClockBack \/ DiscardFrame \/ Receive \/ UNCHANGED vars
    <2>1. queue' = queue /\ hand' = hand /\ wire' = wire /\ started' = started
      BY <1>6 DEF SetClockBack, DiscardFrame, Receive, vars, process, outbox, network
    <2>2. QED
      BY <2>1 DEF Places, Inside, InQueue, InHand
  <1>7. QED
    BY <1>1, <1>2, <1>3, <1>4, <1>5, <1>6 DEF Next

LEMMA PublishLosesNothing ==
  ASSUME Shape, Places, NothingVanishes, PublishFrame
  PROVE  NothingVanishes'
  <1>1. /\ relay.up /\ started' = started /\ started \in Processes /\ wire' = wire /\ InHand' = InHand
        /\ published' = [published EXCEPT ![started] = @ + 1] /\ published \in [Processes -> Nat]
        /\ counted \in [Processes -> SUBSET Nat]
    BY PublishMoves DEF InHand, Shape
  <1>2. PICK newest : newest = Published
    OBVIOUS
  <1>3. newest.place = published[started]
    BY <1>2, PublishedHas
  <1>4. PICK S : queue \in Seq(S)
    BY DEF Shape
  <1> SUFFICES ASSUME NEW k \in Unaccounted(started)'
               PROVE  \E message \in Inside' : message.place = k
    BY DEF NothingVanishes
  <1>5. k \in 0 .. published'[started] - 1 /\ k \notin counted'[started] /\ k \notin SentOf(started)
    BY <1>1 DEF Unaccounted, SentOf
  <1>6. k = published[started] \/ (k \in 0 .. published[started] - 1)
    BY <1>1, <1>5
  <1>7. ASSUME counted[started] \subseteq counted'[started], k # published[started]
        PROVE  \E message \in Inside : message.place = k
    BY <1>1, <1>5, <1>6, <1>7 DEF Unaccounted, NothingVanishes
  <1>8. CASE queue' = queue /\ counted' = [counted EXCEPT ![started] = @ \cup {published[started]}]
    <2>1. k # published[started] /\ counted[started] \subseteq counted'[started]
      BY <1>1, <1>5, <1>8
    <2>2. Inside' = Inside
      BY <1>1, <1>8 DEF Inside, InQueue
    <2>3. QED
      BY <1>7, <2>1, <2>2
  <1>9. CASE queue' = Append(queue, Published) /\ counted' = counted
    <2>1. InQueue' = InQueue \cup {newest}
      BY <1>2, <1>4, <1>9, AppendMoves DEF InQueue
    <2>2. QED
      BY <1>1, <1>3, <1>7, <1>9, <2>1 DEF Inside
  <1>10. CASE /\ Len(queue) = Capacity /\ queue' = Append(Tail(queue), Published)
              /\ counted' = [counted EXCEPT ![started] = @ \cup {Head(queue).place}]
    <2>1. queue # <<>>
      BY <1>4, <1>10, DeliveryAssumption
    <2>2. PICK rest, head : rest = Tail(queue) /\ head = Head(queue)
      OBVIOUS
    <2>3. rest \in Seq(S)
      BY <1>4, <2>1, <2>2, TailMoves
    <2>4. /\ \A message \in InQueue : message = head \/ \E i \in 1 .. Len(rest) : message = rest[i]
      BY <2>1, <2>2, HeadIsOldest
    <2>5. InQueue' = {rest[i] : i \in 1 .. Len(rest)} \cup {newest}
      <3>1. queue' = Append(rest, newest)
        BY <1>2, <1>10, <2>2
      <3>2. QED
        BY <2>3, <3>1, AppendMoves DEF InQueue
    <2>6. Inside \subseteq Inside' \cup {head} /\ newest \in Inside'
      BY <1>1, <2>4, <2>5 DEF Inside
    <2>7. counted'[started] = counted[started] \cup {head.place}
      BY <1>1, <1>10, <2>2
    <2>8. CASE k = published[started]
      BY <1>3, <2>6, <2>8
    <2>9. CASE k # published[started]
      <3>1. PICK message \in Inside : message.place = k
        BY <1>7, <2>7, <2>9
      <3>2. message # head
        BY <1>5, <2>7, <3>1
      <3>3. QED
        BY <2>6, <3>1, <3>2
    <2>10. QED
      BY <2>8, <2>9
  <1>11. QED
    BY <1>8, <1>9, <1>10, PublishMoves

LEMMA NothingVanishesStep ==
  ASSUME Shape, Places, Unborn, NothingVanishes, [Next]_vars
  PROVE  NothingVanishes'
  <1>1. CASE PublishFrame
    BY <1>1, PublishLosesNothing
  <1>2. CASE Take
    <2>1. /\ queue # <<>> /\ hand = <<>> /\ hand' = <<Head(queue)>> /\ queue' = Tail(queue)
          /\ UNCHANGED <<started, relay, counted, published, wire>>
      BY <1>2 DEF Take, network, process
    <2>2. PICK rest, head : rest = Tail(queue) /\ rest = queue' /\ head = Head(queue)
      BY <2>1
    <2>3. \A message \in InQueue : message = head \/ \E i \in 1 .. Len(rest) : message = rest[i]
      BY <2>1, <2>2, HeadIsOldest
    <2>4. InHand = {} /\ InHand' = {head} /\ InQueue' = {rest[i] : i \in 1 .. Len(rest)}
      BY <2>1, <2>2 DEF InHand, InQueue
    <2>5. Inside \subseteq Inside'
      BY <2>3, <2>4 DEF Inside
    <2>6. QED
      BY <2>1, <2>5 DEF NothingVanishes, Unaccounted, SentOf
  <1>3. CASE Send \/ SendFails
    <2>1. /\ hand # <<>> /\ hand' = <<>> /\ queue' = queue
          /\ UNCHANGED <<started, relay, published>>
      BY <1>3 DEF Send, SendFails, process, network
    <2>2. PICK gone : gone = hand[1]
      OBVIOUS
    <2>3. InHand = {gone} /\ InHand' = {} /\ InQueue' = InQueue
      BY <2>1, <2>2 DEF Shape, InHand, InQueue
    <2>4. relay.up => /\ SentOf(started) \subseteq SentOf(started)'
                      /\ counted[started] \subseteq counted'[started]
                      /\ gone.place \in SentOf(started)' \/ gone.place \in counted'[started]
      <3>1. gone.from = started /\ counted \in [Processes -> SUBSET Nat] /\ started' = started
        BY <2>1, <2>3 DEF Places, Inside, Shape
      <3>2. CASE wire' = wire \cup {gone} /\ counted' = counted
        BY <3>1, <3>2 DEF SentOf
      <3>3. CASE wire' = wire /\ counted' = [counted EXCEPT ![started] = @ \cup {gone.place}]
        BY <3>1, <3>3 DEF SentOf, Shape
      <3>4. QED
        BY <1>3, <2>2, <3>2, <3>3 DEF Send, SendFails, Count, network
    <2>5. ASSUME relay.up, NEW k \in Unaccounted(started)'
          PROVE  \E message \in Inside' : message.place = k
      <3>1. k \in Unaccounted(started) /\ k # gone.place
        BY <2>1, <2>4, <2>5 DEF Unaccounted
      <3>2. QED
        BY <2>3, <2>5, <3>1 DEF NothingVanishes, Inside
    <2>6. QED
      BY <2>1, <2>5 DEF NothingVanishes
  <1>4. CASE End
    BY <1>4 DEF End, NotRunning, NothingVanishes
  <1>5. CASE Start
    <2>1. started' \in Processes /\ published'[started'] = 0
      BY <1>5, StartMoves, DeliveryAssumption DEF Unborn, Shape
    <2>2. Unaccounted(started)' = {}
      BY <2>1 DEF Unaccounted
    <2>3. QED
      BY <2>2 DEF NothingVanishes
  <1>6. CASE SetClockBack \/ DiscardFrame \/ Receive \/ UNCHANGED vars
    <2>1. /\ UNCHANGED <<queue, hand, wire, started, counted, published>>
          /\ relay'.up => relay.up
      BY <1>6, DiscardMoves DEF SetClockBack, DiscardFrame, Receive, vars, process, outbox, network
    <2>2. QED
      BY <2>1 DEF NothingVanishes, Unaccounted, SentOf, Inside, InQueue, InHand
  <1>7. QED
    BY <1>1, <1>2, <1>3, <1>4, <1>5, <1>6 DEF Next

(* The process that runs can lose no more than it has inside, and only     *)
(* frames later than those it has sent.                                    *)
LEMMA InsideIsBounded ==
  ASSUME Shape, Places, NothingVanishes, relay.up
  PROVE  BoundedLoss(started)
  <1> DEFINE U == Unaccounted(started)
             f == [i \in 0 .. Len(queue) |-> IF i = 0 THEN hand[1].place ELSE queue[i].place]
             T == {f[i] : i \in 0 .. Len(queue)}
  <1>1. Len(queue) \in Nat /\ Len(queue) <= Capacity /\ Len(hand) \in {0, 1} /\ Capacity \in Nat
    <2>1. PICK S : queue \in Seq(S) /\ hand \in Seq(S)
      BY DEF Shape
    <2>2. Len(queue) \in Nat /\ Len(hand) \in Nat
      BY <2>1, LenProperties
    <2>3. Len(queue) <= Capacity /\ Len(hand) <= 1
      BY DEF Shape
    <2>4. Capacity \in Nat
      BY DeliveryAssumption
    <2>5. QED
      BY <2>2, <2>3, <2>4
  <1>2. U \subseteq T
    <2>1. ASSUME NEW message \in Inside PROVE message.place \in T
      <3>1. CASE message \in InHand
        <4>1. message.place = f[0]
          BY <1>1, <3>1 DEF InHand
        <4>2. QED
          BY <1>1, <4>1
      <3>2. CASE message \in InQueue
        <4>1. PICK i \in 1 .. Len(queue) : message = queue[i]
          BY <3>2 DEF InQueue
        <4>2. i \in 0 .. Len(queue) /\ f[i] = message.place
          BY <1>1, <4>1
        <4>3. QED
          BY <4>2
      <3>3. QED
        BY <3>1, <3>2 DEF Inside
    <2> HIDE DEF T
    <2>2. QED
      BY <2>1 DEF NothingVanishes
  <1>3. IsFiniteSet(0 .. Len(queue)) /\ Cardinality(0 .. Len(queue)) = Len(queue) + 1
    BY <1>1, FS_Interval
  <1>4. f \in Surjection(0 .. Len(queue), T)
    BY DEF Surjection
  <1> HIDE DEF T, f
  <1>5. IsFiniteSet(T) /\ Cardinality(T) <= Cardinality(0 .. Len(queue))
    BY <1>3, <1>4, FS_Surjection
  <1>6. IsFiniteSet(U) /\ Cardinality(U) <= Cardinality(T)
    BY <1>2, <1>5, FS_Subset
  <1>7. Cardinality(U) \in Nat /\ Cardinality(T) \in Nat
    BY <1>5, <1>6, FS_CardinalityType
  <1>8. Cardinality(U) <= Capacity + 1
    BY <1>1, <1>3, <1>5, <1>6, <1>7
  <1>9. \A lost \in U, sent \in SentOf(started) : sent < lost
    BY DEF NothingVanishes, Places, SentOf
  <1>10. QED
    BY <1>8, <1>9 DEF BoundedLoss

(* What a dead process has lost stays as it is. *)
LEMMA DeadLossStep ==
  ASSUME Shape, Keys, Places, NothingVanishes, Unborn, DeadLoss, [Next]_vars
  PROVE  DeadLoss'
  <1> SUFFICES ASSUME NEW p \in Processes, p # started' \/ ~relay'.up
               PROVE  BoundedLoss(p)'
    BY DEF DeadLoss
  <1>1. BoundedLoss(p)
    <2>1. CASE p # started \/ ~relay.up
      BY <2>1 DEF DeadLoss
    <2>2. CASE p = started /\ relay.up
      BY <2>2, InsideIsBounded
    <2>3. QED
      BY <2>1, <2>2
  <1>2. /\ published'[p] = published[p] /\ counted'[p] = counted[p]
        /\ {message \in wire' : message.from = p} = {message \in wire : message.from = p}
    <2>1. CASE PublishFrame
      <3>1. p # started
        BY <2>1, PublishMoves
      <3>2. QED
        BY <2>1, <3>1, PublishMoves DEF Shape
    <2>2. CASE Send
      <3>1. hand # <<>> /\ wire' = wire \cup {hand[1]} /\ UNCHANGED <<started, relay, counted, published>>
        BY <2>2 DEF Send, process
      <3>2. relay.up /\ hand[1].from = started
        BY <3>1 DEF Places, Shape, Inside, InHand
      <3>3. QED
        BY <3>1, <3>2
    <2>3. CASE SendFails
      <3>1. /\ hand # <<>> /\ counted' = [counted EXCEPT ![started] = @ \cup {hand[1].place}]
            /\ UNCHANGED <<started, relay, wire, published>>
        BY <2>3 DEF SendFails, Count, process, network
      <3>2. relay.up
        BY <3>1 DEF Shape
      <3>3. QED
        BY <3>1, <3>2 DEF Shape
    <2>4. CASE ~PublishFrame /\ ~Send /\ ~SendFails
      BY <2>4 DEF Next, Start, End, SetClockBack, DiscardFrame, Take, Receive, vars, outbox, network
    <2>5. QED
      BY <2>1, <2>2, <2>3, <2>4
  <1>3. SentOf(p)' = SentOf(p)
    BY <1>2 DEF SentOf
  <1>4. Unaccounted(p)' = Unaccounted(p)
    BY <1>2, <1>3 DEF Unaccounted
  <1>5. QED
    BY <1>1, <1>3, <1>4 DEF BoundedLoss

LEMMA SpecInductive == Spec => []IInv
  <1>1. Init => IInv
    BY InitIsInductive
  <1>2. IInv /\ [Next]_vars => IInv'
    <2> SUFFICES ASSUME IInv, [Next]_vars PROVE IInv'
      OBVIOUS
    <2>1. Shape /\ Keys /\ Places /\ NothingVanishes /\ Unborn /\ DeadLoss /\ OnlyReplaysDiscarded
      BY DEF IInv
    <2>2. Keys'
      <3>1. CASE PublishFrame
        BY <2>1, <3>1, PublishKeys
      <3>2. CASE ~PublishFrame
        BY <2>1, <3>2, QuietKeys
      <3>3. QED
        BY <3>1, <3>2
    <2>3. QED
      BY <2>1, <2>2, ShapeStep, PlacesStep, NothingVanishesStep, UnbornStep, DeadLossStep, ReplaysStep
         DEF IInv
  <1>3. QED
    BY <1>1, <1>2, PTL DEF Spec

-----------------------------------------------------------------------------
(***************************************************************************)
(* What a batch says                                                       *)
(***************************************************************************)

Channels == {"gpu_temp_c", "power_w", "gpu_clock_mhz", "mem_util_pct"}

LEMMA Inventory ==
  SignalIds = Channels \cup {"vram_temp_c", "vddcr_gfx_v", "mem_clock_mhz", "fan_speed_pct"}
  <1>1. DOMAIN AllSignals = 1 .. 8
    BY DEF AllSignals
  <1>2. SignalIds = {AllSignals[n] : n \in 1 .. 8}
    BY <1>1 DEF SignalIds, Range
  <1>3. QED
    BY <1>2 DEF AllSignals, Channels

LEMMA ChannelsOf == \A s \in SignalIds : IncludesRuntimeInput(s) <=> s \in Channels
  <1> SUFFICES ASSUME NEW s \in SignalIds PROVE IncludesRuntimeInput(s) <=> s \in Channels
    OBVIOUS
  <1>1. SignalSpec[s].class \in {"RuntimeInput", "Both"} <=> s \in Channels
    BY Inventory DEF SignalSpec, SpecOf, Channels
  <1>2. QED
    BY <1>1 DEF IncludesRuntimeInput

(* The channels of a batch are the four runtime inputs, in this order. *)
LEMMA BatchChannels ==
  RuntimeInputs = <<"gpu_temp_c", "power_w", "gpu_clock_mhz", "mem_util_pct">>
  <1> DEFINE places == {n \in DOMAIN AllSignals : IncludesRuntimeInput(AllSignals[n])}
             upTo(n) == {m \in places : m <= n}
             rank(n) == Cardinality(upTo(n))
  <1>1. places = {1, 3, 5, 8}
    <2>1. DOMAIN AllSignals = 1 .. 8
      BY DEF AllSignals
    <2>2. \A n \in 1 .. 8 : AllSignals[n] \in SignalIds
      BY <2>1 DEF SignalIds, Range
    <2>3. \A n \in 1 .. 8 : IncludesRuntimeInput(AllSignals[n]) <=> n \in {1, 3, 5, 8}
      <3>1. \A n \in 1 .. 8 : IncludesRuntimeInput(AllSignals[n]) <=> AllSignals[n] \in Channels
        BY <2>2, ChannelsOf
      <3>2. \A n \in 1 .. 8 : AllSignals[n] \in Channels <=> n \in {1, 3, 5, 8}
        BY DEF AllSignals, Channels
      <3>3. QED
        BY <3>1, <3>2
    <2>4. QED
      BY <2>1, <2>3
  <1>2. /\ upTo(1) = {1} /\ upTo(3) = {1} \cup {3} /\ upTo(5) = {1, 3} \cup {5}
        /\ upTo(8) = {1, 3, 5} \cup {8} /\ places = upTo(8)
    BY <1>1
  <1>3. /\ IsFiniteSet({1}) /\ Cardinality({1}) = 1
        /\ IsFiniteSet({1, 3}) /\ Cardinality({1, 3}) = 2
        /\ IsFiniteSet({1, 3, 5}) /\ Cardinality({1, 3, 5}) = 3
        /\ Cardinality({1, 3, 5, 8}) = 4
    <2>1. IsFiniteSet({1}) /\ Cardinality({1}) = 1
      BY FS_Singleton
    <2>2. {1} \cup {3} = {1, 3} /\ {1, 3} \cup {5} = {1, 3, 5} /\ {1, 3, 5} \cup {8} = {1, 3, 5, 8}
      OBVIOUS
    <2>3. IsFiniteSet({1, 3}) /\ Cardinality({1, 3}) = 2
      BY <2>1, <2>2, FS_AddElement
    <2>4. IsFiniteSet({1, 3, 5}) /\ Cardinality({1, 3, 5}) = 3
      BY <2>2, <2>3, FS_AddElement
    <2>5. Cardinality({1, 3, 5, 8}) = 4
      BY <2>2, <2>4, FS_AddElement
    <2>6. QED
      BY <2>1, <2>3, <2>4, <2>5
  <1>4. /\ rank(1) = 1 /\ rank(3) = 2 /\ rank(5) = 3 /\ rank(8) = 4
        /\ Cardinality(places) = 4
    BY <1>1, <1>2, <1>3
  <1> HIDE DEF places, upTo
  <1>5. InOrder(places) = [i \in 1 .. 4 |-> CHOOSE n \in places : rank(n) = i]
    BY <1>4 DEF InOrder, upTo
  <1>6. \A i \in 1 .. 4 :
          (CHOOSE n \in places : rank(n) = i) =
            CASE i = 1 -> 1 [] i = 2 -> 3 [] i = 3 -> 5 [] i = 4 -> 8
    BY <1>1, <1>4
  <1>7. RuntimeInputs = [i \in DOMAIN InOrder(places) |-> AllSignals[InOrder(places)[i]]]
    BY DEF RuntimeInputs, places
  <1> DEFINE kept == InOrder(places)
  <1>8. DOMAIN kept = 1 .. 4 /\ kept[1] = 1 /\ kept[2] = 3 /\ kept[3] = 5 /\ kept[4] = 8
    BY <1>5, <1>6
  <1> HIDE DEF kept
  <1>9. QED
    BY <1>7, <1>8 DEF AllSignals, kept

(* What the clock and the acquisition of a behaviour always are. *)
Sound == acquired \in Acquisitions /\ FirstTime <= wall /\ wall \in Nat

LEMMA ValidWhen ==
  ASSUME NEW raw, raw.is \in {"none", "nan", "number"}, raw.value \in Int, NEW range,
         NEW observed \in Int, NEW now \in Int, NEW limit \in Int
  PROVE  ValidityAt(raw, range, observed, now, limit) = "Valid" <=>
           /\ raw.is = "number" /\ raw.value \in range
           /\ observed <= now /\ now - observed < limit
  BY DEF ValidityAt

(* A sample mapped as it is received keeps its validity. *)
LEMMA FreshlyHeld ==
  ASSUME NEW sample, NEW now \in Int, NEW limit \in Int, sample.validity = "Valid" => limit > 0
  PROVE  HeldValidity(sample, now, now, limit) = sample.validity
  BY DEF HeldValidity, Elapsed

(* A reading in a span that begins at zero is normalized to its place in   *)
(* the span, and one beyond it to one.                                     *)
LEMMA ApplyScales ==
  ASSUME NEW span \in Nat \ {0}, NEW v \in Nat
  PROVE  /\ Apply(<<0, span>>, v) # NoFraction
         /\ v <= span => Apply(<<0, span>>, v)[1] * span = v * Apply(<<0, span>>, v)[2]
         /\ v > span => Apply(<<0, span>>, v)[1] = Apply(<<0, span>>, v)[2]
  <1>1. Apply(<<0, span>>, v) = IF v = 0 THEN <<0, 1>> ELSE IF v >= span THEN <<1, 1>> ELSE <<v, span>>
    BY DEF Apply, Zero
  <1>2. \A a, b : <<a, b>> # <<>>
    OBVIOUS
  <1>3. CASE v = 0
    BY <1>1, <1>2, <1>3 DEF NoFraction
  <1>4. CASE v # 0 /\ v >= span
    BY <1>1, <1>2, <1>4 DEF NoFraction
  <1>5. CASE v # 0 /\ v < span
    BY <1>1, <1>2, <1>5 DEF NoFraction
  <1>6. QED
    BY <1>3, <1>4, <1>5

LEMMA Spans ==
  ASSUME NEW c \in Channels
  PROVE  /\ SignalSpec[c].range \subseteq Nat
         /\ \E span \in Nat \ {0} : SignalSpec[c].linear = <<0, span>>
  <1>1. CASE c = "gpu_temp_c"
    <2>1. SignalSpec[c] = SpecOf(TempRange, <<0, 100>>, "Both")
      BY <1>1, Inventory DEF SignalSpec
    <2>2. QED
      BY <2>1 DEF SpecOf, TempRange
  <1>2. CASE c = "power_w"
    <2>1. SignalSpec[c] = SpecOf(PowerRange, <<0, 350>>, "Both")
      BY <1>2, Inventory DEF SignalSpec, Channels
    <2>2. QED
      BY <2>1 DEF SpecOf, PowerRange
  <1>3. CASE c = "gpu_clock_mhz"
    <2>1. SignalSpec[c] = SpecOf(0 .. 3000, <<0, 2500>>, "RuntimeInput")
      BY <1>3, Inventory DEF SignalSpec, Channels
    <2>2. QED
      BY <2>1 DEF SpecOf
  <1>4. CASE c = "mem_util_pct"
    <2>1. SignalSpec[c] = SpecOf(0 .. 100, <<0, 100>>, "RuntimeInput")
      BY <1>4, Inventory DEF SignalSpec, Channels
    <2>2. QED
      BY <2>1 DEF SpecOf
  <1>5. QED
    BY <1>1, <1>2, <1>3, <1>4 DEF Channels

LEMMA StaleLimits ==
  ASSUME NEW c \in SignalIds
  PROVE  /\ StaleAfterMs(c, Cadence) \in Nat
         /\ StaleAfterMs(c, IF Cadence = 0 THEN 1 ELSE Cadence) = StaleAfterMs(c, Cadence)
  <1> DEFINE period == IF Cadence = 0 THEN 1 ELSE Cadence
  <1>1. period \in Nat /\ EvalTicks \in Nat
    BY DeliveryAssumption, SignalTimesAssumption
  <1>2. StaleAfter(Cadence, EvalTicks) = period * EvalTicks * 2
    BY DEF StaleAfter
  <1>3. StaleAfter(period, EvalTicks) = period * EvalTicks * 2
    BY DeliveryAssumption DEF StaleAfter
  <1> HIDE DEF period
  <1>4. period * EvalTicks * 2 \in Nat
    BY <1>1
  <1>5. QED
    BY <1>2, <1>3, <1>4, SignalTimesAssumption DEF StaleAfterMs, period

LEMMA AcquisitionCases ==
  ASSUME Sound
  PROVE  \/ /\ ~acquired.software /\ acquired.device
            /\ \E s \in Sensed : acquired.sensors = s.sensors /\ acquired.lag = s.lag
         \/ acquired.software \in BOOLEAN /\ ~acquired.device /\ acquired.lag = 0
  <1> DEFINE Blind == [software : BOOLEAN, device : {FALSE}, sensors : {Unread}, lag : {0}]
             seen(s) == [software |-> FALSE, device |-> TRUE, sensors |-> s.sensors, lag |-> s.lag]
  <1>1. (\E s \in Sensed : acquired = seen(s)) \/ acquired \in Blind
    BY DEF Sound, Acquisitions
  <1>2. ASSUME NEW s \in Sensed, acquired = seen(s)
        PROVE  /\ ~acquired.software /\ acquired.device
               /\ acquired.sensors = s.sensors /\ acquired.lag = s.lag
    BY <1>2
  <1>3. ASSUME acquired \in Blind
        PROVE  acquired.software \in BOOLEAN /\ ~acquired.device /\ acquired.lag = 0
    BY <1>3
  <1>4. QED
    BY <1>1, <1>2, <1>3

(* What an acquisition gives for a channel, and when. *)
LEMMA RawNowIs ==
  ASSUME Sound, NEW c \in Channels
  PROVE  /\ RawNow.values[c].is \in {"none", "nan", "number"} /\ RawNow.values[c].value \in Int
         /\ RawNow.at \in Int /\ RawNow.at # NoTime
         /\ RawNow.source = "SoftwareFallback" <=> acquired.software
         /\ ~acquired.software => /\ RawNow.at = wall - acquired.lag
                                  /\ RawNow.values[c] = IF acquired.device THEN acquired.sensors[c] ELSE NoValue
         /\ acquired.lag \in Int
  <1>1. c \in SignalIds /\ c # "vram_temp_c" /\ c # "vddcr_gfx_v"
    BY Inventory DEF Channels
  <1>2. CASE acquired.software
    <2>1. acquired.lag = 0
      BY <1>2, AcquisitionCases
    <2>2. RawNow = RawTelemetry("SoftwareFallback", wall, "Simulated", IdleEstimatesOf)
      BY <1>2, <2>1 DEF RawNow, AcquireRaw, SoftwareFallbackRaw, Sound
    <2>3. IdleEstimatesOf[c].is \in {"none", "nan", "number"} /\ IdleEstimatesOf[c].value \in Int
      BY <1>1 DEF IdleEstimatesOf, Channels, Number
    <2>4. QED
      BY <1>2, <2>1, <2>2, <2>3, DeliveryAssumption DEF RawTelemetry, Sound, NoTime
  <1>3. CASE ~acquired.software /\ acquired.device
    <2>1. PICK s \in Sensed : acquired.sensors = s.sensors /\ acquired.lag = s.lag
      BY <1>3, AcquisitionCases
    <2>2. /\ acquired.lag \in Int /\ acquired.lag <= FirstTime /\ DOMAIN acquired.sensors = SignalIds
          /\ acquired.sensors[c].is \in {"none", "nan", "number"} /\ acquired.sensors[c].value \in Int
      BY <1>1, <2>1, DeliveryAssumption
    <2>3. RawNow = ReadNvml(acquired.sensors, wall - acquired.lag)
      BY <1>3 DEF RawNow, AcquireRaw
    <2>4. /\ RawNow.values[c] = acquired.sensors[c] /\ RawNow.at = wall - acquired.lag
          /\ RawNow.source = "Nvml"
      BY <1>1, <2>2, <2>3 DEF ReadNvml, RawTelemetry
    <2>5. QED
      BY <1>3, <2>2, <2>4, DeliveryAssumption DEF Sound, NoTime
  <1>4. CASE ~acquired.software /\ ~acquired.device
    <2>1. acquired.lag = 0
      BY <1>4, AcquisitionCases
    <2>2. RawNow = RawTelemetry("NvmlUnavailable", wall, "LiveAcquire", Unread)
      BY <1>4, <2>1 DEF RawNow, AcquireRaw, NvmlUnavailableRaw, Sound
    <2>3. QED
      BY <1>1, <1>4, <2>1, <2>2, DeliveryAssumption DEF RawTelemetry, Unread, Sound, NoTime, NoValue
  <1>5. QED
    BY <1>2, <1>3, <1>4

(* The stimulus of a channel in a frame mapped as it is received. *)
LEMMA StimulusNow ==
  ASSUME Sound, NEW clock, NEW c \in Channels
  PROVE  LET frame == FrameOf(RawNow, wall, Cadence, clock)
             stimulus == MappedStimulus(frame, c, wall)
             read == RawNow.values[c]
         IN /\ stimulus.validity = ValidityAt(read, SignalSpec[c].range,
                  IF RawNow.at = NoTime THEN wall ELSE RawNow.at, wall, StaleAfterMs(c, Cadence))
            /\ stimulus.normalized =
                  IF stimulus.validity = "Valid" THEN Apply(SignalSpec[c].linear, read.value) ELSE NoFraction
  <1> DEFINE frame == FrameOf(RawNow, wall, Cadence, clock)
             stimulus == MappedStimulus(frame, c, wall)
             observed == IF RawNow.at = NoTime THEN wall ELSE RawNow.at
             limit == StaleAfterMs(c, Cadence)
             sample == Sample(RawNow.values[c], SignalSpec[c].range, observed, wall, limit)
  <1>1. c \in SignalIds
    BY Inventory
  <1>2. /\ frame.samples[c] = sample /\ frame.received = wall
        /\ frame.cadence = IF Cadence = 0 THEN 1 ELSE Cadence
    BY <1>1 DEF FrameOf
  <1>3. limit \in Nat /\ StaleAfterMs(c, frame.cadence) = limit
    BY <1>1, <1>2, StaleLimits
  <1>4. stimulus.validity = HeldValidity(sample, wall, wall, limit)
    BY <1>2, <1>3 DEF MappedStimulus
  <1>5. stimulus.normalized = Normalized(c, sample, stimulus.validity)
    BY <1>2, <1>3 DEF MappedStimulus
  <1>6. sample.validity = ValidityAt(RawNow.values[c], SignalSpec[c].range, observed, wall, limit)
        /\ sample.raw = RawNow.values[c]
    BY DEF Sample
  <1> HIDE DEF frame, stimulus, sample, limit
  <1>7. sample.validity = "Valid" => limit > 0
    <2>1. observed \in Int /\ wall \in Int
      BY RawNowIs DEF Sound
    <2>2. sample.validity = "Valid" => observed <= wall /\ wall - observed < limit
      BY <1>3, <1>6, <2>1, RawNowIs, ValidWhen
    <2>3. QED
      BY <1>3, <2>1, <2>2
  <1>8. QED
    BY <1>3, <1>4, <1>5, <1>6, <1>7, FreshlyHeld DEF Sound, Normalized, frame, stimulus, limit

(* What is published tells what was read. *)
LEMMA PublishedIsHonest ==
  ASSUME Sound
  PROVE  Honest(Published.batch)
  <1> DEFINE frame == FrameOf(RawNow, wall, Cadence, relay.clock)
             mapping == ToSensoryMappingAt(frame, wall)
             batch == MappingToStimulusBatch(mapping, relay.session, NextNumber)
             stimulus(i) == MappedStimulus(frame, RuntimeInputs[i], wall)
  <1>1. Published.batch = batch
    BY DEF Published, Message
  <1>2. DOMAIN RuntimeInputs = 1 .. 4 /\ \A i \in 1 .. 4 : RuntimeInputs[i] \in Channels
    BY BatchChannels DEF Channels
  <1>3. mapping.stimuli = [i \in 1 .. 4 |-> stimulus(i)] /\ mapping.source = RawNow.source
    BY <1>2 DEF ToSensoryMappingAt, ViewAt, FrameOf
  <1>4. /\ DOMAIN batch.values = 1 .. 4 /\ batch.source = RawNow.source
        /\ \A i \in 1 .. 4 :
             /\ batch.values[i] = IF stimulus(i).normalized = NoFraction THEN Zero ELSE stimulus(i).normalized
             /\ batch.mask[i] = MaskOf(stimulus(i))
    <2> HIDE DEF mapping
    <2>1. QED
      BY <1>3 DEF MappingToStimulusBatch, stimulus
  <1> SUFFICES ASSUME NEW i \in 1 .. 4,
                      NEW channel, channel = RuntimeInputs[i],
                      NEW value, value = batch.values[i],
                      NEW read, read = acquired.sensors[channel].value,
                      NEW span, span = SignalSpec[channel].linear[2]
               PROVE  /\ batch.source = "SoftwareFallback" <=> acquired.software
                      /\ ~acquired.software =>
                           /\ batch.mask[i] <=> Usable(channel)
                           /\ batch.mask[i] /\ read <= span => value[1] * span = read * value[2]
                           /\ batch.mask[i] /\ read > span => value[1] = value[2]
    BY <1>1, <1>4 DEF Honest
  <1> HIDE DEF frame, mapping, batch
  <1>5. channel \in Channels /\ channel \in SignalIds
    BY <1>2, Inventory
  <1> DEFINE now == RawNow.values[channel]
             range == SignalSpec[channel].range
             limit == StaleAfterMs(channel, Cadence)
  <1>6. /\ stimulus(i).validity = ValidityAt(now, range, RawNow.at, wall, limit)
        /\ stimulus(i).normalized = IF stimulus(i).validity = "Valid"
                                    THEN Apply(SignalSpec[channel].linear, now.value) ELSE NoFraction
    BY <1>5, StimulusNow, RawNowIs DEF frame
  <1>7. /\ span \in Nat \ {0} /\ SignalSpec[channel].linear = <<0, span>> /\ range \subseteq Nat
        /\ limit \in Nat
    BY <1>5, Spans, StaleLimits
  <1>8. stimulus(i).validity = "Valid" <=>
          now.is = "number" /\ now.value \in range /\ RawNow.at <= wall /\ wall - RawNow.at < limit
    BY <1>5, <1>6, <1>7, RawNowIs, ValidWhen DEF Sound
  <1> HIDE DEF stimulus, range, limit
  <1>9. /\ batch.mask[i] <=> stimulus(i).validity = "Valid"
        /\ batch.mask[i] => value = Apply(<<0, span>>, now.value) /\ now.value \in Nat
    <2>1. stimulus(i).validity = "Valid" => now.value \in Nat
      BY <1>7, <1>8
    <2>2. stimulus(i).validity = "Valid" =>
            stimulus(i).normalized # NoFraction /\ stimulus(i).normalized = Apply(<<0, span>>, now.value)
      BY <1>6, <1>7, <2>1, ApplyScales
    <2>3. QED
      BY <1>4, <2>1, <2>2 DEF MaskOf
  <1>10. batch.source = "SoftwareFallback" <=> acquired.software
    BY <1>4, <1>5, RawNowIs
  <1>11. ASSUME ~acquired.software
         PROVE  /\ batch.mask[i] <=> Usable(channel)
                /\ batch.mask[i] => now.value = read
    <2>1. /\ RawNow.at = wall - acquired.lag /\ acquired.lag \in Int /\ wall \in Int
          /\ now = IF acquired.device THEN acquired.sensors[channel] ELSE NoValue
      BY <1>5, <1>11, RawNowIs DEF Sound
    <2>2. RawNow.at <= wall /\ wall - RawNow.at < limit <=> acquired.lag \in 0 .. limit - 1
      BY <1>7, <2>1
    <2>3. CASE acquired.device
      BY <1>8, <1>9, <2>1, <2>2, <2>3 DEF Usable, range, limit
    <2>4. CASE ~acquired.device
      BY <1>8, <1>9, <2>1, <2>4 DEF Usable, NoValue
    <2>5. QED
      BY <2>3, <2>4
  <1>12. QED
    BY <1>7, <1>9, <1>10, <1>11, ApplyScales

(* Every frame on its way tells what was read. *)
Tells == Sound /\ \A message \in Known : Honest(message.batch)

LEMMA TellsStep ==
  ASSUME Shape, Tells, [Next]_vars
  PROVE  Tells'
  <1>1. acquired' = acquired
    BY DEF Next, Start, End, SetClockBack, PublishFrame, DiscardFrame, Take, Send, SendFails, Receive, vars
  <1>2. Sound'
    <2>1. wall' = wall \/ wall' = wall + 1 \/ wall' \in FirstTime .. MaxTime
      BY DEF Next, Start, End, SetClockBack, PublishFrame, DiscardFrame, Take, Send, SendFails, Receive,
             vars, process
    <2>2. (acquired \in Acquisitions)'
      BY <1>1 DEF Tells, Sound, Acquisitions, Unread
    <2>3. wall' \in Nat /\ FirstTime <= wall'
      BY <2>1, DeliveryAssumption DEF Tells, Sound
    <2>4. QED
      BY <2>2, <2>3 DEF Sound
  <1>3. ASSUME NEW message \in Known' PROVE Honest(message.batch)'
    <2>1. Honest(message.batch)
      BY InsideMoves, PublishedIsHonest DEF Tells, Known, Inside
    <2>2. QED
      BY <1>1, <2>1 DEF Honest, Usable
  <1>4. QED
    BY <1>2, <1>3 DEF Tells

-----------------------------------------------------------------------------
(***************************************************************************)
(* The theorems                                                            *)
(***************************************************************************)

(* A consumer that keeps to the key of docs/ipc.md discards nothing it has *)
(* not seen, unless the operator fixed the session or the clock was set    *)
(* back: for every network, however many processes and frames.             *)
THEOREM KeysNameOneFrame == Spec => []OnlyReplaysDiscarded
  <1>1. IInv => OnlyReplaysDiscarded
    BY DEF IInv
  <1>2. QED
    BY <1>1, SpecInductive, PTL

(* What a process neither sends nor counts are its last frames, no more    *)
(* than the queue and the worker's hand hold, for every capacity.          *)
THEOREM SilentLossIsBounded == Spec => []SilentLossBounded
  <1>1. IInv => SilentLossBounded
    <2> SUFFICES ASSUME IInv, NEW p \in Processes PROVE BoundedLoss(p)
      BY DEF SilentLossBounded, BoundedLoss
    <2>1. CASE p # started \/ ~relay.up
      BY <2>1 DEF IInv, DeadLoss
    <2>2. CASE p = started /\ relay.up
      BY <2>2, InsideIsBounded DEF IInv
    <2>3. QED
      BY <2>1, <2>2
  <1>2. QED
    BY <1>1, SpecInductive, PTL

(* The two channels the brake goes by are in the inventory. *)
LEMMA SafetySignals ==
  /\ "gpu_temp_c" \in SignalIds /\ "power_w" \in SignalIds
  /\ SignalSpec["gpu_temp_c"].range = TempRange /\ SignalSpec["power_w"].range = PowerRange
  /\ IncludesSafety("gpu_temp_c") /\ IncludesSafety("power_w")
  <1>1. "gpu_temp_c" \in SignalIds /\ "power_w" \in SignalIds
    <2>1. AllSignals[1] = "gpu_temp_c" /\ AllSignals[3] = "power_w" /\ {1, 3} \subseteq DOMAIN AllSignals
      BY DEF AllSignals
    <2>2. QED
      BY <2>1 DEF SignalIds, Range
  <1>2. /\ SignalSpec["gpu_temp_c"] = SpecOf(TempRange, <<0, 100>>, "Both")
        /\ SignalSpec["power_w"] = SpecOf(PowerRange, <<0, 350>>, "Both")
    BY <1>1 DEF SignalSpec
  <1>3. QED
    BY <1>1, <1>2 DEF SpecOf, IncludesSafety

(* The consumer and the brake go by the same readings: what a frame says   *)
(* to the consumer of the temperature and the power, when it is received   *)
(* and whenever it is mapped later, is what the frame the safety machine   *)
(* classifies says of them (from_raw_with_clock and to_sensory_mapping_at, *)
(* which Telemetry follows for two channels and Signals for all eight).    *)
THEOREM SafetyChannelsAgree ==
  ASSUME NEW raw, NEW now, NEW cadence, NEW clock,
         NEW wide, wide = FrameOf(raw, now, cadence, clock),
         NEW narrow,
         narrow = Assess(Raw(raw.source, raw.at, [temp |-> raw.values["gpu_temp_c"],
                                                  power |-> raw.values["power_w"]]),
                         now, cadence, EvalTicks, clock)
  PROVE  /\ narrow.temp = wide.samples["gpu_temp_c"] /\ narrow.power = wide.samples["power_w"]
         /\ \A field \in {"source", "batch", "status", "received", "cadence"} :
              narrow[field] = wide[field]
         /\ \A later :
              /\ MapAt(narrow, later, EvalTicks).temp =
                   MappedStimulus(wide, "gpu_temp_c", later).validity
              /\ MapAt(narrow, later, EvalTicks).power =
                   MappedStimulus(wide, "power_w", later).validity
  <1> DEFINE observed == IF raw.at = NoTime THEN now ELSE raw.at
  <1>1. \A c : /\ StaleAfterMs("gpu_temp_c", c) = StaleAfter(c, EvalTicks)
               /\ StaleAfterMs("power_w", c) = StaleAfter(c, EvalTicks)
    BY SafetySignals DEF StaleAfterMs
  <1>2. \A reading : /\ Raw(raw.source, raw.at, reading).temp = reading.temp
                     /\ Raw(raw.source, raw.at, reading).power = reading.power
                     /\ Raw(raw.source, raw.at, reading).at = raw.at
                     /\ Raw(raw.source, raw.at, reading).source = raw.source
    BY DEF Raw
  <1>3. /\ narrow.temp = Sample(raw.values["gpu_temp_c"], TempRange, observed, now, StaleAfter(cadence, EvalTicks))
        /\ narrow.power = Sample(raw.values["power_w"], PowerRange, observed, now, StaleAfter(cadence, EvalTicks))
    BY <1>2 DEF Assess
  <1>4. \A field \in {"source", "batch", "status", "received", "cadence"} : narrow[field] = wide[field]
    BY <1>2 DEF Assess, FrameOf
  <1>5. \A s \in SignalIds : wide.samples[s] =
          Sample(raw.values[s], SignalSpec[s].range, observed, now, StaleAfterMs(s, cadence))
    BY DEF FrameOf
  <1>6. narrow.temp = wide.samples["gpu_temp_c"] /\ narrow.power = wide.samples["power_w"]
    BY <1>1, <1>3, <1>5, SafetySignals
  <1>7. narrow.cadence = wide.cadence /\ narrow.received = wide.received
    BY <1>4
  <1>8. ASSUME NEW later
        PROVE  /\ MapAt(narrow, later, EvalTicks).temp =
                    MappedStimulus(wide, "gpu_temp_c", later).validity
               /\ MapAt(narrow, later, EvalTicks).power =
                    MappedStimulus(wide, "power_w", later).validity
    BY <1>1, <1>6, <1>7 DEF MapAt, MappedStimulus
  <1>9. QED
    BY <1>4, <1>6, <1>8
(* A zero the consumer may use is a zero that was read: for all readings   *)
(* of all sensors, at every age.                                           *)
THEOREM MasksAreHonest == Spec => []MaskIsHonest
  <1>1. Init => Tells
    BY DeliveryAssumption DEF Init, Tells, Sound, Known, Inside, InQueue, InHand
  <1>2. IInv /\ Tells /\ [Next]_vars => Tells'
    BY TellsStep DEF IInv
  <1>3. Tells => MaskIsHonest
    BY DEF Tells, MaskIsHonest, Known
  <1>4. QED
    BY <1>1, <1>2, <1>3, SpecInductive, PTL DEF Spec

-----------------------------------------------------------------------------
(***************************************************************************)
(* Each process is an outbox                                               *)
(***************************************************************************)

(* The counters of the process that runs stand for places it has given     *)
(* out, and for none that is still inside; a process not yet started has   *)
(* counted nothing.                                                        *)
Tallied ==
  /\ \A p \in Processes : IsFiniteSet(counted[p])
  /\ \A p \in Processes : p > started => counted[p] = {}
  /\ started \in Processes => \A k \in counted[started] : k < published[started]
  /\ \A message \in Inside : message.place \notin counted[started]

SentNow == {message \in wire : message.from = started}
LostNow == IF started \in Processes THEN Cardinality(counted[started]) ELSE 0

(* One more frame is counted. *)
LEMMA OneMoreIsLost ==
  ASSUME Shape, Tallied, started \in Processes, started' = started,
         NEW k, k \notin counted[started],
         counted' = [counted EXCEPT ![started] = @ \cup {k}]
  PROVE  LostNow' = LostNow + 1
  <1>1. counted'[started] = counted[started] \cup {k} /\ IsFiniteSet(counted[started])
    BY DEF Shape, Tallied
  <1>2. Cardinality(counted[started] \cup {k}) = Cardinality(counted[started]) + 1
    BY <1>1, FS_AddElement
  <1>3. QED
    BY <1>1, <1>2 DEF LostNow

(* The frame that leaves the queue, or the hand, is not counted yet, and   *)
(* no other frame inside has its place.                                    *)
LEMMA InsideIsPlaced ==
  ASSUME Shape, Keys, Places, Tallied, NEW message \in Inside
  PROVE  /\ relay.up /\ started \in Processes
         /\ message.from = started /\ message.place \in Nat
         /\ message.place < published[started] /\ message.place \notin counted[started]
         /\ message \notin SentNow
  <1>1. queue # <<>> \/ hand # <<>>
    BY DEF Inside, InQueue, InHand
  <1>2. relay.up /\ started \in Processes
    BY <1>1 DEF Shape
  <1>3. message.from = started /\ message.place \in Nat /\ Keyed(message)
    BY DEF Places, Keys, Known
  <1>4. message \notin SentNow
    BY <1>3 DEF Places, SentNow
  <1>5. QED
    BY <1>2, <1>3, <1>4 DEF Keyed, Tallied

LEMMA FirstInside ==
  ASSUME Shape
  PROVE  /\ queue # <<>> => Head(queue) \in Inside
         /\ hand # <<>> => hand[1] \in Inside
  <1>1. PICK S : queue \in Seq(S) /\ hand \in Seq(S)
    BY DEF Shape
  <1>2. queue # <<>> => 1 \in 1 .. Len(queue) /\ Head(queue) = queue[1]
    BY <1>1, LenProperties, EmptySeq
  <1>3. hand # <<>> => 1 \in 1 .. Len(hand)
    BY <1>1, LenProperties, EmptySeq
  <1>4. QED
    BY <1>2, <1>3 DEF Inside, InQueue, InHand

LEMMA TalliedStep ==
  ASSUME Shape, Keys, Places, Unborn, Tallied, [Next]_vars
  PROVE  Tallied'
  <1>1. counted \in [Processes -> SUBSET Nat] /\ published \in [Processes -> Nat]
    BY DEF Shape
  <1>2. CASE PublishFrame
    <2>1. /\ started \in Processes /\ started' = started
          /\ published' = [published EXCEPT ![started] = @ + 1]
      BY <1>2, PublishMoves
    <2>2. PICK newest : newest = Published
      OBVIOUS
    <2>3. newest.place = published[started] /\ published[started] \in Nat
      BY <1>1, <2>1, <2>2, PublishedHas
    <2>4. ASSUME NEW K, K \subseteq Nat, IsFiniteSet(K),
                 counted' = [counted EXCEPT ![started] = @ \cup K],
                 \A k \in K : k <= published[started],
                 \A message \in Inside' :
                   message.place \notin K /\ (message \in Inside \/ message = newest)
          PROVE  Tallied'
      <3>1. counted'[started] = counted[started] \cup K
            /\ \A p \in Processes : p # started => counted'[p] = counted[p]
        BY <1>1, <2>1, <2>4
      <3>2. \A p \in Processes : IsFiniteSet(counted'[p]) /\ (p > started => counted'[p] = {})
        <4>1. IsFiniteSet(counted[started] \cup K)
          BY <2>1, <2>4, FS_Union DEF Tallied
        <4>2. \A p \in Processes : p > started => p # started
          BY <2>1, DeliveryAssumption DEF Processes
        <4>3. QED
          BY <3>1, <4>1, <4>2 DEF Tallied
      <3>3. \A k \in counted'[started] : k < published'[started]
        BY <1>1, <2>1, <2>4, <3>1 DEF Tallied
      <3>4. \A message \in Inside' : message.place \notin counted'[started]
        BY <1>1, <2>1, <2>3, <2>4, <3>1 DEF Tallied
      <3>5. QED
        BY <2>1, <3>1, <3>2, <3>3, <3>4 DEF Tallied
    <2>5. \A message \in Inside' : message \in Inside \/ message = newest
      BY <1>2, <2>2, InsideMoves
    <2>6. \A message \in Inside : message.place \in Nat /\ message.place < published[started]
      BY InsideIsPlaced
    <2>7. CASE /\ queue' = queue
               /\ counted' = [counted EXCEPT ![started] = @ \cup {published[started]}]
      <3>1. Inside' = Inside
        BY <1>2, <2>7, PublishMoves DEF Inside, InQueue, InHand
      <3>2. IsFiniteSet({published[started]})
        BY FS_Singleton
      <3>3. /\ {published[started]} \subseteq Nat
            /\ \A k \in {published[started]} : k <= published[started]
            /\ \A message \in Inside' :
                 message.place \notin {published[started]} /\ (message \in Inside \/ message = newest)
        BY <2>3, <2>6, <3>1
      <3>4. QED
        BY <2>4, <2>7, <3>2, <3>3
    <2>8. CASE counted' = counted
      <3>1. counted' = [counted EXCEPT ![started] = @ \cup {}]
        BY <1>1, <2>8
      <3>2. QED
        BY <2>4, <2>5, <3>1, FS_EmptySet
    <2>9. CASE /\ Len(queue) = Capacity /\ queue' = Append(Tail(queue), Published)
               /\ counted' = [counted EXCEPT ![started] = @ \cup {Head(queue).place}]
      <3>1. PICK S : queue \in Seq(S)
        BY DEF Shape
      <3>2. queue # <<>>
        BY <2>9, <3>1, DeliveryAssumption
      <3>3. PICK rest, head : rest = Tail(queue) /\ head = Head(queue)
        OBVIOUS
      <3>4. rest \in Seq(S) /\ queue' = Append(rest, newest)
        BY <2>2, <2>9, <3>1, <3>2, <3>3, TailMoves
      <3>5. InQueue' = {rest[i] : i \in 1 .. Len(rest)} \cup {newest}
        BY <3>4, AppendMoves DEF InQueue
      <3>6. /\ head \in InQueue
            /\ \A i \in 1 .. Len(rest) : rest[i] \in InQueue /\ head.place < rest[i].place
            /\ \A i \in 1 .. Len(rest) : rest[i].place \in Nat
        BY <3>2, <3>3, HeadIsOldest, InsideIsPlaced DEF Inside
      <3>7. /\ head.place \in Nat /\ head.place < published[started]
        BY <2>6, <3>6 DEF Inside
      <3>8. \A message \in InHand : message.place \in Nat /\ message.place # head.place
        <4>1. \A message \in InHand : message.place < head.place
          <5>1. 1 \in 1 .. Len(queue) /\ head = queue[1]
            BY <3>1, <3>2, <3>3, LenProperties, EmptySeq
          <5>2. QED
            BY <5>1 DEF Places
        <4>2. QED
          BY <2>6, <3>7, <4>1 DEF Inside
      <3>9. InHand' = InHand
        BY <1>2, PublishMoves DEF InHand
      <3>10. \A message \in Inside' : message.place # head.place
        BY <2>3, <3>5, <3>6, <3>7, <3>8, <3>9 DEF Inside
      <3>11. IsFiniteSet({head.place})
        BY FS_Singleton
      <3>12. /\ {head.place} \subseteq Nat
             /\ \A k \in {head.place} : k <= published[started]
             /\ \A message \in Inside' :
                  message.place \notin {head.place} /\ (message \in Inside \/ message = newest)
        BY <2>3, <2>5, <3>7, <3>10
      <3>13. counted' = [counted EXCEPT ![started] = @ \cup {head.place}]
        BY <2>9, <3>3
      <3>14. QED
        BY <2>4, <3>11, <3>12, <3>13
    <2>10. QED
      BY <1>2, <2>7, <2>8, <2>9, PublishMoves
  <1>3. CASE SendFails
    <2>1. /\ hand # <<>> /\ hand' = <<>> /\ queue' = queue
          /\ started' = started /\ published' = published
          /\ counted' = [counted EXCEPT ![started] = @ \cup {hand[1].place}]
      BY <1>3 DEF SendFails, Count, process, network
    <2>2. PICK gone : gone = hand[1]
      OBVIOUS
    <2>3. gone \in InHand /\ gone \in Inside
      BY <2>1, <2>2 DEF Shape, InHand, Inside
    <2>4. /\ started \in Processes /\ gone.place \in Nat /\ gone.place < published[started]
      BY <2>3, InsideIsPlaced
    <2>5. /\ counted'[started] = counted[started] \cup {gone.place}
          /\ \A p \in Processes : p # started => counted'[p] = counted[p]
      BY <1>1, <2>1, <2>2, <2>4
    <2>6. \A p \in Processes : IsFiniteSet(counted'[p]) /\ (p > started => counted'[p] = {})
      <3>1. IsFiniteSet(counted[started] \cup {gone.place})
        BY <2>4, FS_AddElement DEF Tallied
      <3>2. \A p \in Processes : p > started => p # started
        BY <2>4, DeliveryAssumption DEF Processes
      <3>3. QED
        BY <2>5, <3>1, <3>2 DEF Tallied
    <2>7. Inside' = InQueue /\ InQueue \subseteq Inside
      BY <2>1 DEF Inside, InQueue, InHand
    <2>8. \A message \in InQueue : message.place \in Nat /\ gone.place < message.place
      BY <2>3, <2>7, InsideIsPlaced DEF Places, InQueue
    <2>9. \A message \in Inside' : message.place \notin counted'[started]
      BY <2>4, <2>5, <2>7, <2>8 DEF Tallied
    <2>10. QED
      BY <2>1, <2>4, <2>5, <2>6, <2>9 DEF Tallied
  <1>4. CASE Start
    <2>1. /\ started' = started + 1 /\ started' \in Processes /\ counted' = counted
          /\ Inside' = {}
      BY <1>4, StartMoves DEF Shape, Inside, InQueue, InHand
    <2>2. counted'[started'] = {}
      BY <2>1 DEF Tallied, Shape
    <2>3. QED
      BY <2>1, <2>2 DEF Tallied, Shape, Processes
  <1>5. CASE /\ ~PublishFrame
             /\ End \/ SetClockBack \/ DiscardFrame \/ Take \/ Send \/ Receive \/ UNCHANGED vars
    <2>1. UNCHANGED <<started, counted, published>>
      BY <1>5 DEF End, SetClockBack, DiscardFrame, Take, Send, Receive, vars, process, outbox, network
    <2>2. Inside' \subseteq Inside
      BY <1>5, InsideMoves
    <2>3. QED
      BY <2>1, <2>2 DEF Tallied
  <1>6. QED
    BY <1>2, <1>3, <1>4, <1>5 DEF Next

(* What the outbox of the running process has of it. *)
PolicyNow == IF relay.up THEN relay.policy ELSE "none"

OutboxRests == UNCHANGED <<PolicyNow, queue, hand, SentNow, LostNow>>

LEMMA RestIsAStutter ==
  ASSUME OutboxRests
  PROVE  UNCHANGED TheOutbox!vars
  BY DEF OutboxRests, TheOutbox!vars, PolicyNow, SentNow, LostNow

LEMMA HeldIsInside == Shape => TheOutbox!Held = Inside
  <1> SUFFICES ASSUME Shape PROVE TheOutbox!Held = Inside
    OBVIOUS
  <1>1. PICK S : queue \in Seq(S) /\ hand \in Seq(S)
    BY DEF Shape
  <1>2. DOMAIN queue = 1 .. Len(queue) /\ DOMAIN hand = 1 .. Len(hand)
    BY <1>1, LenProperties
  <1>3. Range(queue) = InQueue /\ Range(hand) = InHand
    BY <1>2 DEF Range, InQueue, InHand
  <1>4. QED
    BY <1>3 DEF TheOutbox!Held, TheOutbox!Range, Range, Inside

LEMMA PublishIsOffered ==
  ASSUME Shape, Keys, Places, Tallied, PublishFrame
  PROVE  TheOutbox!Next
  <1>1. /\ relay.up /\ started \in Processes /\ started' = started
        /\ hand' = hand /\ wire' = wire /\ PolicyNow' = PolicyNow /\ PolicyNow = relay.policy
        /\ SentNow' = SentNow
    BY PublishMoves DEF PolicyNow, SentNow
  <1>2. PICK newest : newest = Published
    OBVIOUS
  <1>3. newest \notin TheOutbox!Held \cup SentNow
    <2>1. /\ newest.place \in Nat
          /\ \A old \in Known : old.from = started => old.place < newest.place
      BY <1>2, NewestIsLast
    <2>2. newest \notin Inside \cup SentNow
      BY <2>1 DEF Known, Places, SentNow
    <2>3. QED
      BY <2>2, HeldIsInside
  <1>4. PICK S : queue \in Seq(S)
    BY DEF Shape
  <1>5. ASSUME NEW q, NEW T, q \in Seq(T), queue' = Append(q, newest)
        PROVE  newest \in Range(queue')
    <2>1. /\ Len(queue') = Len(q) + 1 /\ Len(q) \in Nat /\ queue'[Len(q) + 1] = newest
          /\ queue' \in Seq(T \cup {newest})
      BY <1>5, AppendMoves
    <2>2. DOMAIN queue' = 1 .. Len(queue')
      BY <2>1, LenProperties
    <2>3. QED
      BY <2>1, <2>2 DEF Range
  <1>6. CASE /\ queue' = queue
             /\ counted' = [counted EXCEPT ![started] = @ \cup {published[started]}]
    <2>1. published[started] \notin counted[started]
      BY <1>1 DEF Tallied, Shape
    <2>2. LostNow' = LostNow + 1
      BY <1>1, <1>6, <2>1, OneMoreIsLost
    <2>3. TheOutbox!Refuse
      BY <1>1, <1>6, <2>2 DEF TheOutbox!Refuse, PolicyNow, SentNow, LostNow
    <2>4. QED
      BY <2>3 DEF TheOutbox!Next
  <1>7. CASE /\ Len(queue) < Capacity /\ queue' = Append(queue, Published) /\ counted' = counted
    <2>1. LostNow' = LostNow
      BY <1>1, <1>7 DEF LostNow
    <2>2. newest \in Range(queue') /\ queue' = Append(queue, newest)
      BY <1>2, <1>4, <1>5, <1>7
    <2>3. TheOutbox!Accept
      BY <1>1, <1>3, <1>7, <2>1, <2>2
         DEF TheOutbox!Accept, TheOutbox!Range, Range, PolicyNow, SentNow, LostNow
    <2>4. QED
      BY <2>3 DEF TheOutbox!Next
  <1>8. CASE /\ Len(queue) = Capacity /\ relay.policy = "DropOldest"
             /\ queue' = Append(Tail(queue), Published)
             /\ counted' = [counted EXCEPT ![started] = @ \cup {Head(queue).place}]
    <2>1. queue # <<>>
      BY <1>4, <1>8, DeliveryAssumption
    <2>2. PICK rest, head : rest = Tail(queue) /\ head = Head(queue)
      OBVIOUS
    <2>3. rest \in Seq(S) /\ queue' = Append(rest, newest)
      BY <1>2, <1>4, <1>8, <2>1, <2>2, TailMoves
    <2>4. newest \in Range(queue')
      BY <1>5, <2>3
    <2>5. head.place \notin counted[started]
      BY <2>1, <2>2, FirstInside, InsideIsPlaced
    <2>6. LostNow' = LostNow + 1
      BY <1>1, <1>8, <2>2, <2>5, OneMoreIsLost
    <2>7. queue' = Append(Tail(queue), newest)
      BY <1>2, <1>8
    <2>8. TheOutbox!Replace
      BY <1>1, <1>3, <1>8, <2>4, <2>6, <2>7
         DEF TheOutbox!Replace, TheOutbox!Range, Range, PolicyNow, SentNow, LostNow
    <2>9. QED
      BY <2>8 DEF TheOutbox!Next
  <1>9. QED
    BY <1>6, <1>7, <1>8, PublishMoves

LEMMA OutboxStep ==
  ASSUME Shape, Keys, Places, Tallied, [Next]_vars
  PROVE  [TheOutbox!Next \/ TheOutbox!End \/ TheOutbox!Restart]_(TheOutbox!vars)
  <1>1. CASE PublishFrame
    BY <1>1, PublishIsOffered
  <1>2. CASE Take
    <2>1. /\ hand = <<>> /\ queue # <<>> /\ hand' = <<Head(queue)>> /\ queue' = Tail(queue)
          /\ UNCHANGED <<relay, started, counted, wire>>
      BY <1>2 DEF Take, process, network
    <2>2. TheOutbox!Take
      BY <2>1 DEF TheOutbox!Take
    <2>3. QED
      BY <2>2 DEF TheOutbox!Next
  <1>3. CASE Send
    <2>1. /\ hand # <<>> /\ hand' = <<>> /\ wire' = wire \cup {hand[1]}
          /\ UNCHANGED <<relay, started, counted, queue>>
      BY <1>3 DEF Send, process
    <2>2. hand[1] \notin SentNow /\ hand[1].from = started
      BY <2>1, FirstInside, InsideIsPlaced
    <2>3. SentNow' = SentNow \cup {hand[1]}
      BY <2>1, <2>2 DEF SentNow
    <2>4. TheOutbox!Send
      BY <2>1, <2>2, <2>3 DEF TheOutbox!Send, SentNow
    <2>5. QED
      BY <2>4 DEF TheOutbox!Next
  <1>4. CASE SendFails
    <2>1. /\ hand # <<>> /\ hand' = <<>> /\ counted' = [counted EXCEPT ![started] = @ \cup {hand[1].place}]
          /\ UNCHANGED <<relay, started, queue, wire>>
      BY <1>4 DEF SendFails, Count, process, network
    <2>2. started \in Processes /\ hand[1].place \notin counted[started]
      BY <2>1, FirstInside, InsideIsPlaced
    <2>3. LostNow' = LostNow + 1
      BY <2>1, <2>2, OneMoreIsLost
    <2>4. TheOutbox!SendFails
      BY <2>1, <2>3 DEF TheOutbox!SendFails, LostNow
    <2>5. QED
      BY <2>4 DEF TheOutbox!Next
  <1>5. CASE Start
    <2>1. /\ ~relay.up /\ relay'.up /\ relay'.policy \in {"DropOldest", "RejectNewest"}
          /\ started' = started + 1 /\ started' \in Processes /\ started \in Nat
          /\ queue' = <<>> /\ hand' = <<>> /\ counted' = counted /\ wire' = wire
      BY <1>5, StartMoves, DeliveryAssumption DEF Shape
    <2>2. SentNow' = {}
      <3>1. \A message \in wire : message.from \in 1 .. started
        BY DEF Keys, Keyed, Known
      <3>2. QED
        BY <2>1, <3>1 DEF SentNow
    <2>3. LostNow' = 0
      <3>1. counted'[started'] = {}
        BY <2>1 DEF Tallied
      <3>2. Cardinality(counted'[started']) = 0
        BY <3>1, FS_EmptySet
      <3>3. QED
        BY <2>1, <3>2 DEF LostNow
    <2>4. TheOutbox!Restart
      BY <2>1, <2>2, <2>3
         DEF TheOutbox!Restart, TheOutbox!Policies, TheOutbox!Empty, SentNow, LostNow
    <2>5. QED
      BY <2>4
  <1>6. CASE End
    <2>1. relay'.up = FALSE /\ queue' = <<>> /\ hand' = <<>> /\ UNCHANGED <<started, counted, wire>>
      BY <1>6 DEF End, NotRunning, network
    <2>2. TheOutbox!End
      BY <2>1 DEF TheOutbox!End
    <2>3. QED
      BY <2>2
  <1>7. CASE SetClockBack \/ DiscardFrame \/ Receive \/ UNCHANGED vars
    <2>1. UNCHANGED <<queue, hand, started, counted, wire>> /\ PolicyNow' = PolicyNow
      <3>1. CASE DiscardFrame
        BY <3>1, DiscardMoves DEF DiscardFrame, outbox, network, PolicyNow
      <3>2. CASE SetClockBack \/ Receive \/ UNCHANGED vars
        BY <3>2 DEF SetClockBack, Receive, vars, process, outbox, network, PolicyNow
      <3>3. QED
        BY <1>7, <3>1, <3>2
    <2>2. OutboxRests
      BY <2>1 DEF OutboxRests, SentNow, LostNow
    <2>3. QED
      BY <2>2, RestIsAStutter
  <1>8. QED
    BY <1>1, <1>2, <1>3, <1>4, <1>5, <1>6, <1>7 DEF Next

(* Every process has the outbox PublishQueue is proved to have, one after  *)
(* the other: the queue without threads allows nothing the real one may    *)
(* not do (run_udp_worker, try_enqueue, and the worker nobody joins).      *)
THEOREM EachProcessIsAnOutbox == Spec => RefinesOutbox
  <1>1. Init => TheOutbox!InitAcross
    <2>1. ASSUME Init PROVE wire = {} /\ started \notin Processes /\ ~relay.up
      BY <2>1 DEF Init, NotRunning, Processes
    <2>2. QED
      BY <2>1 DEF Init, TheOutbox!InitAcross, TheOutbox!Empty
  <1>2. Init => Tallied
    <2>1. ASSUME Init PROVE /\ \A p \in Processes : counted[p] = {}
                            /\ Inside = {} /\ started \notin Processes
      BY <2>1 DEF Init, Inside, InQueue, InHand, Processes
    <2>2. QED
      BY <2>1, FS_EmptySet DEF Tallied
  <1>3. IInv /\ Tallied /\ [Next]_vars => Tallied'
    BY TalliedStep DEF IInv
  <1>4. IInv /\ Tallied /\ [Next]_vars
          => [TheOutbox!Next \/ TheOutbox!End \/ TheOutbox!Restart]_(TheOutbox!vars)
    BY OutboxStep DEF IInv
  <1>5. QED
    BY <1>1, <1>2, <1>3, <1>4, SpecInductive, PTL DEF Spec, RefinesOutbox, TheOutbox!SpecAcross
===============================================================================
