--------------------------- MODULE DeliveryProofs ---------------------------
(***************************************************************************)
(* Delivery implements PubSub, and its queues' budget is exact, for every  *)
(* set of sessions, every set of event sizes and every queue limit.        *)
(***************************************************************************)
EXTENDS Delivery, WellFoundedInduction, TLAPS

-----------------------------------------------------------------------------
(* Type correctness.                                                        *)

LEMMA Replies == Ok \in Payload /\ Other \in Payload
                 /\ Ok.from = Server /\ Other.from = Server /\ Server \notin Session
<1>1. Ok \in Payload /\ Other \in Payload
  BY DEF Payload
<1>2. Ok.from = Server /\ Other.from = Server
  BY DEF Ok, Other
<1> QED
  BY <1>1, <1>2, DeliveryAssumption

LEMMA PayloadFields ==
  ASSUME NEW p \in Payload
  PROVE  /\ p.size \in Nat \ {0}
         /\ p.from \in Session => p.n \in Nat \ {0}
         /\ p.from \in Session \cup {Server}
<1>1. CASE p \in Event
  <2>1. p.size \in Size /\ p.from \in Session /\ p.n \in Nat \ {0}
    BY <1>1 DEF Event
  <2> QED
    BY <2>1, DeliveryAssumption
<1>2. CASE p = Ok \/ p = Other
  <2>1. p.size = 1 /\ p.from = Server
    BY <1>2 DEF Ok, Other
  <2> QED
    BY <2>1, DeliveryAssumption
<1> QED
  BY <1>1, <1>2 DEF Payload

\* What enqueue does to the queues, whether or not it refuses the payload.
LEMMA EnqueueEffect ==
  ASSUME TypeOK, NEW r \in Session, NEW p \in Payload, Enqueue(r, p)
  PROVE  /\ closing' \in [Session -> BOOLEAN]
         /\ queue' \in [Session -> Seq(Payload)]
         /\ queuedBytes' \in [Session -> Int]
         /\ \A s \in Session : queuedBytes'[s] <= QueueLimit
         /\ \A s \in Session : closing[s] => closing'[s]
         /\ \A s \in Session : s # r => closing'[s] = closing[s] /\ queue'[s] = queue[s]
         /\ \/ queue'[r] = queue[r] /\ closing'[r]
            \/ queue'[r] = Append(queue[r], p) /\ closing'[r] = closing[r]
<1> DEFINE refused == closing[r] \/ OverBudget(r, p)
<1>1. p.size \in Nat \ {0} /\ QueueLimit \in Nat /\ queuedBytes[r] \in Int
  BY PayloadFields, DeliveryAssumption DEF TypeOK
<1>2. refused \in BOOLEAN
  BY DEF OverBudget, TypeOK
<1>3. CASE refused
  <2>1. /\ closing' = [closing EXCEPT ![r] = TRUE]
        /\ queue' = queue /\ queuedBytes' = queuedBytes
    BY <1>3 DEF Enqueue, TypeOK
  <2> QED
    BY <2>1 DEF TypeOK
<1>4. CASE ~refused
  <2>1. /\ closing' = [closing EXCEPT ![r] = FALSE]
        /\ queue' = [queue EXCEPT ![r] = Append(@, p)]
        /\ queuedBytes' = [queuedBytes EXCEPT ![r] = @ + p.size]
    BY <1>2, <1>4 DEF Enqueue
  <2>2. ~closing[r] /\ queuedBytes[r] + p.size <= QueueLimit
    BY <1>1, <1>4 DEF OverBudget
  <2>3. Append(queue[r], p) \in Seq(Payload)
    BY DEF TypeOK
  <2>4. queue' \in [Session -> Seq(Payload)] /\ queue'[r] = Append(queue[r], p)
    BY <2>1, <2>3 DEF TypeOK
  <2>5. /\ queuedBytes' \in [Session -> Int]
        /\ \A s \in Session : queuedBytes'[s] <= QueueLimit
    BY <1>1, <2>1, <2>2 DEF TypeOK
  <2> QED
    BY <2>1, <2>2, <2>4, <2>5 DEF TypeOK
<1> QED
  BY <1>3, <1>4

LEMMA InitType == Init => TypeOK
<1> SUFFICES ASSUME Init PROVE TypeOK
  OBVIOUS
<1>1. None \in Event \cup {None} /\ None \in Payload \cup {None} /\ <<>> \in Seq(Payload)
  OBVIOUS
<1> QED
  BY <1>1, DeliveryAssumption DEF Init, TypeOK

LEMMA NextType == TypeOK /\ [Next]_vars => TypeOK'
<1> SUFFICES ASSUME TypeOK, [Next]_vars PROVE TypeOK'
  OBVIOUS
<1> USE DEF readVars, queueVars, writerVars
<1>1. CASE UNCHANGED vars
  BY <1>1 DEF vars, TypeOK
<1>2. ASSUME NEW s \in Session, Connect(s) PROVE TypeOK'
  BY <1>2 DEF Connect, ReaderTo, TypeOK
<1>3. ASSUME NEW s \in Session, ReadFrame(s) PROVE TypeOK'
  <2>1. frames' \in [Session -> 0..MaxFrames]
    BY <1>3, DeliveryAssumption DEF ReadFrame, TypeOK
  <2> QED
    BY <1>3, <2>1 DEF ReadFrame, ReaderTo, TypeOK
<1>4. ASSUME NEW s \in Session, Answer(s) \/ AuthReply(s) \/ AuthFails(s) PROVE TypeOK'
  <2>1. PICK p \in {Ok, Other} : Enqueue(s, p)
    BY <1>4 DEF Answer, AuthReply, AuthFails
  <2>2. p \in Payload
    BY Replies
  <2> QED
    <3>1. PICK to \in {"loop", "register", "reject"} : reader' = [reader EXCEPT ![s] = to]
      BY <1>4 DEF Answer, AuthReply, AuthFails, ReaderTo
    <3>2. UNCHANGED <<readVars, targets, writerVars, seen>>
      BY <1>4 DEF Answer, AuthReply, AuthFails
    <3> QED
      BY <2>1, <2>2, <3>1, <3>2, EnqueueEffect DEF TypeOK
<1>5. ASSUME NEW s \in Session, Register(s) PROVE TypeOK'
  <2>1. reader' \in [Session -> {"unborn", "loop", "frame", "register", "reject",
                                 "broadcast", "deliver", "done"}]
    BY <1>5 DEF Register, ReaderTo, TypeOK
  <2>2. \A u \in Session : Broadcasts(u) \in Int
    BY DEF Broadcasts, TypeOK
  <2>3. seen' \in [Session -> [Session -> Int]]
    BY <1>5, <2>2 DEF Register, TypeOK
  <2> QED
    BY <1>5, <2>1, <2>3 DEF Register, ReaderTo, TypeOK
<1>6. ASSUME NEW s \in Session, Reject(s) PROVE TypeOK'
  BY <1>6 DEF Reject, CloseSession, ReaderTo, TypeOK
<1>7. ASSUME NEW s \in Session, NEW size \in Size, AcceptEvent(s, size) PROVE TypeOK'
  <2> DEFINE event == [from |-> s, n |-> accepted[s] + 1, size |-> size]
  <2>1. event \in Event
    BY DEF Event, TypeOK
  <2>2. /\ accepted' = [accepted EXCEPT ![s] = @ + 1]
        /\ current' = [current EXCEPT ![s] = event]
        /\ recorded' = recorded \cup {event}
        /\ reader' = [reader EXCEPT ![s] = "broadcast"]
        /\ UNCHANGED <<frames, authenticated, registered, targets, queueVars, writerVars,
                       seen>>
    BY <1>7 DEF AcceptEvent, ReaderTo
  <2> HIDE DEF event
  <2> QED
    BY <2>1, <2>2 DEF TypeOK
<1>8. ASSUME NEW s \in Session, Broadcast(s) PROVE TypeOK'
  BY <1>8 DEF Broadcast, Recipients, ReaderTo, TypeOK
<1>9. ASSUME NEW s \in Session, NEW r \in Session, Deliver(s, r) PROVE TypeOK'
  <2>1. current[s] \in Payload
    BY <1>9 DEF Deliver, Payload, TypeOK
  <2>2. Enqueue(r, current[s])
    BY <1>9 DEF Deliver
  <2> QED
    BY <1>9, <2>1, <2>2, EnqueueEffect DEF Deliver, ReaderTo, TypeOK
<1>10. ASSUME NEW s \in Session, Leave(s) PROVE TypeOK'
  BY <1>10 DEF Leave, CloseSession, ReaderTo, TypeOK
<1>11. ASSUME NEW s \in Session, WriterPop(s) PROVE TypeOK'
  <2>1. /\ Head(queue[s]) \in Payload /\ Tail(queue[s]) \in Seq(Payload)
        /\ Head(queue[s]).size \in Nat
    BY <1>11, PayloadFields DEF WriterPop, TypeOK
  <2>2. queue' \in [Session -> Seq(Payload)]
    BY <1>11, <2>1 DEF WriterPop, TypeOK
  <2>3. /\ queuedBytes' \in [Session -> Int]
        /\ \A u \in Session : queuedBytes'[u] <= QueueLimit
    BY <1>11, <2>1, DeliveryAssumption DEF WriterPop, TypeOK
  <2>4. /\ writing' \in [Session -> Payload \cup {None}]
        /\ writer' \in [Session -> {"none", "wait", "write", "done"}]
    BY <1>11, <2>1 DEF WriterPop, TypeOK
  <2> QED
    BY <1>11, <2>2, <2>3, <2>4 DEF WriterPop, TypeOK, readVars
<1>12. ASSUME NEW s \in Session, WriterSends(s) PROVE TypeOK'
  <2>1. writing[s].from \in Session => writing[s].n \in Nat
    <3>1. CASE writing[s] \in Payload
      BY <3>1, PayloadFields
    <3>2. CASE writing[s] = None
      BY <3>2, DeliveryAssumption DEF None
    <3> QED
      BY <3>1, <3>2 DEF TypeOK
  <2>2. seen' \in [Session -> [Session -> Int]]
    <3>1. CASE writing[s].from \in Session
      <4> DEFINE row == [seen[s] EXCEPT ![writing[s].from] = writing[s].n]
      <4>1. row \in [Session -> Int]
        BY <2>1, <3>1 DEF TypeOK
      <4>2. seen' = [seen EXCEPT ![s] = row]
        BY <1>12, <3>1 DEF WriterSends, TypeOK
      <4> QED
        BY <4>1, <4>2 DEF TypeOK
    <3>2. CASE writing[s].from \notin Session
      BY <1>12, <3>2 DEF WriterSends, TypeOK
    <3> QED
      BY <3>1, <3>2
  <2>3. told' \subseteq Session
    BY <1>12 DEF WriterSends, TypeOK
  <2>4. writer' = [writer EXCEPT ![s] = "wait"] /\ UNCHANGED <<readVars, reader, targets,
                                                               queueVars, writing>>
    BY <1>12 DEF WriterSends
  <2> QED
    BY <2>2, <2>3, <2>4 DEF TypeOK
<1>13. ASSUME NEW s \in Session, WriterFails(s) \/ WriterEnds(s) PROVE TypeOK'
  BY <1>13 DEF WriterFails, WriterEnds, CloseSession, TypeOK
<1> QED
  BY <1>1, <1>2, <1>3, <1>4, <1>5, <1>6, <1>7, <1>8, <1>9, <1>10, <1>11, <1>12, <1>13
  DEF Next, Reading, Writing

\* Every variable stays in its range and every queue within its budget.
THEOREM TypeCorrect == Spec => []TypeOK
  BY InitType, NextType, PTL DEF Spec

-----------------------------------------------------------------------------
(* The inductive invariant: what is on its way to a session is exactly what *)
(* it still has to see, in each sender's order.                             *)

LEMMA SlotsArePayloads ==
  ASSUME TypeOK, NEW r \in Session, NEW i \in Slots(r), Item(r, i).from \in Session
  PROVE  Item(r, i).n \in Nat \ {0} /\ Item(r, i) \in Payload
<1>1. CASE i = 0
  <2>1. writing[r] \in Payload \cup {None} /\ writing[r].from \in Session
    BY <1>1 DEF Item, TypeOK
  <2>2. None.from \notin Session
    BY DeliveryAssumption DEF None
  <2> QED
    BY <1>1, <2>1, <2>2, PayloadFields DEF Item
<1>2. CASE i # 0
  <2>1. i \in DOMAIN queue[r] /\ queue[r] \in Seq(Payload)
    BY <1>2 DEF Slots, TypeOK
  <2>2. Item(r, i) \in Payload
    BY <1>2, <2>1 DEF Item
  <2> QED
    BY <2>2, PayloadFields
<1> QED
  BY <1>1, <1>2

\* A step that moves no payload, and tells no session that stays open that it is
\* due another event, keeps what is on its way to it right.
LEMMA NothingMoves ==
  ASSUME TypeOK, TypeOK', InTransit,
         queue' = queue, writing' = writing, seen' = seen, authenticated' = authenticated,
         \A r \in Session :
           /\ writer'[r] = "write" => writer[r] = "write"
           /\ writer[r] = "write" /\ writer'[r] # "write" => closing'[r]
           /\ closing[r] => closing'[r],
         \A r \in authenticated, s \in Session :
           /\ Due(s, r) <= Due(s, r)'
           /\ r # s => Due(s, r)' = Due(s, r) \/ closing'[r]
  PROVE  InTransit'
<1> USE DEF InTransit
<1>1. ASSUME NEW r \in Session
      PROVE  Slots(r)' \subseteq Slots(r) /\ (closing'[r] \/ Slots(r)' = Slots(r))
  BY <1>1 DEF Slots
<1>2. \A r \in Session : \A i : Item(r, i)' = Item(r, i)
  BY DEF Item
<1>3. \A r, s \in Session : Due(s, r) \in Int /\ Due(s, r)' \in Int
  <2>1. \A s \in Session : accepted[s] \in Int /\ accepted'[s] \in Int
    BY DEF TypeOK
  <2> QED
    BY <2>1 DEF Due
<1>4. Ordered'
  <2> SUFFICES ASSUME NEW r \in Session, NEW i \in Slots(r)', NEW j \in Slots(r)'
               PROVE  (Precedes(r, i, j) => Item(r, i).n < Item(r, j).n)'
    BY DEF Ordered
  <2>1. i \in Slots(r) /\ j \in Slots(r)
    BY <1>1
  <2>2. Precedes(r, i, j) => Item(r, i).n < Item(r, j).n
    BY <2>1 DEF Ordered
  <2> QED
    BY <1>2, <2>2 DEF Precedes
<1>5. Owned'
  <2> SUFFICES ASSUME NEW r \in Session, NEW i \in Slots(r), Item(r, i).from \in Session
               PROVE  Wanted(r, Item(r, i))'
    BY <1>1, <1>2 DEF Owned
  <2>1. Wanted(r, Item(r, i)) /\ Item(r, i).n \in Int
    BY SlotsArePayloads DEF Owned
  <2> QED
    BY <1>2, <1>3, <2>1 DEF Wanted, Item
<1>6. Complete'
  <2> SUFFICES ASSUME NEW r \in authenticated, NEW s \in Session, NEW m \in Int,
                      ~closing'[r], r # s, seen[r][s] < m, m <= Due(s, r)'
               PROVE  \E i \in Slots(r)' : Item(r, i)'.from = s /\ Item(r, i)'.n = m
    BY DEF Complete
  <2>1. r \in Session /\ ~closing[r] /\ Due(s, r)' = Due(s, r)
    BY DEF TypeOK
  <2>2. PICK i \in Slots(r) : Item(r, i).from = s /\ Item(r, i).n = m
    BY <2>1 DEF Complete
  <2> QED
    BY <1>1, <1>2, <2>1, <2>2
<1>7. Behind'
  <2> SUFFICES ASSUME NEW r \in authenticated, NEW s \in Session
               PROVE  seen[r][s] <= Due(s, r)'
    BY DEF Behind
  <2>1. r \in Session /\ seen[r][s] \in Int /\ seen[r][s] <= Due(s, r)
    BY DEF Behind, TypeOK
  <2> QED
    BY <1>3, <2>1
<1> QED
  BY <1>4, <1>5, <1>6, <1>7

\* A payload given to enqueue, which is the next event its recipient is due, or
\* a reply.
LEMMA Pushed ==
  ASSUME TypeOK, TypeOK', InTransit, NEW t \in Session, NEW p \in Payload, Enqueue(t, p),
         writer' = writer, writing' = writing, seen' = seen, authenticated' = authenticated,
         p.from \in Session =>
           /\ t \in authenticated /\ p.from # t
           /\ Due(p.from, t) = p.n - 1 /\ Due(p.from, t)' = p.n,
         \A r, s \in Session : (r = t /\ s = p.from) \/ Due(s, r)' = Due(s, r)
  PROVE  InTransit'
<1> USE DEF InTransit
<1>0. /\ \A s \in Session : closing[s] => closing'[s]
      /\ \A s \in Session : s # t => closing'[s] = closing[s] /\ queue'[s] = queue[s]
      /\ \/ queue'[t] = queue[t] /\ closing'[t]
         \/ queue'[t] = Append(queue[t], p) /\ closing'[t] = closing[t]
  BY EnqueueEffect
<1>1. \A r, s \in Session :
        Due(s, r) \in Int /\ Due(s, r)' \in Int /\ Due(s, r) <= Due(s, r)'
  <2>1. \A s \in Session : accepted[s] \in Int /\ accepted'[s] \in Int
    BY DEF TypeOK
  <2>2. \A r, s \in Session : Due(s, r) \in Int /\ Due(s, r)' \in Int
    BY <2>1 DEF Due
  <2>3. p.from \in Session => p.n \in Int
    BY PayloadFields
  <2> QED
    BY <2>2, <2>3
<1>2. CASE queue'[t] = queue[t] /\ closing'[t]
  <2>1. queue' = queue
    BY <1>0, <1>2 DEF TypeOK
  <2>2. \A r \in Session : closing[r] => closing'[r]
    BY <1>0
  <2>3. \A r \in authenticated, s \in Session :
           /\ Due(s, r) <= Due(s, r)'
           /\ r # s => Due(s, r)' = Due(s, r) \/ closing'[r]
    BY <1>1, <1>2 DEF TypeOK
  <2> QED
    BY <2>1, <2>2, <2>3, NothingMoves
<1>3. CASE queue'[t] = Append(queue[t], p) /\ closing'[t] = closing[t]
  <2>0. PICK new \in Nat \ {0} : new = Len(queue[t]) + 1
    BY DEF TypeOK
  <2>1. /\ queue[t] \in Seq(Payload)
        /\ \A i \in Slots(t) : i \in Int /\ i < new
    BY <2>0 DEF Slots, TypeOK
  <2>2. Slots(t)' = Slots(t) \cup {new} /\ Item(t, new)' = p
    <3>1. DOMAIN queue'[t] = DOMAIN queue[t] \cup {new} /\ queue'[t][new] = p
      BY <1>3, <2>0, <2>1
    <3> QED
      BY <2>1, <3>1 DEF Slots, Item
  <2>3. \A i \in Slots(t) : Item(t, i)' = Item(t, i)
    BY <1>3, <2>1 DEF Slots, Item
  <2>4. \A r \in Session : r # t => Slots(r)' = Slots(r)
    BY <1>0 DEF Slots
  <2>5. \A r \in Session : r # t => \A i : Item(r, i)' = Item(r, i)
    BY <1>0 DEF Item
  <2>6. \A r \in Session : closing[r] => closing'[r]
    BY <1>0
  <2>7. Behind'
    <3> SUFFICES ASSUME NEW r \in authenticated, NEW s \in Session
                 PROVE  seen[r][s] <= Due(s, r)'
      BY DEF Behind
    <3>1. r \in Session /\ seen[r][s] \in Int /\ seen[r][s] <= Due(s, r)
      BY DEF Behind, TypeOK
    <3> QED
      BY <1>1, <3>1
  <2>8. p.from \in Session => p.n \in Nat /\ seen[t][p.from] < p.n
    <3> SUFFICES ASSUME p.from \in Session PROVE p.n \in Nat /\ seen[t][p.from] < p.n
      OBVIOUS
    <3>1. p.n \in Nat /\ seen[t][p.from] \in Int
      BY PayloadFields DEF TypeOK
    <3>2. seen[t][p.from] <= Due(p.from, t)
      BY DEF Behind
    <3> QED
      BY <3>1, <3>2
  <2>9. Owned'
    <3> SUFFICES ASSUME NEW r \in Session, NEW i \in Slots(r)', Item(r, i)'.from \in Session
                 PROVE  Wanted(r, Item(r, i))'
      BY DEF Owned
    <3>1. CASE r = t /\ i = new
      <4>1. Item(r, i)' = p
        BY <2>2, <3>1
      <4>2. p.from \in Session /\ p.n \in Nat
        BY <2>8, <4>1
      <4> QED
        BY <2>8, <3>1, <4>1, <4>2 DEF Wanted
    <3>2. CASE i \in Slots(r) /\ Item(r, i)' = Item(r, i)
      <4>1. Wanted(r, Item(r, i)) /\ Item(r, i).n \in Int
        BY <3>2, SlotsArePayloads DEF Owned
      <4> QED
        BY <1>1, <3>2, <4>1 DEF Wanted
    <3> QED
      BY <2>2, <2>3, <2>4, <2>5, <3>1, <3>2
  <2>10. Ordered'
    <3> SUFFICES ASSUME NEW r \in Session, NEW i \in Slots(r)', NEW j \in Slots(r)'
                 PROVE  (Precedes(r, i, j) => Item(r, i).n < Item(r, j).n)'
      BY DEF Ordered
    <3>1. CASE r # t \/ (i # new /\ j # new)
      <4>1. i \in Slots(r) /\ j \in Slots(r)
            /\ Item(r, i)' = Item(r, i) /\ Item(r, j)' = Item(r, j)
        BY <2>2, <2>3, <2>4, <2>5, <3>1
      <4>2. Precedes(r, i, j) => Item(r, i).n < Item(r, j).n
        BY <4>1 DEF Ordered
      <4> QED
        BY <4>1, <4>2 DEF Precedes
    <3>2. CASE r = t /\ i = new
      <4>1. ~ i < j
        BY <2>1, <2>2, <3>2
      <4> QED
        BY <4>1 DEF Precedes
    <3>3. CASE r = t /\ i # new /\ j = new
      <4>1. i \in Slots(t) /\ Item(t, i)' = Item(t, i) /\ Item(t, j)' = p
        BY <2>2, <2>3, <3>3
      <4> SUFFICES ASSUME Item(t, i).from = p.from, p.from \in Session
                   PROVE  Item(t, i).n < p.n
        BY <3>3, <4>1 DEF Precedes
      <4>2. Wanted(t, Item(t, i)) /\ Item(t, i).n \in Int
        BY <4>1, SlotsArePayloads DEF Owned
      <4> QED
        BY <2>8, <4>2 DEF Wanted
    <3> QED
      BY <3>1, <3>2, <3>3
  <2>11. Complete'
    <3> SUFFICES ASSUME NEW r \in authenticated, NEW s \in Session, NEW m \in Int,
                        ~closing'[r], r # s, seen[r][s] < m, m <= Due(s, r)'
                 PROVE  \E i \in Slots(r)' : Item(r, i)'.from = s /\ Item(r, i)'.n = m
      BY DEF Complete
    <3>1. r \in Session /\ ~closing[r]
      BY <2>6 DEF TypeOK
    <3>2. CASE r = t /\ s = p.from /\ m = p.n
      BY <2>2, <3>2
    <3>3. CASE m <= Due(s, r)
      <4>1. PICK i \in Slots(r) : Item(r, i).from = s /\ Item(r, i).n = m
        BY <3>1, <3>3 DEF Complete
      <4> QED
        BY <2>2, <2>3, <2>4, <2>5, <3>1, <4>1
    <3>4. m <= Due(s, r) \/ (r = t /\ s = p.from /\ m = p.n)
      BY <1>1, <2>8, <3>1
    <3> QED
      BY <3>2, <3>3, <3>4
  <2> QED
    BY <2>7, <2>9, <2>10, <2>11
<1> QED
  BY <1>0, <1>2, <1>3

\* The writer takes the first payload of the queue: everything moves up one slot.
LEMMA Popped ==
  ASSUME TypeOK, TypeOK', InTransit, NEW t \in Session, WriterPop(t)
  PROVE  InTransit'
<1> USE DEF InTransit, readVars, queueVars, writerVars
<1>1. /\ writer[t] = "wait" /\ queue[t] # <<>> /\ queue[t] \in Seq(Payload)
      /\ writer'[t] = "write" /\ writing'[t] = Head(queue[t]) /\ queue'[t] = Tail(queue[t])
      /\ seen' = seen /\ authenticated' = authenticated /\ closing' = closing
      /\ reader' = reader /\ targets' = targets /\ accepted' = accepted
  BY DEF WriterPop, TypeOK
<1>2. \A r \in Session : r # t =>
        writer'[r] = writer[r] /\ writing'[r] = writing[r] /\ queue'[r] = queue[r]
  BY DEF WriterPop, TypeOK
<1>3. \A r, s \in Session : Due(s, r)' = Due(s, r)
  BY <1>1 DEF Due
<1>4. \A r \in Session : r # t => Slots(r)' = Slots(r)
  BY <1>2 DEF Slots
<1>5. \A r \in Session : r # t => \A i : Item(r, i)' = Item(r, i)
  BY <1>2 DEF Item
<1>6. Slots(t) = 1 .. Len(queue[t]) /\ Slots(t)' = 0 .. (Len(queue[t]) - 1)
      /\ Len(queue[t]) \in Nat \ {0}
  <2>1. DOMAIN queue[t] = 1 .. Len(queue[t]) /\ DOMAIN queue'[t] = 1 .. (Len(queue[t]) - 1)
        /\ Len(queue[t]) \in Nat \ {0}
    BY <1>1
  <2> QED
    BY <1>1, <2>1 DEF Slots
<1>7. \A i \in Slots(t)' : i + 1 \in Slots(t) /\ Item(t, i)' = Item(t, i + 1)
  <2> SUFFICES ASSUME NEW i \in Slots(t)'
               PROVE  i + 1 \in Slots(t) /\ Item(t, i)' = Item(t, i + 1)
    OBVIOUS
  <2>1. CASE i = 0
    BY <1>1, <1>6, <2>1 DEF Item
  <2>2. CASE i # 0
    <3>1. queue'[t][i] = queue[t][i + 1]
      BY <1>1, <1>6, <2>2
    <3> QED
      BY <1>6, <2>2, <3>1 DEF Item
  <2> QED
    BY <2>1, <2>2
<1>8. \A r \in Session : \A i : i \in Slots(r)' =>
        \E j \in Slots(r) : Item(r, i)' = Item(r, j)
  BY <1>4, <1>5, <1>7
<1>9. Owned'
  <2> SUFFICES ASSUME NEW r \in Session, NEW i \in Slots(r)', Item(r, i)'.from \in Session
               PROVE  Wanted(r, Item(r, i))'
    BY DEF Owned
  <2>1. PICK j \in Slots(r) : Item(r, i)' = Item(r, j)
    BY <1>8
  <2>2. Wanted(r, Item(r, j))
    BY <2>1 DEF Owned
  <2> QED
    BY <1>1, <1>3, <2>1, <2>2 DEF Wanted
<1>10. Ordered'
  <2> SUFFICES ASSUME NEW r \in Session, NEW i \in Slots(r)', NEW j \in Slots(r)'
               PROVE  (Precedes(r, i, j) => Item(r, i).n < Item(r, j).n)'
    BY DEF Ordered
  <2>1. CASE r # t
    <3>1. Precedes(r, i, j) => Item(r, i).n < Item(r, j).n
      BY <1>4, <2>1 DEF Ordered
    <3> QED
      BY <1>5, <2>1, <3>1 DEF Precedes
  <2>2. CASE r = t
    <3>1. Precedes(t, i + 1, j + 1) => Item(t, i + 1).n < Item(t, j + 1).n
      BY <1>7, <2>2 DEF Ordered
    <3>2. i < j => i + 1 < j + 1
      BY <1>6, <2>2
    <3> QED
      BY <1>7, <2>2, <3>1, <3>2 DEF Precedes
  <2> QED
    BY <2>1, <2>2
<1>11. Complete'
  <2> SUFFICES ASSUME NEW r \in authenticated', NEW s \in Session, NEW m \in Int,
                      ~closing'[r], r # s, seen'[r][s] < m, m <= Due(s, r)'
               PROVE  \E i \in Slots(r)' : Item(r, i)'.from = s /\ Item(r, i)'.n = m
    BY DEF Complete
  <2>0. r \in authenticated /\ r \in Session /\ m <= Due(s, r)
    BY <1>1, <1>3 DEF TypeOK
  <2>1. PICK i \in Slots(r) : Item(r, i).from = s /\ Item(r, i).n = m
    BY <1>1, <2>0 DEF Complete
  <2>2. CASE r # t
    BY <1>4, <1>5, <2>0, <2>1, <2>2
  <2>3. CASE r = t
    <3>1. i - 1 \in Slots(t)' /\ (i - 1) + 1 = i
      BY <1>6, <2>1, <2>3
    <3> QED
      BY <1>7, <2>1, <2>3, <3>1
  <2> QED
    BY <2>2, <2>3
<1>12. Behind'
  BY <1>1, <1>3 DEF Behind, TypeOK
<1> QED
  BY <1>9, <1>10, <1>11, <1>12

\* The writer has written the payload it held.
LEMMA Sent ==
  ASSUME TypeOK, TypeOK', InTransit, NEW t \in Session, WriterSends(t)
  PROVE  InTransit'
<1> USE DEF InTransit, readVars, queueVars, writerVars
<1> DEFINE p == writing[t]
<1>1. /\ writer[t] = "write" /\ writer'[t] = "wait" /\ writing' = writing /\ queue' = queue
      /\ authenticated' = authenticated /\ closing' = closing
      /\ reader' = reader /\ targets' = targets /\ accepted' = accepted
  BY DEF WriterSends, TypeOK
<1>2. \A r \in Session : r # t => writer'[r] = writer[r] /\ seen'[r] = seen[r]
  BY DEF WriterSends, TypeOK
<1>3. \A r, s \in Session : Due(s, r)' = Due(s, r)
  BY <1>1 DEF Due
<1>4. \A r \in Session : \A i : Item(r, i)' = Item(r, i)
  BY <1>1 DEF Item
<1>5. 0 \in Slots(t) /\ Item(t, 0) = p
  BY <1>1 DEF Slots, Item
<1>6. \A i \in Slots(t)' : i \in Slots(t) /\ 0 < i
  <2>1. queue[t] \in Seq(Payload)
    BY DEF TypeOK
  <2> QED
    BY <1>1, <2>1 DEF Slots
<1>7. \A i \in Slots(t) : i = 0 \/ i \in Slots(t)'
  BY <1>1 DEF Slots
<1>8. \A r \in Session : r # t => Slots(r)' = Slots(r)
  BY <1>1, <1>2 DEF Slots
<1>9. \A s \in Session : seen'[t][s] = IF p.from = s THEN p.n ELSE seen[t][s]
  <2>1. CASE p.from \in Session
    <3>1. seen' = [seen EXCEPT ![t] = [seen[t] EXCEPT ![p.from] = p.n]]
      BY <2>1 DEF WriterSends, TypeOK
    <3>2. seen'[t] = [seen[t] EXCEPT ![p.from] = p.n] /\ seen[t] \in [Session -> Int]
      BY <3>1 DEF TypeOK
    <3> QED
      BY <3>2
  <2>2. CASE p.from \notin Session
    BY <2>2 DEF WriterSends
  <2> QED
    BY <2>1, <2>2
<1>10. p.from \in Session => Wanted(t, p) /\ p.n \in Nat
  BY <1>5, SlotsArePayloads DEF Owned
<1> HIDE DEF p
<1>11. Owned'
  <2> SUFFICES ASSUME NEW r \in Session, NEW i \in Slots(r)', Item(r, i)'.from \in Session
               PROVE  Wanted(r, Item(r, i))'
    BY DEF Owned
  <2>1. i \in Slots(r) /\ Item(r, i)' = Item(r, i)
    BY <1>4, <1>6, <1>8
  <2>2. Wanted(r, Item(r, i)) /\ Item(r, i).n \in Int
    BY <2>1, SlotsArePayloads DEF Owned
  <2>3. CASE r # t
    BY <1>1, <1>2, <1>3, <2>1, <2>2, <2>3 DEF Wanted
  <2>4. CASE r = t
    <3>1. p.from = Item(r, i).from => p.n < Item(r, i).n
      BY <1>5, <1>6, <2>1, <2>4 DEF Ordered, Precedes
    <3>2. seen'[r][Item(r, i).from] < Item(r, i).n
      BY <1>9, <2>1, <2>2, <2>4, <3>1 DEF Wanted
    <3> QED
      BY <1>1, <1>3, <2>1, <2>2, <3>2 DEF Wanted
  <2> QED
    BY <2>3, <2>4
<1>12. Ordered'
  <2> SUFFICES ASSUME NEW r \in Session, NEW i \in Slots(r)', NEW j \in Slots(r)'
               PROVE  (Precedes(r, i, j) => Item(r, i).n < Item(r, j).n)'
    BY DEF Ordered
  <2>1. i \in Slots(r) /\ j \in Slots(r)
    BY <1>6, <1>8
  <2>2. Precedes(r, i, j) => Item(r, i).n < Item(r, j).n
    BY <2>1 DEF Ordered
  <2> QED
    BY <1>4, <2>2 DEF Precedes
<1>13. Complete'
  <2> SUFFICES ASSUME NEW r \in authenticated', NEW s \in Session, NEW m \in Int,
                      ~closing'[r], r # s, seen'[r][s] < m, m <= Due(s, r)'
               PROVE  \E i \in Slots(r)' : Item(r, i)'.from = s /\ Item(r, i)'.n = m
    BY DEF Complete
  <2>1. /\ r \in authenticated /\ r \in Session /\ seen[r][s] \in Int
        /\ m <= Due(s, r) /\ ~closing[r]
    BY <1>1, <1>3 DEF TypeOK
  <2>2. seen[r][s] < m
    BY <1>2, <1>9, <1>10, <2>1 DEF Wanted
  <2>3. PICK i \in Slots(r) : Item(r, i).from = s /\ Item(r, i).n = m
    BY <2>1, <2>2 DEF Complete
  <2>4. CASE r # t
    BY <1>4, <1>8, <2>1, <2>3, <2>4
  <2>5. CASE r = t
    <3>1. i # 0
      BY <1>5, <1>9, <2>3, <2>5
    <3> QED
      BY <1>4, <1>7, <2>1, <2>3, <2>5, <3>1
  <2> QED
    BY <2>4, <2>5
<1>14. Behind'
  <2> SUFFICES ASSUME NEW r \in authenticated, NEW s \in Session
               PROVE  seen'[r][s] <= Due(s, r)
    BY <1>1, <1>3 DEF Behind, TypeOK
  <2>1. r \in Session /\ seen[r][s] <= Due(s, r)
    BY DEF Behind, TypeOK
  <2>2. p.from = s /\ r = t => p.n <= Due(s, r)
    BY <1>10 DEF Wanted
  <2> QED
    BY <1>2, <1>9, <2>1, <2>2
<1> QED
  BY <1>11, <1>12, <1>13, <1>14

\* A session that registers has nothing on its way, and is due what comes next.
LEMMA Joined ==
  ASSUME TypeOK, TypeOK', Handled, InTransit, NEW t \in Session, Register(t)
  PROVE  InTransit'
<1> USE DEF InTransit, readVars, queueVars, writerVars
<1>1. /\ reader[t] = "register" /\ t \notin authenticated
      /\ authenticated' = authenticated \cup {t}
      /\ writer' = writer /\ writing' = writing /\ queue' = queue /\ closing' = closing
      /\ targets' = targets /\ accepted' = accepted
  BY DEF Register, Handled
<1>2. reader'[t] = "loop" /\ \A u \in Session : u # t => reader'[u] = reader[u]
  BY DEF Register, ReaderTo, TypeOK
<1>3. /\ \A u \in Session : seen'[t][u] = Broadcasts(u)
      /\ \A r \in Session : r # t => seen'[r] = seen[r]
  BY DEF Register, TypeOK
<1>4. \A r, s \in Session : Due(s, r)' = Due(s, r)
  BY <1>1, <1>2 DEF Due
<1>5. \A r \in Session : Slots(r)' = Slots(r)
  BY <1>1 DEF Slots
<1>6. \A r \in Session : \A i : Item(r, i)' = Item(r, i)
  BY <1>1 DEF Item
<1>7. \A s \in Session : Due(s, t) = Broadcasts(s) /\ Due(s, t) \in Int
  <2>1. \A s \in Session : t \notin targets[s]
    BY <1>1 DEF Handled
  <2>2. \A s \in Session : accepted[s] \in Int
    BY DEF TypeOK
  <2> QED
    BY <2>1, <2>2 DEF Due, Broadcasts
<1>8. Owned'
  <2> SUFFICES ASSUME NEW r \in Session, NEW i \in Slots(r)', Item(r, i)'.from \in Session
               PROVE  Wanted(r, Item(r, i))'
    BY DEF Owned
  <2>1. i \in Slots(r) /\ Item(r, i)' = Item(r, i)
    BY <1>5, <1>6
  <2>2. Wanted(r, Item(r, i))
    BY <2>1 DEF Owned
  <2>3. r # t
    BY <1>1, <2>2 DEF Wanted
  <2> QED
    BY <1>1, <1>3, <1>4, <2>1, <2>2, <2>3 DEF Wanted
<1>9. Ordered'
  <2> SUFFICES ASSUME NEW r \in Session, NEW i \in Slots(r)', NEW j \in Slots(r)'
               PROVE  (Precedes(r, i, j) => Item(r, i).n < Item(r, j).n)'
    BY DEF Ordered
  <2>1. Precedes(r, i, j) => Item(r, i).n < Item(r, j).n
    BY <1>5 DEF Ordered
  <2> QED
    BY <1>6, <2>1 DEF Precedes
<1>10. Complete'
  <2> SUFFICES ASSUME NEW r \in authenticated', NEW s \in Session, NEW m \in Int,
                      ~closing'[r], r # s, seen'[r][s] < m, m <= Due(s, r)'
               PROVE  \E i \in Slots(r)' : Item(r, i)'.from = s /\ Item(r, i)'.n = m
    BY DEF Complete
  <2>1. r # t
    BY <1>3, <1>4, <1>7
  <2>2. r \in authenticated /\ r \in Session /\ seen[r][s] < m /\ m <= Due(s, r) /\ ~closing[r]
    BY <1>1, <1>3, <1>4, <2>1 DEF TypeOK
  <2>3. PICK i \in Slots(r) : Item(r, i).from = s /\ Item(r, i).n = m
    BY <2>2 DEF Complete
  <2> QED
    BY <1>5, <1>6, <2>2, <2>3
<1>11. Behind'
  <2> SUFFICES ASSUME NEW r \in authenticated', NEW s \in Session
               PROVE  (seen[r][s] <= Due(s, r))'
    BY DEF Behind
  <2>1. r \in Session /\ Due(s, r)' = Due(s, r)
    BY <1>4 DEF TypeOK
  <2>2. CASE r = t
    BY <1>3, <1>7, <2>1, <2>2
  <2>3. CASE r # t
    <3>1. r \in authenticated /\ seen'[r] = seen[r]
      BY <1>1, <1>3, <2>1, <2>3
    <3> QED
      BY <2>1, <3>1 DEF Behind
  <2> QED
    BY <2>2, <2>3
<1> QED
  BY <1>8, <1>9, <1>10, <1>11

\* The two enqueues of payloads that no action but these makes.
LEMMA Replied ==
  ASSUME TypeOK, TypeOK', DInv, NEW s \in Session, Answer(s) \/ AuthReply(s) \/ AuthFails(s)
  PROVE  DInv'
<1> USE DEF DInv, readVars, queueVars, writerVars
<1>1. PICK p \in {Ok, Other} : Enqueue(s, p)
  BY DEF Answer, AuthReply, AuthFails
<1>2. p \in Payload /\ p.from \notin Session
  BY Replies
<1>3. /\ UNCHANGED <<readVars, targets, writerVars, seen>>
      /\ reader[s] = "frame" /\ reader'[s] \in {"loop", "register", "reject"}
      /\ reader'[s] = "register" => s \notin authenticated
      /\ \A u \in Session : u # s => reader'[u] = reader[u]
  BY DEF Answer, AuthReply, AuthFails, ReaderTo, TypeOK
<1>4. \A r, u \in Session : Due(u, r)' = Due(u, r)
  BY <1>3 DEF Due
<1>5. InTransit'
  BY <1>1, <1>2, <1>3, <1>4, Pushed
<1>6. Handled'
  BY <1>3 DEF Handled
<1>7. Routed'
  BY <1>1, <1>2, <1>3, EnqueueEffect DEF Routed, TypeOK
<1> QED
  BY <1>5, <1>6, <1>7

LEMMA Delivered ==
  ASSUME TypeOK, TypeOK', DInv, NEW s \in Session, NEW r \in Session, Deliver(s, r)
  PROVE  DInv'
<1> USE DEF DInv, readVars, queueVars, writerVars
<1>1. /\ reader[s] = "deliver" /\ r \in targets[s] /\ Enqueue(r, current[s])
      /\ UNCHANGED <<readVars, writerVars, seen>>
      /\ targets'[s] = targets[s] \ {r} /\ reader'[s] \in {"loop", "deliver"}
      /\ reader'[s] = "loop" => targets[s] = {r}
      /\ \A u \in Session : u # s => reader'[u] = reader[u] /\ targets'[u] = targets[u]
  BY DEF Deliver, ReaderTo, TypeOK
<1>2. /\ current[s] \in Payload /\ current[s].from = s /\ current[s].n = accepted[s]
      /\ r \in authenticated /\ r # s /\ accepted[s] \in Int
  BY <1>1 DEF Handled, Payload, TypeOK
<1>3. Due(s, r) = accepted[s] - 1 /\ Due(s, r)' = accepted[s]
  BY <1>1 DEF Due
<1>4. \A v, u \in Session : (v = r /\ u = s) \/ Due(u, v)' = Due(u, v)
  BY <1>1 DEF Due
<1>5. InTransit'
  BY <1>1, <1>2, <1>3, <1>4, Pushed
<1>6. Handled'
  BY <1>1 DEF Handled, TypeOK
<1>7. Routed'
  BY <1>1, <1>2, EnqueueEffect DEF Routed, TypeOK
<1> QED
  BY <1>5, <1>6, <1>7

\* AcceptEvent and Broadcast: an event is accepted, and its recipients become due.
LEMMA Published ==
  ASSUME TypeOK, TypeOK', DInv, NEW s \in Session,
         Broadcast(s) \/ \E size \in Size : AcceptEvent(s, size)
  PROVE  DInv'
<1> USE DEF DInv, readVars, queueVars, writerVars
<1>1. CASE Broadcast(s)
  <2>1. /\ reader[s] = "broadcast" /\ targets'[s] = registered \ {s}
        /\ reader'[s] \in {"loop", "deliver"} /\ (reader'[s] = "loop" => targets'[s] = {})
        /\ \A u \in Session : u # s => reader'[u] = reader[u] /\ targets'[u] = targets[u]
        /\ UNCHANGED <<readVars, queueVars, writerVars, seen>>
    BY <1>1 DEF Broadcast, Recipients, ReaderTo, TypeOK
  <2>2. \A r \in authenticated, u \in Session :
           /\ Due(u, r) <= Due(u, r)'
           /\ r # u => Due(u, r)' = Due(u, r) \/ closing'[r]
    <3> SUFFICES ASSUME NEW r \in authenticated, NEW u \in Session
                 PROVE  /\ Due(u, r) <= Due(u, r)'
                        /\ r # u => Due(u, r)' = Due(u, r) \/ closing'[r]
      OBVIOUS
    <3>1. accepted[u] \in Int /\ accepted' = accepted /\ closing' = closing
      BY <2>1 DEF TypeOK
    <3>2. CASE u # s
      BY <2>1, <3>1, <3>2 DEF Due
    <3>3. CASE u = s
      <4>1. r \in registered \/ closing[r]
        BY DEF Routed
      <4>2. r # s /\ r \in registered => r \in targets'[s] /\ reader'[s] = "deliver"
        BY <2>1
      <4>3. Due(s, r) = accepted[s] - 1
            /\ Due(s, r)' = (IF reader'[s] = "deliver" /\ r \in targets'[s]
                             THEN accepted[s] - 1 ELSE accepted[s])
        BY <2>1, <3>1 DEF Due
      <4> QED
        BY <3>1, <3>3, <4>1, <4>2, <4>3
    <3> QED
      BY <3>2, <3>3
  <2>3. InTransit'
    BY <2>1, <2>2, NothingMoves
  <2>4. Handled' /\ Routed'
    BY <2>1 DEF Handled, Routed, TypeOK
  <2> QED
    BY <2>3, <2>4
<1>2. ASSUME NEW size \in Size, AcceptEvent(s, size) PROVE DInv'
  <2>1. /\ reader[s] = "frame" /\ s \in authenticated /\ accepted'[s] = accepted[s] + 1
        /\ reader'[s] = "broadcast" /\ current'[s].from = s
        /\ current'[s].n = accepted[s] + 1 /\ current'[s] \in recorded'
        /\ recorded \subseteq recorded'
        /\ \A u \in Session : u # s =>
              reader'[u] = reader[u] /\ accepted'[u] = accepted[u] /\ current'[u] = current[u]
        /\ UNCHANGED <<authenticated, registered, targets, queueVars, writerVars, seen>>
    BY <1>2 DEF AcceptEvent, ReaderTo, TypeOK
  <2>2. \A r \in authenticated, u \in Session : Due(u, r) \in Int /\ Due(u, r)' = Due(u, r)
    <3>1. \A u \in Session : accepted[u] \in Int
      BY DEF TypeOK
    <3> QED
      BY <2>1, <3>1 DEF Due
  <2>3. InTransit'
    BY <2>1, <2>2, NothingMoves
  <2>4. Handled' /\ Routed'
    BY <2>1 DEF Handled, Routed
  <2> QED
    BY <2>3, <2>4
<1> QED
  BY <1>1, <1>2

LEMMA InitDInv == Init => DInv
<1> SUFFICES ASSUME Init PROVE DInv
  OBVIOUS
<1>1. \A r \in Session : Slots(r) = {}
  BY DEF Init, Slots
<1> QED
  BY <1>1 DEF Init, DInv, Handled, Routed, InTransit, Behind, Owned, Ordered, Complete

LEMMA NextDInv == TypeOK /\ TypeOK' /\ DInv /\ [Next]_vars => DInv'
<1> SUFFICES ASSUME TypeOK, TypeOK', DInv, [Next]_vars PROVE DInv'
  OBVIOUS
<1> USE DEF readVars, queueVars, writerVars
<1>1. \A u \in Session : accepted[u] \in Int
  BY DEF TypeOK
<1>2. CASE UNCHANGED vars
  <2>1. \A r, s \in Session : Due(s, r) \in Int /\ Due(s, r)' = Due(s, r)
    BY <1>1, <1>2 DEF vars, Due
  <2>2. InTransit'
    BY <1>2, <2>1, NothingMoves DEF vars, DInv, TypeOK
  <2> QED
    BY <1>2, <2>2 DEF vars, DInv, Handled, Routed
<1>3. ASSUME NEW s \in Session,
             Connect(s) \/ ReadFrame(s) \/ Reject(s) \/ Leave(s) \/ WriterFails(s) \/ WriterEnds(s)
      PROVE  DInv'
  <2>1. /\ reader[s] = reader'[s] \/ {reader[s], reader'[s]} \subseteq
                                      {"unborn", "loop", "frame", "reject", "done"}
        /\ reader'[s] # "unborn" \/ reader'[s] = reader[s]
        /\ \A u \in Session : u # s => reader'[u] = reader[u] /\ writer'[u] = writer[u]
        /\ \A u \in Session : closing[u] => closing'[u]
        /\ UNCHANGED <<authenticated, accepted, current, recorded, targets, queue,
                       writing, seen>>
        /\ registered' = registered \/ (registered' = registered \ {s} /\ closing'[s])
    BY <1>3 DEF Connect, ReadFrame, Reject, Leave, WriterFails, WriterEnds, CloseSession,
                ReaderTo, TypeOK
  <2>2. /\ writer'[s] = "write" => writer[s] = "write"
        /\ writer[s] = "write" /\ writer'[s] # "write" => closing'[s]
        /\ writer[s] = "none" /\ reader'[s] = "unborn" => writer'[s] = "none"
    BY <1>3 DEF Connect, ReadFrame, Reject, Leave, WriterFails, WriterEnds, CloseSession,
                ReaderTo, DInv, Handled, TypeOK
  <2>3. \A r, u \in Session : Due(u, r) \in Int /\ Due(u, r)' = Due(u, r)
    BY <1>1, <2>1 DEF Due
  <2>4. InTransit'
    <3>1. \A r \in Session :
            /\ writer'[r] = "write" => writer[r] = "write"
            /\ writer[r] = "write" /\ writer'[r] # "write" => closing'[r]
            /\ closing[r] => closing'[r]
      BY <2>1, <2>2
    <3>2. \A r \in authenticated, u \in Session :
            Due(u, r) <= Due(u, r)' /\ (r # u => Due(u, r)' = Due(u, r) \/ closing'[r])
      <4>1. \A r \in authenticated : r \in Session
        BY DEF TypeOK
      <4> SUFFICES ASSUME NEW r \in authenticated, NEW u \in Session
                   PROVE  Due(u, r) <= Due(u, r)' /\ Due(u, r)' = Due(u, r)
        OBVIOUS
      <4>2. Due(u, r) \in Int /\ Due(u, r)' = Due(u, r)
        BY <2>3, <4>1
      <4> QED
        BY <4>2
    <3> QED
      BY <2>1, <3>1, <3>2, NothingMoves DEF DInv
  <2>5. Handled'
    BY <2>1, <2>2 DEF DInv, Handled
  <2>6. Routed'
    BY <2>1 DEF DInv, Routed, TypeOK
  <2> QED
    BY <2>4, <2>5, <2>6 DEF DInv
<1>4. ASSUME NEW s \in Session, Register(s) PROVE DInv'
  <2>1. Handled' /\ Routed'
    BY <1>4 DEF Register, ReaderTo, DInv, Handled, Routed, TypeOK
  <2> QED
    BY <1>4, <2>1, Joined DEF DInv
<1>5. ASSUME NEW s \in Session, WriterPop(s) \/ WriterSends(s) PROVE DInv'
  <2>1. Handled' /\ Routed'
    <3>1. /\ UNCHANGED <<readVars, reader, targets, closing>>
          /\ writer[s] # "none"
          /\ \A u \in Session : u # s => writer'[u] = writer[u]
      BY <1>5 DEF WriterPop, WriterSends, TypeOK
    <3> QED
      BY <3>1 DEF DInv, Handled, Routed
  <2> QED
    BY <1>5, <2>1, Popped, Sent DEF DInv
<1> QED
  BY <1>2, <1>3, <1>4, <1>5, Replied, Delivered, Published DEF Next, Reading, Writing

LEMMA Invariant == Spec => [](TypeOK /\ DInv)
<1>1. TypeOK /\ DInv /\ [Next]_vars => TypeOK' /\ DInv'
  BY NextType, NextDInv
<1> QED
  BY <1>1, InitType, InitDInv, PTL DEF Spec

-----------------------------------------------------------------------------
(* The refinement.                                                          *)

LEMMA InitRefines == Init => Promise!Init
<1> SUFFICES ASSUME Init PROVE Promise!Init
  OBVIOUS
<1>1. \A s \in Session : Broadcasts(s) = 0
  BY DEF Init, Broadcasts
<1> QED
  BY <1>1 DEF Init, Promise!Init

\* A step changes published, joined, dropped and received through these alone.
LEMMA Stutters ==
  ASSUME authenticated' = authenticated, closing' = closing, seen' = seen,
         \A s \in Session : Broadcasts(s)' = Broadcasts(s)
  PROVE  UNCHANGED Promise!vars
  BY DEF Promise!vars

LEMMA Drops ==
  ASSUME NEW t \in Session, TypeOK, TypeOK',
         authenticated' = authenticated, seen' = seen,
         \A s \in Session : Broadcasts(s)' = Broadcasts(s),
         \A s \in Session : s # t => closing'[s] = closing[s],
         closing[t] => closing'[t]
  PROVE  [Promise!Next]_(Promise!vars)
<1>1. CASE closing'[t] = closing[t]
  <2>1. closing' = closing
    BY <1>1 DEF TypeOK
  <2> QED
    BY <2>1, Stutters
<1>2. CASE ~closing[t] /\ closing'[t]
  <2>1. {s \in Session : closing'[s]} = {s \in Session : closing[s]} \cup {t}
    BY <1>2
  <2>2. Promise!Drop(t)
    BY <1>2, <2>1 DEF Promise!Drop
  <2> QED
    BY <2>2 DEF Promise!Next
<1> QED
  BY <1>1, <1>2 DEF TypeOK

LEMMA StepRefines ==
  ASSUME TypeOK, TypeOK', DInv, [Next]_vars
  PROVE  [Promise!Next]_(Promise!vars)
<1> USE DEF readVars, queueVars, writerVars
<1>1. CASE UNCHANGED vars
  BY <1>1, Stutters DEF vars, Broadcasts
<1>2. ASSUME NEW s \in Session,
             Connect(s) \/ ReadFrame(s) \/ WriterPop(s) \/ WriterEnds(s)
      PROVE  UNCHANGED Promise!vars
  <2>1. /\ UNCHANGED <<authenticated, closing, seen, accepted>>
        /\ \A u \in Session : (reader'[u] = "broadcast") = (reader[u] = "broadcast")
    BY <1>2 DEF Connect, ReadFrame, WriterPop, WriterEnds, ReaderTo, TypeOK
  <2> QED
    BY <2>1, Stutters DEF Broadcasts
<1>3. ASSUME NEW s \in Session, Reject(s) \/ Leave(s) \/ WriterFails(s)
      PROVE  [Promise!Next]_(Promise!vars)
  <2>1. /\ UNCHANGED <<authenticated, seen, accepted>>
        /\ \A u \in Session : (reader'[u] = "broadcast") = (reader[u] = "broadcast")
        /\ \A u \in Session : u # s => closing'[u] = closing[u]
        /\ closing'[s]
    BY <1>3 DEF Reject, Leave, WriterFails, CloseSession, ReaderTo, TypeOK
  <2> QED
    BY <2>1, Drops DEF Broadcasts
<1>4. ASSUME NEW s \in Session, Answer(s) \/ AuthReply(s) \/ AuthFails(s)
      PROVE  [Promise!Next]_(Promise!vars)
  <2>1. PICK p \in {Ok, Other} : Enqueue(s, p)
    BY <1>4 DEF Answer, AuthReply, AuthFails
  <2>2. /\ closing[s] => closing'[s]
        /\ \A u \in Session : u # s => closing'[u] = closing[u]
    BY <2>1, Replies, EnqueueEffect
  <2>3. /\ UNCHANGED <<authenticated, seen, accepted>>
        /\ \A u \in Session : (reader'[u] = "broadcast") = (reader[u] = "broadcast")
    BY <1>4 DEF Answer, AuthReply, AuthFails, ReaderTo, TypeOK
  <2> QED
    BY <2>2, <2>3, Drops DEF Broadcasts
<1>5. ASSUME NEW s \in Session, Register(s) PROVE Promise!Next
  <2>1. /\ s \notin authenticated /\ authenticated' = authenticated \cup {s}
        /\ UNCHANGED <<closing, accepted>>
        /\ \A u \in Session : (reader'[u] = "broadcast") = (reader[u] = "broadcast")
        /\ seen' = [seen EXCEPT ![s] = [u \in Session |-> Broadcasts(u)]]
    BY <1>5 DEF Register, ReaderTo, DInv, Handled, TypeOK
  <2>2. \A u \in Session : Broadcasts(u)' = Broadcasts(u)
    BY <2>1 DEF Broadcasts
  <2>3. Promise!Join(s)
    BY <2>1, <2>2 DEF Promise!Join
  <2> QED
    BY <2>3 DEF Promise!Next
<1>6. ASSUME NEW s \in Session, NEW size \in Size, AcceptEvent(s, size)
      PROVE  UNCHANGED Promise!vars
  <2>1. /\ UNCHANGED <<authenticated, closing, seen>>
        /\ accepted' = [accepted EXCEPT ![s] = @ + 1] /\ accepted[s] \in Int
        /\ reader[s] = "frame" /\ reader'[s] = "broadcast"
        /\ \A u \in Session : u # s => reader'[u] = reader[u]
    BY <1>6 DEF AcceptEvent, ReaderTo, TypeOK
  <2>2. \A u \in Session : Broadcasts(u)' = Broadcasts(u)
    <3> SUFFICES ASSUME NEW u \in Session PROVE Broadcasts(u)' = Broadcasts(u)
      OBVIOUS
    <3>1. accepted[u] \in Int /\ accepted'[u] = IF u = s THEN accepted[u] + 1 ELSE accepted[u]
      BY <2>1 DEF TypeOK
    <3> QED
      BY <2>1, <3>1 DEF Broadcasts
  <2> QED
    BY <2>1, <2>2, Stutters
<1>7. ASSUME NEW s \in Session, Broadcast(s) PROVE Promise!Next
  <2>1. /\ UNCHANGED <<authenticated, closing, seen, accepted>> /\ s \in authenticated
        /\ reader[s] = "broadcast" /\ reader'[s] # "broadcast"
        /\ \A u \in Session : u # s => reader'[u] = reader[u]
    BY <1>7 DEF Broadcast, ReaderTo, DInv, Handled, TypeOK
  <2>2. \A u \in Session : accepted[u] \in Int
    BY DEF TypeOK
  <2>3. /\ Broadcasts(s)' = Broadcasts(s) + 1
        /\ \A u \in Session : u # s => Broadcasts(u)' = Broadcasts(u)
    BY <2>1, <2>2 DEF Broadcasts
  <2>4. Promise!Publish(s)
    BY <2>1, <2>3 DEF Promise!Publish
  <2> QED
    BY <2>4 DEF Promise!Next
<1>8. ASSUME NEW s \in Session, NEW r \in Session, Deliver(s, r)
      PROVE  [Promise!Next]_(Promise!vars)
  <2>1. Enqueue(r, current[s]) /\ current[s] \in Payload
    BY <1>8 DEF Deliver, Payload, TypeOK
  <2>2. /\ closing[r] => closing'[r]
        /\ \A u \in Session : u # r => closing'[u] = closing[u]
    BY <2>1, EnqueueEffect
  <2>3. /\ UNCHANGED <<authenticated, seen, accepted>>
        /\ \A u \in Session : (reader'[u] = "broadcast") = (reader[u] = "broadcast")
    BY <1>8 DEF Deliver, ReaderTo, TypeOK
  <2> QED
    BY <2>2, <2>3, Drops DEF Broadcasts
<1>9. ASSUME NEW r \in Session, WriterSends(r) PROVE [Promise!Next]_(Promise!vars)
  <2> DEFINE p == writing[r]
             s == p.from
  <2>1. /\ UNCHANGED <<authenticated, closing, accepted, reader>> /\ ~closing[r]
        /\ \A u \in Session : Broadcasts(u)' = Broadcasts(u)
    BY <1>9 DEF WriterSends, Broadcasts
  <2>2. CASE s \notin Session
    <3>1. seen' = seen
      BY <1>9, <2>2 DEF WriterSends
    <3> QED
      BY <2>1, <3>1, Stutters
  <2>3. CASE s \in Session
    <3>1. 0 \in Slots(r) /\ Item(r, 0) = p
      BY <1>9 DEF WriterSends, Slots, Item
    <3>2. Wanted(r, p) /\ p.n \in Nat /\ p \in Payload
      BY <2>3, <3>1, SlotsArePayloads DEF DInv, InTransit, Owned
    <3>3. /\ r \in authenticated /\ r # s /\ seen[r][s] \in Int /\ seen[r][s] < p.n
          /\ p.n <= Due(s, r)
      BY <2>3, <3>2 DEF Wanted, TypeOK
    <3>4. accepted[s] \in Nat /\ Due(s, r) <= Broadcasts(s) /\ Broadcasts(s) \in Int
          /\ Due(s, r) \in Int
      <4>1. accepted[s] \in Nat
        BY <2>3 DEF TypeOK
      <4> QED
        BY <4>1 DEF Due, Broadcasts
    <3>5. p.n = seen[r][s] + 1
      <4> SUFFICES ASSUME seen[r][s] + 1 < p.n PROVE FALSE
        BY <3>2, <3>3
      <4>1. seen[r][s] + 1 \in Int /\ seen[r][s] < seen[r][s] + 1
            /\ seen[r][s] + 1 <= Due(s, r)
        BY <3>2, <3>3, <3>4
      <4>2. PICK i \in Slots(r) : Item(r, i).from = s /\ Item(r, i).n = seen[r][s] + 1
        BY <2>1, <2>3, <3>2, <3>3, <3>4, <4>1 DEF DInv, InTransit, Complete
      <4>3. i = 0 \/ 0 < i
        BY DEF Slots, TypeOK
      <4>4. 0 < i => p.n < Item(r, i).n
        BY <2>3, <3>1, <4>2 DEF DInv, InTransit, Ordered, Precedes
      <4> QED
        BY <3>1, <3>2, <3>3, <4>2, <4>3, <4>4
    <3>6. seen' = [seen EXCEPT ![r][s] = @ + 1]
      BY <1>9, <2>3, <3>5 DEF WriterSends
    <3>7. Promise!Receive(r, s)
      <4>1. seen[r][s] < Broadcasts(s)
        BY <3>2, <3>3, <3>4
      <4>2. [u \in Session |-> Broadcasts(u)]' = [u \in Session |-> Broadcasts(u)]
        BY <2>1
      <4> QED
        BY <2>1, <2>3, <3>3, <3>6, <4>1, <4>2 DEF Promise!Receive
    <3> QED
      BY <2>3, <3>7 DEF Promise!Next
  <2> QED
    BY <2>2, <2>3
<1> QED
  BY <1>1, <1>2, <1>3, <1>4, <1>5, <1>6, <1>7, <1>8, <1>9 DEF Next, Reading, Writing

\* Whatever the interleaving, the sizes and the budgets: a session that has
\* registered and stays open is written every event the others broadcast from
\* then on, in each sender's order, none twice, and none of its own.
THEOREM DeliveryImplementsPubSub == Spec => ImplementsPubSub
<1>1. TypeOK /\ DInv /\ TypeOK' /\ [Next]_vars => [Promise!Next]_(Promise!vars)
  BY StepRefines
<1> QED
  BY <1>1, InitRefines, Invariant, PTL DEF Spec, ImplementsPubSub, Promise!Spec

-----------------------------------------------------------------------------

LEMMA NextRecorded ==
  ASSUME TypeOK, DInv, RecordedFirst, [Next]_vars
  PROVE  RecordedFirst'
<1> USE DEF readVars, queueVars, writerVars
<1>1. ASSUME NEW t \in Session, NEW p \in Payload, Enqueue(t, p), recorded' = recorded,
             p.from \in Session => p \in recorded
      PROVE  RecordedFirst'
  <2>1. \A r \in Session : r # t => queue'[r] = queue[r]
    BY <1>1, EnqueueEffect
  <2>2. queue'[t] = queue[t] \/ queue'[t] = Append(queue[t], p)
    BY <1>1, EnqueueEffect
  <2>3. queue[t] \in Seq(Payload)
    BY DEF TypeOK
  <2>4. \A i \in DOMAIN queue'[t] : queue'[t][i] = p \/ (i \in DOMAIN queue[t]
                                                     /\ queue'[t][i] = queue[t][i])
    BY <2>2, <2>3
  <2> QED
    BY <1>1, <2>1, <2>4 DEF RecordedFirst
<1>2. ASSUME NEW s \in Session, Answer(s) \/ AuthReply(s) \/ AuthFails(s)
      PROVE  RecordedFirst'
  <2>1. PICK p \in {Ok, Other} : Enqueue(s, p)
    BY <1>2 DEF Answer, AuthReply, AuthFails
  <2>2. recorded' = recorded
    BY <1>2 DEF Answer, AuthReply, AuthFails
  <2> QED
    BY <1>1, <2>1, <2>2, Replies
<1>3. ASSUME NEW s \in Session, NEW r \in Session, Deliver(s, r) PROVE RecordedFirst'
  <2>1. Enqueue(r, current[s]) /\ recorded' = recorded
        /\ current[s] \in Payload /\ current[s] \in recorded
    BY <1>3 DEF Deliver, Payload, TypeOK, DInv, Handled
  <2> QED
    BY <1>1, <2>1
<1>4. ASSUME NEW s \in Session, WriterPop(s) PROVE RecordedFirst'
  <2>1. queue[s] \in Seq(Payload) /\ queue[s] # <<>> /\ queue'[s] = Tail(queue[s])
        /\ recorded' = recorded /\ \A r \in Session : r # s => queue'[r] = queue[r]
    BY <1>4 DEF WriterPop, TypeOK
  <2>2. \A i \in DOMAIN queue'[s] : i + 1 \in DOMAIN queue[s] /\ queue'[s][i] = queue[s][i + 1]
    BY <2>1
  <2> QED
    BY <2>1, <2>2 DEF RecordedFirst
<1>5. CASE queue' = queue /\ recorded \subseteq recorded'
  BY <1>5 DEF RecordedFirst
<1>6. ASSUME NEW s \in Session,
             \/ Connect(s) \/ ReadFrame(s) \/ Reject(s) \/ Leave(s) \/ Register(s)
             \/ Broadcast(s) \/ WriterSends(s) \/ WriterFails(s) \/ WriterEnds(s)
             \/ \E size \in Size : AcceptEvent(s, size)
      PROVE  queue' = queue /\ recorded \subseteq recorded'
  BY <1>6 DEF Connect, ReadFrame, Reject, Leave, Register, Broadcast, WriterSends,
              WriterFails, WriterEnds, AcceptEvent, CloseSession
<1>7. CASE UNCHANGED vars
  BY <1>7 DEF vars, RecordedFirst
<1> QED
  BY <1>2, <1>3, <1>4, <1>5, <1>6, <1>7 DEF Next, Reading, Writing

\* No event reaches a queue before it was handed to the storage.
THEOREM EventsAreRecordedFirst == Spec => []RecordedFirst
<1>1. Init => RecordedFirst
  BY DEF Init, RecordedFirst
<1>2. TypeOK /\ DInv /\ RecordedFirst /\ [Next]_vars => RecordedFirst'
  BY NextRecorded
<1> QED
  BY <1>1, <1>2, Invariant, PTL DEF Spec

-----------------------------------------------------------------------------
(* The size of what is queued.                                              *)

\* g gives the parts of 1..n what w makes of their numbers, the last one added last.
AddsUp(g, n, w) ==
  g = [s \in SUBSET (1..n) |-> IF s = {} THEN 0 ELSE g[s \ {Max(s)}] + w[Max(s)]]
Total(n, w) == (CHOOSE g : AddsUp(g, n, w))[1..n]

\* A set of numbers that is not empty has a least one.
LEMMA Least == ASSUME NEW S \in SUBSET Nat, S # {} PROVE \E x \in S : \A y \in S : x <= y
<1>. DEFINE R == OpToRel(<, Nat)
<1>1. IsWellFoundedOn(R, Nat)
  BY NatLessThanWellFounded
<1>2. R = {ss \in Nat \X Nat : ss[1] < ss[2]}
  BY DEF OpToRel
<1>. HIDE DEF R
<1>3. PICK x \in S : \A y \in S : ~(<<y, x>> \in R)
  BY <1>1, WFMin
<1>4. \A y \in S : ~(y < x)
  BY <1>2, <1>3
<1>5. \A y \in S : x <= y
  BY <1>4
<1>. QED  BY <1>5

\* What holds of 0, and of each number after one it holds of, has no first exception.
LEMMA NoException ==
  ASSUME NEW bad \in SUBSET Nat, 0 \notin bad, \A n \in Nat : n + 1 \in bad => n \in bad
  PROVE  bad = {}
<1>1. ASSUME bad # {} PROVE FALSE
  <2>1. PICK n \in bad : \A m \in bad : n <= m
    BY <1>1, Least
  <2>2. n - 1 \in Nat /\ (n - 1) + 1 = n
    BY <2>1
  <2>3. n - 1 \in bad
    BY <2>1, <2>2
  <2>4. n <= n - 1
    BY <2>1, <2>3
  <2>. QED  BY <2>1, <2>4
<1>. QED  BY <1>1

\* In 1..n + 1 the greatest number is the last; without it they are 1..n.
LEMMA LastNumber ==
  ASSUME NEW n \in Nat
  PROVE  /\ \A s \in SUBSET (1..(n + 1)) : n + 1 \in s => Max(s) = n + 1
         /\ \A s \in SUBSET (1..(n + 1)) : n + 1 \notin s => s \in SUBSET (1..n)
         /\ (1..(n + 1)) \ {n + 1} = 1..n
         /\ n + 1 \in 1..(n + 1)
<1>1. ASSUME NEW s \in SUBSET (1..(n + 1)), n + 1 \in s PROVE Max(s) = n + 1
  <2>1. \A y \in s : n + 1 >= y
    OBVIOUS
  <2>2. Max(s) \in s /\ \A y \in s : Max(s) >= y
    BY <1>1, <2>1 DEF Max
  <2>3. Max(s) >= n + 1 /\ Max(s) \in 1..(n + 1)
    BY <1>1, <2>2
  <2>. QED  BY <2>3
<1>2. \A y \in 1..(n + 1) : y # n + 1 => y \in 1..n
  OBVIOUS
<1>. QED  BY <1>1, <1>2

\* Without its greatest number, a part of 1..n + 1 is one of 1..n.
LEMMA WithoutLast ==
  ASSUME NEW n \in Nat, NEW s \in SUBSET (1..(n + 1))
  PROVE  s \ {Max(s)} \in SUBSET (1..n)
BY LastNumber

\* Such a part has a greatest number, unless it is empty.
LEMMA GreatestIsThere ==
  ASSUME NEW n \in Nat, NEW s \in SUBSET (1..n), s # {}
  PROVE  Max(s) \in s
<1>. DEFINE bad == {k \in Nat : \E r \in SUBSET (1..k) : r # {} /\ Max(r) \notin r}
<1>1. 0 \notin bad
  <2>1. 1..0 = {}
    OBVIOUS
  <2>. QED  BY <2>1
<1>2. ASSUME NEW k \in Nat, k + 1 \in bad PROVE k \in bad
  <2>1. PICK r \in SUBSET (1..(k + 1)) : r # {} /\ Max(r) \notin r
    BY <1>2
  <2>2. r \in SUBSET (1..k)
    BY <2>1, LastNumber
  <2>. QED  BY <2>1, <2>2
<1>3. bad = {}
  <2>1. bad \in SUBSET Nat
    OBVIOUS
  <2>. HIDE DEF bad
  <2>. QED  BY <1>1, <1>2, <2>1, NoException
<1>. QED  BY <1>3

\* The recursion defines a function.
LEMMA AddsUpExists == ASSUME NEW n \in Nat, NEW w PROVE \E g : AddsUp(g, n, w)
<1>. DEFINE Good(k) == \E g : AddsUp(g, k, w)
            bad == {k \in Nat : ~Good(k)}
<1>1. Good(0)
  <2>1. PICK g : g = [s \in SUBSET (1..0) |-> 0]
    OBVIOUS
  <2>2. AddsUp(g, 0, w)
    BY <2>1 DEF AddsUp
  <2>. QED  BY <2>2
<1>2. ASSUME NEW k \in Nat, Good(k) PROVE Good(k + 1)
  <2>1. PICK g : AddsUp(g, k, w)
    BY <1>2
  <2>2. PICK h : h = [s \in SUBSET (1..(k + 1)) |-> IF s = {} THEN 0 ELSE g[s \ {Max(s)}] + w[Max(s)]]
    OBVIOUS
  <2>3. \A s \in SUBSET (1..k) : s \in SUBSET (1..(k + 1))
    OBVIOUS
  <2>4. \A s \in SUBSET (1..k) : h[s] = g[s]
    BY <2>1, <2>2, <2>3 DEF AddsUp
  <2>5. \A s \in SUBSET (1..(k + 1)) : h[s \ {Max(s)}] = g[s \ {Max(s)}]
    BY <2>4, WithoutLast
  <2>6. AddsUp(h, k + 1, w)
    BY <2>2, <2>5 DEF AddsUp
  <2>. QED  BY <2>6
<1>3. bad = {}
  <2>1. bad \in SUBSET Nat /\ 0 \notin bad /\ \A k \in Nat : k + 1 \in bad => k \in bad
    BY <1>1, <1>2
  <2>. HIDE DEF bad
  <2>. QED  BY <2>1, NoException
<1>. QED  BY <1>3

\* On the beginnings of 1..m it goes on from one to the next.
LEMMA AddsUpStep ==
  ASSUME NEW m \in Nat, NEW k \in Nat, k + 1 <= m, NEW w, NEW g, AddsUp(g, m, w)
  PROVE  g[1..(k + 1)] = g[1..k] + w[k + 1]
<1>1. 1..(k + 1) \in SUBSET (1..m)
  OBVIOUS
<1>2. Max(1..(k + 1)) = k + 1 /\ (1..(k + 1)) \ {k + 1} = 1..k /\ 1..(k + 1) # {}
  BY LastNumber
<1>3. PICK s : s = 1..(k + 1)
  OBVIOUS
<1>4. g[s] = IF s = {} THEN 0 ELSE g[s \ {Max(s)}] + w[Max(s)]
  BY <1>1, <1>3 DEF AddsUp
<1>. QED  BY <1>2, <1>3, <1>4

\* the first n weights are the same
Alike(w, v, n) == \A i \in 1..n : w[i] = v[i]

\* Two such functions agree on the beginnings of both, when the weights do.
LEMMA AddsUpAgree ==
  ASSUME NEW m \in Nat, NEW n \in Nat, n <= m, NEW w, NEW v, Alike(w, v, n),
         NEW g, NEW h, AddsUp(g, m, w), AddsUp(h, n, v)
  PROVE  g[1..n] = h[1..n]
<1>. DEFINE bad == {k \in Nat : k <= n /\ g[1..k] # h[1..k]}
<1>0. 1..0 = {}
  OBVIOUS
<1>1. 0 \notin bad
  <2>1. g[{}] = 0 /\ h[{}] = 0
    BY DEF AddsUp
  <2>. QED  BY <1>0, <2>1
<1>2. ASSUME NEW k \in Nat, k + 1 \in bad PROVE k \in bad
  <2>1. k + 1 <= n /\ k + 1 <= m
    BY <1>2
  <2>2. g[1..(k + 1)] = g[1..k] + w[k + 1] /\ h[1..(k + 1)] = h[1..k] + v[k + 1]
    BY <2>1, AddsUpStep
  <2>3. w[k + 1] = v[k + 1]
    BY <1>2 DEF Alike
  <2>. QED  BY <1>2, <2>2, <2>3
<1>3. bad = {}
  <2>1. bad \in SUBSET Nat
    OBVIOUS
  <2>. HIDE DEF bad
  <2>. QED  BY <1>1, <1>2, <2>1, NoException
<1>. QED  BY <1>3

\* There is one such function for each weighting.
LEMMA OneSum ==
  ASSUME NEW n \in Nat, NEW w, NEW g, NEW h, AddsUp(g, n, w), AddsUp(h, n, w)
  PROVE  g[1..n] = h[1..n]
<1>1. PICK v : v = w
  OBVIOUS
<1>2. AddsUp(h, n, v)
  BY <1>1
<1>3. Alike(w, v, n)
  BY <1>1 DEF Alike
<1>4. PICK m \in Nat : m = n
  OBVIOUS
<1>5. AddsUp(g, m, w) /\ n <= m
  BY <1>4
<1>. QED  BY <1>2, <1>3, <1>5, AddsUpAgree

\* The total of nothing is 0; that of one more is more by its weight.
LEMMA TotalSteps ==
  ASSUME NEW n \in Nat, NEW w
  PROVE  Total(0, w) = 0 /\ Total(n + 1, w) = Total(n, w) + w[n + 1]
<1>1. PICK f : f = CHOOSE g : AddsUp(g, 0, w)
  OBVIOUS
<1>2. PICK g : g = CHOOSE h : AddsUp(h, n, w)
  OBVIOUS
<1>3. PICK h : h = CHOOSE g1 : AddsUp(g1, n + 1, w)
  OBVIOUS
<1>4. AddsUp(f, 0, w) /\ AddsUp(g, n, w) /\ AddsUp(h, n + 1, w)
  <2>1. \A k \in Nat : \E a : AddsUp(a, k, w)
    BY AddsUpExists
  <2>2. AddsUp(f, 0, w)
    BY <1>1, <2>1
  <2>3. AddsUp(g, n, w)
    BY <1>2, <2>1
  <2>4. AddsUp(h, n + 1, w)
    BY <1>3, <2>1
  <2>. QED  BY <2>2, <2>3, <2>4
<1>5. f[1..0] = 0
  <2>1. 1..0 = {}
    OBVIOUS
  <2>. QED  BY <1>4, <2>1 DEF AddsUp
<1>6. h[1..n] = g[1..n]
  <2>1. n + 1 \in Nat /\ n <= n + 1 /\ Alike(w, w, n)
    BY DEF Alike
  <2>. QED  BY <1>4, <2>1, AddsUpAgree
<1>7. h[1..(n + 1)] = h[1..n] + w[n + 1]
  <2>1. n + 1 \in Nat /\ n + 1 <= n + 1
    OBVIOUS
  <2>. QED  BY <1>4, <2>1, AddsUpStep
<1>. QED  BY <1>1, <1>2, <1>3, <1>5, <1>6, <1>7 DEF Total

\* The total depends on the weights alone, and the first may as well be added last.
LEMMA TotalShifts ==
  ASSUME NEW n \in Nat, NEW w, \A i \in 1..(n + 1) : w[i] \in Int,
         NEW v, \A i \in 1..n : v[i] = w[i + 1]
  PROVE  Total(n + 1, w) = w[1] + Total(n, v)
<1>. DEFINE bad == {k \in Nat : k <= n /\ ~(Total(k + 1, w) = w[1] + Total(k, v) /\ Total(k, v) \in Int)}
<1>1. 0 \notin bad
  <2>1. Total(0, w) = 0 /\ Total(0, v) = 0 /\ Total(0 + 1, w) = Total(0, w) + w[0 + 1]
    BY TotalSteps
  <2>2. w[1] \in Int
    OBVIOUS
  <2>3. 0 + 1 = 1
    OBVIOUS
  <2>. QED  BY <2>1, <2>2, <2>3
<1>2. ASSUME NEW k \in Nat, k + 1 \in bad PROVE k \in bad
  <2>1. ASSUME k \notin bad PROVE FALSE
    <3>1. PICK a \in Int : a = Total(k, v) /\ Total(k + 1, w) = w[1] + a
      BY <1>2, <2>1
    <3>2. Total((k + 1) + 1, w) = Total(k + 1, w) + w[(k + 1) + 1]
      BY TotalSteps
    <3>3. Total(k + 1, v) = Total(k, v) + v[k + 1]
      BY TotalSteps
    <3>4. v[k + 1] = w[(k + 1) + 1] /\ w[(k + 1) + 1] \in Int /\ w[1] \in Int
      BY <1>2
    <3>5. Total(k + 1, v) = a + v[k + 1] /\ Total((k + 1) + 1, w) = (w[1] + a) + v[k + 1]
      BY <3>1, <3>2, <3>3, <3>4
    <3>6. Total(k + 1, v) \in Int /\ Total((k + 1) + 1, w) = w[1] + Total(k + 1, v)
      BY <3>4, <3>5
    <3>. QED  BY <1>2, <3>6
  <2>. QED  BY <2>1
<1>3. bad = {}
  <2>1. bad \in SUBSET Nat
    OBVIOUS
  <2>. HIDE DEF bad
  <2>. QED  BY <1>1, <1>2, <2>1, NoException
<1>. QED  BY <1>3

\* The same weights have the same total.
LEMMA TotalOfEqual ==
  ASSUME NEW n \in Nat, NEW w, NEW v, \A i \in 1..n : w[i] = v[i]
  PROVE  Total(n, w) = Total(n, v)
<1>1. PICK g : g = CHOOSE f : AddsUp(f, n, w)
  OBVIOUS
<1>2. PICK h : h = CHOOSE f : AddsUp(f, n, v)
  OBVIOUS
<1>3. AddsUp(g, n, w) /\ AddsUp(h, n, v)
  BY <1>1, <1>2, AddsUpExists
<1>4. g[1..n] = h[1..n]
  <2>1. Alike(w, v, n) /\ n <= n
    BY DEF Alike
  <2>. QED  BY <1>3, <2>1, AddsUpAgree
<1>. QED  BY <1>1, <1>2, <1>4 DEF Total

SizesOf(q) == [i \in DOMAIN q |-> q[i].size]

\* What the property adds up is a total of this kind.
LEMMA BytesAreTotal == ASSUME NEW q \in Seq(Payload) PROVE Bytes(q) = Total(Len(q), SizesOf(q))
<1>. DEFINE Summed(f) == f = [s \in SUBSET DOMAIN q |->
                   IF s = {} THEN 0 ELSE f[s \ {Max(s)}] + q[Max(s)].size]
<1>1. PICK n : n = Len(q)
  OBVIOUS
<1>2. PICK w : w = SizesOf(q)
  OBVIOUS
<1>3. PICK g : g = CHOOSE f : Summed(f)
  OBVIOUS
<1>4. PICK h : h = CHOOSE f : AddsUp(f, n, w)
  OBVIOUS
<1>5. Bytes(q) = g[DOMAIN q]
  BY <1>3 DEF Bytes, FoldLeft, MapThenFoldSet
<1>6. n \in Nat /\ DOMAIN q = 1..n
  BY <1>1
<1>7. ASSUME NEW s \in SUBSET DOMAIN q, s # {} PROVE w[Max(s)] = q[Max(s)].size
  <2>1. Max(s) \in s
    BY <1>6, <1>7, GreatestIsThere
  <2>. QED  BY <1>2, <2>1 DEF SizesOf
<1>8. ASSUME NEW f PROVE AddsUp(f, n, w) <=> Summed(f)
  BY <1>6, <1>7 DEF AddsUp
<1>9. \E f : AddsUp(f, n, w)
  BY <1>6, AddsUpExists
<1>. HIDE DEF Summed
<1>10. Summed(g) /\ AddsUp(h, n, w)
  BY <1>3, <1>4, <1>8, <1>9
<1>11. g[1..n] = h[1..n]
  <2>1. AddsUp(g, n, w) /\ AddsUp(h, n, w) /\ n \in Nat
    BY <1>6, <1>8, <1>10
  <2>. QED  BY <2>1, OneSum
<1>. QED  BY <1>1, <1>2, <1>4, <1>5, <1>6, <1>11 DEF Total

\* How the size changes with what enqueue and the writer do to a queue.
LEMMA BytesOfQueues ==
  ASSUME NEW q \in Seq(Payload)
  PROVE  /\ Bytes(<<>>) = 0 /\ Bytes(q) \in Int
         /\ \A p \in Payload : Bytes(Append(q, p)) = Bytes(q) + p.size
         /\ q # <<>> => Bytes(Tail(q)) = Bytes(q) - Head(q).size
<1>1. \A p \in Payload : p.size \in Nat
  BY PayloadFields
<1>2. Bytes(<<>>) = 0
  <2>1. <<>> \in Seq(Payload) /\ Len(<<>>) = 0
    OBVIOUS
  <2>2. Bytes(<<>>) = Total(0, SizesOf(<<>>))
    BY <2>1, BytesAreTotal
  <2>3. 0 \in Nat
    OBVIOUS
  <2>. QED  BY <2>2, <2>3, TotalSteps
<1>3. ASSUME NEW n \in Nat, NEW w, \A i \in 1..n : w[i] \in Int PROVE Total(n, w) \in Int
  <2>. DEFINE bad == {k \in Nat : k <= n /\ Total(k, w) \notin Int}
  <2>1. 0 \notin bad
    <3>1. Total(0, w) = 0
      BY <1>3, TotalSteps
    <3>. QED  BY <3>1
  <2>2. ASSUME NEW k \in Nat, k + 1 \in bad PROVE k \in bad
    <3>1. Total(k + 1, w) = Total(k, w) + w[k + 1]
      BY TotalSteps
    <3>2. w[k + 1] \in Int
      BY <1>3, <2>2
    <3>. QED  BY <2>2, <3>1, <3>2
  <2>3. bad = {}
    <3>1. bad \in SUBSET Nat
      OBVIOUS
    <3>. HIDE DEF bad
    <3>. QED  BY <2>1, <2>2, <3>1, NoException
  <2>. QED  BY <1>3, <2>3
<1>4. PICK n \in Nat : n = Len(q)
  OBVIOUS
<1>5. \A i \in 1..n : SizesOf(q)[i] \in Int /\ SizesOf(q)[i] = q[i].size
  BY <1>1, <1>4 DEF SizesOf
<1>6. Bytes(q) = Total(n, SizesOf(q)) /\ Bytes(q) \in Int
  BY <1>3, <1>4, <1>5, BytesAreTotal
<1>7. ASSUME NEW p \in Payload PROVE Bytes(Append(q, p)) = Bytes(q) + p.size
  <2>0. Append(q, p) \in Seq(Payload)
    OBVIOUS
  <2>1. PICK r \in Seq(Payload) : r = Append(q, p)
    BY <2>0
  <2>2. Len(r) = n + 1 /\ r[n + 1] = p /\ \A i \in 1..n : r[i] = q[i]
    BY <1>4, <2>1
  <2>3. SizesOf(r)[n + 1] = p.size /\ \A i \in 1..n : SizesOf(r)[i] = SizesOf(q)[i]
    BY <1>5, <2>2 DEF SizesOf
  <2>4. Bytes(r) = Total(n + 1, SizesOf(r))
    BY <2>2, BytesAreTotal
  <2>5. Total(n + 1, SizesOf(r)) = Total(n, SizesOf(r)) + SizesOf(r)[n + 1]
    BY TotalSteps
  <2>6. Total(n, SizesOf(r)) = Total(n, SizesOf(q))
    BY <2>3, TotalOfEqual
  <2>. QED  BY <1>6, <2>1, <2>3, <2>4, <2>5, <2>6
<1>8. ASSUME q # <<>> PROVE Bytes(Tail(q)) = Bytes(q) - Head(q).size
  <2>0. Tail(q) \in Seq(Payload) /\ Len(Tail(q)) = Len(q) - 1
        /\ \A i \in 1..Len(q) - 1 : Tail(q)[i] = q[i + 1]
    BY <1>8
  <2>1. PICK r \in Seq(Payload) : r = Tail(q)
    BY <2>0
  <2>2. PICK k \in Nat : n = k + 1
    <3>1. n - 1 \in Nat /\ n = (n - 1) + 1
      BY <1>4, <1>8
    <3>. QED  BY <3>1
  <2>3. Len(r) = k /\ (\A i \in 1..k : r[i] = q[i + 1]) /\ Head(q) = q[1] /\ 1 \in 1..n
    <3>1. Len(q) - 1 = k
      BY <1>4, <2>2
    <3>2. Len(r) = k /\ \A i \in 1..k : r[i] = q[i + 1]
      BY <2>0, <2>1, <3>1
    <3>3. Head(q) = q[1] /\ 1 \in 1..n
      BY <1>4, <1>8
    <3>. QED  BY <3>2, <3>3
  <2>4. \A i \in 1..k : SizesOf(r)[i] = SizesOf(q)[i + 1]
    BY <1>5, <2>2, <2>3 DEF SizesOf
  <2>5. Total(k + 1, SizesOf(q)) = SizesOf(q)[1] + Total(k, SizesOf(r))
    BY <1>5, <2>2, <2>4, TotalShifts
  <2>6. Bytes(r) = Total(k, SizesOf(r)) /\ SizesOf(q)[1] = Head(q).size /\ Head(q).size \in Int
    BY <1>5, <2>3, BytesAreTotal
  <2>7. Bytes(r) \in Int
    <3>1. \A i \in 1..k : SizesOf(r)[i] \in Int
      BY <1>5, <2>2, <2>4
    <3>. QED  BY <1>3, <2>6, <3>1
  <2>. QED  BY <1>6, <2>1, <2>2, <2>5, <2>6, <2>7
<1>. QED  BY <1>2, <1>6, <1>7, <1>8

\* Whether it takes the payload or not, enqueue keeps the count exact.
LEMMA EnqueueCounts ==
  ASSUME TypeOK, BudgetExact, NEW r \in Session, NEW p \in Payload, Enqueue(r, p)
  PROVE  BudgetExact'
<1>1. queue[r] \in Seq(Payload) /\ queuedBytes[r] \in Int /\ queuedBytes[r] = Bytes(queue[r])
  BY DEF TypeOK, BudgetExact
<1>2. Bytes(Append(queue[r], p)) = queuedBytes[r] + p.size
  BY <1>1, BytesOfQueues
<1>3. /\ \A s \in Session : s # r => queue'[s] = queue[s] /\ queuedBytes'[s] = queuedBytes[s]
      /\ \/ queue'[r] = queue[r] /\ queuedBytes'[r] = queuedBytes[r]
         \/ queue'[r] = Append(queue[r], p) /\ queuedBytes'[r] = queuedBytes[r] + p.size
  BY DEF Enqueue, TypeOK
<1>4. ASSUME NEW s \in Session PROVE queuedBytes'[s] = Bytes(queue'[s])
  BY <1>1, <1>2, <1>3 DEF BudgetExact
<1>. QED  BY <1>4 DEF BudgetExact

\* No step lets the count and the queue drift apart.
LEMMA NextExact == TypeOK /\ BudgetExact /\ [Next]_vars => BudgetExact'
<1>. SUFFICES ASSUME TypeOK, BudgetExact, [Next]_vars PROVE BudgetExact'
  OBVIOUS
<1>1. CASE UNCHANGED <<queue, queuedBytes>>
  BY <1>1 DEF BudgetExact
<1>2. ASSUME NEW s \in Session, NEW p \in Payload, Enqueue(s, p) PROVE BudgetExact'
  BY <1>2, EnqueueCounts
<1>3. ASSUME NEW s \in Session, WriterPop(s) PROVE BudgetExact'
  <2>1. queue[s] \in Seq(Payload) /\ queue[s] # <<>> /\ queuedBytes[s] = Bytes(queue[s])
    BY <1>3 DEF WriterPop, TypeOK, BudgetExact
  <2>2. /\ \A t \in Session : t # s => queue'[t] = queue[t] /\ queuedBytes'[t] = queuedBytes[t]
        /\ queue'[s] = Tail(queue[s]) /\ queuedBytes'[s] = queuedBytes[s] - Head(queue[s]).size
    BY <1>3 DEF WriterPop, TypeOK
  <2>3. ASSUME NEW t \in Session PROVE queuedBytes'[t] = Bytes(queue'[t])
    BY <2>1, <2>2, BytesOfQueues DEF BudgetExact
  <2>. QED  BY <2>3 DEF BudgetExact
<1>4. ASSUME NEW s \in Session, Answer(s) \/ AuthReply(s) \/ AuthFails(s) PROVE BudgetExact'
  BY <1>2, <1>4, Replies DEF Answer, AuthReply, AuthFails
<1>5. ASSUME NEW s \in Session, NEW r \in Session, Deliver(s, r) PROVE BudgetExact'
  <2>1. current[s] \in Payload
    BY <1>5 DEF Deliver, TypeOK, Payload
  <2>. QED  BY <1>2, <1>5, <2>1 DEF Deliver
<1>6. ASSUME NEW s \in Session,
             \/ Connect(s) \/ ReadFrame(s) \/ Register(s) \/ Reject(s) \/ Broadcast(s) \/ Leave(s)
             \/ WriterSends(s) \/ WriterFails(s) \/ WriterEnds(s)
             \/ \E size \in Size : AcceptEvent(s, size)
      PROVE  UNCHANGED <<queue, queuedBytes>>
  BY <1>6 DEF Connect, ReadFrame, Register, Reject, Broadcast, Leave, WriterSends, WriterFails,
     WriterEnds, AcceptEvent, CloseSession, queueVars
<1>7. CASE UNCHANGED vars
  BY <1>1, <1>7 DEF vars, queueVars
<1>. QED  BY <1>1, <1>3, <1>4, <1>5, <1>6, <1>7 DEF Next, Reading, Writing

\* queuedBytes is the size of what is queued (enqueue, writerLoop).
THEOREM BudgetIsExact == Spec => []BudgetExact
<1>1. Init => BudgetExact
  <2>1. <<>> \in Seq(Payload)
    OBVIOUS
  <2>. QED  BY <2>1, BytesOfQueues DEF Init, BudgetExact
<1>2. TypeOK /\ BudgetExact /\ [Next]_vars => BudgetExact'
  BY NextExact
<1>. QED  BY <1>1, <1>2, TypeCorrect, PTL DEF Spec

=============================================================================
