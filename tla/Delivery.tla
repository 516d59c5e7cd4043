------------------------------ MODULE Delivery ------------------------------
(***************************************************************************)
(* What TcpServer does with the messages of its sessions: authentication   *)
(* and registration with the router, the broadcast of accepted events, and *)
(* the bounded send queues the writers drain (server_common/tcpserver.cpp, *)
(* router.cpp).  The threads' locks, wakeups and joins are the matter of   *)
(* SessionLifecycle; here enqueue is one step, as its mutex makes it.      *)
(***************************************************************************)
EXTENDS Integers, Sequences, SequencesExt

CONSTANTS
  Session,
  Server,       \* the sender of replies
  Size,         \* the sizes events may have; a reply has size 1
  QueueLimit,   \* maxSendQueueBytes_
  MaxFrames     \* bound: the frames a client sends

ASSUME DeliveryAssumption ==
  /\ Server \notin Session
  /\ Size \subseteq Nat \ {0}
  /\ QueueLimit \in Nat \ {0}
  /\ MaxFrames \in Nat

VARIABLES
  frames,       \* the frames a session has sent
  reader,       \* where the session's reader is in clientLoop and below
  authenticated, registered,   \* client->authenticated, router_->sessions_
  accepted,     \* the number of events accepted from a session
  current,      \* the event its reader handles
  recorded,     \* the events given to recordAcceptedEvent, whose outcome is ignored
  targets,      \* the recipients broadcast() has still to call
  closing,
  queue, queuedBytes,
  writer, writing,   \* the writer's step and its local payload
  told,         \* the sessions to whose socket a successful auth_response was written
  seen          \* seen[r][s]: the last event of s written to r's socket, or the last
                \* that s had broadcast when r registered

readVars   == <<frames, authenticated, registered, accepted, current, recorded>>
queueVars  == <<closing, queue, queuedBytes>>
writerVars == <<writer, writing, told>>
vars == <<readVars, reader, targets, queueVars, writerVars, seen>>

Event == [from : Session, n : Nat \ {0}, size : Size]
Ok    == [from |-> Server, n |-> 1, size |-> 1]  \* auth_response with status ok
Other == [from |-> Server, n |-> 0, size |-> 1]  \* failed, error, pong
Payload == Event \cup {Ok, Other}
None == [from |-> Server, n |-> -1, size |-> 0]

-----------------------------------------------------------------------------
(* enqueue, and the requestClientClose it makes when the budget is exceeded *)

OverBudget(r, p) == p.size > QueueLimit \/ queuedBytes[r] > QueueLimit - p.size

\* plausible slips: the newest payload is dropped and the session kept; the
\* payload goes to the front
Enqueue_Drops(r, p) ==
  /\ IF closing[r] \/ OverBudget(r, p)
     THEN UNCHANGED <<queue, queuedBytes>>
     ELSE /\ queue' = [queue EXCEPT ![r] = Append(@, p)]
          /\ queuedBytes' = [queuedBytes EXCEPT ![r] = @ + p.size]
  /\ UNCHANGED closing

Enqueue(r, p) ==
  LET refused == closing[r] \/ OverBudget(r, p) IN
  /\ closing' = [closing EXCEPT ![r] = refused]
  /\ queue' = [queue EXCEPT ![r] = IF refused THEN @ ELSE Append(@, p)]
  /\ queuedBytes' = [queuedBytes EXCEPT ![r] = IF refused THEN @ ELSE @ + p.size]

CloseSession(s) ==
  /\ closing' = [closing EXCEPT ![s] = TRUE]
  /\ UNCHANGED <<queue, queuedBytes>>

-----------------------------------------------------------------------------
(* The reader of session s.                                                 *)

ReaderTo(s, to) == reader' = [reader EXCEPT ![s] = to]

Connect(s) ==
  /\ reader[s] = "unborn"
  /\ ReaderTo(s, "loop")
  /\ writer' = [writer EXCEPT ![s] = "wait"]
  /\ UNCHANGED <<readVars, targets, queueVars, writing, told, seen>>

\* the loop tests closing before a frame, and processes the frame after
ReadFrame(s) ==
  /\ reader[s] = "loop"
  /\ ~closing[s]
  /\ frames[s] < MaxFrames
  /\ frames' = [frames EXCEPT ![s] = @ + 1]
  /\ ReaderTo(s, "frame")
  /\ UNCHANGED <<authenticated, registered, accepted, current, recorded, targets,
                 queueVars, writerVars, seen>>

\* ping, or a message that is refused: invalid, unauthenticated, a second auth, or one that
\* cannot be recorded because a field that nothing has validated is not a string
Answer(s) ==
  /\ reader[s] = "frame"
  /\ Enqueue(s, Other)
  /\ ReaderTo(s, "loop")
  /\ UNCHANGED <<readVars, targets, writerVars, seen>>

\* the reply comes first ...
AuthReply(s) ==
  /\ reader[s] = "frame"
  /\ s \notin authenticated
  /\ Enqueue(s, Ok)
  /\ ReaderTo(s, "register")
  /\ UNCHANGED <<readVars, targets, writerVars, seen>>

\* ... and the registration after it
Broadcasts(s) == accepted[s] - (IF reader[s] = "broadcast" THEN 1 ELSE 0)

Register(s) ==
  /\ reader[s] = "register"
  /\ authenticated' = authenticated \cup {s}
  /\ registered' = registered \cup {s}
  /\ seen' = [seen EXCEPT ![s] = [u \in Session |-> Broadcasts(u)]]
  /\ ReaderTo(s, "loop")
  /\ UNCHANGED <<frames, accepted, current, recorded, targets, queueVars, writerVars>>

AuthFails(s) ==
  /\ reader[s] = "frame"
  /\ s \notin authenticated
  /\ Enqueue(s, Other)
  /\ ReaderTo(s, "reject")
  /\ UNCHANGED <<readVars, targets, writerVars, seen>>

Reject(s) ==
  /\ reader[s] = "reject"
  /\ CloseSession(s)
  /\ ReaderTo(s, "loop")
  /\ UNCHANGED <<readVars, targets, writerVars, seen>>

\* text, a stored bundle, or an accepted transfer message, recorded first
AcceptEvent_Unrecorded(s, size) ==
  /\ reader[s] = "frame"
  /\ s \in authenticated
  /\ accepted' = [accepted EXCEPT ![s] = @ + 1]
  /\ current' = [current EXCEPT ![s] = [from |-> s, n |-> accepted[s] + 1, size |-> size]]
  /\ ReaderTo(s, "broadcast")
  /\ UNCHANGED <<frames, authenticated, registered, recorded, targets, queueVars,
                 writerVars, seen>>

AcceptEvent(s, size) ==
  LET event == [from |-> s, n |-> accepted[s] + 1, size |-> size] IN
  /\ reader[s] = "frame"
  /\ s \in authenticated
  /\ accepted' = [accepted EXCEPT ![s] = @ + 1]
  /\ current' = [current EXCEPT ![s] = event]
  /\ recorded' = recorded \cup {event}
  /\ ReaderTo(s, "broadcast")
  /\ UNCHANGED <<frames, authenticated, registered, targets, queueVars, writerVars, seen>>

\* MemoryRouter::broadcast copies the callbacks of the sessions but the sender's
Recipients(s) == registered \ {s}

Broadcast(s) ==
  /\ reader[s] = "broadcast"
  /\ targets' = [targets EXCEPT ![s] = Recipients(s)]
  /\ ReaderTo(s, IF Recipients(s) = {} THEN "loop" ELSE "deliver")
  /\ UNCHANGED <<readVars, queueVars, writerVars, seen>>

\* a callback: the session may have closed and unregistered since the snapshot
Deliver(s, r) ==
  /\ reader[s] = "deliver"
  /\ r \in targets[s]
  /\ Enqueue(r, current[s])
  /\ targets' = [targets EXCEPT ![s] = @ \ {r}]
  /\ ReaderTo(s, IF targets[s] = {r} THEN "loop" ELSE "deliver")
  /\ UNCHANGED <<readVars, writerVars, seen>>

\* the loop ends: the peer or the network closed, or the session is closing
Leave(s) ==
  /\ reader[s] = "loop"
  /\ registered' = registered \ {s}
  /\ CloseSession(s)
  /\ ReaderTo(s, "done")
  /\ UNCHANGED <<frames, authenticated, accepted, current, recorded, targets,
                 writerVars, seen>>

Reading(s) ==
  \/ Answer(s) \/ AuthReply(s) \/ Register(s) \/ AuthFails(s) \/ Reject(s)
  \/ (\E size \in Size : AcceptEvent(s, size))
  \/ Broadcast(s) \/ (\E r \in Session : Deliver(s, r))

-----------------------------------------------------------------------------
(* The writer of session s.                                                 *)

WriterPop_Newest(s) ==
  /\ writer[s] = "wait"
  /\ queue[s] # <<>>
  /\ writing' = [writing EXCEPT ![s] = Last(queue[s])]
  /\ queue' = [queue EXCEPT ![s] = Front(@)]
  /\ queuedBytes' = [queuedBytes EXCEPT ![s] = @ - Last(queue[s]).size]
  /\ writer' = [writer EXCEPT ![s] = "write"]
  /\ UNCHANGED <<readVars, reader, targets, closing, told, seen>>

WriterPop_KeepsBudget(s) ==
  /\ writer[s] = "wait"
  /\ queue[s] # <<>>
  /\ writing' = [writing EXCEPT ![s] = Head(queue[s])]
  /\ queue' = [queue EXCEPT ![s] = Tail(@)]
  /\ writer' = [writer EXCEPT ![s] = "write"]
  /\ UNCHANGED <<readVars, reader, targets, closing, queuedBytes, told, seen>>

WriterPop(s) ==
  /\ writer[s] = "wait"
  /\ queue[s] # <<>>
  /\ writing' = [writing EXCEPT ![s] = Head(queue[s])]
  /\ queue' = [queue EXCEPT ![s] = Tail(@)]
  /\ queuedBytes' = [queuedBytes EXCEPT ![s] = @ - Head(queue[s]).size]
  /\ writer' = [writer EXCEPT ![s] = "write"]
  /\ UNCHANGED <<readVars, reader, targets, closing, told, seen>>

\* writeRaw: nothing is sent once the session is closing
WriterSends(s) ==
  /\ writer[s] = "write"
  /\ ~closing[s]
  /\ told' = IF writing[s] = Ok THEN told \cup {s} ELSE told
  /\ seen' = IF writing[s].from \in Session
             THEN [seen EXCEPT ![s] = [@ EXCEPT ![writing[s].from] = writing[s].n]]
             ELSE seen
  /\ writer' = [writer EXCEPT ![s] = "wait"]
  /\ UNCHANGED <<readVars, reader, targets, queueVars, writing>>

\* closing, a send error, or the send timeout; part of the payload may have gone
WriterFails(s) ==
  /\ writer[s] = "write"
  /\ CloseSession(s)
  /\ writer' = [writer EXCEPT ![s] = "done"]
  /\ UNCHANGED <<readVars, reader, targets, writing, told, seen>>

WriterEnds(s) ==
  /\ writer[s] = "wait"
  /\ queue[s] = <<>>
  /\ closing[s]
  /\ writer' = [writer EXCEPT ![s] = "done"]
  /\ UNCHANGED <<readVars, reader, targets, queueVars, writing, told, seen>>

Writing(s) == WriterPop(s) \/ WriterSends(s) \/ WriterFails(s) \/ WriterEnds(s)

-----------------------------------------------------------------------------

Init ==
  /\ frames = [s \in Session |-> 0]
  /\ reader = [s \in Session |-> "unborn"]
  /\ authenticated = {} /\ registered = {}
  /\ accepted = [s \in Session |-> 0]
  /\ current = [s \in Session |-> None]
  /\ recorded = {}
  /\ targets = [s \in Session |-> {}]
  /\ closing = [s \in Session |-> FALSE]
  /\ queue = [s \in Session |-> <<>>]
  /\ queuedBytes = [s \in Session |-> 0]
  /\ writer = [s \in Session |-> "none"]
  /\ writing = [s \in Session |-> None]
  /\ told = {}
  /\ seen = [r \in Session |-> [s \in Session |-> 0]]

Next ==
  \E s \in Session :
    Connect(s) \/ ReadFrame(s) \/ Reading(s) \/ Leave(s) \/ Writing(s)

\* A frame that was read is processed to its end, and a writer that can run
\* does: a send fails after 10 s at the latest.  A session that is closing
\* leaves its loop, because its socket is shut.
Fairness ==
  \A s \in Session :
    /\ WF_vars(Reading(s))
    /\ WF_vars(Writing(s))
    /\ WF_vars(closing[s] /\ Leave(s))

Spec == Init /\ [][Next]_vars
FairSpec == Spec /\ Fairness

-----------------------------------------------------------------------------
(* Properties.                                                              *)

\* Every variable stays in its range, and the bytes queued within the budget.
TypeOK ==
  /\ frames \in [Session -> 0..MaxFrames]
  /\ reader \in [Session -> {"unborn", "loop", "frame", "register", "reject",
                             "broadcast", "deliver", "done"}]
  /\ authenticated \subseteq Session /\ registered \subseteq authenticated
  /\ accepted \in [Session -> Nat]
  /\ current \in [Session -> Event \cup {None}]
  /\ \A s \in Session : reader[s] \in {"broadcast", "deliver"} => current[s] \in Event
  /\ recorded \subseteq Event
  /\ targets \in [Session -> SUBSET Session]
  /\ closing \in [Session -> BOOLEAN]
  /\ queue \in [Session -> Seq(Payload)]
  /\ queuedBytes \in [Session -> Int]
  /\ \A s \in Session : queuedBytes[s] <= QueueLimit
  /\ writer \in [Session -> {"none", "wait", "write", "done"}]
  /\ writing \in [Session -> Payload \cup {None}]
  /\ told \subseteq Session
  /\ seen \in [Session -> [Session -> Int]]

Bytes(payloads) == FoldLeft(LAMBDA sum, p : sum + p.size, 0, payloads)

\* queuedBytes, kept by hand on both sides of the queue, is the size of what is
\* queued: neither drifts until every enqueue is refused, nor lets the queue grow.
BudgetExact == \A s \in Session : queuedBytes[s] = Bytes(queue[s])

\* An event was handed to the storage before any session could see it.
RecordedFirst ==
  \A r \in Session : \A i \in DOMAIN queue[r] :
    queue[r][i].from \in Session => queue[r][i] \in recorded

\* The server implements PubSub: an event is published when its recipients are
\* copied, received when it is written, and a session that is closing is dropped.
\* So a recipient that stays connected misses nothing, sees nothing twice, in
\* no other order, and never its own.
Promise == INSTANCE PubSub WITH
  published <- [s \in Session |-> Broadcasts(s)],
  joined    <- authenticated,
  dropped   <- {s \in Session : closing[s]},
  received  <- seen

ImplementsPubSub == Promise!Spec

\* With live threads, whoever is not dropped receives all it waits for.
EveryEventArrives == Promise!Fairness

\* The inductive strengthening of the refinement.  Slots(r) are the payloads on
\* their way to r, the one its writer holds first; Due(s, r) is the last event of
\* s that r's queue should have been given.
Slots(r) == (IF writer[r] = "write" THEN {0} ELSE {}) \cup DOMAIN queue[r]
Item(r, i) == IF i = 0 THEN writing[r] ELSE queue[r][i]

Due(s, r) ==
  IF reader[s] = "broadcast" \/ (reader[s] = "deliver" /\ r \in targets[s])
  THEN accepted[s] - 1 ELSE accepted[s]

Handled ==
  \A s \in Session :
    /\ reader[s] \in {"broadcast", "deliver"} =>
         /\ s \in authenticated
         /\ current[s].from = s /\ current[s].n = accepted[s]
         /\ current[s] \in recorded
    /\ reader[s] = "register" => s \notin authenticated
    /\ reader[s] = "unborn" => writer[s] = "none"
    /\ targets[s] \subseteq authenticated \ {s}

Routed == \A r \in authenticated : r \in registered \/ closing[r]

Behind == \A r \in authenticated, s \in Session : seen[r][s] <= Due(s, r)

\* nothing is on its way to a session that has not joined, that has it already,
\* or that published it itself
Wanted(r, p) ==
  r \in authenticated /\ p.from # r /\ seen[r][p.from] < p.n /\ p.n <= Due(p.from, r)

Owned ==
  \A r \in Session : \A i \in Slots(r) :
    Item(r, i).from \in Session => Wanted(r, Item(r, i))

Precedes(r, i, j) ==
  i < j /\ Item(r, i).from = Item(r, j).from /\ Item(r, i).from \in Session

Ordered ==
  \A r \in Session : \A i, j \in Slots(r) :
    Precedes(r, i, j) => Item(r, i).n < Item(r, j).n

Complete ==
  \A r \in authenticated, s \in Session : \A m \in Int :
    ~closing[r] /\ r # s /\ seen[r][s] < m /\ m <= Due(s, r) =>
      \E i \in Slots(r) : Item(r, i).from = s /\ Item(r, i).n = m

InTransit == Behind /\ Owned /\ Ordered /\ Complete

DInv == Handled /\ Routed /\ InTransit

\* tests/tcpserver_integration_test.cpp lines 269-276 and the lines that follow its
\* authentications: a client that has read its auth_response with status ok
\* receives what another client publishes afterwards.
AuthenticatedIsSubscribed ==
  [][\A s, r \in Session :
       /\ Broadcast(s)
       /\ r # s
       /\ reader[r] # "done"
       /\ r \in told
       => r \in Recipients(s)]_vars

=============================================================================
