--------------------------- MODULE SessionLifecycle ---------------------------
(***************************************************************************)
(* The threads, descriptors and queues of TcpServer                        *)
(* (server_common/tcpserver.cpp): the main thread (processEvents,          *)
(* stopServer), the acceptor thread, and one reader and one writer thread  *)
(* per session.  Frames are abstracted to the calls they cause: a reply on *)
(* the session's own queue, a registration with the router, a broadcast.   *)
(* Payloads have unit size; what they carry is the matter of Delivery.     *)
(***************************************************************************)
EXTENDS Integers, FiniteSets

CONSTANTS
  Session,         \* the values nextSessionId_ hands out, each used once
  NoSession,
  Fd,              \* the descriptors accept() may return, reused after close()
  NoFd,            \* INVALID_SOCKET_VALUE
  MaxConnections,  \* kMaxConnections
  MaxHandshakes,   \* kMaxConcurrentHandshakes
  QueueLimit,      \* maxSendQueueBytes_, in payloads
  TlsEnabled

ASSUME LifecycleAssumption ==
  /\ NoSession \notin Session
  /\ NoFd \notin Fd
  /\ MaxConnections \in Nat \ {0}
  /\ MaxHandshakes \in Nat \ {0}
  /\ QueueLimit \in Nat \ {0}
  /\ TlsEnabled \in BOOLEAN

VARIABLES
  running,      \* running_
  terminated,   \* std::terminate has ended the process
  mainPc, stopping, unasked, todo, current,   \* the main thread
  acceptor, admitted,                \* the acceptor thread
  clients,      \* clients_: the sessions in the map, each at the key sock[s]
  handshakes,   \* activeHandshakes_
  registered,   \* router_->sessions_
  holder,       \* the kernel's view: the session a descriptor belongs to
  sock,         \* client->socket
  closing, queue,          \* client->closing, the length of client->sendQueue
  reader, writer,          \* the program counters of the session's threads
  handle,       \* client->readerThread has been assigned
  unjoined,     \* finalised while readerThread was not yet assigned
  targets,      \* broadcast()'s snapshot of recipients, per reader
  call          \* the enqueue or requestClientClose a thread is inside of

processVars  == <<running, terminated>>
mainVars     == <<mainPc, stopping, unasked, todo, current>>
acceptorVars == <<acceptor, admitted>>
socketVars   == <<holder, sock>>
vars == <<processVars, mainVars, acceptorVars, clients, handshakes, registered,
          socketVars, closing, queue, reader, writer, handle, unjoined, targets,
          call>>

-----------------------------------------------------------------------------
(* Threads.  A thread inside enqueue or requestClientClose takes only the   *)
(* steps of that call; its own program counter already names the step that  *)
(* follows the call's return.                                               *)

Main     == <<"main", NoSession>>
Rd(s)    == <<"reader", s>>
Wr(s)    == <<"writer", s>>
Thread   == {Main} \cup ({"reader", "writer"} \X Session)

Idle == [step |-> "idle", target |-> NoSession, fd |-> NoFd, locked |-> FALSE]
Call == {Idle} \cup
        [step : {"lock", "wake", "exchange", "shutdown", "notify"}, target : Session,
         fd : Fd \cup {NoFd}, locked : BOOLEAN]

\* requestClientClose; its exchange finds closing set once it has been set
CloseCall(s) ==
  [Idle EXCEPT !.step = IF closing[s] THEN "notify" ELSE "exchange", !.target = s]

\* enqueue's first test, made without the queue mutex
EnqueueCall(s) ==
  IF closing[s] THEN Idle ELSE [Idle EXCEPT !.step = "lock", !.target = s]

Free(t) == call[t] = Idle

\* the writer holds the mutex between its predicate and the wait; a thread
\* that found the queue full holds it through requestClientClose
QueueMutexFree_Ignored(s) == TRUE
QueueMutexFree(s) ==
  /\ writer[s] # "blocking"
  /\ \A t \in Thread : call[t].locked => call[t].target # s

Woken(s) == [writer EXCEPT ![s] = IF @ = "waiting" THEN "test" ELSE @]

\* the test under the mutex
EnqueueRefused_NoBudget(s) == closing[s]
EnqueueRefused(s) == closing[s] \/ queue[s] >= QueueLimit

EnqueueLock(t) ==
  LET s == call[t].target IN
  /\ call[t].step = "lock"
  /\ QueueMutexFree(s)
  /\ \/ /\ EnqueueRefused(s)
        /\ call' = [call EXCEPT ![t] = [CloseCall(s) EXCEPT !.locked = TRUE]]
        /\ UNCHANGED queue
     \/ /\ ~EnqueueRefused(s)
        /\ queue' = [queue EXCEPT ![s] = @ + 1]
        /\ call' = [call EXCEPT ![t] = [@ EXCEPT !.step = "wake"]]
  /\ UNCHANGED <<processVars, mainVars, acceptorVars, clients, handshakes, registered,
                 socketVars, closing, reader, writer, handle, unjoined, targets>>

\* closing.exchange(true), with the evaluation of shutdownSocket's argument
CloseExchange(t) ==
  LET s == call[t].target IN
  /\ call[t].step = "exchange"
  /\ closing' = [closing EXCEPT ![s] = TRUE]
  /\ call' = [call EXCEPT ![t] = IF closing[s]
                                 THEN [@ EXCEPT !.step = "notify"]
                                 ELSE [@ EXCEPT !.step = "shutdown", !.fd = sock[s]]]
  /\ UNCHANGED <<processVars, mainVars, acceptorVars, clients, handshakes, registered,
                 socketVars, queue, reader, writer, handle, unjoined, targets>>

\* a shut descriptor makes recv and send fail, which they may do at any time
CloseShutdown(t) ==
  /\ call[t].step = "shutdown"
  /\ call' = [call EXCEPT ![t] = [@ EXCEPT !.step = "notify", !.fd = NoFd]]
  /\ UNCHANGED <<processVars, mainVars, acceptorVars, clients, handshakes, registered,
                 socketVars, closing, queue, reader, writer, handle, unjoined, targets>>

\* notify_one after a push, notify_all at the end of requestClientClose: both
\* wake the writer if it is already waiting, and neither holds the mutex for it
Notify(t) ==
  /\ call[t].step \in {"wake", "notify"}
  /\ writer' = Woken(call[t].target)
  /\ call' = [call EXCEPT ![t] = Idle]
  /\ UNCHANGED <<processVars, mainVars, acceptorVars, clients, handshakes, registered,
                 socketVars, closing, queue, reader, handle, unjoined, targets>>

-----------------------------------------------------------------------------
(* The acceptor thread.  Accepting, testing the limits, adding the session  *)
(* to the map and starting its reader commute with every step of the other  *)
(* threads and are one action; a connection that is refused changes         *)
(* nothing.  Closing serverSocket_ after running_ was cleared only makes     *)
(* accept fail, as it may at any time.                                      *)

AtConnectionLimit == Cardinality(clients) >= MaxConnections
AtHandshakeLimit == TlsEnabled /\ handshakes >= MaxHandshakes

\* map::emplace keeps the old entry when the key is taken
Emplaced(s, f) == IF \E c \in clients : sock[c] = f THEN clients ELSE clients \cup {s}

AcceptNewConnection(s, f) ==
  /\ acceptor = "loop"
  /\ running
  /\ holder[f] = NoSession
  /\ reader[s] = "unborn"
  /\ ~AtConnectionLimit
  /\ ~AtHandshakeLimit
  /\ holder' = [holder EXCEPT ![f] = s]
  /\ sock' = [sock EXCEPT ![s] = f]
  /\ clients' = Emplaced(s, f)
  /\ handshakes' = IF TlsEnabled THEN handshakes + 1 ELSE handshakes
  /\ reader' = [reader EXCEPT ![s] = "setup"]
  /\ admitted' = s
  /\ acceptor' = "store"
  /\ UNCHANGED <<running, terminated, mainVars, registered, closing, queue, writer,
                 handle, unjoined, targets, call>>

\* The new thread runs before its std::thread is stored in the connection.
\* Storing it in a connection that was already finalised leaves a joinable
\* thread to the connection's destructor, which calls std::terminate.
StoreReaderThread ==
  /\ acceptor = "store"
  /\ handle' = [handle EXCEPT ![admitted] = TRUE]
  /\ terminated' = (admitted \in unjoined)
  /\ admitted' = NoSession
  /\ acceptor' = "loop"
  /\ UNCHANGED <<running, mainVars, clients, handshakes, registered, socketVars,
                 closing, queue, reader, writer, unjoined, targets, call>>

AcceptLoopEnds ==
  /\ acceptor = "loop"
  /\ ~running
  /\ acceptor' = "exited"
  /\ UNCHANGED <<processVars, mainVars, admitted, clients, handshakes, registered,
                 socketVars, closing, queue, reader, writer, handle, unjoined,
                 targets, call>>

Acceptor ==
  \/ \E s \in Session, f \in Fd : AcceptNewConnection(s, f)
  \/ StoreReaderThread \/ AcceptLoopEnds

-----------------------------------------------------------------------------
(* The reader thread of session s: clientLoop.                              *)

readerOnly == <<processVars, mainVars, acceptorVars, clients, socketVars, closing,
                queue, handle, unjoined>>

Reading(s, at) == reader[s] = at /\ Free(Rd(s))

\* releaseHandshakeSlot
ReleaseSlot_Leaks == UNCHANGED handshakes
ReleaseSlot == handshakes' = IF TlsEnabled THEN handshakes - 1 ELSE handshakes

\* SSL_accept succeeded, or TLS is off: the slot is free and the writer starts
SetupDone(s) ==
  /\ Reading(s, "setup")
  /\ reader' = [reader EXCEPT ![s] = "loop"]
  /\ writer' = [writer EXCEPT ![s] = "test"]
  /\ ReleaseSlot
  /\ UNCHANGED <<readerOnly, registered, targets, call>>

\* SSL_new or SSL_accept failed: no writer was started
HandshakeFailed(s) ==
  /\ Reading(s, "setup")
  /\ TlsEnabled
  /\ reader' = [reader EXCEPT ![s] = "done"]
  /\ ReleaseSlot
  /\ call' = [call EXCEPT ![Rd(s)] = CloseCall(s)]
  /\ UNCHANGED <<readerOnly, registered, writer, targets>>

\* while (running_ && !client->closing) readFromClient(...), first or after the
\* frames of the last read; testing the condition commutes with other threads
AtLoopHead(s) == Reading(s, "loop") \/ Reading(s, "after")
KeepReading_Forever(s) == AtLoopHead(s)
KeepReading_WhenClosing(s) == AtLoopHead(s) /\ running
KeepReading(s) == AtLoopHead(s) /\ running /\ ~closing[s]

\* bytes that complete a frame; fewer, and empty frames, change nothing here
ReadFrame(s) ==
  /\ KeepReading(s)
  /\ reader' = [reader EXCEPT ![s] = "frame"]
  /\ UNCHANGED <<readerOnly, handshakes, registered, writer, targets, call>>

\* the next frame of the same read: running_ is not tested again
NextFrame(s) ==
  /\ Reading(s, "after")
  /\ ~closing[s]
  /\ reader' = [reader EXCEPT ![s] = "frame"]
  /\ UNCHANGED <<readerOnly, handshakes, registered, writer, targets, call>>

\* an overflowing parser or an unauthenticated buffer over its quota
ReadOverflows(s) ==
  /\ KeepReading(s)
  /\ reader' = [reader EXCEPT ![s] = "leave"]
  /\ call' = [call EXCEPT ![Rd(s)] = EnqueueCall(s)]
  /\ UNCHANGED <<readerOnly, handshakes, registered, writer, targets>>

\* an error, a pong or the refusal of a second auth, on the session's own queue
FrameAnswered(s) ==
  /\ Reading(s, "frame")
  /\ reader' = [reader EXCEPT ![s] = "after"]
  /\ call' = [call EXCEPT ![Rd(s)] = EnqueueCall(s)]
  /\ UNCHANGED <<readerOnly, handshakes, registered, writer, targets>>

AuthAccepted(s) ==
  /\ Reading(s, "frame")
  /\ s \notin registered
  /\ reader' = [reader EXCEPT ![s] = "register"]
  /\ call' = [call EXCEPT ![Rd(s)] = EnqueueCall(s)]
  /\ UNCHANGED <<readerOnly, handshakes, registered, writer, targets>>

RegisterSession(s) ==
  /\ Reading(s, "register")
  /\ registered' = registered \cup {s}
  /\ reader' = [reader EXCEPT ![s] = "after"]
  /\ UNCHANGED <<readerOnly, handshakes, writer, targets, call>>

\* a failed authentication, or an unauthenticated frame over 16 KiB
FrameRejected(s) ==
  /\ Reading(s, "frame")
  /\ s \notin registered
  /\ reader' = [reader EXCEPT ![s] = "reject"]
  /\ call' = [call EXCEPT ![Rd(s)] = EnqueueCall(s)]
  /\ UNCHANGED <<readerOnly, handshakes, registered, writer, targets>>

RejectClose(s) ==
  /\ Reading(s, "reject")
  /\ reader' = [reader EXCEPT ![s] = "after"]
  /\ call' = [call EXCEPT ![Rd(s)] = CloseCall(s)]
  /\ UNCHANGED <<readerOnly, handshakes, registered, writer, targets>>

\* MemoryRouter::broadcast copies the callbacks under its mutex ...
BroadcastSnapshot(s) ==
  /\ Reading(s, "frame")
  /\ s \in registered
  /\ targets' = [targets EXCEPT ![s] = registered \ {s}]
  /\ reader' = [reader EXCEPT ![s] = IF registered = {s} THEN "after" ELSE "deliver"]
  /\ UNCHANGED <<readerOnly, handshakes, registered, writer, call>>

\* ... and calls them one by one after releasing it
BroadcastDeliver(s, r) ==
  /\ Reading(s, "deliver")
  /\ r \in targets[s]
  /\ targets' = [targets EXCEPT ![s] = @ \ {r}]
  /\ reader' = [reader EXCEPT ![s] = IF targets[s] = {r} THEN "after" ELSE "deliver"]
  /\ call' = [call EXCEPT ![Rd(s)] = EnqueueCall(r)]
  /\ UNCHANGED <<readerOnly, handshakes, registered, writer>>

Unregister_Forgotten(s) == UNCHANGED registered
Unregister(s) == registered' = registered \ {s}

\* The loop ends: its condition is false, or the read failed at the end of the
\* stream, by an error, a shut socket or the 10 s receive timeout.  Unregister,
\* close, and set client->finished once the call has returned.
Leave(s) ==
  /\ AtLoopHead(s) \/ Reading(s, "leave")
  /\ Unregister(s)
  /\ reader' = [reader EXCEPT ![s] = "done"]
  /\ call' = [call EXCEPT ![Rd(s)] = CloseCall(s)]
  /\ UNCHANGED <<readerOnly, handshakes, writer, targets>>

Finished(s) == reader[s] = "done" /\ Free(Rd(s))

ReaderOwn(s) ==
  \/ SetupDone(s) \/ HandshakeFailed(s) \/ ReadFrame(s) \/ NextFrame(s)
  \/ ReadOverflows(s) \/ FrameAnswered(s) \/ AuthAccepted(s) \/ RegisterSession(s)
  \/ FrameRejected(s) \/ RejectClose(s) \/ BroadcastSnapshot(s)
  \/ (\E r \in Session : BroadcastDeliver(s, r))
  \/ Leave(s)

-----------------------------------------------------------------------------
(* The writer thread of session s: writerLoop.                              *)

writerOnly == <<processVars, mainVars, acceptorVars, clients, handshakes, registered,
                socketVars, closing, reader, handle, unjoined, targets>>

\* takes the mutex and evaluates the predicate; true with an empty queue ends it
WriterTest(s) ==
  /\ writer[s] = "test"
  /\ QueueMutexFree(s)
  /\ \/ /\ queue[s] > 0
        /\ queue' = [queue EXCEPT ![s] = @ - 1]
        /\ writer' = [writer EXCEPT ![s] = "write"]
     \/ /\ queue[s] = 0
        /\ writer' = [writer EXCEPT ![s] = IF closing[s] THEN "done" ELSE "blocking"]
        /\ UNCHANGED queue
  /\ UNCHANGED <<writerOnly, call>>

\* condition_variable::wait: releases the mutex and sleeps in one step
WriterBlock(s) ==
  /\ writer[s] = "blocking"
  /\ writer' = [writer EXCEPT ![s] = "waiting"]
  /\ UNCHANGED <<writerOnly, queue, call>>

SpuriousWakeup(s) ==
  /\ writer[s] = "waiting"
  /\ writer' = [writer EXCEPT ![s] = "test"]
  /\ UNCHANGED <<writerOnly, queue, call>>

WriterSends(s) ==
  /\ writer[s] = "write"
  /\ writer' = [writer EXCEPT ![s] = "test"]
  /\ UNCHANGED <<writerOnly, queue, call>>

\* a send error, the 10 s send timeout, or closing seen between two sends
WriterFails(s) ==
  /\ writer[s] = "write"
  /\ writer' = [writer EXCEPT ![s] = "done"]
  /\ call' = [call EXCEPT ![Wr(s)] = CloseCall(s)]
  /\ UNCHANGED <<writerOnly, queue>>

WriterOwn(s) == WriterTest(s) \/ WriterBlock(s) \/ WriterSends(s) \/ WriterFails(s)

-----------------------------------------------------------------------------
(* The main thread: startServer, processEvents, stopServer.                 *)

mainOnly == <<clients, handshakes, registered, socketVars, closing, queue, reader,
              writer, handle, unjoined, targets, call>>

MainAt(at) == mainPc = at /\ Free(Main)

StartServer ==
  /\ MainAt("idle")
  /\ ~running
  /\ running' = TRUE
  /\ acceptor' = "loop"
  /\ UNCHANGED <<terminated, mainVars, admitted, mainOnly>>

ReapClosedClients ==
  LET finished == {s \in clients : Finished(s)} IN
  /\ MainAt("idle")
  /\ finished # {}
  /\ clients' = clients \ finished
  /\ todo' = finished
  /\ mainPc' = "finalize"
  /\ UNCHANGED <<processVars, stopping, unasked, current, acceptorVars, handshakes,
                 registered, socketVars, closing, queue, reader, writer, handle,
                 unjoined, targets, call>>

StopServer ==
  /\ MainAt("idle")
  /\ running
  /\ running' = FALSE
  /\ stopping' = TRUE
  /\ mainPc' = "joinAcceptor"
  /\ UNCHANGED <<terminated, unasked, todo, current, acceptorVars, mainOnly>>

TakeClients_ClearedFirst == todo' = {} /\ unasked' = {}
TakeClients == todo' = clients /\ unasked' = clients

JoinAcceptor_Skipped ==
  /\ MainAt("joinAcceptor")
  /\ TakeClients
  /\ clients' = {}
  /\ mainPc' = "finalize"
  /\ UNCHANGED <<processVars, stopping, current, acceptorVars, handshakes, registered,
                 socketVars, closing, queue, reader, writer, handle, unjoined,
                 targets, call>>

\* joins the acceptor, then moves every client out of the map
JoinAcceptor ==
  /\ MainAt("joinAcceptor")
  /\ acceptor = "exited"
  /\ acceptor' = "off"
  /\ TakeClients
  /\ clients' = {}
  /\ mainPc' = "finalize"
  /\ UNCHANGED <<processVars, stopping, current, admitted, handshakes, registered,
                 socketVars, closing, queue, reader, writer, handle,
                 unjoined, targets, call>>

\* stopServer requests the close of every client before it finalises the first
RequestClose(s) ==
  /\ MainAt("finalize")
  /\ s \in unasked
  /\ unasked' = unasked \ {s}
  /\ call' = [call EXCEPT ![Main] = CloseCall(s)]
  /\ UNCHANGED <<processVars, mainPc, stopping, todo, current, acceptorVars, clients,
                 handshakes, registered, socketVars, closing, queue, reader, writer,
                 handle, unjoined, targets>>

\* finalizeClient(s), from its own requestClientClose on
FinalizeClient(s) ==
  /\ MainAt("finalize")
  /\ unasked = {}
  /\ s \in todo
  /\ todo' = todo \ {s}
  /\ current' = s
  /\ call' = [call EXCEPT ![Main] = CloseCall(s)]
  /\ mainPc' = "joinReader"
  /\ UNCHANGED <<processVars, stopping, unasked, acceptorVars, clients, handshakes,
                 registered, socketVars, closing, queue, reader, writer, handle,
                 unjoined, targets>>

\* readerThread.joinable() is false until the acceptor has stored the thread
ReaderJoined(s) == handle[s] => Finished(s)

JoinReader ==
  /\ MainAt("joinReader")
  /\ ReaderJoined(current)
  /\ unjoined' = IF handle[current] THEN unjoined ELSE unjoined \cup {current}
  /\ mainPc' = "joinWriter"
  /\ UNCHANGED <<processVars, stopping, unasked, todo, current, acceptorVars, clients,
                 handshakes, registered, socketVars, closing, queue, reader, writer,
                 handle, targets, call>>

WriterJoined_Skipped(s) == TRUE
WriterJoined(s) == writer[s] \in {"none", "done"} /\ Free(Wr(s))

\* join(), then SSL_free, closeSocket and client->socket = INVALID_SOCKET_VALUE: the
\* kernel may hand the descriptor out again
JoinWriter ==
  /\ MainAt("joinWriter")
  /\ WriterJoined(current)
  /\ holder' = [f \in Fd |-> IF f = sock[current] THEN NoSession ELSE holder[f]]
  /\ sock' = [sock EXCEPT ![current] = NoFd]
  /\ current' = NoSession
  /\ mainPc' = "finalize"
  /\ UNCHANGED <<processVars, stopping, unasked, todo, acceptorVars, clients, handshakes,
                 registered, closing, queue, reader, writer, handle, unjoined, targets,
                 call>>

\* the end of reapClosedClients, or of stopServer with router_->clear()
FinalizeDone ==
  /\ MainAt("finalize")
  /\ unasked = {}
  /\ todo = {}
  /\ registered' = IF stopping THEN {} ELSE registered
  /\ stopping' = FALSE
  /\ mainPc' = "idle"
  /\ UNCHANGED <<processVars, unasked, todo, current, acceptorVars, clients, handshakes,
                 socketVars, closing, queue, reader, writer, handle, unjoined, targets,
                 call>>

MainWork ==
  \/ ReapClosedClients \/ JoinAcceptor
  \/ (\E s \in Session : RequestClose(s) \/ FinalizeClient(s))
  \/ JoinReader \/ JoinWriter \/ FinalizeDone

-----------------------------------------------------------------------------

Init ==
  /\ running = FALSE /\ terminated = FALSE
  /\ mainPc = "idle" /\ stopping = FALSE /\ unasked = {} /\ todo = {}
  /\ current = NoSession
  /\ acceptor = "off" /\ admitted = NoSession
  /\ clients = {}
  /\ handshakes = 0
  /\ registered = {}
  /\ holder = [f \in Fd |-> NoSession]
  /\ sock = [s \in Session |-> NoFd]
  /\ closing = [s \in Session |-> FALSE]
  /\ queue = [s \in Session |-> 0]
  /\ reader = [s \in Session |-> "unborn"]
  /\ writer = [s \in Session |-> "none"]
  /\ handle = [s \in Session |-> FALSE]
  /\ unjoined = {}
  /\ targets = [s \in Session |-> {}]
  /\ call = [t \in Thread |-> Idle]

CallStepOf(t) == EnqueueLock(t) \/ CloseExchange(t) \/ CloseShutdown(t) \/ Notify(t)

Running == ~terminated

Next ==
  \/ /\ Running
     /\ \/ \E t \in Thread : CallStepOf(t)
        \/ Acceptor
        \/ \E s \in Session : ReaderOwn(s) \/ WriterOwn(s) \/ SpuriousWakeup(s)
        \/ StartServer \/ StopServer \/ MainWork
  \/ terminated /\ UNCHANGED vars

\* Every thread that can run is scheduled.  recv and send return within the 10 s
\* socket timeouts, so reading and writing are steps that happen; whether bytes
\* arrive, and whether the server is started or stopped, is not promised.  A
\* mutex that is free again and again is eventually acquired.
Fairness ==
  /\ \A t \in Thread :
       /\ WF_vars(Running /\ (CloseExchange(t) \/ CloseShutdown(t) \/ Notify(t)))
       /\ SF_vars(Running /\ EnqueueLock(t))
  /\ WF_vars(Running /\ Acceptor)
  /\ \A s \in Session :
       /\ WF_vars(Running /\ ReaderOwn(s))
       /\ WF_vars(Running /\ WriterOwn(s))
  /\ WF_vars(Running /\ MainWork)

Spec == Init /\ [][Next]_vars
FairSpec == Spec /\ Fairness

-----------------------------------------------------------------------------
(* Properties.                                                              *)

ReaderPc == {"unborn", "setup", "loop", "frame", "register", "reject", "deliver",
             "after", "leave", "done"}
WriterPc == {"none", "test", "blocking", "waiting", "write", "done"}

\* Every variable stays in its range; the send queue never exceeds its budget.
TypeOK ==
  /\ running \in BOOLEAN /\ terminated \in BOOLEAN /\ stopping \in BOOLEAN
  /\ mainPc \in {"idle", "joinAcceptor", "finalize", "joinReader", "joinWriter"}
  /\ unasked \subseteq Session /\ todo \subseteq Session
  /\ current \in Session \cup {NoSession}
  /\ mainPc \in {"joinReader", "joinWriter"} => current \in Session
  /\ acceptor \in {"off", "loop", "store", "exited"}
  /\ admitted \in Session \cup {NoSession}
  /\ clients \subseteq Session
  /\ handshakes \in Int
  /\ registered \subseteq Session
  /\ holder \in [Fd -> Session \cup {NoSession}]
  /\ sock \in [Session -> Fd \cup {NoFd}]
  /\ closing \in [Session -> BOOLEAN]
  /\ queue \in [Session -> 0..QueueLimit]
  /\ reader \in [Session -> ReaderPc]
  /\ writer \in [Session -> WriterPc]
  /\ handle \in [Session -> BOOLEAN]
  /\ unjoined \subseteq Session
  /\ targets \in [Session -> SUBSET Session]
  /\ call \in [Thread -> Call]

ReaderLives(s) == reader[s] \notin {"unborn", "done"}
WriterLives(s) == writer[s] \notin {"none", "done"}

\* A thread that may still read from or write to its session's descriptor finds
\* it open and its own: the descriptor is closed, and can come back as another
\* session's, only after both threads have been joined.
DescriptorsOwned ==
  \A s \in Session :
    ReaderLives(s) \/ WriterLives(s) => sock[s] \in Fd /\ holder[sock[s]] = s

\* activeHandshakes_ counts exactly the sessions that are still in their
\* handshake, on every path out of it, so the limit never leaks away.
SlotsAccounted ==
  TlsEnabled =>
    /\ handshakes = Cardinality({s \in Session : reader[s] = "setup"})
    /\ handshakes <= MaxHandshakes

\* A session that holds a descriptor is in clients_, under a key no other entry
\* has, or main is about to finalise it: none is lost to the reaper because
\* accept() returned a descriptor that is still a key.
NoSessionLost ==
  /\ \A s \in Session : sock[s] # NoFd => s \in clients \cup todo \cup {current}
  /\ \A s, u \in clients : sock[s] = sock[u] => s = u
  /\ Cardinality(clients) <= MaxConnections

\* A writer never sleeps on a queue that holds a message unless the thread that
\* put it there, or one that closes the session, is still to notify it.
NoStrandedMessage ==
  \A s \in Session : writer[s] = "waiting" /\ queue[s] > 0 =>
    \E t \in Thread : call[t].target = s /\ call[t].step \in {"wake", "notify"}

\* Only sessions with a live reader and an open descriptor are routed to.
RouterHandlesLive ==
  \A s \in registered : ReaderLives(s) /\ writer[s] # "none" /\ sock[s] # NoFd

\* When stopServer has returned, no thread runs or is inside a call, no
\* descriptor, map entry, handshake slot or router handle is left.
StopLeavesNothing ==
  mainPc = "idle" /\ ~running =>
    /\ acceptor = "off" /\ clients = {} /\ registered = {} /\ handshakes = 0
    /\ \A s \in Session : ~ReaderLives(s) /\ ~WriterLives(s) /\ sock[s] = NoFd
    /\ \A f \in Fd : holder[f] = NoSession
    /\ \A t \in Thread : Free(t)

\* The inductive strengthening of DescriptorsOwned, NoSessionLost, SlotsAccounted
\* and RouterHandlesLive: a descriptor's holder is the session that has it; a
\* session belongs to nobody before it is accepted; it has no thread handle only
\* while the acceptor is about to store it; main reaches close() only past both
\* joins; the map, the work list and the current session are disjoint.
Held == \A s \in Session : sock[s] # NoFd => holder[sock[s]] = s

Unborn == \A s \in Session : reader[s] = "unborn" =>
  sock[s] = NoFd /\ writer[s] = "none" /\ ~handle[s] /\ s \notin clients \cup todo \cup {current}

Handles ==
  /\ \A s \in Session : reader[s] # "unborn" /\ ~handle[s] =>
       acceptor = "store" /\ admitted = s
  /\ acceptor = "store" => admitted \in Session /\ reader[admitted] # "unborn"
  /\ \A s \in Session : s \in todo \cup {current} /\ ~handle[s] => reader[s] = "done"
  /\ ~running /\ mainPc # "joinAcceptor" => acceptor = "off"

Threads ==
  /\ \A s \in Session : ReaderLives(s) \/ WriterLives(s) => sock[s] # NoFd
  /\ \A s \in Session : ReaderLives(s) /\ reader[s] # "setup" => writer[s] # "none"
  /\ mainPc = "joinWriter" => reader[current] = "done"

WorkList ==
  /\ \A s \in clients : sock[s] # NoFd /\ s \notin todo /\ s # current
  /\ \A s \in todo : s # current
  /\ mainPc \in {"idle", "joinAcceptor"} => todo = {}
  /\ mainPc \in {"idle", "joinAcceptor", "finalize"} => current = NoSession
  /\ \A s \in Session : sock[s] # NoFd => s \in clients \cup todo \cup {current}

Routed == \A s \in registered : ReaderLives(s) /\ reader[s] # "setup"

IInv == Held /\ Unborn /\ Handles /\ Threads /\ WorkList /\ Routed

\* main is in join() of a writer that sleeps with nobody left to notify it
WakeupLost ==
  /\ mainPc = "joinWriter"
  /\ writer[current] = "waiting"
  /\ \A t \in Thread : call[t].target # current

\* The only thing that keeps the main thread from coming back from stopServer
\* or reapClosedClients is a writer whose wakeup was lost.
MainReturns ==
  []<>(mainPc = "idle" \/ terminated) \/ <>[]WakeupLost

\* A session that was asked to close leaves its reader loop, whatever its peer,
\* its writer and the sessions that broadcast to it do.
ClosingSessionFinishes ==
  \A s \in Session : closing[s] ~> (reader[s] = "done" \/ terminated)

\* docs/18_remediation line 66: stopServer "must ... close the sockets to wake
\* blocked reads, join all threads, and finally release SSL and clear the router".
StopJoinsEveryThread ==
  (mainPc = "joinAcceptor") ~> (mainPc = "idle" \/ terminated)

\* README line 14, "joinable session threads and deterministic stop semantics":
\* no session is finalised without joining its reader thread.
EveryReaderJoined == unjoined = {}

\* docs/18_remediation line 149: after the sessions are gone nothing works on a
\* closed socket.  shutdown() is called on the descriptor of its own session.
NoShutdownAfterClose ==
  \A t \in Thread : call[t].step = "shutdown" => holder[call[t].fd] = call[t].target

=============================================================================
