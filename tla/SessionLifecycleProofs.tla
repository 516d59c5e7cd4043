----------------------- MODULE SessionLifecycleProofs -----------------------
(***************************************************************************)
(* Theorems about SessionLifecycle, for any number of sessions and         *)
(* descriptors and any limits.                                             *)
(***************************************************************************)
EXTENDS SessionLifecycle, FiniteSetTheorems, TLAPS

\* Idle is the only call record that is not inside a call.
LEMMA IdleIsCall == Idle \in Call
BY DEF Call

LEMMA ThreadsAreThreads ==
  /\ Main \in Thread
  /\ \A s \in Session : Rd(s) \in Thread /\ Wr(s) \in Thread
BY DEF Thread, Main, Rd, Wr

\* The calls a thread can start are call records.
LEMMA CallsAreCalls ==
  ASSUME NEW s \in Session
  PROVE  CloseCall(s) \in Call /\ EnqueueCall(s) \in Call
BY DEF CloseCall, EnqueueCall, Call, Idle

\* What the steps of a call do to the call record.
LEMMA CallSteps ==
  ASSUME TypeOK, NEW t \in Thread, call[t] # Idle
  PROVE  /\ call[t].target \in Session
         /\ [call[t] EXCEPT !.step = "wake"] \in Call
         /\ [call[t] EXCEPT !.step = "notify"] \in Call
         /\ [call[t] EXCEPT !.step = "notify", !.fd = NoFd] \in Call
         /\ [call[t] EXCEPT !.step = "shutdown", !.fd = sock[call[t].target]] \in Call
         /\ [CloseCall(call[t].target) EXCEPT !.locked = TRUE] \in Call
<1> DEFINE C == [step : {"lock", "wake", "exchange", "shutdown", "notify"},
                 target : Session, fd : Fd \cup {NoFd}, locked : BOOLEAN]
<1>1. call[t] \in C
  BY DEF TypeOK, Call
<1>2. CloseCall(call[t].target) \in C
  BY <1>1 DEF CloseCall, Idle
<1>3. sock[call[t].target] \in Fd \cup {NoFd}
  BY <1>1 DEF TypeOK
<1> QED
  BY <1>1, <1>2, <1>3 DEF Call

-----------------------------------------------------------------------------
(* Type correctness.                                                        *)

USE LifecycleAssumption DEF LifecycleAssumption

LEMMA InitTypeOK == Init => TypeOK
<1> SUFFICES ASSUME Init PROVE TypeOK
  OBVIOUS
<1>1. call \in [Thread -> Call]
  BY IdleIsCall DEF Init
<1>2. queue \in [Session -> 0..QueueLimit]
  BY DEF Init
<1>3. reader \in [Session -> ReaderPc] /\ writer \in [Session -> WriterPc]
  BY DEF Init, ReaderPc, WriterPc
<1>4. holder \in [Fd -> Session \cup {NoSession}] /\ sock \in [Session -> Fd \cup {NoFd}]
  BY DEF Init
<1>5. closing \in [Session -> BOOLEAN] /\ handle \in [Session -> BOOLEAN]
  BY DEF Init
<1>6. targets \in [Session -> SUBSET Session]
  BY DEF Init
<1>7. running \in BOOLEAN /\ terminated \in BOOLEAN /\ stopping \in BOOLEAN
  BY DEF Init
<1> QED
  BY <1>1, <1>2, <1>3, <1>4, <1>5, <1>6, <1>7 DEF Init, TypeOK

\* A step inside enqueue or requestClientClose keeps the types.
LEMMA CallTypeOK ==
  ASSUME TypeOK, NEW t \in Thread, CallStepOf(t)
  PROVE  TypeOK'
<1>1. call[t] # Idle
  BY DEF CallStepOf, EnqueueLock, CloseExchange, CloseShutdown, Notify, Idle
<1>2. call[t].target \in Session
  BY <1>1, CallSteps
<1>3. CASE EnqueueLock(t)
  <2>1. call' \in [Thread -> Call]
    <3>1. call \in [Thread -> Call]
      BY DEF TypeOK
    <3>2. \/ call' = [call EXCEPT ![t] = [CloseCall(call[t].target) EXCEPT !.locked = TRUE]]
          \/ call' = [call EXCEPT ![t] = [call[t] EXCEPT !.step = "wake"]]
      BY <1>3, <3>1 DEF EnqueueLock
    <3> QED
      BY <1>1, <3>1, <3>2, CallSteps
  <2>2. queue' \in [Session -> 0..QueueLimit]
    BY <1>2, <1>3 DEF EnqueueLock, EnqueueRefused, TypeOK
  <2> QED
    BY <1>3, <2>1, <2>2
    DEF EnqueueLock, TypeOK, processVars, mainVars, acceptorVars, socketVars
<1>4. CASE CloseExchange(t)
  <2>1. call' \in [Thread -> Call]
    BY <1>1, <1>4, CallSteps DEF CloseExchange, TypeOK
  <2> QED
    BY <1>4, <2>1
    DEF CloseExchange, TypeOK, processVars, mainVars, acceptorVars, socketVars
<1>5. CASE CloseShutdown(t)
  <2>1. call' \in [Thread -> Call]
    BY <1>1, <1>5, CallSteps DEF CloseShutdown, TypeOK
  <2> QED
    BY <1>5, <2>1
    DEF CloseShutdown, TypeOK, processVars, mainVars, acceptorVars, socketVars
<1>6. CASE Notify(t)
  <2>1. call' \in [Thread -> Call]
    BY <1>6, IdleIsCall DEF Notify, TypeOK
  <2>2. writer' \in [Session -> WriterPc]
    BY <1>6 DEF Notify, Woken, TypeOK, WriterPc
  <2> QED
    BY <1>6, <2>1, <2>2
    DEF Notify, TypeOK, processVars, mainVars, acceptorVars, socketVars
<1> QED
  BY <1>3, <1>4, <1>5, <1>6 DEF CallStepOf

LEMMA AcceptorTypeOK ==
  ASSUME TypeOK, Acceptor
  PROVE  TypeOK'
<1>1. ASSUME NEW s \in Session, NEW f \in Fd, AcceptNewConnection(s, f)
      PROVE  TypeOK'
  <2>1. clients' \subseteq Session
    BY <1>1 DEF AcceptNewConnection, Emplaced, TypeOK
  <2> QED
    BY <1>1, <2>1 DEF AcceptNewConnection, TypeOK, ReaderPc, mainVars
<1>2. CASE StoreReaderThread
  <2>0. (admitted \in unjoined) \in BOOLEAN
    OBVIOUS
  <2>1. terminated' \in BOOLEAN
    BY <1>2, <2>0 DEF StoreReaderThread
  <2> QED
    BY <1>2, <2>1 DEF StoreReaderThread, TypeOK, mainVars, socketVars
<1>3. CASE AcceptLoopEnds
  BY <1>3 DEF AcceptLoopEnds, TypeOK, processVars, mainVars, socketVars
<1> QED
  BY <1>1, <1>2, <1>3 DEF Acceptor

\* Every step of a reader leaves the variables in readerOnly alone.
LEMMA ReaderTypeOK ==
  ASSUME TypeOK, NEW s \in Session, ReaderOwn(s)
  PROVE  TypeOK'
<1>1. /\ UNCHANGED readerOnly
      /\ handshakes' \in Int
      /\ registered' \subseteq Session
  BY DEF ReaderOwn, SetupDone, HandshakeFailed, ReadFrame, NextFrame, ReadOverflows,
         FrameAnswered, AuthAccepted, RegisterSession, FrameRejected, RejectClose,
         BroadcastSnapshot, BroadcastDeliver, Leave, ReleaseSlot, Unregister, TypeOK
<1>2. reader' \in [Session -> ReaderPc] /\ writer' \in [Session -> WriterPc]
  BY DEF ReaderOwn, SetupDone, HandshakeFailed, ReadFrame, NextFrame, ReadOverflows,
         FrameAnswered, AuthAccepted, RegisterSession, FrameRejected, RejectClose,
         BroadcastSnapshot, BroadcastDeliver, Leave, TypeOK, ReaderPc, WriterPc
<1>3. targets' \in [Session -> SUBSET Session]
  BY DEF ReaderOwn, SetupDone, HandshakeFailed, ReadFrame, NextFrame, ReadOverflows,
         FrameAnswered, AuthAccepted, RegisterSession, FrameRejected, RejectClose,
         BroadcastSnapshot, BroadcastDeliver, Leave, TypeOK
<1>4. call' \in [Thread -> Call]
  BY CallsAreCalls, ThreadsAreThreads
  DEF ReaderOwn, SetupDone, HandshakeFailed, ReadFrame, NextFrame, ReadOverflows,
      FrameAnswered, AuthAccepted, RegisterSession, FrameRejected, RejectClose,
      BroadcastSnapshot, BroadcastDeliver, Leave, TypeOK
<1> QED
  BY <1>1, <1>2, <1>3, <1>4
  DEF readerOnly, TypeOK, processVars, mainVars, acceptorVars, socketVars

LEMMA WriterTypeOK ==
  ASSUME TypeOK, NEW s \in Session, WriterOwn(s) \/ SpuriousWakeup(s)
  PROVE  TypeOK'
<1>1. UNCHANGED writerOnly
  BY DEF WriterOwn, WriterTest, WriterBlock, SpuriousWakeup, WriterSends, WriterFails
<1>2. writer' \in [Session -> WriterPc] /\ queue' \in [Session -> 0..QueueLimit]
  BY DEF WriterOwn, WriterTest, WriterBlock, SpuriousWakeup, WriterSends, WriterFails,
         TypeOK, WriterPc
<1>3. call' \in [Thread -> Call]
  BY CallsAreCalls, ThreadsAreThreads
  DEF WriterOwn, WriterTest, WriterBlock, SpuriousWakeup, WriterSends, WriterFails, TypeOK
<1> QED
  BY <1>1, <1>2, <1>3
  DEF writerOnly, TypeOK, processVars, mainVars, acceptorVars, socketVars

LEMMA MainTypeOK ==
  ASSUME TypeOK, StartServer \/ StopServer \/ MainWork
  PROVE  TypeOK'
<1> USE DEF TypeOK, processVars, acceptorVars, socketVars, mainVars, mainOnly, MainAt
<1>1. CASE StartServer
  BY <1>1 DEF StartServer
<1>2. CASE StopServer
  BY <1>2 DEF StopServer
<1>3. CASE ReapClosedClients
  BY <1>3 DEF ReapClosedClients
<1>4. CASE JoinAcceptor
  BY <1>4 DEF JoinAcceptor, TakeClients
<1>5. ASSUME NEW s \in Session, RequestClose(s) PROVE TypeOK'
  <2>1. call' \in [Thread -> Call]
    BY <1>5, CallsAreCalls, ThreadsAreThreads DEF RequestClose
  <2> QED
    BY <1>5, <2>1 DEF RequestClose
<1>6. ASSUME NEW s \in Session, FinalizeClient(s) PROVE TypeOK'
  <2>1. call' \in [Thread -> Call]
    BY <1>6, CallsAreCalls, ThreadsAreThreads DEF FinalizeClient
  <2> QED
    BY <1>6, <2>1 DEF FinalizeClient
<1>7. CASE JoinReader
  BY <1>7 DEF JoinReader
<1>8. CASE JoinWriter
  BY <1>8 DEF JoinWriter
<1>9. CASE FinalizeDone
  BY <1>9 DEF FinalizeDone
<1> QED
  BY <1>1, <1>2, <1>3, <1>4, <1>5, <1>6, <1>7, <1>8, <1>9 DEF MainWork

\* TypeOK holds in every reachable state: in particular no send queue exceeds
\* its budget, and the main thread always joins and closes an existing session.
THEOREM TypeCorrect == Spec => []TypeOK
<1>1. TypeOK /\ [Next]_vars => TypeOK'
  <2> SUFFICES ASSUME TypeOK, [Next]_vars PROVE TypeOK'
    OBVIOUS
  <2>1. CASE UNCHANGED vars
    BY <2>1 DEF vars, processVars, mainVars, acceptorVars, socketVars, TypeOK
  <2> QED
    BY <2>1, CallTypeOK, AcceptorTypeOK, ReaderTypeOK, WriterTypeOK, MainTypeOK
    DEF Next
<1> QED
  BY <1>1, InitTypeOK, PTL DEF Spec

-----------------------------------------------------------------------------
(* Ownership of descriptors.  IInv is inductive relative to TypeOK.         *)

LEMMA InitIInv == Init => IInv
BY DEF Init, IInv, Held, Unborn, Handles, Threads, WorkList, Routed, ReaderLives,
       WriterLives

\* A step that changes neither the sockets, nor the work of the main and the
\* acceptor thread, and moves threads only between states of the same kind.
LEMMA FrameIInv ==
  ASSUME TypeOK, IInv,
         UNCHANGED <<processVars, mainVars, acceptorVars, clients, socketVars, handle>>,
         \A s \in Session :
           /\ reader[s] = "unborn" <=> reader'[s] = "unborn"
           /\ reader[s] = "done" => reader'[s] = "done"
           /\ ReaderLives(s)' /\ reader'[s] # "setup" => writer'[s] # "none"
           /\ WriterLives(s)' => WriterLives(s) \/ ReaderLives(s)
           /\ reader[s] = "unborn" => writer'[s] = writer[s]
           /\ s \in registered' => ReaderLives(s)' /\ reader'[s] # "setup",
         registered' \subseteq Session
  PROVE  IInv'
<1> USE DEF processVars, mainVars, acceptorVars, socketVars
<1>1. Held' /\ WorkList'
  BY DEF IInv, Held, WorkList
<1>2. Unborn'
  BY DEF IInv, Unborn
<1>3. Handles'
  BY DEF IInv, Handles
<1>4. Threads'
  <2>1. \A s \in Session : ReaderLives(s)' => ReaderLives(s) \/ reader[s] = "unborn"
    BY DEF ReaderLives
  <2>2. \A s \in Session : ReaderLives(s)' => reader'[s] # "unborn"
    BY DEF ReaderLives
  <2>3. \A s \in Session : ReaderLives(s)' \/ WriterLives(s)' => sock'[s] # NoFd
    BY <2>1, <2>2 DEF IInv, Threads
  <2>4. mainPc' = "joinWriter" => reader'[current'] = "done"
    BY DEF IInv, Threads, TypeOK
  <2> QED
    BY <2>3, <2>4 DEF Threads
<1>5. Routed'
  BY DEF Routed
<1> QED
  BY <1>1, <1>2, <1>3, <1>4, <1>5 DEF IInv

LEMMA CallIInv ==
  ASSUME TypeOK, IInv, NEW t \in Thread, CallStepOf(t)
  PROVE  IInv'
<1>1. UNCHANGED <<processVars, mainVars, acceptorVars, clients, socketVars, handle,
                  reader, registered>>
  BY DEF CallStepOf, EnqueueLock, CloseExchange, CloseShutdown, Notify
<1>2. writer' = writer \/ writer' = Woken(call[t].target)
  BY DEF CallStepOf, EnqueueLock, CloseExchange, CloseShutdown, Notify
<1>3. \A s \in Session : writer'[s] = writer[s] \/ (writer[s] = "waiting" /\ writer'[s] = "test")
  BY <1>2 DEF Woken, TypeOK
<1> QED
  BY <1>1, <1>3, FrameIInv
  DEF IInv, Routed, Threads, Unborn, ReaderLives, WriterLives, TypeOK

LEMMA ReaderIInv ==
  ASSUME TypeOK, IInv, NEW s \in Session, ReaderOwn(s)
  PROVE  IInv'
<1>1. UNCHANGED <<processVars, mainVars, acceptorVars, clients, socketVars, handle>>
  BY DEF ReaderOwn, SetupDone, HandshakeFailed, ReadFrame, NextFrame, ReadOverflows,
         FrameAnswered, AuthAccepted, RegisterSession, FrameRejected, RejectClose,
         BroadcastSnapshot, BroadcastDeliver, Leave, readerOnly
<1>2. /\ reader[s] \notin {"unborn", "done"}
      /\ reader'[s] \notin {"unborn", "setup"}
      /\ \A u \in Session : u # s => reader'[u] = reader[u] /\ writer'[u] = writer[u]
  BY DEF ReaderOwn, SetupDone, HandshakeFailed, ReadFrame, NextFrame, ReadOverflows,
         FrameAnswered, AuthAccepted, RegisterSession, FrameRejected, RejectClose,
         BroadcastSnapshot, BroadcastDeliver, Leave, Reading, KeepReading, AtLoopHead,
         TypeOK
<1>3. \/ writer'[s] = writer[s] /\ (reader[s] = "setup" => reader'[s] = "done")
      \/ writer'[s] = "test"
  BY DEF ReaderOwn, SetupDone, HandshakeFailed, ReadFrame, NextFrame, ReadOverflows,
         FrameAnswered, AuthAccepted, RegisterSession, FrameRejected, RejectClose,
         BroadcastSnapshot, BroadcastDeliver, Leave, Reading, KeepReading, AtLoopHead,
         TypeOK
<1>4. /\ registered' \subseteq Session
      /\ \A u \in Session : u # s => (u \in registered' => u \in registered)
      /\ s \in registered' => reader'[s] # "done"
  BY DEF ReaderOwn, SetupDone, HandshakeFailed, ReadFrame, NextFrame, ReadOverflows,
         FrameAnswered, AuthAccepted, RegisterSession, FrameRejected, RejectClose,
         BroadcastSnapshot, BroadcastDeliver, Leave, Unregister, Reading, TypeOK,
         IInv, Routed
<1> QED
  BY <1>1, <1>2, <1>3, <1>4, FrameIInv
  DEF IInv, Routed, Threads, ReaderLives, WriterLives, TypeOK

LEMMA WriterIInv ==
  ASSUME TypeOK, IInv, NEW s \in Session, WriterOwn(s) \/ SpuriousWakeup(s)
  PROVE  IInv'
<1>1. UNCHANGED <<processVars, mainVars, acceptorVars, clients, socketVars, handle,
                  reader, registered>>
  BY DEF WriterOwn, WriterTest, WriterBlock, SpuriousWakeup, WriterSends, WriterFails,
         writerOnly
<1>2. /\ WriterLives(s)
      /\ writer'[s] # "none"
      /\ \A u \in Session : u # s => writer'[u] = writer[u]
  BY DEF WriterOwn, WriterTest, WriterBlock, SpuriousWakeup, WriterSends, WriterFails,
         WriterLives, TypeOK
<1> QED
  BY <1>1, <1>2, FrameIInv
  DEF IInv, Routed, Threads, Unborn, ReaderLives, WriterLives, TypeOK

LEMMA AcceptorIInv ==
  ASSUME TypeOK, IInv, Acceptor
  PROVE  IInv'
<1> USE DEF processVars, mainVars, acceptorVars, socketVars
<1>1. ASSUME NEW s \in Session, NEW f \in Fd, AcceptNewConnection(s, f)
      PROVE  IInv'
  <2>1. /\ sock[s] = NoFd /\ writer[s] = "none" /\ ~handle[s]
        /\ s \notin clients /\ s \notin todo /\ s # current
        /\ \A u \in Session : sock[u] # f
    BY <1>1 DEF AcceptNewConnection, IInv, Unborn, Held
  <2>2. clients' = clients \cup {s}
    BY <1>1, <2>1 DEF AcceptNewConnection, Emplaced, TypeOK
  <2>3. /\ sock' = [sock EXCEPT ![s] = f]
        /\ holder' = [holder EXCEPT ![f] = s]
        /\ reader' = [reader EXCEPT ![s] = "setup"]
        /\ admitted' = s /\ acceptor' = "store" /\ acceptor = "loop"
        /\ UNCHANGED <<running, mainVars, registered, writer, handle>>
    BY <1>1 DEF AcceptNewConnection
  <2>4. Held'
    BY <2>1, <2>3 DEF IInv, Held, TypeOK
  <2>5. Unborn'
    BY <2>1, <2>2, <2>3 DEF IInv, Unborn, TypeOK
  <2>6. Handles'
    BY <1>1, <2>1, <2>3 DEF AcceptNewConnection, IInv, Handles, TypeOK
  <2>7. Threads'
    BY <2>1, <2>3 DEF IInv, Threads, ReaderLives, WriterLives, TypeOK
  <2>8. WorkList'
    BY <2>1, <2>2, <2>3 DEF IInv, WorkList, TypeOK
  <2>9. Routed'
    <3>1. s \notin registered
      BY <1>1 DEF AcceptNewConnection, IInv, Routed, ReaderLives
    <3> QED
      BY <2>3, <3>1 DEF IInv, Routed, ReaderLives, TypeOK
  <2> QED
    BY <2>4, <2>5, <2>6, <2>7, <2>8, <2>9 DEF IInv
<1>2. CASE StoreReaderThread
  <2>2. Handles'
    BY <1>2 DEF StoreReaderThread, IInv, Handles, TypeOK
  <2>3. Unborn'
    BY <1>2 DEF StoreReaderThread, IInv, Unborn, Handles, TypeOK
  <2> QED
    BY <1>2, <2>2, <2>3 DEF StoreReaderThread, IInv, Held, Threads, WorkList, Routed,
       ReaderLives, WriterLives
<1>3. CASE AcceptLoopEnds
  BY <1>3 DEF AcceptLoopEnds, IInv, Held, Unborn, Handles, Threads, WorkList, Routed,
     ReaderLives, WriterLives
<1> QED
  BY <1>1, <1>2, <1>3 DEF Acceptor

LEMMA MainIInv ==
  ASSUME TypeOK, IInv, StartServer \/ StopServer \/ MainWork
  PROVE  IInv'
<1> USE DEF processVars, acceptorVars, socketVars, mainVars, mainOnly, MainAt, IInv, Held,
            Unborn, Handles, Threads, WorkList, Routed, ReaderLives, WriterLives
<1>1. CASE StartServer
  BY <1>1 DEF StartServer
<1>2. CASE StopServer
  BY <1>2 DEF StopServer
<1>3. CASE ReapClosedClients
  BY <1>3 DEF ReapClosedClients, Finished, TypeOK
<1>4. CASE JoinAcceptor
  BY <1>4 DEF JoinAcceptor, TakeClients, TypeOK
<1>5. ASSUME NEW s \in Session, RequestClose(s) PROVE IInv'
  BY <1>5 DEF RequestClose
<1>6. ASSUME NEW s \in Session, FinalizeClient(s) PROVE IInv'
  BY <1>6 DEF FinalizeClient, TypeOK
<1>7. CASE JoinReader
  BY <1>7 DEF JoinReader, ReaderJoined, Finished, TypeOK
<1>8. CASE JoinWriter
  <2>1. current \in Session
    BY <1>8 DEF JoinWriter, TypeOK
  <2>2. reader[current] = "done" /\ writer[current] \in {"none", "done"}
    BY <1>8 DEF JoinWriter, WriterJoined
  <2>3. \A u \in Session : u # current /\ sock[u] # NoFd => holder'[sock[u]] = u
    BY <1>8, <2>1 DEF JoinWriter, TypeOK
  <2>4. /\ \A u \in Session : u # current => sock'[u] = sock[u]
        /\ sock'[current] = NoFd
        /\ current' = NoSession /\ mainPc' = "finalize"
        /\ UNCHANGED <<running, todo, acceptor, admitted, clients, registered, reader,
                       writer, handle>>
    BY <1>8, <2>1 DEF JoinWriter, TypeOK
  <2>5. Held' /\ Unborn' /\ Routed'
    BY <2>1, <2>2, <2>3, <2>4
  <2>6. Handles' /\ Threads'
    BY <1>8, <2>1, <2>2, <2>4 DEF JoinWriter, TypeOK
  <2>7. WorkList'
    BY <2>1, <2>4 DEF TypeOK
  <2> QED
    BY <2>5, <2>6, <2>7
<1>9. CASE FinalizeDone
  BY <1>9 DEF FinalizeDone
<1> QED
  BY <1>1, <1>2, <1>3, <1>4, <1>5, <1>6, <1>7, <1>8, <1>9 DEF MainWork

\* The inductive invariant holds in every reachable state.
THEOREM OwnershipInvariant == Spec => [](TypeOK /\ IInv)
<1>1. TypeOK /\ IInv /\ TypeOK' /\ [Next]_vars => IInv'
  <2> SUFFICES ASSUME TypeOK, IInv, [Next]_vars PROVE IInv'
    OBVIOUS
  <2>1. CASE UNCHANGED vars
    BY <2>1 DEF vars, processVars, mainVars, acceptorVars, socketVars, IInv, Held,
                Unborn, Handles, Threads, WorkList, Routed, ReaderLives, WriterLives
  <2> QED
    BY <2>1, CallIInv, AcceptorIInv, ReaderIInv, WriterIInv, MainIInv DEF Next
<1> QED
  BY <1>1, InitIInv, TypeCorrect, PTL DEF Spec

\* No thread ever uses a descriptor that is closed or another session's.
THEOREM DescriptorsAreOwned == Spec => []DescriptorsOwned
<1>1. TypeOK /\ IInv => DescriptorsOwned
  BY DEF TypeOK, IInv, Held, Threads, DescriptorsOwned
<1> QED
  BY <1>1, OwnershipInvariant, PTL

\* Every router handle belongs to a session whose threads and descriptor live.
THEOREM RouterHandlesAreLive == Spec => []RouterHandlesLive
<1>1. TypeOK /\ IInv => RouterHandlesLive
  BY DEF TypeOK, IInv, Routed, Threads, RouterHandlesLive
<1> QED
  BY <1>1, OwnershipInvariant, PTL

-----------------------------------------------------------------------------
(* Limits.                                                                  *)

InSetup == {s \in Session : reader[s] = "setup"}

\* The counter of handshakes and the number of clients, with what a cardinality
\* needs: both sets grow one session at a time from the empty set.
Counted ==
  /\ IsFiniteSet(InSetup) /\ IsFiniteSet(clients)
  /\ TlsEnabled => handshakes = Cardinality(InSetup) /\ handshakes <= MaxHandshakes
  /\ Cardinality(clients) <= MaxConnections

LEMMA InitCounted == Init => Counted
<1> SUFFICES ASSUME Init PROVE Counted
  OBVIOUS
<1>1. InSetup = {}
  BY DEF Init, InSetup
<1> QED
  BY <1>1, FS_EmptySet DEF Init, Counted

LEMMA CountedFrame ==
  ASSUME Counted, InSetup' = InSetup, handshakes' = handshakes,
         clients' = clients
  PROVE  Counted'
BY DEF Counted

\* Taking sessions out of the map can only lower the count.
LEMMA CountedShrinks ==
  ASSUME Counted, InSetup' = InSetup, handshakes' = handshakes,
         clients' \subseteq clients
  PROVE  Counted'
<1>1. IsFiniteSet(clients') /\ Cardinality(clients') <= Cardinality(clients)
  BY FS_Subset DEF Counted
<1>2. Cardinality(clients) \in Nat /\ Cardinality(clients') \in Nat
  BY <1>1, FS_CardinalityType DEF Counted
<1> QED
  BY <1>1, <1>2 DEF Counted

\* Both ways out of the handshake give the slot back.
LEMMA CountedSetupEnds ==
  ASSUME TypeOK, Counted, NEW s \in Session, SetupDone(s) \/ HandshakeFailed(s)
  PROVE  Counted'
<1>1. s \in InSetup /\ InSetup' = InSetup \ {s}
  BY DEF SetupDone, HandshakeFailed, Reading, InSetup, TypeOK
<1>2. /\ IsFiniteSet(InSetup')
      /\ Cardinality(InSetup') = Cardinality(InSetup) - 1
  BY <1>1, FS_RemoveElement DEF Counted
<1>3. TlsEnabled => handshakes' = handshakes - 1
  BY DEF SetupDone, HandshakeFailed, ReleaseSlot
<1>4. clients' = clients
  BY DEF SetupDone, HandshakeFailed, readerOnly
<1>5. Cardinality(InSetup) \in Nat
  BY FS_CardinalityType DEF Counted
<1> QED
  BY <1>2, <1>3, <1>4, <1>5 DEF Counted

LEMMA CountedAccept ==
  ASSUME TypeOK, IInv, Counted, NEW s \in Session, NEW f \in Fd, AcceptNewConnection(s, f)
  PROVE  Counted'
<1>1. s \notin InSetup /\ InSetup' = InSetup \cup {s}
  BY DEF AcceptNewConnection, InSetup, TypeOK
<1>2. /\ IsFiniteSet(InSetup')
      /\ Cardinality(InSetup') = Cardinality(InSetup) + 1
  BY <1>1, FS_AddElement DEF Counted
<1>3. TlsEnabled => handshakes' = handshakes + 1 /\ ~(handshakes >= MaxHandshakes)
  BY DEF AcceptNewConnection, AtHandshakeLimit
<1>4. IsFiniteSet(clients') /\ Cardinality(clients') <= MaxConnections
  <2>1. CASE clients' = clients
    BY <2>1 DEF Counted
  <2>2. CASE clients' = clients \cup {s}
    <3>1. s \notin clients
      BY DEF AcceptNewConnection, IInv, Unborn
    <3>2. IsFiniteSet(clients') /\ Cardinality(clients') = Cardinality(clients) + 1
      BY <2>2, <3>1, FS_AddElement DEF Counted
    <3>3. Cardinality(clients) \in Nat /\ ~(Cardinality(clients) >= MaxConnections)
      BY FS_CardinalityType DEF Counted, AcceptNewConnection, AtConnectionLimit
    <3> QED
      BY <3>2, <3>3
  <2> QED
    BY <2>1, <2>2 DEF AcceptNewConnection, Emplaced
<1>5. Cardinality(InSetup) \in Nat
  BY FS_CardinalityType DEF Counted
<1> QED
  BY <1>2, <1>3, <1>4, <1>5 DEF Counted

LEMMA NextCounted ==
  ASSUME TypeOK, IInv, Counted, [Next]_vars
  PROVE  Counted'
<1> USE DEF processVars, mainVars, acceptorVars, socketVars
<1>1. CASE UNCHANGED vars
  BY <1>1, CountedFrame DEF vars, InSetup
<1>2. ASSUME NEW t \in Thread, CallStepOf(t) PROVE Counted'
  BY <1>2, CountedFrame
  DEF CallStepOf, EnqueueLock, CloseExchange, CloseShutdown, Notify, InSetup
<1>3. CASE Acceptor
  <2>1. CASE StoreReaderThread \/ AcceptLoopEnds
    BY <2>1, CountedFrame DEF StoreReaderThread, AcceptLoopEnds, InSetup
  <2> QED
    BY <1>3, <2>1, CountedAccept DEF Acceptor
<1>4. ASSUME NEW s \in Session, ReaderOwn(s) PROVE Counted'
  <2>1. CASE SetupDone(s) \/ HandshakeFailed(s)
    BY <2>1, CountedSetupEnds
  <2>2. CASE ~(SetupDone(s) \/ HandshakeFailed(s))
    <3>1. InSetup' = InSetup
      BY <1>4, <2>2
      DEF ReaderOwn, ReadFrame, NextFrame, ReadOverflows, FrameAnswered, AuthAccepted,
          RegisterSession, FrameRejected, RejectClose, BroadcastSnapshot,
          BroadcastDeliver, Leave, Reading, KeepReading, AtLoopHead, InSetup, TypeOK
    <3>2. handshakes' = handshakes /\ clients' = clients
      BY <1>4, <2>2
      DEF ReaderOwn, ReadFrame, NextFrame, ReadOverflows, FrameAnswered, AuthAccepted,
          RegisterSession, FrameRejected, RejectClose, BroadcastSnapshot,
          BroadcastDeliver, Leave, readerOnly
    <3> QED
      BY <3>1, <3>2, CountedFrame
  <2> QED
    BY <2>1, <2>2
<1>5. ASSUME NEW s \in Session, WriterOwn(s) \/ SpuriousWakeup(s) PROVE Counted'
  BY <1>5, CountedFrame
  DEF WriterOwn, WriterTest, WriterBlock, SpuriousWakeup, WriterSends, WriterFails,
      writerOnly, InSetup
<1>6. CASE StartServer \/ StopServer \/ MainWork
  <2>1. InSetup' = InSetup /\ handshakes' = handshakes /\ clients' \subseteq clients
    BY <1>6
    DEF StartServer, StopServer, MainWork, ReapClosedClients, JoinAcceptor, RequestClose,
        FinalizeClient, JoinReader, JoinWriter, FinalizeDone, mainOnly, InSetup
  <2> QED
    BY <2>1, CountedShrinks
<1> QED
  BY <1>1, <1>2, <1>3, <1>4, <1>5, <1>6 DEF Next

\* activeHandshakes_ never leaks and neither limit is ever exceeded.
THEOREM SlotsAreAccounted == Spec => []SlotsAccounted
<1>1. TypeOK /\ IInv /\ Counted /\ [Next]_vars => Counted'
  BY NextCounted
<1>2. Counted => SlotsAccounted
  BY DEF Counted, SlotsAccounted, InSetup
<1> QED
  BY <1>1, <1>2, InitCounted, OwnershipInvariant, PTL DEF Spec

\* Every session with a descriptor is in the map, under its own key, or in the
\* hands of the main thread, and the map respects its limit.
THEOREM NoSessionIsLost == Spec => []NoSessionLost
<1>1. TypeOK /\ IInv /\ Counted /\ [Next]_vars => Counted'
  BY NextCounted
<1>2. TypeOK /\ IInv /\ Counted => NoSessionLost
  BY DEF TypeOK, IInv, Held, WorkList, Counted, NoSessionLost
<1> QED
  BY <1>1, <1>2, InitCounted, OwnershipInvariant, PTL DEF Spec

-----------------------------------------------------------------------------
(* Wakeups after a push.                                                    *)

\* With NoStrandedMessage this is inductive: a writer about to sleep has seen an
\* empty queue and holds the mutex that a push needs, and a writer that is not
\* past its last write is inside no call.
Quiet ==
  \A s \in Session :
    /\ writer[s] = "blocking" => queue[s] = 0
    /\ writer[s] # "done" => call[Wr(s)] = Idle

Notifies(t, s) == call[t].target = s /\ call[t].step \in {"wake", "notify"}

LEMMA InitQuiet == Init => Quiet /\ NoStrandedMessage
<1> SUFFICES ASSUME Init PROVE Quiet /\ NoStrandedMessage
  OBVIOUS
<1>1. \A s \in Session : call[Wr(s)] = Idle
  BY ThreadsAreThreads DEF Init
<1> QED
  BY <1>1 DEF Init, Quiet, NoStrandedMessage

\* A step that keeps the queues and the notifiers and wakes or starts writers.
LEMMA QuietFrame ==
  ASSUME Quiet, NoStrandedMessage, queue' = queue,
         \A s \in Session :
           /\ writer'[s] = writer[s] \/ writer'[s] \in {"test", "write", "done"}
           /\ writer'[s] # "done" => call'[Wr(s)] = Idle,
         \A t \in Thread, s \in Session :
           Notifies(t, s) => Notifies(t, s)' \/ writer'[s] # "waiting"
  PROVE  Quiet' /\ NoStrandedMessage'
BY DEF Quiet, NoStrandedMessage, Notifies

LEMMA DistinctThreads ==
  \A s, u \in Session : Wr(s) # Main /\ Wr(s) # Rd(u) /\ (Wr(s) = Wr(u) => s = u)
BY DEF Wr, Rd, Main

LEMMA IdleNotifiesNobody == \A t, s : call[t] = Idle => ~Notifies(t, s)
BY DEF Notifies, Idle

LEMMA CallQuiet ==
  ASSUME TypeOK, Quiet, NoStrandedMessage, NEW t \in Thread, CallStepOf(t)
  PROVE  Quiet' /\ NoStrandedMessage'
<1>1. call[t] # Idle
  BY DEF CallStepOf, EnqueueLock, CloseExchange, CloseShutdown, Notify, Idle
<1>2. PICK tgt \in Session : tgt = call[t].target
  BY <1>1, CallSteps
<1>3. \A u \in Session : t = Wr(u) => writer[u] = "done"
  BY <1>1 DEF Quiet
<1>4. \A u \in Thread : u # t => call'[u] = call[u]
  BY DEF CallStepOf, EnqueueLock, CloseExchange, CloseShutdown, Notify, TypeOK
<1>5. CASE EnqueueLock(t)
  <2>1. /\ writer' = writer
        /\ writer[tgt] # "blocking"
        /\ \A s \in Session : s # tgt => queue'[s] = queue[s]
    BY <1>2, <1>5 DEF EnqueueLock, QueueMutexFree, TypeOK
  <2>2. \A s : ~Notifies(t, s)
    BY <1>5 DEF EnqueueLock, Notifies
  <2>3. queue'[tgt] = queue[tgt] \/ Notifies(t, tgt)'
    <3>1. CASE EnqueueRefused(tgt)
      BY <1>2, <1>5, <3>1 DEF EnqueueLock
    <3>2. CASE ~EnqueueRefused(tgt)
      <4>1. call' = [call EXCEPT ![t] = [call[t] EXCEPT !.step = "wake"]]
        BY <1>2, <1>5, <3>2 DEF EnqueueLock, TypeOK
      <4>2. call'[t] = [call[t] EXCEPT !.step = "wake"]
        BY <4>1 DEF TypeOK
      <4>3. call[t] \in [step : {"lock", "wake", "exchange", "shutdown", "notify"},
                         target : Session, fd : Fd \cup {NoFd}, locked : BOOLEAN]
        BY <1>1 DEF TypeOK, Call
      <4>4. call'[t].step = "wake" /\ call'[t].target = call[t].target
        BY <4>2, <4>3
      <4> QED
        BY <1>2, <4>4 DEF Notifies
    <3> QED
      BY <3>1, <3>2
  <2>4. Quiet'
    BY <1>3, <1>4, <2>1, ThreadsAreThreads DEF Quiet
  <2>5. NoStrandedMessage'
    <3> SUFFICES ASSUME NEW s \in Session, writer'[s] = "waiting", queue'[s] > 0
                 PROVE  \E u \in Thread : Notifies(u, s)'
      BY DEF NoStrandedMessage, Notifies
    <3>1. CASE s = tgt /\ Notifies(t, tgt)'
      BY <3>1
    <3>2. CASE queue'[s] = queue[s]
      <4>1. PICK u \in Thread : Notifies(u, s)
        BY <2>1, <3>2 DEF NoStrandedMessage, Notifies
      <4>2. u # t
        BY <2>2, <4>1
      <4> QED
        BY <1>4, <4>1, <4>2 DEF Notifies
    <3> QED
      BY <2>1, <2>3, <3>1, <3>2
  <2> QED
    BY <2>4, <2>5
<1>6. CASE CloseExchange(t) \/ CloseShutdown(t)
  <2>1. queue' = queue /\ writer' = writer
    BY <1>6 DEF CloseExchange, CloseShutdown
  <2>2. \A s : ~Notifies(t, s)
    BY <1>6 DEF CloseExchange, CloseShutdown, Notifies
  <2>3. \A u \in Thread, s \in Session : Notifies(u, s) => Notifies(u, s)'
    BY <1>4, <2>2 DEF Notifies
  <2>4. \A s \in Session : writer'[s] # "done" => call'[Wr(s)] = Idle
    BY <1>3, <1>4, <2>1, ThreadsAreThreads DEF Quiet
  <2> QED
    BY <2>1, <2>3, <2>4, QuietFrame
<1>7. CASE Notify(t)
  <2>1. queue' = queue /\ writer' = Woken(tgt)
    BY <1>2, <1>7 DEF Notify
  <2>2. \A s \in Session : writer'[s] = writer[s] \/ writer'[s] = "test"
    BY <2>1 DEF Woken, TypeOK
  <2>3. writer'[tgt] # "waiting"
    BY <2>1 DEF Woken, TypeOK
  <2>4. \A u \in Thread, s \in Session :
          Notifies(u, s) => Notifies(u, s)' \/ writer'[s] # "waiting"
    BY <1>2, <1>4, <2>3 DEF Notifies
  <2>5. \A s \in Session : writer'[s] # "done" => call'[Wr(s)] = Idle
    <3> SUFFICES ASSUME NEW s \in Session, writer'[s] # "done" PROVE call'[Wr(s)] = Idle
      OBVIOUS
    <3>1. writer[s] # "done"
      BY <2>1 DEF Woken, TypeOK
    <3> QED
      BY <1>3, <1>4, <3>1, ThreadsAreThreads DEF Quiet
  <2> QED
    BY <2>1, <2>2, <2>4, <2>5, QuietFrame
<1> QED
  BY <1>5, <1>6, <1>7 DEF CallStepOf

\* A thread that starts a call was in none.
LEMMA CallStarts ==
  ASSUME TypeOK, Quiet, NoStrandedMessage, NEW t \in Thread, call[t] = Idle,
         queue' = queue, \A u \in Thread : u # t => call'[u] = call[u],
         \A s \in Session :
           /\ writer'[s] = writer[s] \/ writer'[s] \in {"test", "write", "done"}
           /\ writer[s] = "done" => writer'[s] = "done" \/ call[Wr(s)] = Idle
           /\ t = Wr(s) => writer'[s] = "done" \/ call'[t] = Idle
  PROVE  Quiet' /\ NoStrandedMessage'
<1>1. \A u \in Thread, s \in Session : Notifies(u, s) => Notifies(u, s)'
  BY IdleNotifiesNobody DEF Notifies
<1>2. \A s \in Session : writer'[s] # "done" => call'[Wr(s)] = Idle
  BY ThreadsAreThreads DEF Quiet
<1> QED
  BY <1>1, <1>2, QuietFrame

\* No writer exists before the handshake is over.
NoEarlyWriter == \A s \in Session : reader[s] \in {"unborn", "setup"} => writer[s] = "none"

LEMMA WriterStartsOnce == Spec => []NoEarlyWriter
<1>1. Init => NoEarlyWriter
  BY DEF Init, NoEarlyWriter
<1>2. ASSUME TypeOK, NoEarlyWriter, [Next]_vars PROVE NoEarlyWriter'
  <2>1. CASE UNCHANGED vars
    BY <1>2, <2>1 DEF vars, NoEarlyWriter
  <2>2. ASSUME NEW t \in Thread, CallStepOf(t) PROVE NoEarlyWriter'
    BY <1>2, <2>2
    DEF CallStepOf, EnqueueLock, CloseExchange, CloseShutdown, Notify, Woken, TypeOK,
        NoEarlyWriter
  <2>3. CASE Acceptor
    BY <1>2, <2>3
    DEF Acceptor, AcceptNewConnection, StoreReaderThread, AcceptLoopEnds, TypeOK,
        NoEarlyWriter
  <2>4. ASSUME NEW s \in Session, ReaderOwn(s) PROVE NoEarlyWriter'
    <3>1. \A u \in Session : u # s => reader'[u] = reader[u] /\ writer'[u] = writer[u]
      BY <1>2, <2>4
      DEF ReaderOwn, SetupDone, HandshakeFailed, ReadFrame, NextFrame, ReadOverflows,
          FrameAnswered, AuthAccepted, RegisterSession, FrameRejected, RejectClose,
          BroadcastSnapshot, BroadcastDeliver, Leave, TypeOK
    <3>2. reader'[s] \notin {"unborn", "setup"}
      BY <1>2, <2>4
      DEF ReaderOwn, SetupDone, HandshakeFailed, ReadFrame, NextFrame, ReadOverflows,
          FrameAnswered, AuthAccepted, RegisterSession, FrameRejected, RejectClose,
          BroadcastSnapshot, BroadcastDeliver, Leave, TypeOK
    <3> QED
      BY <1>2, <3>1, <3>2 DEF NoEarlyWriter
  <2>5. ASSUME NEW s \in Session, WriterOwn(s) \/ SpuriousWakeup(s) PROVE NoEarlyWriter'
    BY <1>2, <2>5
    DEF WriterOwn, WriterTest, WriterBlock, WriterSends, WriterFails, SpuriousWakeup,
        writerOnly, TypeOK, NoEarlyWriter
  <2>6. CASE StartServer \/ StopServer \/ MainWork
    BY <1>2, <2>6
    DEF StartServer, StopServer, MainWork, ReapClosedClients, JoinAcceptor, RequestClose,
        FinalizeClient, JoinReader, JoinWriter, FinalizeDone, mainOnly, NoEarlyWriter
  <2> QED
    BY <1>2, <2>1, <2>2, <2>3, <2>4, <2>5, <2>6 DEF Next
<1> QED
  BY <1>1, <1>2, TypeCorrect, PTL DEF Spec

LEMMA NextQuiet ==
  ASSUME TypeOK, NoEarlyWriter, Quiet, NoStrandedMessage, [Next]_vars
  PROVE  Quiet' /\ NoStrandedMessage'
<1> USE DEF processVars, mainVars, acceptorVars, socketVars
<1>1. CASE UNCHANGED vars
  BY <1>1, QuietFrame DEF vars, Quiet, Notifies
<1>2. ASSUME NEW t \in Thread, CallStepOf(t) PROVE Quiet' /\ NoStrandedMessage'
  BY <1>2, CallQuiet
<1>3. CASE Acceptor
  <2>1. queue' = queue /\ writer' = writer /\ call' = call
    BY <1>3 DEF Acceptor, AcceptNewConnection, StoreReaderThread, AcceptLoopEnds
  <2> QED
    BY <2>1, QuietFrame DEF Quiet, Notifies
<1>4. ASSUME NEW s \in Session, ReaderOwn(s) PROVE Quiet' /\ NoStrandedMessage'
  <2>1. call[Rd(s)] = Idle /\ queue' = queue
    BY <1>4
    DEF ReaderOwn, SetupDone, HandshakeFailed, ReadFrame, NextFrame, ReadOverflows,
        FrameAnswered, AuthAccepted, RegisterSession, FrameRejected, RejectClose,
        BroadcastSnapshot, BroadcastDeliver, Leave, Reading, KeepReading, AtLoopHead,
        Free, readerOnly
  <2>2. \A u \in Thread : u # Rd(s) => call'[u] = call[u]
    BY <1>4
    DEF ReaderOwn, SetupDone, HandshakeFailed, ReadFrame, NextFrame, ReadOverflows,
        FrameAnswered, AuthAccepted, RegisterSession, FrameRejected, RejectClose,
        BroadcastSnapshot, BroadcastDeliver, Leave, TypeOK
  <2>3. CASE SetupDone(s)
    <3>1. call' = call /\ \A u \in Session : writer'[u] = writer[u] \/ writer'[u] = "test"
      BY <2>3 DEF SetupDone, TypeOK
    <3>2. writer[s] = "none"
      BY <2>3 DEF SetupDone, Reading, NoEarlyWriter
    <3>3. \A u \in Session : writer'[u] # "done" => call'[Wr(u)] = Idle
      BY <2>3, <3>1, <3>2 DEF SetupDone, Quiet, TypeOK
    <3> QED
      BY <2>1, <3>1, <3>3, QuietFrame DEF Notifies
  <2>4. CASE ~SetupDone(s)
    <3>1. writer' = writer
      BY <1>4, <2>4
      DEF ReaderOwn, HandshakeFailed, ReadFrame, NextFrame, ReadOverflows,
          FrameAnswered, AuthAccepted, RegisterSession, FrameRejected, RejectClose,
          BroadcastSnapshot, BroadcastDeliver, Leave
    <3> QED
      BY <2>1, <2>2, <3>1, CallStarts, ThreadsAreThreads, DistinctThreads
  <2> QED
    BY <2>3, <2>4
<1>5. ASSUME NEW s \in Session, WriterOwn(s) \/ SpuriousWakeup(s)
      PROVE  Quiet' /\ NoStrandedMessage'
  <2>1. CASE WriterTest(s)
    <3>1. /\ call' = call
          /\ \A u \in Session : u # s => writer'[u] = writer[u] /\ queue'[u] = queue[u]
          /\ writer[s] = "test"
          /\ writer'[s] = "blocking" => queue'[s] = 0
          /\ writer'[s] # "waiting"
      BY <2>1 DEF WriterTest, writerOnly, TypeOK
    <3> QED
      BY <3>1 DEF Quiet, NoStrandedMessage
  <2>2. CASE WriterBlock(s)
    <3>1. /\ call' = call /\ queue' = queue
          /\ \A u \in Session : u # s => writer'[u] = writer[u]
          /\ writer[s] = "blocking" /\ writer'[s] = "waiting"
      BY <2>2 DEF WriterBlock, writerOnly, TypeOK
    <3>2. queue'[s] = 0
      BY <3>1 DEF Quiet
    <3> QED
      BY <3>1, <3>2 DEF Quiet, NoStrandedMessage
  <2>3. CASE SpuriousWakeup(s) \/ WriterSends(s)
    <3>1. /\ call' = call /\ queue' = queue
          /\ \A u \in Session : u # s => writer'[u] = writer[u]
          /\ writer[s] # "done" /\ writer'[s] = "test"
      BY <2>3 DEF SpuriousWakeup, WriterSends, writerOnly, TypeOK
    <3> QED
      BY <3>1 DEF Quiet, NoStrandedMessage
  <2>4. CASE WriterFails(s)
    <3>1. /\ queue' = queue
          /\ \A u \in Session : u # s => writer'[u] = writer[u]
          /\ writer[s] = "write" /\ writer'[s] = "done"
          /\ \A u \in Thread : u # Wr(s) => call'[u] = call[u]
      BY <2>4 DEF WriterFails, writerOnly, TypeOK
    <3>2. call[Wr(s)] = Idle
      BY <3>1 DEF Quiet
    <3> QED
      BY <3>1, <3>2, CallStarts, ThreadsAreThreads, DistinctThreads
  <2> QED
    BY <1>5, <2>1, <2>2, <2>3, <2>4 DEF WriterOwn
<1>6. CASE StartServer \/ StopServer \/ MainWork
  <2>1. queue' = queue /\ writer' = writer /\ call[Main] = Idle
    BY <1>6
    DEF StartServer, StopServer, MainWork, ReapClosedClients, JoinAcceptor, RequestClose,
        FinalizeClient, JoinReader, JoinWriter, FinalizeDone, mainOnly, MainAt, Free
  <2>2. \A u \in Thread : u # Main => call'[u] = call[u]
    BY <1>6
    DEF StartServer, StopServer, MainWork, ReapClosedClients, JoinAcceptor, RequestClose,
        FinalizeClient, JoinReader, JoinWriter, FinalizeDone, mainOnly, TypeOK
  <2> QED
    BY <2>1, <2>2, CallStarts, ThreadsAreThreads, DistinctThreads
<1> QED
  BY <1>1, <1>2, <1>3, <1>4, <1>5, <1>6 DEF Next

\* A pushed message always wakes its writer: the lost wakeup that a close can
\* suffer (StopJoinsEveryThread fails) cannot happen to a message.
THEOREM NoMessageIsStranded == Spec => []NoStrandedMessage
<1>1. TypeOK /\ NoEarlyWriter /\ Quiet /\ NoStrandedMessage /\ [Next]_vars =>
        Quiet' /\ NoStrandedMessage'
  BY NextQuiet
<1> QED
  BY <1>1, InitQuiet, TypeCorrect, WriterStartsOnce, PTL DEF Spec

-----------------------------------------------------------------------------
(* What stopServer leaves.                                                  *)

\* What main has emptied stays empty: the map after the acceptor is joined, the calls of a
\* thread that is joined or was never started, and the kernel's side of a closed descriptor.
Emptied ==
  /\ ~running /\ mainPc # "joinAcceptor" => clients = {}
  /\ ~TlsEnabled => handshakes = 0
  /\ \A f \in Fd : holder[f] # NoSession => sock[holder[f]] = f
  /\ mainPc \in {"idle", "joinAcceptor", "joinWriter"} => Free(Main)
  /\ \A s \in Session : sock[s] = NoFd => Free(Rd(s)) /\ Free(Wr(s))
  /\ \A s \in Session : s \in todo \cup {current} /\ ~handle[s] => Free(Rd(s))
  /\ mainPc = "joinWriter" => Free(Rd(current))

\* At the start no thread, session or descriptor is in use.
LEMMA InitEmptied == Init => Emptied
<1> SUFFICES ASSUME Init PROVE Emptied
  OBVIOUS
<1>1. \A t \in Thread : Free(t)
  BY DEF Init, Free
<1> QED
  BY <1>1, ThreadsAreThreads DEF Init, Emptied

\* A step of one thread that starts no call, or that of a session which is still open and
\* with whose reader main is not done.
LEMMA EmptiedFrame ==
  ASSUME Emptied,
         UNCHANGED <<processVars, mainPc, todo, current, clients, socketVars, handle>>,
         ~TlsEnabled => handshakes' = handshakes,
         \A t \in Thread : Free(t) => Free(t)' \/ \E s \in Session :
           /\ sock[s] # NoFd
           /\ t = Wr(s) \/ (t = Rd(s) /\ reader[s] # "done"),
         TypeOK, IInv
  PROVE  Emptied'
<1> USE DEF processVars, socketVars
<1>1. \A t \in Thread : Free(t) /\ ~Free(t)' =>
        t # Main /\ \A s \in Session : t \in {Rd(s), Wr(s)} => sock[s] # NoFd
  BY DEF Main, Rd, Wr
<1>2. \A s \in Session : Free(Rd(s)) /\ ~Free(Rd(s))' => reader[s] # "done"
  BY ThreadsAreThreads DEF Rd, Wr
<1>3. \A s \in Session : s \in todo \cup {current} /\ ~handle[s] => reader[s] = "done"
  BY DEF IInv, Handles
<1>4. mainPc = "joinWriter" => reader[current] = "done" /\ current \in Session
  BY DEF IInv, Threads, TypeOK
<1>5. mainPc' \in {"idle", "joinAcceptor", "joinWriter"} => Free(Main)'
  BY <1>1, ThreadsAreThreads DEF Emptied
<1>6. \A s \in Session : sock'[s] = NoFd => Free(Rd(s))' /\ Free(Wr(s))'
  BY <1>1, ThreadsAreThreads DEF Emptied
<1>7. \A s \in Session : s \in todo' \cup {current'} /\ ~handle'[s] => Free(Rd(s))'
  BY <1>2, <1>3 DEF Emptied
<1>8. mainPc' = "joinWriter" => Free(Rd(current))'
  BY <1>2, <1>4 DEF Emptied
<1> QED
  BY <1>5, <1>6, <1>7, <1>8 DEF Emptied

\* The acceptor uses a descriptor and a session that nobody has.
LEMMA AcceptorEmptied ==
  ASSUME TypeOK, IInv, Emptied, Acceptor
  PROVE  Emptied'
<1> USE DEF processVars, mainVars, acceptorVars, socketVars
<1>1. ASSUME NEW s \in Session, NEW f \in Fd, AcceptNewConnection(s, f) PROVE Emptied'
  <2>1. /\ running /\ holder[f] = NoSession /\ reader[s] = "unborn" /\ ~AtHandshakeLimit
        /\ holder' = [holder EXCEPT ![f] = s] /\ sock' = [sock EXCEPT ![s] = f]
        /\ ~TlsEnabled => handshakes' = handshakes
        /\ UNCHANGED <<running, mainPc, todo, current, handle, call>>
    BY <1>1 DEF AcceptNewConnection
  <2>2. sock[s] = NoFd
    BY <2>1 DEF IInv, Unborn
  <2>3. \A g \in Fd : holder'[g] # NoSession => sock'[holder'[g]] = g
    BY <2>1, <2>2 DEF Emptied, TypeOK
  <2>4. \A u \in Session : sock'[u] = NoFd => sock[u] = NoFd
    BY <2>1, <2>2 DEF TypeOK
  <2> QED
    BY <2>1, <2>3, <2>4 DEF Emptied, Free
<1>2. CASE StoreReaderThread
  BY <1>2 DEF StoreReaderThread, Emptied, Free, TypeOK
<1>3. CASE AcceptLoopEnds
  BY <1>3 DEF AcceptLoopEnds, Emptied, Free
<1> QED
  BY <1>1, <1>2, <1>3 DEF Acceptor

\* Main empties the map once nobody can add to it, and closes a descriptor after both
\* threads of its session have come to their end.
LEMMA MainEmptied ==
  ASSUME TypeOK, IInv, Emptied, StartServer \/ StopServer \/ MainWork
  PROVE  Emptied'
<1> USE DEF processVars, acceptorVars, socketVars, mainVars, mainOnly, MainAt, Free
<1>1. CASE StartServer
  BY <1>1 DEF StartServer, Emptied
<1>2. CASE StopServer
  BY <1>2 DEF StopServer, Emptied
<1>3. CASE ReapClosedClients
  <2>1. \A s \in Session : s \in todo' => Free(Rd(s))
    BY <1>3 DEF ReapClosedClients, Finished
  <2>2. running
    BY <1>3 DEF ReapClosedClients, Emptied
  <2> QED
    BY <1>3, <2>1, <2>2 DEF ReapClosedClients, Emptied, IInv, WorkList, TypeOK
<1>4. CASE JoinAcceptor
  <2>1. \A s \in Session : s \in todo' => handle[s]
    BY <1>4 DEF JoinAcceptor, TakeClients, IInv, Handles, Unborn, TypeOK
  <2>2. current = NoSession
    BY <1>4 DEF JoinAcceptor, IInv, WorkList
  <2> QED
    BY <1>4, <2>1, <2>2 DEF JoinAcceptor, Emptied
<1>5. ASSUME NEW s \in Session, RequestClose(s) PROVE Emptied'
  <2>1. \A u \in Session : call'[Rd(u)] = call[Rd(u)] /\ call'[Wr(u)] = call[Wr(u)]
    BY <1>5, ThreadsAreThreads DEF RequestClose, TypeOK, Rd, Wr, Main
  <2> QED
    BY <1>5, <2>1 DEF RequestClose, Emptied
<1>6. ASSUME NEW s \in Session, FinalizeClient(s) PROVE Emptied'
  <2>1. \A u \in Session : call'[Rd(u)] = call[Rd(u)] /\ call'[Wr(u)] = call[Wr(u)]
    BY <1>6, ThreadsAreThreads DEF FinalizeClient, TypeOK, Rd, Wr, Main
  <2> QED
    BY <1>6, <2>1 DEF FinalizeClient, Emptied
<1>7. CASE JoinReader
  <2>1. current \in Session
    BY <1>7 DEF JoinReader, TypeOK
  <2>2. Free(Rd(current))
    BY <1>7, <2>1 DEF JoinReader, ReaderJoined, Finished, Emptied, TypeOK
  <2> QED
    BY <1>7, <2>2 DEF JoinReader, Emptied
<1>8. CASE JoinWriter
  <2>1. current \in Session /\ Free(Wr(current)) /\ Free(Rd(current)) /\ Free(Main)
    BY <1>8 DEF JoinWriter, WriterJoined, TypeOK, Emptied
  <2>2. /\ holder' = [f \in Fd |-> IF f = sock[current] THEN NoSession ELSE holder[f]]
        /\ sock' = [sock EXCEPT ![current] = NoFd]
        /\ current' = NoSession /\ mainPc' = "finalize"
        /\ UNCHANGED <<running, todo, clients, handshakes, handle, call>>
        /\ mainPc = "joinWriter"
    BY <1>8 DEF JoinWriter
  <2>3. \A f \in Fd : holder'[f] # NoSession => sock'[holder'[f]] = f
    <3> SUFFICES ASSUME NEW f \in Fd, holder'[f] # NoSession PROVE sock'[holder'[f]] = f
      OBVIOUS
    <3>1. f # sock[current] /\ holder'[f] = holder[f]
      BY <2>2
    <3>2. holder[f] \in Session /\ sock[holder[f]] = f
      BY <3>1 DEF Emptied, TypeOK
    <3>3. holder[f] # current
      BY <3>1, <3>2
    <3> QED
      BY <2>2, <3>1, <3>2, <3>3 DEF TypeOK
  <2>4. \A u \in Session : sock'[u] = NoFd => sock[u] = NoFd \/ u = current
    BY <2>1, <2>2 DEF TypeOK
  <2> QED
    BY <2>1, <2>2, <2>3, <2>4 DEF Emptied
<1>9. CASE FinalizeDone
  BY <1>9 DEF FinalizeDone, Emptied
<1> QED
  BY <1>1, <1>2, <1>3, <1>4, <1>5, <1>6, <1>7, <1>8, <1>9 DEF MainWork

\* No step of any thread brings back what main has emptied.
LEMMA NextEmptied ==
  ASSUME TypeOK, IInv, Emptied, [Next]_vars
  PROVE  Emptied'
<1> USE DEF processVars, mainVars, acceptorVars, socketVars
<1>1. CASE UNCHANGED vars
  BY <1>1 DEF vars, Emptied, Free
<1>2. ASSUME NEW t \in Thread, CallStepOf(t) PROVE Emptied'
  <2>1. UNCHANGED <<processVars, mainVars, clients, socketVars, handle, handshakes>>
    BY <1>2 DEF CallStepOf, EnqueueLock, CloseExchange, CloseShutdown, Notify
  <2>2. call[t] # Idle /\ \A u \in Thread \ {t} : call'[u] = call[u]
    BY <1>2 DEF CallStepOf, EnqueueLock, CloseExchange, CloseShutdown, Notify, Idle, TypeOK
  <2>3. \A u \in Thread : Free(u) => Free(u)'
    BY <2>2 DEF Free
  <2> QED
    BY <2>1, <2>3, EmptiedFrame
<1>3. ASSUME NEW s \in Session, ReaderOwn(s) PROVE Emptied'
  <2>1. UNCHANGED <<processVars, mainVars, clients, socketVars, handle>>
        /\ (~TlsEnabled => handshakes' = handshakes)
    BY <1>3
    DEF ReaderOwn, SetupDone, HandshakeFailed, ReadFrame, NextFrame, ReadOverflows,
        FrameAnswered, AuthAccepted, RegisterSession, FrameRejected, RejectClose,
        BroadcastSnapshot, BroadcastDeliver, Leave, readerOnly, ReleaseSlot
  <2>2. \A u \in Thread : u # Rd(s) => call'[u] = call[u]
    BY <1>3
    DEF ReaderOwn, SetupDone, HandshakeFailed, ReadFrame, NextFrame, ReadOverflows,
        FrameAnswered, AuthAccepted, RegisterSession, FrameRejected, RejectClose,
        BroadcastSnapshot, BroadcastDeliver, Leave, TypeOK
  <2>3. reader[s] \notin {"unborn", "done"}
    BY <1>3
    DEF ReaderOwn, SetupDone, HandshakeFailed, ReadFrame, NextFrame, ReadOverflows,
        FrameAnswered, AuthAccepted, RegisterSession, FrameRejected, RejectClose,
        BroadcastSnapshot, BroadcastDeliver, Leave, Reading, KeepReading, AtLoopHead
  <2>4. sock[s] # NoFd
    BY <2>3 DEF IInv, Threads, ReaderLives
  <2> QED
    BY <2>1, <2>2, <2>3, <2>4, EmptiedFrame DEF Free
<1>4. ASSUME NEW s \in Session, WriterOwn(s) \/ SpuriousWakeup(s) PROVE Emptied'
  <2>1. UNCHANGED <<processVars, mainVars, clients, socketVars, handle, handshakes>>
    BY <1>4
    DEF WriterOwn, WriterTest, WriterBlock, WriterSends, WriterFails, SpuriousWakeup, writerOnly
  <2>2. \A u \in Thread : u # Wr(s) => call'[u] = call[u]
    BY <1>4
    DEF WriterOwn, WriterTest, WriterBlock, WriterSends, WriterFails, SpuriousWakeup, TypeOK
  <2>3. WriterLives(s)
    BY <1>4
    DEF WriterOwn, WriterTest, WriterBlock, WriterSends, WriterFails, SpuriousWakeup, WriterLives
  <2>4. sock[s] # NoFd
    BY <2>3 DEF IInv, Threads
  <2> QED
    BY <2>1, <2>2, <2>4, EmptiedFrame DEF Free
<1> QED
  BY <1>1, <1>2, <1>3, <1>4, AcceptorEmptied, MainEmptied DEF Next

\* When stopServer has returned (and before startServer is called) no thread runs, no call
\* is under way, and no descriptor, map entry, handshake slot or router handle is left.
THEOREM StoppedIsEmpty == Spec => []StopLeavesNothing
<1>1. TypeOK /\ IInv /\ Counted /\ [Next]_vars => Counted'
  BY NextCounted
<1>2. TypeOK /\ IInv /\ Emptied /\ [Next]_vars => Emptied'
  BY NextEmptied
<1>3. TypeOK /\ IInv /\ Counted /\ Emptied => StopLeavesNothing
  <2> SUFFICES ASSUME TypeOK, IInv, Counted, Emptied, mainPc = "idle", ~running
               PROVE  /\ acceptor = "off" /\ clients = {} /\ registered = {} /\ handshakes = 0
                      /\ \A s \in Session : ~ReaderLives(s) /\ ~WriterLives(s) /\ sock[s] = NoFd
                      /\ \A f \in Fd : holder[f] = NoSession
                      /\ \A t \in Thread : Free(t)
    BY DEF StopLeavesNothing
  <2>1. acceptor = "off" /\ clients = {} /\ todo = {} /\ current = NoSession
    BY DEF IInv, Handles, WorkList, Emptied
  <2>2. \A s \in Session : sock[s] = NoFd
    BY <2>1 DEF IInv, WorkList
  <2>3. \A s \in Session : ~ReaderLives(s) /\ ~WriterLives(s)
    BY <2>2 DEF IInv, Threads
  <2>4. registered = {}
    BY <2>3 DEF IInv, Routed, TypeOK
  <2>5. \A f \in Fd : holder[f] = NoSession
    BY <2>2 DEF Emptied, TypeOK
  <2>6. handshakes = 0
    <3>1. CASE TlsEnabled
      <4>1. InSetup = {}
        BY <2>3 DEF InSetup, ReaderLives
      <4> QED
        BY <3>1, <4>1, FS_EmptySet DEF Counted
    <3>2. CASE ~TlsEnabled
      BY <3>2 DEF Emptied
    <3> QED
      BY <3>1, <3>2
  <2>7. \A t \in Thread : Free(t)
    <3>1. \A t \in Thread : t = Main \/ \E s \in Session : t = Rd(s) \/ t = Wr(s)
      BY DEF Thread, Main, Rd, Wr
    <3> QED
      BY <2>2, <3>1 DEF Emptied
  <2> QED
    BY <2>1, <2>2, <2>3, <2>4, <2>5, <2>6, <2>7
<1> QED
  BY <1>1, <1>2, <1>3, InitCounted, InitEmptied, OwnershipInvariant, PTL DEF Spec

=============================================================================
