----------------------------- MODULE CliClient -----------------------------
(***************************************************************************)
(* The command line client: one thread that connects, reads, sends what    *)
(* was copied, sends a ping and sleeps, in that order and for ever         *)
(* (main), against a server and a network that may fail.                   *)
(*                                                                         *)
(* A record is what the server gave to one SSL_write.  It takes one or two *)
(* calls of SSL_read, and select() does not see what the first call leaves *)
(* of it.  The socket blocks and has no timeout, and a call of SSL_read    *)
(* waits for the whole record that select() saw the first byte of: << >>   *)
(* is a record whose rest does not come, or one without data for the       *)
(* program.  Time is counted in ticks and the delays of the program are    *)
(* scaled down to a few of them; time may also pass while a read or a      *)
(* write blocks.                                                           *)
(* The clipboard is polled in every pass instead of twice a second: a copy *)
(* that finds no poll due could as well have been made later.              *)
(***************************************************************************)
EXTENDS FrameParser, FiniteSets

CONSTANTS
  HeartbeatInterval, HeartbeatTimeout,  \* kHeartbeatInterval, kHeartbeatTimeout, in ticks
  MaxReconnectDelay,  \* the longest delay between two attempts, in ticks
  MaxLocalCopies,     \* bound: what the user copies
  MaxRelays,          \* bound: what other clients publish
  MaxFaults           \* bound: failures of the server, the network and files

ASSUME CliAssumption ==
  /\ {HeartbeatInterval, HeartbeatTimeout, MaxReconnectDelay} \subseteq Nat \ {0}
  /\ {MaxLocalCopies, MaxRelays, MaxFaults} \subseteq Nat

VARIABLES
  phase,            \* where the thread is; "ended" when the process is over
  conn,             \* the connection, see NoConn
  age,              \* ticks since lastHeartbeatSentAt_
  reconnectAttempt,
  delay,            \* the ticks to nextReconnectAt
  todo,             \* what is still to be written in this pass
  clipboard, signature,
  welcome,          \* the server accepts the credentials
  up,               \* the server runs
  settled,          \* the copies that have reached the server, and those that were lost
                    \* with a connection or a file
  localCopies, relays, faults

thread == <<phase, todo, clipboard, signature>>
clock == <<age, reconnectAttempt, delay>>
world == <<welcome, up, localCopies, relays>>
cliVars == <<thread, conn, clock, world, settled, faults>>

NoCopy == [n |-> 0, kind |-> "none"]
Message(type, copy) == [type |-> type, copy |-> copy]

NoConn ==
  [link |-> "none",           \* or "open", "broken", or "silent": nothing arrives any more
   authenticated |-> FALSE, awaitingPong |-> FALSE,
   wire |-> << >>,            \* what the server has not read yet
   parser |-> EmptyParser,    \* the server's
   session |-> "none",        \* the server's: "none", "new" or "authenticated"
   inbox |-> << >>,           \* the records in the socket of the client
   pending |-> << >>]         \* what SSL_read left of a record

\* a text may be just as long as the server's limit, or longer
Frame(m) ==
  [i \in 1..(CASE m.copy.kind = "long" -> MaxFrame + 1
               [] m.copy.kind = "text" -> MaxFrame
               [] OTHER -> 1) |-> m] \o <<Newline>>

CopiesOf(units) == {u.copy : u \in Range(units) \ {Newline}} \ {NoCopy}
Unread == CopiesOf(conn.wire) \cup CopiesOf(conn.parser.current)

Fault == faults < MaxFaults /\ faults' = faults + 1
NoFault == UNCHANGED faults

-----------------------------------------------------------------------------
\* close(); what the server has not read by then is taken for lost
Close ==
  /\ conn' = NoConn
  /\ todo' = << >>
  /\ settled' = settled \cup Unread \cup CopiesOf(todo)

\* the delay of main after a failed attempt and after a lost heartbeat
BackOff ==
  LET next == 2 ^ reconnectAttempt
      longest == next > MaxReconnectDelay
  IN /\ delay' = IF longest THEN MaxReconnectDelay ELSE next
     /\ reconnectAttempt' = IF longest THEN reconnectAttempt ELSE reconnectAttempt + 1
     /\ UNCHANGED age

\* writeAll, when it succeeds; what is written to a connection that is no more vanishes
Written(c, m) ==
  /\ conn' = IF c.link = "open" THEN [c EXCEPT !.wire = @ \o Frame(m)] ELSE c
  /\ settled' = IF c.link = "open" THEN settled ELSE settled \cup CopiesOf(<<m>>)

\* writeAll, when it fails or, as nothing catches SIGPIPE, ends the process
NotWritten(next) ==
  /\ conn.link = "broken"
  /\ Close
  /\ phase' \in {next, "ended"}

\* connectToServer, which ends with the auth message
ConnectToServer ==
  /\ phase = "connect" /\ phase' = "read"
  /\ IF delay > 0
     THEN UNCHANGED <<conn, clock, settled, faults>>
     ELSE \/ /\ up /\ NoFault
             /\ Written([NoConn EXCEPT !.link = "open", !.session = "new"],
                        Message("auth", NoCopy))
             /\ reconnectAttempt' = 0 /\ age' = HeartbeatTimeout + 1 /\ UNCHANGED delay
          \/ /\ IF up THEN Fault ELSE NoFault
             /\ BackOff /\ UNCHANGED <<conn, settled>>
  /\ UNCHANGED <<todo, clipboard, signature, world>>

\* processProtocolMessage, and what main does with a clipboard_text
Process(m, c) ==
  CASE m.type = "failed" -> Close /\ phase' = "ended" /\ UNCHANGED <<clipboard, signature>>
    [] m.type = "relay" ->
         /\ clipboard' = m.copy /\ signature' = m.copy
         /\ conn' = c /\ phase' = "copy" /\ UNCHANGED <<todo, settled>>
    [] OTHER ->
         /\ conn' = [c EXCEPT !.authenticated = @ \/ m.type = "ok",
                              !.awaitingPong = @ /\ m.type # "pong"]
         /\ phase' = "copy" /\ UNCHANGED <<todo, clipboard, signature, settled>>

\* pollIncomingMessages: at most one SSL_read, and none unless the socket is readable.
\* On a silent link it does not return from a record whose rest does not come.
PollIncoming ==
  /\ phase = "read"
  /\ IF conn.inbox = << >> /\ conn.link # "broken"
     THEN phase' = "copy" /\ UNCHANGED <<todo, conn, clipboard, signature, settled>>
     ELSE IF conn.pending # << >>
     THEN Process(Head(conn.pending), [conn EXCEPT !.pending = Tail(@)])
     ELSE IF conn.inbox # << >> /\ Head(conn.inbox) # << >>
     THEN LET record == Head(conn.inbox)
          IN Process(Head(record), [conn EXCEPT !.pending = Tail(record), !.inbox = Tail(@)])
     ELSE conn.link = "broken" /\ Close /\ phase' = "copy" /\ UNCHANGED <<clipboard, signature>>
  /\ UNCHANGED <<clock, world, faults>>

\* pollClipboard, and the messages sendJson or sendChunkedFiles will write
MessagesOf(copy) ==
  IF copy.kind = "files"
  THEN <<Message("start", copy), Message("chunk", copy), Message("complete", copy)>>
  ELSE <<Message("text", copy)>>

\* plausible slip: the clipboard is polled without a connection as well
PollClipboard_Offline ==
  /\ phase = "copy"
  /\ IF clipboard # signature
     THEN /\ signature' = clipboard
          /\ todo' = IF conn.authenticated THEN MessagesOf(clipboard) ELSE << >>
          /\ phase' = IF conn.authenticated THEN "send" ELSE "beat"
     ELSE phase' = "beat" /\ UNCHANGED <<todo, signature>>
  /\ UNCHANGED <<clipboard, conn, clock, world, settled, faults>>

PollClipboard ==
  /\ phase = "copy"
  /\ IF conn.authenticated /\ clipboard # signature
     THEN signature' = clipboard /\ todo' = MessagesOf(clipboard) /\ phase' = "send"
     ELSE phase' = "beat" /\ UNCHANGED <<todo, signature>>
  /\ UNCHANGED <<clipboard, conn, clock, world, settled, faults>>

\* sendJson and sendChunkedFiles, one message after the other; a file that cannot be read
\* is skipped, and the result is not looked at
Send ==
  /\ phase = "send"
  /\ \/ /\ Written(conn, Head(todo)) /\ todo' = Tail(todo)
        /\ phase' = IF Tail(todo) = << >> THEN "beat" ELSE "send"
        /\ NoFault
     \/ NotWritten("beat") /\ NoFault
     \/ /\ Head(todo).type = "start" /\ Fault
        /\ todo' = << >> /\ phase' = "beat"
        /\ settled' = settled \cup CopiesOf(todo) /\ UNCHANGED conn
  /\ UNCHANGED <<clipboard, signature, clock, world>>

\* plausible slip: the pong that is missing is not noticed
HeartbeatDead_Never == FALSE

HeartbeatDead == conn.awaitingPong /\ age > HeartbeatTimeout

HeartbeatDue == ~conn.awaitingPong /\ age >= HeartbeatInterval

\* maybeSendHeartbeat
MaybeSendHeartbeat ==
  /\ phase = "beat"
  /\ CASE conn.authenticated /\ HeartbeatDead ->
            Close /\ BackOff /\ phase' = "sleep"
       [] conn.authenticated /\ HeartbeatDue ->
            \/ /\ Written([conn EXCEPT !.awaitingPong = TRUE], Message("ping", NoCopy))
               /\ age' = 0 /\ phase' = "sleep" /\ UNCHANGED <<todo, reconnectAttempt, delay>>
            \/ NotWritten("sleep") /\ BackOff
       [] OTHER -> phase' = "sleep" /\ UNCHANGED <<conn, todo, settled, clock>>
  /\ UNCHANGED <<clipboard, signature, world, faults>>

-----------------------------------------------------------------------------
Passes(ticks) ==
  /\ age' = IF age + ticks > HeartbeatTimeout THEN HeartbeatTimeout + 1 ELSE age + ticks
  /\ delay' = IF delay > ticks THEN delay - ticks ELSE 0
  /\ UNCHANGED reconnectAttempt

\* the end of the loop; a server that is there answers within a tick
Sleep(ticks) ==
  /\ phase = "sleep"
  /\ phase' = IF conn.link = "none" THEN "connect" ELSE "read"
  /\ ticks > 0 => conn.link # "open" \/ conn.wire = << >>
  /\ Passes(ticks)
  /\ UNCHANGED <<todo, clipboard, signature, conn, world, settled, faults>>

\* a write blocks, or SSL_read waits for the rest of a record that is on its way
Blocked ==
  /\ \/ phase = "send"
     \/ phase = "read" /\ conn.link = "open" /\ conn.pending = << >> /\ conn.inbox # << >>
  /\ Passes(1)
  /\ UNCHANGED <<thread, conn, world, settled, faults>>

\* signalHandler
Signal ==
  /\ phase = "sleep" /\ phase' = "ended" /\ Close
  /\ UNCHANGED <<clipboard, signature, clock, world, faults>>

-----------------------------------------------------------------------------
(* The server, the network and the user *)

\* processMessage: the answers to the frames of one read, in their order
Replies(frames) ==
  LET Reply(f) == CASE f[1].type = "auth" ->
                         <<Message(IF welcome THEN "ok" ELSE "failed", NoCopy)>>
                    [] f[1].type = "ping" -> <<Message("pong", NoCopy)>>
                    [] OTHER -> << >>
  IN SelectSeq([i \in DOMAIN frames |-> Reply(frames[i])], LAMBDA r : r # << >>)

\* the connection ends without the client's doing
Ended(c) == [c EXCEPT !.link = "broken", !.wire = << >>, !.parser = EmptyParser,
                      !.session = "none"]

\* clientLoop of the server: it reads n units, and handles the frames that are complete
ServerReads(n) ==
  LET parser == Appended(conn.parser, SubSeq(conn.wire, 1, n))
      frames == parser.completed
      done == {frames[i][1] : i \in DOMAIN frames}
      heard == [conn EXCEPT !.wire = SubSeq(@, n + 1, Len(@)), !.parser = Popped(parser),
                            !.inbox = @ \o Replies(frames)]
      rejects == ~welcome /\ \E m \in done : m.type = "auth"
  IN /\ conn.link = "open"
     /\ UNCHANGED <<thread, clock, world, faults>>
     /\ IF parser.overflowed \/ rejects
        THEN /\ conn' = Ended(heard) /\ settled' = settled \cup Unread
        ELSE /\ conn' = [heard EXCEPT !.session = IF done = {} THEN @ ELSE "authenticated"]
             /\ settled' = settled \cup {m.copy : m \in {m \in done :
                                                            m.type \in {"text", "complete"}}}

ServerReadsSome == \E n \in 1..Len(conn.wire) : ServerReads(n)

\* broadcastMessage, from another client: it may fill more than one read
Relay ==
  LET m == Message("relay", [n |-> relays + 1, kind |-> "relay"]) IN
  /\ phase # "ended" /\ relays < MaxRelays
  /\ conn.link = "open" /\ conn.session = "authenticated"
  /\ relays' = relays + 1
  /\ \E record \in {<<m>>, <<Message("part", NoCopy), m>>} :
       conn' = [conn EXCEPT !.inbox = Append(@, record)]
  /\ UNCHANGED <<thread, clock, welcome, up, localCopies, settled, faults>>

\* what has come of the records when nothing comes any more: the last one may be cut
Arrived(records) ==
  {SubSeq(records, 1, n) \o cut : n \in 0..Len(records), cut \in {<< >>, << << >> >>}}

\* the connection breaks, perhaps because the server goes; the reset may clear the socket
Break ==
  /\ conn.link \in {"open", "silent"} /\ Fault
  /\ up' \in BOOLEAN
  /\ \E inbox \in Arrived(conn.inbox) : conn' = [Ended(conn) EXCEPT !.inbox = inbox]
  /\ settled' = settled \cup Unread
  /\ UNCHANGED <<thread, clock, welcome, localCopies, relays>>

\* the server or the network is gone without a word
FallSilent ==
  /\ conn.link = "open" /\ Fault
  /\ \E inbox \in Arrived(conn.inbox) :
       conn' = [Ended(conn) EXCEPT !.link = "silent", !.inbox = inbox]
  /\ settled' = settled \cup Unread
  /\ UNCHANGED <<thread, clock, world>>

ServerStarts ==
  /\ ~up /\ up' = TRUE
  /\ UNCHANGED <<thread, conn, clock, welcome, localCopies, relays, settled, faults>>

LocalCopy ==
  /\ phase # "ended" /\ localCopies < MaxLocalCopies
  /\ localCopies' = localCopies + 1
  /\ \E kind \in {"text", "long", "files"} : clipboard' = [n |-> localCopies', kind |-> kind]
  /\ UNCHANGED <<phase, todo, signature, conn, clock, welcome, up, relays, settled,
                 faults>>

CliInit ==
  /\ phase = "connect" /\ conn = NoConn /\ todo = << >>
  /\ clipboard = NoCopy /\ signature = NoCopy
  /\ age = HeartbeatTimeout + 1 /\ reconnectAttempt = 0 /\ delay = 0
  /\ welcome \in BOOLEAN /\ up \in BOOLEAN
  /\ settled = {}
  /\ localCopies = 0 /\ relays = 0 /\ faults = 0

Thread ==
  \/ ConnectToServer \/ PollIncoming \/ PollClipboard \/ Send \/ MaybeSendHeartbeat
  \/ \E ticks \in {0, 1} : Sleep(ticks)

CliNext ==
  \/ Thread \/ Blocked \/ Signal
  \/ ServerReadsSome \/ Relay \/ Break \/ FallSilent \/ ServerStarts
  \/ LocalCopy

\* the thread runs on, time passes, and the server reads what it gets and is started again
Fairness ==
  /\ WF_cliVars(Thread) /\ SF_cliVars(Sleep(1))
  /\ WF_cliVars(ServerReadsSome) /\ WF_cliVars(ServerStarts)

CliSpec == CliInit /\ [][CliNext]_cliVars /\ Fairness

-----------------------------------------------------------------------------
\* the only thread waits in SSL_read for the rest of a record that will not come; neither
\* the heartbeat nor the clipboard is looked at again, authenticated or not
Hung ==
  /\ phase = "read" /\ conn.link = "silent"
  /\ conn.pending = << >> /\ conn.inbox # << >> /\ Head(conn.inbox) = << >>

\* the process is over, or hangs in SSL_read, or waits for an answer to its auth message
\* that will not come: there is no timeout before the client is authenticated
Stuck == phase = "ended" \/ Hung \/ (conn.link = "silent" /\ ~conn.authenticated)

\* more units without a newline than a frame may have
TooLong(stream, i) == \A j \in i..i + MaxFrame : stream[j] # Newline

\* the stream that some frames were cut from
Uncut(frames) ==
  LET First[k \in 0..Len(frames)] ==
        IF k = 0 THEN << >> ELSE First[k - 1] \o frames[k] \o <<Newline>>
  IN First[Len(frames)]

\* what the parser makes of what it has not cut yet and n more units
CutsInOrder(n) ==
  LET parser == Appended(conn.parser, SubSeq(conn.wire, 1, n))
      stream == conn.parser.current \o SubSeq(conn.wire, 1, n)
  IN IF \E i \in 1..Len(stream) - MaxFrame : TooLong(stream, i)
     THEN parser.overflowed
     ELSE ~parser.overflowed /\ Uncut(parser.completed) \o parser.current = stream

\* A read of the server neither loses nor splits nor reorders anything, however the stream
\* is cut (append, popFrame), unless a frame is longer than the limit; and then it is
\* noticed, when one more unit than the limit has been read.
FramesInOrder == [][\A n \in 1..Len(conn.wire) : ServerReads(n) => CutsInOrder(n)]_cliVars

\* Whatever breaks, and whenever, the client comes back, and what was relayed to it is read
\* in the end; but not if the link falls silent in the middle of a record that the client
\* has begun to read (Hung), before or after it is authenticated.  It may close a good
\* connection: after a read or write that blocked for longer than the timeout it misses the
\* pong that lies in the socket; but not for ever.  And select() does not see what SSL_read
\* has left of a record: the pong of the next ping brings it.
ComesBack ==
  []<>(\/ /\ conn.link = "open" /\ conn.authenticated
          /\ conn.inbox = << >> /\ conn.pending = << >>
       \/ Stuck)

\* A copy that stays in the clipboard reaches the server, unless it is lost with the
\* connection it was sent on, or with a file that could not be read: the signature is
\* replaced before it is sent, and it is not sent again.  A client that hangs in SSL_read
\* sends nothing (Hung).
CopyArrives ==
  []<>(clipboard.kind \in {"none", "relay"} \/ clipboard \in settled \/ Stuck)

=============================================================================
