---------------------------- MODULE ClientProofs ----------------------------
(***************************************************************************)
(* Theorems about the clients.  The connection of the Qt clients, for any  *)
(* periods of the timers, any back-off and any number of message boxes;    *)
(* the clipboards, for any peers, any assignment of the programs to them   *)
(* and any number of copies; and the stream from the command line client   *)
(* to the server's frame parser, for any lengths of frames and reads.      *)
(***************************************************************************)
EXTENDS ClipboardSync, GuiConnection, CliClient, TLAPS, WellFoundedInduction

-----------------------------------------------------------------------------
(* The connection of the Qt clients: the types the proofs need, and the      *)
(* invariant                                                                *)

ConnectionTypes ==
  /\ requested \in BOOLEAN /\ monitoring \in BOOLEAN /\ manual \in BOOLEAN
  /\ authenticated \in BOOLEAN /\ pendingClose \in BOOLEAN
  /\ dialogs \in Nat
  /\ attempt \in 0..MaxAttempt
  /\ reconnect \in Nat \cup {Off} /\ heartbeat \in Nat \cup {Off} /\ timeout \in Nat \cup {Off}
  /\ socket \in {"unconnected", "connecting", "handshake", "ready", "closing"}

\* the user's wish as the window and the client each keep it: a message box is only open
\* over a connection that is no longer wanted; while it is wanted manualDisconnect is not
\* set; and when it is not, it is set, unless there never was one
Wish ==
  /\ dialogs > 0 => ~requested
  /\ requested => ~manual
  /\ ~requested /\ dialogs = 0 /\ ~manual => socket = "unconnected"

\* a session has an open socket
SessionOpen == authenticated => socket \in {"ready", "closing"}

ConnectionInv ==
  ConnectionTypes /\ Wish /\ SessionOpen /\ AttemptComing /\ StaysDisconnected /\ WatchedInSession

-----------------------------------------------------------------------------
\* What scheduleReconnect starts is a running timer.
LEMMA DelayIsRunning ==
  ASSUME NEW n \in 0..MaxAttempt
  PROVE  Delay(n) \in Nat /\ Least(n + 1, MaxAttempt) \in 0..MaxAttempt
<1>1. 2^n \in Nat
  BY PowerAssumption
<1>2. BaseDelay * 2^n \in Nat
  BY <1>1, TimerAssumption DEF TimerAssumption
<1>. QED  BY <1>2, TimerAssumption DEF TimerAssumption, Delay, Least

\* After scheduleReconnect a timer runs, unless the user has disconnected.
LEMMA ScheduledIsRunning ==
  ASSUME ConnectionTypes, ScheduleReconnect(attempt)
  PROVE  /\ reconnect' \in Nat \cup {Off} /\ attempt' \in 0..MaxAttempt
         /\ ~manual => reconnect' # Off
         /\ manual => reconnect' = reconnect
BY DelayIsRunning DEF ScheduleReconnect, ConnectionTypes, Off

\* beginConnection ends every session, and nothing is watched after it.
LEMMA BeginningIsClean ==
  ASSUME ConnectionInv, NEW n \in 0..MaxAttempt, BeginConnection(n)
  PROVE  /\ reconnect' \in Nat \cup {Off} /\ attempt' \in 0..MaxAttempt
         /\ heartbeat' = Off /\ timeout' = Off /\ ~authenticated' /\ ~monitoring'
         /\ socket' = "connecting"
         /\ monitoring' \in BOOLEAN /\ authenticated' \in BOOLEAN /\ pendingClose' \in BOOLEAN
<1>1. socket \notin Connected => ~monitoring
  BY DEF ConnectionInv, WatchedInSession, SessionOpen, Connected
<1>. QED
  BY <1>1, DelayIsRunning
  DEF BeginConnection, HeartbeatStops, ConnectionInv, ConnectionTypes, Connected

\* At the start nothing is wanted and nothing runs.
LEMMA InitConnection == Init => ConnectionInv
<1>. SUFFICES ASSUME Init PROVE ConnectionInv
  OBVIOUS
<1>. USE DEF Init, Off
<1>1. ConnectionTypes
  <2>1. 0 \in 0..MaxAttempt
    BY TimerAssumption DEF TimerAssumption
  <2>. QED  BY <2>1 DEF ConnectionTypes
<1>2. Wish /\ SessionOpen
  BY DEF Wish, SessionOpen
<1>3. AttemptComing /\ StaysDisconnected
  BY DEF AttemptComing, StaysDisconnected
<1>4. WatchedInSession
  BY DEF WatchedInSession
<1>. QED  BY <1>1, <1>2, <1>3, <1>4 DEF ConnectionInv

\* Disconnecting, at once or later, stops the timers and is remembered.
LEMMA DisconnectConnection ==
  ASSUME ConnectionInv, NEW monitors \in BOOLEAN, monitors => monitoring,
         DisconnectFromServer(monitors), ~requested', dialogs' \in Nat,
         requested' \in BOOLEAN
  PROVE  ConnectionInv'
<1>. USE DEF ConnectionInv, ConnectionTypes, Wish, SessionOpen, AttemptComing, StaysDisconnected,
             WatchedInSession, DisconnectFromServer, HeartbeatStops, Connected, Off
<1>1. CASE socket \in {"unconnected", "connecting"}
  BY <1>1
<1>2. CASE socket \in Connected
  BY <1>2 DEF Disconnected
<1>. QED  BY <1>1, <1>2

\* Every click, signal and timer keeps the invariant.
LEMMA StepConnection == ConnectionInv /\ [Next]_vars => ConnectionInv'
<1>. SUFFICES ASSUME ConnectionInv, [Next]_vars PROVE ConnectionInv'
  OBVIOUS
<1>. USE DEF windowVars, timerVars
<1>1. CASE ClickConnect
  <2>1. 0 \in 0..MaxAttempt
    BY TimerAssumption DEF TimerAssumption
  <2>2. requested' /\ requested' \in BOOLEAN /\ ~manual' /\ manual' \in BOOLEAN
        /\ dialogs = 0 /\ dialogs' = 0 /\ BeginConnection(0)
    BY <1>1 DEF ClickConnect
  <2>3. ConnectionTypes' /\ socket' = "connecting" /\ ~authenticated' /\ ~monitoring'
        /\ heartbeat' = Off /\ timeout' = Off
    BY <2>1, <2>2, BeginningIsClean DEF ConnectionTypes, Off
  <2>. QED
    BY <2>2, <2>3
    DEF ConnectionInv, Wish, SessionOpen, AttemptComing, StaysDisconnected, WatchedInSession
<1>2. CASE ClickDisconnect
  BY <1>2, DisconnectConnection DEF ClickDisconnect, ConnectionInv, ConnectionTypes
<1>3. CASE CloseDialog
  <2>1. ~requested' /\ dialogs' \in Nat /\ requested' \in BOOLEAN
    BY <1>3 DEF CloseDialog, ConnectionInv, ConnectionTypes, Wish
  <2>. QED  BY <1>3, <2>1, DisconnectConnection DEF CloseDialog, ConnectionInv, ConnectionTypes
<1>. USE DEF ConnectionInv, ConnectionTypes, Wish, SessionOpen, AttemptComing, StaysDisconnected,
             WatchedInSession
<1>4. CASE TcpConnected
  BY <1>4 DEF TcpConnected
<1>5. CASE HandleConnected
  <2>1. 0 \in 0..MaxAttempt
    BY TimerAssumption DEF TimerAssumption
  <2>. QED  BY <1>5, <2>1 DEF HandleConnected
<1>6. CASE ConnectFails
  BY <1>6, ScheduledIsRunning DEF ConnectFails
<1>7. CASE SocketCloses
  BY <1>7, ScheduledIsRunning DEF SocketCloses, Disconnected, HeartbeatStops, Connected
<1>8. CASE LinkDies
  BY <1>8 DEF LinkDies
<1>9. CASE AuthAccepted
  BY <1>9, TimerAssumption DEF TimerAssumption, AuthAccepted, Answers, Off
<1>10. CASE AuthRejected
  <2>1. dialogs' \in Nat /\ dialogs' > 0
    BY <1>10 DEF AuthRejected
  <2>2. ~requested' /\ ~authenticated' /\ ~monitoring' /\ heartbeat' = Off /\ timeout' = Off
    BY <1>10 DEF AuthRejected, HeartbeatStops
  <2>3. ConnectionTypes'
    BY <1>10, <2>1 DEF AuthRejected, HeartbeatStops
  <2>. QED  BY <2>1, <2>2, <2>3
<1>11. CASE Pong
  BY <1>11 DEF Pong
<1>12. CASE ReconnectFires
  BY <1>12, BeginningIsClean DEF ReconnectFires, Off
<1>13. CASE HeartbeatFires
  BY <1>13, TimerAssumption DEF TimerAssumption, HeartbeatFires, Off
<1>14. CASE Tick
  BY <1>14 DEF Tick, OneLess, Off
<1>15. CASE UNCHANGED vars
  BY <1>15 DEF vars
<1>. QED
  BY <1>1, <1>2, <1>3, <1>4, <1>5, <1>6, <1>7, <1>8, <1>9, <1>10, <1>11, <1>12, <1>13, <1>14,
     <1>15
  DEF Next, User, Opening, Answered

-----------------------------------------------------------------------------
\* The window's, the client's and the socket's idea of the connection agree in every
\* reachable state, whatever the user clicks and whenever the signals come.
THEOREM ConnectionInvariant == Spec => []ConnectionInv
BY InitConnection, StepConnection, PTL DEF Spec

\* As long as the user wants the connection, another attempt is coming whenever there is
\* no socket (scheduleReconnect).
THEOREM AttemptIsComing == Spec => []AttemptComing
<1>1. ConnectionInv => AttemptComing
  BY DEF ConnectionInv
<1>. QED  BY <1>1, ConnectionInvariant, PTL

\* A client that the user has disconnected does not connect again by itself
\* (disconnectFromServer, and the message box of handleAuthResponse).
THEOREM DisconnectedStays == Spec => []StaysDisconnected
<1>1. ConnectionInv => StaysDisconnected
  BY DEF ConnectionInv
<1>. QED  BY <1>1, ConnectionInvariant, PTL

\* Heartbeat and clipboard observer run exactly during an authenticated session, but for
\* an observer over a closing socket (stopHeartbeat, startMonitoring, stopMonitoring).
THEOREM SessionIsWatched == Spec => []WatchedInSession
<1>1. ConnectionInv => WatchedInSession
  BY DEF ConnectionInv
<1>. QED  BY <1>1, ConnectionInvariant, PTL

-----------------------------------------------------------------------------
(* The clipboards                                                           *)

\* a content that some user has copied by now, or no text
Known(c) == c \in Content /\ c.word[2] <= copies

\* the types the proofs need
SyncTypes ==
  /\ program \in [Peer -> Program] /\ joined \subseteq Peer
  /\ clip \in [Peer -> Content] /\ lastSignature \in [Peer -> Content]
  /\ net \in [Peer -> [Peer -> Seq(Content)]]
  /\ copies \in 0..MaxCopies
  /\ last \in Content /\ raced \in BOOLEAN

\* whatever is anywhere was copied at some time, so that what a user copies is new to all
Copied ==
  /\ \A p \in Peer : Known(clip[p]) /\ Known(lastSignature[p])
  /\ \A m \in InFlight : Known(m) /\ m.kind # "none"

\* who has not joined has neither sent nor been sent anything
Outside ==
  \A p \in Peer \ joined : lastSignature[p] = Nothing /\ \A s \in Peer : net[s][p] = <<>>

\* texts that do not race are all the one published last
OneText == ~raced => \A m \in InFlight : m.kind = "text" => m.word = last.word

\* the last text is on its way to p
Underway(p) == \E s \in Peer : \E i \in DOMAIN net[s][p] :
                 net[s][p][i].kind = "text" /\ net[s][p][i].word = last.word

\* who does not have the last text yet will get it, or will publish another
UpToDate(p) ==
  \/ clip[p].kind = "files" \/ clip[p].word = last.word
  \/ Underway(p) \/ Unsent(p)

\* without a race, this holds of all who have joined
KeepsUp == ~raced /\ last.word # <<Nobody, 0>> => \A p \in joined : UpToDate(p)

SyncInv == SyncTypes /\ Copied /\ Outside /\ OneText /\ KeepsUp

\* A text is a content.
LEMMA TextIsContent ==
  ASSUME NEW w \in Word, NEW t \in 0..MaxTail
  PROVE  Text(w, t) \in Content /\ Text(w, t).kind = "text" /\ Text(w, t).word = w
BY DEF Text, Content

\* The empty text and what a client has seen before its first poll.
LEMMA EmptyIsContent ==
  /\ <<Nobody, 0>> \in Word /\ 0 \in 0..MaxTail
  /\ NoText \in Content /\ NoText.kind = "text" /\ NoText.word = <<Nobody, 0>>
  /\ Nothing \in Content /\ Nothing.kind = "none" /\ Nothing.word = <<Nobody, 0>>
<1>1. <<Nobody, 0>> \in Word /\ 0 \in 0..MaxTail
  BY SyncAssumption DEF SyncAssumption, Word
<1>2. NoText \in Content /\ NoText.kind = "text" /\ NoText.word = <<Nobody, 0>>
  BY <1>1, TextIsContent DEF NoText
<1>. QED  BY <1>1, <1>2 DEF Nothing, Content

\* What a poll takes the clipboard to hold is never nothing, and has the word of what is
\* there, or of the empty text.
LEMMA ObservedIsContent ==
  ASSUME SyncTypes, NEW p \in Peer
  PROVE  /\ Observed(p) \in Content /\ Observed(p).kind \in {"text", "files"}
         /\ Observed(p).word \in {clip[p].word, <<Nobody, 0>>}
         /\ Observed(p).kind = "files" => clip[p].kind = "files"
         /\ clip[p].kind = "text" => Observed(p).word = clip[p].word
<1>1. clip[p] \in Content /\ clip[p].kind \in {"none", "text", "files"}
      /\ clip[p].word \in Word /\ clip[p].tail \in 0..MaxTail
  BY DEF SyncTypes, Content
<1>3. /\ WlPaste(clip[p]) \in Content /\ WlPaste(clip[p]).kind = "text"
      /\ WlPaste(clip[p]).word = IF clip[p].kind = "none" THEN <<Nobody, 0>> ELSE clip[p].word
  <2>1. CASE clip[p].kind = "none"
    BY <2>1, EmptyIsContent DEF WlPaste
  <2>2. CASE clip[p].kind # "none"
    <3>1. (IF clip[p].tail < MaxTail THEN clip[p].tail + 1 ELSE MaxTail) \in 0..MaxTail
      BY <1>1, SyncAssumption DEF SyncAssumption
    <3>. QED  BY <1>1, <2>2, <3>1, TextIsContent DEF WlPaste
  <2>. QED  BY <2>1, <2>2
<1>4. /\ QtText(clip[p]) \in Content /\ QtText(clip[p]).kind = "text"
      /\ QtText(clip[p]).word = IF clip[p].kind = "none" THEN <<Nobody, 0>> ELSE clip[p].word
  BY <1>1, EmptyIsContent, TextIsContent DEF QtText
<1>. QED  BY <1>1, <1>3, <1>4 DEF Observed, ReadByWlPaste, ReadByQt

\* A text is observed as itself, but for its newlines.
LEMMA ObservedTextNext ==
  ASSUME NEW p \in Peer, clip'[p].kind = "text"
  PROVE  Observed(p)'.word = clip'[p].word
BY DEF Observed, ReadByQt, ReadByWlPaste, WlPaste, QtText, Text

\* At the start nobody has joined, and nothing was copied.
LEMMA InitSync == SyncInit => SyncInv
<1>. SUFFICES ASSUME SyncInit PROVE SyncInv
  OBVIOUS
<1>1. program \in [Peer -> Program] /\ 0 \in 0..MaxCopies
  BY SyncAssumption DEF SyncAssumption, SyncInit
<1>2. InFlight = {}
  BY DEF SyncInit, InFlight
<1>3. SyncTypes
  <2>1. net \in [Peer -> [Peer -> Seq(Content)]] /\ copies \in 0..MaxCopies
    BY <1>1 DEF SyncInit
  <2>2. clip \in [Peer -> Content] /\ lastSignature \in [Peer -> Content] /\ last \in Content
    BY EmptyIsContent DEF SyncInit
  <2>. QED  BY <1>1, <2>1, <2>2 DEF SyncInit, SyncTypes
<1>4. Copied
  <2>1. Known(Nothing)
    BY EmptyIsContent DEF Known, SyncInit, Nothing
  <2>. QED  BY <1>2, <2>1 DEF Copied, SyncInit
<1>5. Outside
  BY DEF Outside, SyncInit
<1>6. OneText
  BY <1>2 DEF OneText
<1>7. KeepsUp
  BY DEF KeepsUp, SyncInit
<1>. QED  BY <1>3, <1>4, <1>5, <1>6, <1>7 DEF SyncInv

\* What was appended to a queue comes after what was there.
LEMMA AppendKeeps ==
  ASSUME NEW S, NEW q \in Seq(S), NEW c \in S
  PROVE  \A i \in DOMAIN q : i \in DOMAIN Append(q, c) /\ Append(q, c)[i] = q[i]
OBVIOUS

\* What is left of a queue is what came after its head.
LEMMA TailKeeps ==
  ASSUME NEW S, NEW q \in Seq(S), q # <<>>
  PROVE  \A i \in DOMAIN Tail(q) : i + 1 \in DOMAIN q /\ Tail(q)[i] = q[i + 1]
OBVIOUS

\* What is under way is in one of the queues.
LEMMA FlightByQueue ==
  ASSUME NEW m
  PROVE  m \in InFlight <=> \E s, r \in Peer : \E i \in DOMAIN net[s][r] : m = net[s][r][i]
<1>. DEFINE Sent(s, r) == {net[s][r][i] : i \in DOMAIN net[s][r]}
<1>1. \A s, r : m \in Sent(s, r) <=> \E i \in DOMAIN net[s][r] : m = net[s][r][i]
  OBVIOUS
<1>2. InFlight = UNION {Sent(s, r) : s, r \in Peer}
  BY DEF InFlight
<1>. HIDE DEF Sent
<1>3. m \in InFlight <=> \E s, r \in Peer : m \in Sent(s, r)
  BY <1>2
<1>. QED  BY <1>1, <1>3

\* The same after a step.
LEMMA FlightByQueueNext ==
  ASSUME NEW m
  PROVE  m \in InFlight' <=> \E s, r \in Peer : \E i \in DOMAIN net'[s][r] : m = net'[s][r][i]
<1>. DEFINE Sent(s, r) == {net'[s][r][i] : i \in DOMAIN net'[s][r]}
<1>1. \A s, r : m \in Sent(s, r) <=> \E i \in DOMAIN net'[s][r] : m = net'[s][r][i]
  OBVIOUS
<1>2. InFlight' = UNION {Sent(s, r) : s, r \in Peer}
  BY DEF InFlight
<1>. HIDE DEF Sent
<1>3. m \in InFlight' <=> \E s, r \in Peer : m \in Sent(s, r)
  BY <1>2
<1>. QED  BY <1>1, <1>3

\* The server appends what is published to the queues of the others that have joined.
LEMMA PublishedByQueue ==
  ASSUME SyncTypes, NEW p \in Peer, NEW c \in Content, net' = Published(p, c)
  PROVE  /\ net' \in [Peer -> [Peer -> Seq(Content)]]
         /\ \A s, r \in Peer : net'[s][r] = IF s = p /\ r \in joined \ {p}
                                          THEN Append(net[s][r], c) ELSE net[s][r]
<1>1. \A s, r \in Peer : net'[s][r] = IF s = p /\ r \in joined \ {p}
                                      THEN Append(net[s][r], c) ELSE net[s][r]
  BY DEF SyncTypes, Published
<1>2. \A r \in Peer : Append(net[p][r], c) \in Seq(Content)
  BY DEF SyncTypes
<1>. QED  BY <1>1, <1>2 DEF SyncTypes, Published

\* After a publication nothing is under way but what was, and what was published.
LEMMA PublishedFlight ==
  ASSUME SyncTypes, NEW p \in Peer, NEW c \in Content, net' = Published(p, c)
  PROVE  InFlight' \subseteq InFlight \cup {c}
<1>. SUFFICES ASSUME NEW s \in Peer, NEW r \in Peer, NEW i \in DOMAIN net'[s][r]
             PROVE  net'[s][r][i] \in InFlight \cup {c}
  BY FlightByQueueNext
<1>1. net[s][r] \in Seq(Content)
  BY DEF SyncTypes
<1>2. CASE net'[s][r] = net[s][r]
  BY <1>2, FlightByQueue
<1>3. CASE net'[s][r] = Append(net[s][r], c)
  <2>1. (i \in DOMAIN net[s][r] /\ net'[s][r][i] = net[s][r][i]) \/ net'[s][r][i] = c
    BY <1>1, <1>3
  <2>. QED  BY <2>1, FlightByQueue
<1>4. net'[s][r] \in {net[s][r], Append(net[s][r], c)}
  <2>1. \A t, q \in Peer : net'[t][q] = IF t = p /\ q \in joined \ {p}
                                      THEN Append(net[t][q], c) ELSE net[t][q]
    BY PublishedByQueue
  <2>. QED  BY <2>1
<1>. QED  BY <1>2, <1>3, <1>4

\* A poll publishes what is not known yet; if that is a text, it is the one under way to
\* everybody else from now on.
LEMMA PollSync ==
  ASSUME SyncInv, NEW p \in Peer, Poll(p)
  PROVE  SyncInv'
<1>. DEFINE c == Observed(p)
<1>. USE DEF SyncInv
<1>1. /\ c \in Content /\ c.kind \in {"text", "files"}
      /\ c.word \in {clip[p].word, <<Nobody, 0>>}
      /\ c.kind = "files" => clip[p].kind = "files"
      /\ clip[p].kind = "text" => c.word = clip[p].word
  BY ObservedIsContent
<1>2. /\ p \in joined /\ c # lastSignature[p]
      /\ lastSignature' = [lastSignature EXCEPT ![p] = c]
      /\ net' = Published(p, c)
      /\ last' = IF c.kind = "text" THEN c ELSE last
      /\ raced' = (raced \/ Races(c))
      /\ UNCHANGED <<program, joined, clip, copies>>
  BY DEF Poll, Unsent
<1>. HIDE DEF c
<1>3. /\ net' \in [Peer -> [Peer -> Seq(Content)]]
      /\ \A s, r \in Peer : net'[s][r] = IF s = p /\ r \in joined \ {p}
                                      THEN Append(net[s][r], c) ELSE net[s][r]
  BY <1>1, <1>2, PublishedByQueue
<1>4. InFlight' \subseteq InFlight \cup {c}
  BY <1>1, <1>2, PublishedFlight
<1>5. SyncTypes'
  BY <1>1, <1>2, <1>3 DEF SyncTypes
<1>6. Copied'
  <2>1. Known(c)
    <3>1. Known(clip[p]) /\ copies \in Nat
      BY SyncAssumption DEF Copied, SyncTypes, SyncAssumption
    <3>. QED  BY <1>1, <3>1 DEF Known
  <2>2. \A x : Known(x) => Known(x)'
    BY <1>2 DEF Known
  <2>3. \A q \in Peer : lastSignature'[q] \in {lastSignature[q], c} /\ clip'[q] = clip[q]
    BY <1>2 DEF SyncTypes
  <2>. QED  BY <1>1, <1>4, <2>1, <2>2, <2>3 DEF Copied
<1>7. Outside'
  BY <1>2, <1>3 DEF Outside, SyncTypes
<1>8. OneText'
  BY <1>2, <1>4 DEF OneText, Races
<1>9. KeepsUp'
  <2>. SUFFICES ASSUME ~raced', last'.word # <<Nobody, 0>>, NEW q \in joined
               PROVE  UpToDate(q)'
    BY <1>2 DEF KeepsUp
  <2>1. q \in Peer
    BY DEF SyncTypes
  <2>2. CASE c.kind = "text" /\ q = p
    BY <1>1, <1>2, <2>2 DEF UpToDate
  <2>3. CASE c.kind = "text" /\ q # p
    <3>1. net'[p][q] = Append(net[p][q], c) /\ net[p][q] \in Seq(Content)
      BY <1>3, <2>1, <2>3 DEF SyncTypes
    <3>2. Len(net'[p][q]) \in DOMAIN net'[p][q] /\ net'[p][q][Len(net'[p][q])] = c
      BY <1>1, <3>1
    <3>. QED  BY <1>2, <2>3, <3>2 DEF UpToDate, Underway
  <2>4. CASE c.kind = "files" /\ q = p
    BY <1>1, <1>2, <2>4 DEF UpToDate
  <2>5. CASE c.kind = "files" /\ q # p
    <3>1. UpToDate(q)
      BY <1>2, <2>5 DEF KeepsUp
    <3>2. Unsent(q) => Unsent(q)'
      BY <1>2, <2>1, <2>5
      DEF Unsent, Observed, ReadByQt, ReadByWlPaste, SyncTypes
    <3>3. Underway(q) => Underway(q)'
      <4>. SUFFICES ASSUME NEW s \in Peer, NEW i \in DOMAIN net[s][q],
                          net[s][q][i].kind = "text", net[s][q][i].word = last.word
                   PROVE  i \in DOMAIN net'[s][q] /\ net'[s][q][i] = net[s][q][i]
        BY <1>2, <2>5 DEF Underway
      <4>1. net[s][q] \in Seq(Content)
        BY <2>1 DEF SyncTypes
      <4>2. net'[s][q] \in {net[s][q], Append(net[s][q], c)}
        BY <1>3, <2>1
      <4>3. i \in DOMAIN Append(net[s][q], c) /\ Append(net[s][q], c)[i] = net[s][q][i]
        BY <1>1, <4>1, AppendKeeps
      <4>. QED  BY <4>2, <4>3
    <3>. QED  BY <1>2, <2>5, <3>1, <3>2, <3>3 DEF UpToDate
  <2>. QED  BY <1>1, <2>2, <2>3, <2>4, <2>5
<1>. QED  BY <1>5, <1>6, <1>7, <1>8, <1>9

\* What is received is the first of its queue, and the rest stays.
LEMMA ReceivedByQueue ==
  ASSUME SyncTypes, NEW p \in Peer, NEW s \in Peer, net[s][p] # <<>>,
         net' = [net EXCEPT ![s][p] = Tail(@)]
  PROVE  /\ net' \in [Peer -> [Peer -> Seq(Content)]]
         /\ \A t, q \in Peer : net'[t][q] = IF t = s /\ q = p THEN Tail(net[t][q]) ELSE net[t][q]
         /\ Head(net[s][p]) \in InFlight
         /\ InFlight' \subseteq InFlight
<1>1. net[s][p] \in Seq(Content) /\ Tail(net[s][p]) \in Seq(Content)
  BY DEF SyncTypes
<1>2. \A t, q \in Peer : net'[t][q] = IF t = s /\ q = p THEN Tail(net[t][q]) ELSE net[t][q]
  BY DEF SyncTypes
<1>3. net' \in [Peer -> [Peer -> Seq(Content)]]
  BY <1>1 DEF SyncTypes
<1>4. 1 \in DOMAIN net[s][p] /\ Head(net[s][p]) = net[s][p][1]
  BY <1>1
<1>5. Head(net[s][p]) \in InFlight
  BY <1>4, FlightByQueue
<1>6. InFlight' \subseteq InFlight
  <2>. SUFFICES ASSUME NEW t \in Peer, NEW q \in Peer, NEW i \in DOMAIN net'[t][q]
               PROVE  net'[t][q][i] \in InFlight
    BY FlightByQueueNext
  <2>1. CASE t = s /\ q = p
    <3>1. net'[t][q] = Tail(net[s][p])
      BY <1>2, <2>1
    <3>2. i + 1 \in DOMAIN net[s][p] /\ Tail(net[s][p])[i] = net[s][p][i + 1]
      BY <1>1, <3>1, TailKeeps
    <3>. QED  BY <3>1, <3>2, FlightByQueue
  <2>2. CASE ~(t = s /\ q = p)
    BY <1>2, <2>2, FlightByQueue
  <2>. QED  BY <2>1, <2>2
<1>. QED  BY <1>2, <1>3, <1>5, <1>6

\* A text that arrives is the last one, if there was no race: whoever shows it is up to date.
LEMMA ReceiveSync ==
  ASSUME SyncInv, NEW p \in Peer, NEW s \in Peer, Receive(p, s)
  PROVE  SyncInv'
<1>. DEFINE c == Head(net[s][p])
<1>. USE DEF SyncInv
<1>1. /\ net[s][p] # <<>> /\ net' = [net EXCEPT ![s][p] = Tail(@)]
      /\ UNCHANGED <<program, joined, copies, last, raced>>
      /\ \/ UNCHANGED <<clip, lastSignature>> /\ (c.kind = "text" => c = NoText)
         \/ c.kind = "text" /\ Shows(p, c)
  BY DEF Receive, Unmoved, CliShows, WaylandShows, WindowsShows
<1>2. /\ net' \in [Peer -> [Peer -> Seq(Content)]]
      /\ \A t, q \in Peer : net'[t][q] = IF t = s /\ q = p THEN Tail(net[t][q]) ELSE net[t][q]
      /\ c \in InFlight
      /\ InFlight' \subseteq InFlight
  BY <1>1, ReceivedByQueue
<1>3. p \in joined
  BY <1>1 DEF Outside
<1>4. c \in Content /\ Known(c)
  BY <1>2 DEF Copied, Known
<1>. HIDE DEF c
<1>5. /\ clip' \in [Peer -> Content] /\ lastSignature' \in [Peer -> Content]
      /\ \A q \in Peer : clip'[q] \in {clip[q], c} /\ lastSignature'[q] \in {lastSignature[q], c}
      /\ \A q \in Peer \ {p} : clip'[q] = clip[q] /\ lastSignature'[q] = lastSignature[q]
  BY <1>1, <1>4 DEF Shows, SyncTypes
<1>6. SyncTypes'
  BY <1>1, <1>2, <1>5 DEF SyncTypes
<1>7. Copied'
  <2>1. \A x : Known(x) => Known(x)'
    BY <1>1 DEF Known
  <2>. QED  BY <1>2, <1>4, <1>5, <2>1 DEF Copied
<1>8. Outside'
  <2>. SUFFICES ASSUME NEW q \in Peer \ joined, NEW t \in Peer
               PROVE  lastSignature'[q] = Nothing /\ net'[t][q] = <<>>
    BY <1>1 DEF Outside
  <2>1. q # p
    BY <1>3
  <2>. QED  BY <1>2, <1>5, <2>1 DEF Outside
<1>9. OneText'
  BY <1>1, <1>2 DEF OneText
<1>10. KeepsUp'
  <2>. SUFFICES ASSUME ~raced, last.word # <<Nobody, 0>>, NEW q \in joined
               PROVE  UpToDate(q)'
    BY <1>1 DEF KeepsUp
  <2>1. q \in Peer /\ UpToDate(q)
    BY DEF KeepsUp, SyncTypes
  <2>2. CASE q # p
    <3>1. Unsent(q) => Unsent(q)'
      BY <1>1, <1>5, <2>1, <2>2 DEF Unsent, Observed, ReadByQt, ReadByWlPaste
    <3>2. Underway(q) => Underway(q)'
      BY <1>1, <1>2, <2>1, <2>2 DEF Underway
    <3>. QED  BY <1>1, <1>5, <2>1, <2>2, <3>1, <3>2 DEF UpToDate
  <2>3. CASE q = p /\ c.kind = "text"
    <3>1. c.word = last.word
      BY <1>2, <2>3 DEF OneText
    <3>2. c # NoText
      BY <3>1, EmptyIsContent
    <3>3. clip'[p] = c
      BY <1>1, <2>3, <3>2 DEF Shows, SyncTypes
    <3>. QED  BY <1>1, <2>3, <3>1, <3>3 DEF UpToDate
  <2>4. CASE q = p /\ c.kind # "text"
    <3>1. UNCHANGED <<clip, lastSignature>>
      BY <1>1, <2>4
    <3>2. Unsent(q) => Unsent(q)'
      BY <1>1, <3>1 DEF Unsent, Observed, ReadByQt, ReadByWlPaste
    <3>3. Underway(q) => Underway(q)'
      <4>. SUFFICES ASSUME NEW t \in Peer, NEW i \in DOMAIN net[t][q],
                          net[t][q][i].kind = "text", net[t][q][i].word = last.word
                   PROVE  \E j \in DOMAIN net'[t][q] : net'[t][q][j] = net[t][q][i]
        BY <1>1 DEF Underway
      <4>1. CASE t # s
        BY <1>2, <2>1, <4>1
      <4>2. CASE t = s
        <5>1. net[s][p] \in Seq(Content) /\ c = net[s][p][1]
          BY <1>1 DEF SyncTypes, c
        <5>2. i # 1
          BY <2>4, <4>2, <5>1
        <5>3. i - 1 \in DOMAIN Tail(net[s][p]) /\ Tail(net[s][p])[i - 1] = net[s][p][i]
          BY <2>4, <4>2, <5>1, <5>2
        <5>. QED  BY <1>2, <2>4, <4>2, <5>3
      <4>. QED  BY <4>1, <4>2
    <3>. QED  BY <1>1, <2>1, <3>1, <3>2, <3>3 DEF UpToDate
  <2>. QED  BY <2>2, <2>3, <2>4
<1>. QED  BY <1>6, <1>7, <1>8, <1>9, <1>10

\* What a user copies was seen nowhere before: the next poll publishes it.
LEMMA CopySync ==
  ASSUME SyncInv, NEW p \in Peer, UserCopies(p)
  PROVE  SyncInv'
<1>. USE DEF SyncInv
<1>1. PICK kind \in {"text", "files"} :
        /\ copies < MaxCopies /\ copies' = copies + 1
        /\ clip' = [clip EXCEPT ![p] = [kind |-> kind, word |-> <<p, copies'>>, tail |-> 0]]
        /\ UNCHANGED <<program, joined, lastSignature, net, last, raced>>
  BY DEF UserCopies
<1>. DEFINE c == [kind |-> kind, word |-> <<p, copies'>>, tail |-> 0]
<1>2. copies \in Nat /\ copies' \in 1..MaxCopies /\ copies' \in 0..MaxCopies
  BY <1>1, SyncAssumption DEF SyncTypes, SyncAssumption
<1>3. c \in Content /\ c.kind = kind /\ c.word = <<p, copies'>> /\ c.word[2] = copies'
  BY <1>2, EmptyIsContent DEF Content, Word
<1>. HIDE DEF c
<1>4. clip'[p] = c /\ clip' \in [Peer -> Content] /\ \A q \in Peer \ {p} : clip'[q] = clip[q]
  BY <1>1, <1>3 DEF SyncTypes, c
<1>5. InFlight' = InFlight
  BY <1>1 DEF InFlight
<1>6. SyncTypes'
  BY <1>1, <1>2, <1>4 DEF SyncTypes
<1>7. Copied'
  <2>1. \A x : Known(x) => Known(x)'
    <3>1. \A x \in Content : x.word[2] \in Nat
      BY SyncAssumption DEF Content, Word, SyncAssumption
    <3>. QED  BY <1>1, <1>2, <3>1 DEF Known
  <2>2. c \in Content /\ c.word[2] <= copies'
    BY <1>2, <1>3
  <2>3. \A q \in Peer : Known(clip[q])' /\ Known(lastSignature[q])'
    <3>. SUFFICES ASSUME NEW q \in Peer PROVE Known(clip[q])' /\ Known(lastSignature[q])'
      OBVIOUS
    <3>1. Known(lastSignature[q])'
      BY <1>1, <2>1 DEF Copied
    <3>2. CASE q = p
      BY <1>4, <2>2, <3>1, <3>2 DEF Known
    <3>3. CASE q # p
      BY <1>4, <2>1, <3>1, <3>3 DEF Copied
    <3>. QED  BY <3>2, <3>3
  <2>4. \A m \in InFlight' : Known(m)' /\ m.kind # "none"
    BY <1>5, <2>1 DEF Copied
  <2>. QED  BY <2>3, <2>4 DEF Copied
<1>8. Outside'
  BY <1>1 DEF Outside
<1>9. OneText'
  BY <1>1, <1>5 DEF OneText
<1>10. KeepsUp'
  <2>. SUFFICES ASSUME ~raced, last.word # <<Nobody, 0>>, NEW q \in joined
               PROVE  UpToDate(q)'
    BY <1>1 DEF KeepsUp
  <2>1. q \in Peer /\ UpToDate(q)
    BY DEF KeepsUp, SyncTypes
  <2>2. CASE q # p
    <3>1. Unsent(q) => Unsent(q)'
      BY <1>1, <1>4, <2>1, <2>2 DEF Unsent, Observed, ReadByQt, ReadByWlPaste
    <3>2. Underway(q) => Underway(q)'
      BY <1>1 DEF Underway
    <3>. QED  BY <1>1, <1>4, <2>1, <2>2, <3>1, <3>2 DEF UpToDate
  <2>3. CASE q = p /\ kind = "files"
    BY <1>3, <1>4, <2>3 DEF UpToDate
  <2>4. CASE q = p /\ kind = "text"
    <3>1. Observed(p)'.word = <<p, copies'>>
      BY <1>3, <1>4, <1>6, <2>4, ObservedTextNext
    <3>2. lastSignature[p].word[2] <= copies
      BY DEF Copied, Known
    <3>3. Observed(p)' # lastSignature'[p]
      BY <1>1, <1>2, <3>1, <3>2
    <3>. QED  BY <1>1, <2>4, <3>3 DEF UpToDate, Unsent
  <2>. QED  BY <2>2, <2>3, <2>4
<1>. QED  BY <1>6, <1>7, <1>8, <1>9, <1>10

\* Who joins has sent nothing yet: the first poll publishes what is there.
LEMMA JoinSync ==
  ASSUME SyncInv, NEW p \in Peer, Join(p)
  PROVE  SyncInv'
<1>. USE DEF SyncInv
<1>1. /\ p \notin joined /\ joined' = joined \cup {p}
      /\ UNCHANGED <<program, clip, lastSignature, net, copies, last, raced>>
  BY DEF Join
<1>2. InFlight' = InFlight
  BY <1>1 DEF InFlight
<1>3. SyncTypes' /\ Copied' /\ Outside' /\ OneText'
  BY <1>1, <1>2 DEF SyncTypes, Copied, Known, Outside, OneText
<1>4. KeepsUp'
  <2>. SUFFICES ASSUME ~raced, last.word # <<Nobody, 0>>, NEW q \in joined \cup {p}
               PROVE  UpToDate(q)'
    BY <1>1 DEF KeepsUp
  <2>1. \A r : Observed(r)' = Observed(r)
    BY <1>1 DEF Observed, ReadByQt, ReadByWlPaste
  <2>2. CASE q = p
    <3>1. Observed(p).kind # "none" /\ Nothing.kind = "none" /\ lastSignature[p] = Nothing
      BY <1>1, ObservedIsContent, EmptyIsContent DEF Outside
    <3>. QED  BY <1>1, <2>1, <2>2, <3>1 DEF UpToDate, Unsent
  <2>3. CASE q \in joined
    <3>1. UpToDate(q)
      BY <2>3 DEF KeepsUp
    <3>2. Unsent(q) => Unsent(q)'
      BY <1>1, <2>1 DEF Unsent
    <3>. QED  BY <1>1, <3>1, <3>2 DEF UpToDate, Underway
  <2>. QED  BY <2>2, <2>3
<1>. QED  BY <1>3, <1>4

\* Every poll, receipt, copy and login keeps the invariant.
LEMMA StepSync == SyncInv /\ [SyncNext]_syncVars => SyncInv'
<1>. SUFFICES ASSUME SyncInv, [SyncNext]_syncVars PROVE SyncInv'
  OBVIOUS
<1>1. ASSUME NEW p \in Peer, Poll(p) PROVE SyncInv'
  BY <1>1, PollSync
<1>2. ASSUME NEW p \in Peer, NEW s \in Peer, Receive(p, s) PROVE SyncInv'
  BY <1>2, ReceiveSync
<1>3. ASSUME NEW p \in Peer, UserCopies(p) PROVE SyncInv'
  BY <1>3, CopySync
<1>4. ASSUME NEW p \in Peer, Join(p) PROVE SyncInv'
  BY <1>4, JoinSync
<1>5. CASE UNCHANGED syncVars
  <2>. USE <1>5 DEF syncVars
  <2>1. InFlight' = InFlight
    BY DEF InFlight
  <2>2. SyncTypes' /\ Copied' /\ Outside' /\ OneText'
    BY <2>1 DEF SyncInv, SyncTypes, Copied, Known, Outside, OneText
  <2>3. \A p : Unsent(p) <=> Unsent(p)'
    BY DEF Unsent, Observed, ReadByQt, ReadByWlPaste
  <2>4. KeepsUp'
    BY <2>3 DEF SyncInv, KeepsUp, UpToDate, Underway
  <2>. QED  BY <2>2, <2>4 DEF SyncInv
<1>. QED
  BY <1>1, <1>2, <1>3, <1>4, <1>5 DEF SyncNext, Client, CliPoll, WaylandPoll, WindowsPoll

\* In every reachable state that no race has led to, each client that has joined shows the
\* last text, or will be brought it, or has something else to publish (pollClipboard,
\* applyRemoteText and the broadcast between them).
THEOREM SyncInvariant == SyncSpec => []SyncInv
BY InitSync, StepSync, PTL DEF SyncSpec

\* When nothing is under way or unsent, and no two texts raced, every clipboard has the text
\* that was published last, or files of its own user.
THEOREM ClipboardsConverge == SyncSpec => []Converges
<1>1. SyncInv => Converges
  <2>. SUFFICES ASSUME SyncInv, Quiet, ~raced, last.word # <<Nobody, 0>>, NEW p \in joined
               PROVE  clip[p].kind = "files" \/ clip[p].word = last.word
    BY DEF Converges
  <2>1. p \in Peer /\ UpToDate(p)
    BY DEF SyncInv, KeepsUp, SyncTypes
  <2>2. ~Unsent(p)
    BY <2>1 DEF Quiet
  <2>3. ~Underway(p)
    BY <2>1, FlightByQueue DEF Quiet, Underway
  <2>. QED  BY <2>1, <2>2, <2>3 DEF UpToDate
<1>. QED  BY <1>1, SyncInvariant, PTL

-----------------------------------------------------------------------------
(* The stream and the frame parser                                          *)

\* a sequence, of whatever
Sequence(s) == \E S : s \in Seq(S)

\* the parser has handed out its frames, and what it holds is the beginning of one
Between(p) ==
  /\ p = [current |-> p.current, completed |-> << >>, overflowed |-> FALSE]
  /\ Sequence(p.current)
  /\ Len(p.current) <= MaxFrame /\ \A i \in DOMAIN p.current : p.current[i] # Newline

-----------------------------------------------------------------------------
\* A set of numbers that is not empty has a least one.
LEMMA LeastNumber == ASSUME NEW S \in SUBSET Nat, S # {} PROVE \E x \in S : \A y \in S : x <= y
<1>. DEFINE R == OpToRel(<, Nat)
<1>1. IsWellFoundedOn(R, Nat)
  BY NatLessThanWellFounded
<1>2. R = {ss \in Nat \X Nat : ss[1] < ss[2]}
  BY DEF OpToRel
<1>. HIDE DEF R
<1>3. PICK x \in S : \A y \in S : ~(<<y, x>> \in R)
  BY <1>1, WFMin
<1>4. \A y \in S : ~(y < x)
  BY <1>2, <1>3
<1>5. \A y \in S : x <= y
  BY <1>4
<1>. QED  BY <1>5

\* What holds of 0, and of each number after one it holds of, has no first exception.
LEMMA NoException ==
  ASSUME NEW bad \in SUBSET Nat, 0 \notin bad, \A n \in Nat : n + 1 \in bad => n \in bad
  PROVE  bad = {}
<1>1. ASSUME bad # {} PROVE FALSE
  <2>1. PICK n \in bad : \A m \in bad : n <= m
    BY <1>1, LeastNumber
  <2>2. n - 1 \in Nat /\ (n - 1) + 1 = n
    BY <2>1
  <2>3. n - 1 \in bad
    BY <2>1, <2>2
  <2>4. n <= n - 1
    BY <2>1, <2>3
  <2>. QED  BY <2>1, <2>4
<1>. QED  BY <1>1

\* In 1..n + 1 the greatest number is the last; without it they are 1..n.
LEMMA LastNumber ==
  ASSUME NEW n \in Nat
  PROVE  /\ \A s \in SUBSET (1..(n + 1)) : n + 1 \in s => Max(s) = n + 1
         /\ \A s \in SUBSET (1..(n + 1)) : n + 1 \notin s => s \in SUBSET (1..n)
         /\ (1..(n + 1)) \ {n + 1} = 1..n
         /\ n + 1 \in 1..(n + 1)
<1>1. ASSUME NEW s \in SUBSET (1..(n + 1)), n + 1 \in s PROVE Max(s) = n + 1
  <2>1. \A y \in s : n + 1 >= y
    OBVIOUS
  <2>2. Max(s) \in s /\ \A y \in s : Max(s) >= y
    BY <1>1, <2>1 DEF Max
  <2>3. Max(s) >= n + 1 /\ Max(s) \in 1..(n + 1)
    BY <1>1, <2>2
  <2>. QED  BY <2>3
<1>2. \A y \in 1..(n + 1) : y # n + 1 => y \in 1..n
  OBVIOUS
<1>. QED  BY <1>1, <1>2

\* Without its greatest number, a part of 1..n + 1 is one of 1..n.
LEMMA WithoutLast ==
  ASSUME NEW n \in Nat, NEW s \in SUBSET (1..(n + 1))
  PROVE  s \ {Max(s)} \in SUBSET (1..n)
BY LastNumber

-----------------------------------------------------------------------------
\* f gives for each part of 1..n the parser after the units with these numbers.
Parses(f, n, p, units) ==
  f = [s \in SUBSET (1..n) |-> IF s = {} THEN p ELSE Take(f[s \ {Max(s)}], units[Max(s)])]

\* r gives the parser after each of the units.
Takes(r, n, p, units) ==
  r[0] = p /\ \A k \in 0..n - 1 : r[k + 1] = Take(r[k], units[k + 1])

\* There is such an f: one for 1..n gives one for 1..n + 1.
LEMMA ParsesExists ==
  ASSUME NEW n \in Nat, NEW p, NEW units PROVE \E f : Parses(f, n, p, units)
<1>. DEFINE Good(k) == \E f : Parses(f, k, p, units)
            bad == {k \in Nat : ~Good(k)}
<1>1. Good(0)
  <2>1. PICK f : f = [s \in SUBSET (1..0) |-> p]
    OBVIOUS
  <2>2. Parses(f, 0, p, units)
    BY <2>1 DEF Parses
  <2>. QED  BY <2>2
<1>2. ASSUME NEW k \in Nat, Good(k) PROVE Good(k + 1)
  <2>1. PICK f : Parses(f, k, p, units)
    BY <1>2
  <2>2. PICK g : g = [s \in SUBSET (1..(k + 1)) |->
                       IF s = {} THEN p ELSE Take(f[s \ {Max(s)}], units[Max(s)])]
    OBVIOUS
  <2>3. \A s \in SUBSET (1..k) : s \in SUBSET (1..(k + 1))
    OBVIOUS
  <2>4. \A s \in SUBSET (1..k) : g[s] = f[s]
    BY <2>1, <2>2, <2>3 DEF Parses
  <2>5. \A s \in SUBSET (1..(k + 1)) : g[s \ {Max(s)}] = f[s \ {Max(s)}]
    BY <2>4, WithoutLast
  <2>6. Parses(g, k + 1, p, units)
    BY <2>2, <2>5 DEF Parses
  <2>. QED  BY <2>6
<1>3. bad = {}
  <2>1. bad \in SUBSET Nat /\ 0 \notin bad /\ \A k \in Nat : k + 1 \in bad => k \in bad
    BY <1>1, <1>2
  <2>. HIDE DEF bad
  <2>. QED  BY <2>1, NoException
<1>. QED  BY <1>3

\* append() takes one unit after the other.
LEMMA AppendedTakes ==
  ASSUME NEW S, NEW units \in Seq(S), NEW p
  PROVE  \E r : Takes(r, Len(units), p, units) /\ r[Len(units)] = Appended(p, units)
<1>. DEFINE n == Len(units)
            Fold(f) == f = [s \in SUBSET DOMAIN units |->
                             IF s = {} THEN p ELSE Take(f[s \ {Max(s)}], units[Max(s)])]
<1>1. PICK f : f = CHOOSE g : Fold(g)
  OBVIOUS
<1>2. Appended(p, units) = f[DOMAIN units]
  BY <1>1 DEF Appended, FoldLeft, MapThenFoldSet
<1>3. n \in Nat /\ DOMAIN units = 1..n
  OBVIOUS
<1>4. \A g : Fold(g) <=> Parses(g, n, p, units)
  BY <1>3 DEF Parses
<1>. HIDE DEF Fold, n
<1>5. Parses(f, n, p, units)
  BY <1>1, <1>3, <1>4, ParsesExists
<1>6. PICK r : r = [k \in 0..n |-> f[1..k]]
  OBVIOUS
<1>7. r[0] = p
  <2>1. 1..0 = {} /\ 1..0 \in SUBSET (1..n) /\ 0 \in 0..n
    BY <1>3
  <2>. QED  BY <1>5, <1>6, <2>1 DEF Parses
<1>8. ASSUME NEW k \in 0..n - 1 PROVE r[k + 1] = Take(r[k], units[k + 1])
  <2>1. k \in Nat /\ k \in 0..n /\ k + 1 \in 0..n /\ 1..(k + 1) \in SUBSET (1..n)
    BY <1>3
  <2>2. Max(1..(k + 1)) = k + 1 /\ (1..(k + 1)) \ {k + 1} = 1..k /\ 1..(k + 1) # {}
    BY <2>1, LastNumber
  <2>3. PICK s : s = 1..(k + 1)
    OBVIOUS
  <2>4. f[s] = Take(f[s \ {Max(s)}], units[Max(s)])
    BY <1>5, <2>1, <2>2, <2>3 DEF Parses
  <2>. QED  BY <1>6, <2>1, <2>2, <2>3, <2>4
<1>9. r[n] = Appended(p, units)
  BY <1>2, <1>3, <1>6
<1>. QED  BY <1>7, <1>8, <1>9 DEF Takes, n

-----------------------------------------------------------------------------
\* A piece of a sequence, and the pieces 1..d and d + 1..m put together.
LEMMA PiecesJoin ==
  ASSUME NEW S, NEW s \in Seq(S), NEW d \in Nat, NEW m \in Nat, d <= m, m <= Len(s)
  PROVE  /\ SubSeq(s, d + 1, m) \in Seq(S) /\ Len(SubSeq(s, d + 1, m)) = m - d
         /\ \A i \in 1..m - d : SubSeq(s, d + 1, m)[i] = s[d + i]
         /\ SubSeq(s, 1, d) \o SubSeq(s, d + 1, m) = SubSeq(s, 1, m)
<1>1. /\ SubSeq(s, d + 1, m) \in Seq(S) /\ Len(SubSeq(s, d + 1, m)) = m - d
      /\ \A i \in 1..m - d : SubSeq(s, d + 1, m)[i] = s[d + i]
  OBVIOUS
<1>2. /\ SubSeq(s, 1, d) \in Seq(S) /\ Len(SubSeq(s, 1, d)) = d
      /\ SubSeq(s, 1, m) \in Seq(S) /\ Len(SubSeq(s, 1, m)) = m
  OBVIOUS
<1>3. SubSeq(s, 1, d) \o SubSeq(s, d + 1, m) = SubSeq(s, 1, m)
  <2>. DEFINE t == SubSeq(s, 1, d) \o SubSeq(s, d + 1, m)
  <2>1. t \in Seq(S) /\ Len(t) = m
    BY <1>1, <1>2
  <2>2. ASSUME NEW i \in 1..m PROVE t[i] = SubSeq(s, 1, m)[i]
    BY <1>1, <1>2
  <2>. QED  BY <1>2, <2>1, <2>2
<1>. QED  BY <1>1, <1>3

\* A piece that takes the next element is the piece that is longer by one.
LEMMA PieceGrows ==
  ASSUME NEW S, NEW s \in Seq(S), NEW d \in Nat, NEW m \in Nat, d <= m, m + 1 <= Len(s)
  PROVE  /\ Append(SubSeq(s, d + 1, m), s[m + 1]) = SubSeq(s, d + 1, m + 1)
         /\ SubSeq(s, 1, m) \o <<s[m + 1]>> = SubSeq(s, 1, m + 1)
<1>1. m <= Len(s) /\ m + 1 \in Nat /\ d <= m + 1 /\ s[m + 1] \in S
  OBVIOUS
<1>2. Append(SubSeq(s, d + 1, m), s[m + 1]) = SubSeq(s, d + 1, m + 1)
  <2>1. /\ SubSeq(s, d + 1, m) \in Seq(S) /\ Len(SubSeq(s, d + 1, m)) = m - d
        /\ \A i \in 1..m - d : SubSeq(s, d + 1, m)[i] = s[d + i]
        /\ SubSeq(s, d + 1, m + 1) \in Seq(S) /\ Len(SubSeq(s, d + 1, m + 1)) = m + 1 - d
        /\ \A i \in 1..m + 1 - d : SubSeq(s, d + 1, m + 1)[i] = s[d + i]
    BY <1>1, PiecesJoin
  <2>. QED  BY <1>1, <2>1
<1>3. SubSeq(s, 1, m) \o <<s[m + 1]>> = SubSeq(s, 1, m + 1)
  <2>1. SubSeq(s, m + 1, m + 1) = <<s[m + 1]>>
    <3>1. PICK t : t = SubSeq(s, m + 1, m + 1)
      OBVIOUS
    <3>2. m <= m + 1 /\ m + 1 <= Len(s)
      OBVIOUS
    <3>3. t \in Seq(S) /\ Len(t) = (m + 1) - m /\ \A i \in 1..(m + 1) - m : t[i] = s[m + i]
      BY <1>1, <3>1, <3>2, PiecesJoin
    <3>4. (m + 1) - m = 1 /\ 1 \in 1..1
      OBVIOUS
    <3>5. Len(t) = 1 /\ t[1] = s[m + 1]
      BY <3>3, <3>4
    <3>6. t = <<s[m + 1]>>
      BY <3>3, <3>5
    <3>. QED  BY <3>1, <3>6
  <2>2. SubSeq(s, 1, m) \o SubSeq(s, m + 1, m + 1) = SubSeq(s, 1, m + 1)
    BY <1>1, PiecesJoin
  <2>. QED  BY <2>1, <2>2
<1>. QED  BY <1>2, <1>3

-----------------------------------------------------------------------------
\* U gives what the first frames are without the cuts, each ended by its newline.
Joins(U, frames) ==
  U = [k \in 0..Len(frames) |-> IF k = 0 THEN << >> ELSE U[k - 1] \o frames[k] \o <<Newline>>]

\* the stream before d is what was cut into frames
CutUpTo(frames, S, s, d) ==
  /\ frames \in Seq(Seq(S))
  /\ \E U \in [0..Len(frames) -> Seq(S)] : Joins(U, frames) /\ U[Len(frames)] = SubSeq(s, 1, d)

\* of the first m units of s the parser holds those after the d-th, where a frame begins
Holds(p, frames, S, s, m, d) ==
  /\ d \in 0..m /\ (d = 0 \/ s[d] = Newline)
  /\ p = [current |-> SubSeq(s, d + 1, m), completed |-> frames, overflowed |-> FALSE]
  /\ m - d <= MaxFrame /\ \A i \in d + 1..m : s[i] # Newline
  /\ \A i \in 1..m - MaxFrame : ~TooLong(s, i)
  /\ CutUpTo(frames, S, s, d)

\* the parser gave up, and the first m units of s are the reason
GivesUp(p, s, m) == p.overflowed /\ \E i \in 1..m - MaxFrame : TooLong(s, i)

\* Uncut puts together what was cut: the function it chooses exists, and there is no first
\* number of frames for which it could be another.
LEMMA UncutIsJoined ==
  ASSUME NEW S, NEW frames \in Seq(Seq(S)), NEW s, NEW d, CutUpTo(frames, S, s, d)
  PROVE  Uncut(frames) = SubSeq(s, 1, d)
<1>1. PICK U \in [0..Len(frames) -> Seq(S)] : Joins(U, frames) /\ U[Len(frames)] = SubSeq(s, 1, d)
  BY DEF CutUpTo
<1>2. PICK V : V = CHOOSE W : Joins(W, frames)
  OBVIOUS
<1>3. Joins(V, frames)
  BY <1>1, <1>2
<1>4. Uncut(frames) = V[Len(frames)]
  BY <1>2 DEF Uncut, Joins
<1>. DEFINE bad == {k \in Nat : k <= Len(frames) /\ V[k] # U[k]}
<1>5. 0 \notin bad
  BY <1>1, <1>3 DEF Joins
<1>6. ASSUME NEW k \in Nat, k + 1 \in bad PROVE k \in bad
  <2>1. k + 1 \in 0..Len(frames) /\ k + 1 # 0 /\ (k + 1) - 1 = k /\ k <= Len(frames)
    BY <1>6
  <2>2. U[k + 1] = U[k] \o frames[k + 1] \o <<Newline>>
    BY <1>1, <2>1 DEF Joins
  <2>3. V[k + 1] = V[k] \o frames[k + 1] \o <<Newline>>
    BY <1>3, <2>1 DEF Joins
  <2>. QED  BY <1>6, <2>1, <2>2, <2>3
<1>7. bad = {}
  <2>1. bad \in SUBSET Nat
    OBVIOUS
  <2>. HIDE DEF bad
  <2>. QED  BY <1>5, <1>6, <2>1, NoException
<1>8. Len(frames) \in Nat /\ Len(frames) <= Len(frames)
  OBVIOUS
<1>. QED  BY <1>1, <1>4, <1>7, <1>8

\* One more frame is one more piece of the stream.
LEMMA OneMoreFrame ==
  ASSUME NEW S, NEW s \in Seq(S), NEW m \in Nat, m + 1 <= Len(s), NEW d \in 0..m,
         NEW frames, CutUpTo(frames, S, s, d), s[m + 1] = Newline
  PROVE  CutUpTo(Append(frames, SubSeq(s, d + 1, m)), S, s, m + 1)
<1>. DEFINE more == Append(frames, SubSeq(s, d + 1, m))
            n == Len(frames)
<1>1. PICK U \in [0..n -> Seq(S)] : Joins(U, frames) /\ U[n] = SubSeq(s, 1, d)
  BY DEF CutUpTo
<1>2. frames \in Seq(Seq(S)) /\ n \in Nat
  BY DEF CutUpTo
<1>3. /\ SubSeq(s, d + 1, m) \in Seq(S)
      /\ SubSeq(s, 1, d) \o SubSeq(s, d + 1, m) = SubSeq(s, 1, m)
      /\ SubSeq(s, 1, m) \o <<s[m + 1]>> = SubSeq(s, 1, m + 1)
      /\ SubSeq(s, 1, m + 1) \in Seq(S)
  <2>1. d \in Nat /\ d <= m /\ m <= Len(s) /\ 0 \in Nat /\ 0 <= m + 1 /\ m + 1 \in Nat
    OBVIOUS
  <2>2. SubSeq(s, 0 + 1, m + 1) \in Seq(S)
    BY <2>1, PiecesJoin
  <2>. QED  BY <2>1, <2>2, PiecesJoin, PieceGrows
<1>4. /\ more \in Seq(Seq(S)) /\ Len(more) = n + 1 /\ more[n + 1] = SubSeq(s, d + 1, m)
      /\ \A k \in 1..n : more[k] = frames[k]
  BY <1>2, <1>3
<1>. HIDE DEF more, n
<1>5. PICK V : V = [k \in 0..n + 1 |-> IF k = n + 1 THEN SubSeq(s, 1, m + 1) ELSE U[k]]
  OBVIOUS
<1>6. V \in [0..n + 1 -> Seq(S)]
  BY <1>2, <1>3, <1>5
<1>7. Joins(V, more)
  <2>1. ASSUME NEW k \in 0..n + 1
        PROVE  V[k] = IF k = 0 THEN << >> ELSE V[k - 1] \o more[k] \o <<Newline>>
    <3>1. CASE k = n + 1
      <4>1. V[k - 1] = U[n] /\ k # 0
        BY <1>2, <1>5, <3>1
      <4>. QED  BY <1>1, <1>2, <1>3, <1>4, <1>5, <3>1, <4>1
    <3>2. CASE k # n + 1
      <4>1. k \in 0..n /\ V[k] = U[k] /\ (k # 0 => k \in 1..n /\ V[k - 1] = U[k - 1])
        BY <1>2, <1>5, <3>2
      <4>2. U[k] = IF k = 0 THEN << >> ELSE U[k - 1] \o frames[k] \o <<Newline>>
        BY <1>1, <4>1 DEF Joins, n
      <4>. QED  BY <1>4, <4>1, <4>2
    <3>. QED  BY <3>1, <3>2
  <2>2. V = [k \in 0..n + 1 |-> V[k]]
    BY <1>5
  <2>. QED  BY <1>4, <2>1, <2>2 DEF Joins
<1>8. V[Len(more)] = SubSeq(s, 1, m + 1)
  BY <1>2, <1>4, <1>5
<1>9. CutUpTo(more, S, s, m + 1)
  BY <1>4, <1>6, <1>7, <1>8 DEF CutUpTo
<1>. QED  BY <1>9 DEF more

\* One more unit ends a frame, or belongs to the one that is held, or is one too many.
LEMMA TakeHolds ==
  ASSUME NEW S, NEW s \in Seq(S), NEW m \in Nat, m + 1 <= Len(s), NEW p, NEW frames, NEW d,
         Holds(p, frames, S, s, m, d)
  PROVE  \/ GivesUp(Take(p, s[m + 1]), s, m + 1)
         \/ \E fs, e : Holds(Take(p, s[m + 1]), fs, S, s, m + 1, e)
<1>1. MaxFrame \in Nat \ {0} /\ d \in 0..m /\ m - d <= MaxFrame
  BY FrameAssumption DEF FrameAssumption, Holds
<1>2. (d = 0 \/ s[d] = Newline) /\ \A i \in d + 1..m : s[i] # Newline
  BY DEF Holds
<1>3. \A i \in 1..m - MaxFrame : ~TooLong(s, i)
  BY DEF Holds
<1>4. PICK x \in S : x = s[m + 1]
  OBVIOUS
<1>5. PICK c : c = SubSeq(s, d + 1, m)
  OBVIOUS
<1>6. p = [current |-> c, completed |-> frames, overflowed |-> FALSE]
  BY <1>5 DEF Holds
<1>7. Len(c) = m - d /\ Append(c, x) = SubSeq(s, d + 1, m + 1)
  <2>1. d \in Nat /\ d <= m /\ m <= Len(s)
    BY <1>1
  <2>. QED  BY <1>4, <1>5, <2>1, PiecesJoin, PieceGrows
\* but for the last units, what is too long was so before
<1>8. ASSUME ~TooLong(s, m + 1 - MaxFrame)
      PROVE  \A i \in 1..(m + 1) - MaxFrame : ~TooLong(s, i)
  <2>. SUFFICES ASSUME NEW i \in 1..(m + 1) - MaxFrame PROVE ~TooLong(s, i)
    OBVIOUS
  <2>1. i \in 1..m - MaxFrame \/ i = m + 1 - MaxFrame
    BY <1>1
  <2>. QED  BY <1>3, <1>8, <2>1
<1>9. CASE x = Newline
  <2>1. Take(p, x) = [current |-> << >>, completed |-> Append(frames, c), overflowed |-> FALSE]
    BY <1>6, <1>9 DEF Take
  <2>2. SubSeq(s, (m + 1) + 1, m + 1) = << >>
    OBVIOUS
  <2>3. CutUpTo(Append(frames, c), S, s, m + 1)
    BY <1>1, <1>4, <1>5, <1>9, OneMoreFrame DEF Holds
  <2>4. \A i \in 1..(m + 1) - MaxFrame : ~TooLong(s, i)
    <3>1. m + 1 \in m + 1 - MaxFrame..m + 1 - MaxFrame + MaxFrame
      BY <1>1
    <3>. QED  BY <1>4, <1>8, <1>9, <3>1 DEF TooLong
  <2>5. /\ m + 1 \in 0..m + 1 /\ s[m + 1] = Newline /\ (m + 1) - (m + 1) <= MaxFrame
        /\ \A i \in (m + 1) + 1..m + 1 : s[i] # Newline
    BY <1>1, <1>4, <1>9
  <2>6. Holds(Take(p, x), Append(frames, c), S, s, m + 1, m + 1)
    BY <2>1, <2>2, <2>3, <2>4, <2>5 DEF Holds
  <2>. QED  BY <1>4, <2>6
<1>10. CASE x # Newline /\ m - d = MaxFrame
  <2>1. Take(p, x).overflowed
    BY <1>1, <1>6, <1>7, <1>10 DEF Take, Overflow, EmptyParser
  <2>2. d + 1 \in 1..(m + 1) - MaxFrame
    BY <1>1, <1>10
  <2>3. TooLong(s, d + 1)
    <3>. SUFFICES ASSUME NEW j \in d + 1..(d + 1) + MaxFrame PROVE s[j] # Newline
      BY DEF TooLong
    <3>1. j \in d + 1..m \/ j = m + 1
      BY <1>1, <1>10
    <3>. QED  BY <1>2, <1>4, <1>10, <3>1
  <2>. QED  BY <1>4, <2>1, <2>2, <2>3 DEF GivesUp
<1>11. CASE x # Newline /\ m - d < MaxFrame
  <2>1. Take(p, x) = [current |-> Append(c, x), completed |-> frames, overflowed |-> FALSE]
    <3>1. ~p.overflowed /\ p.current = c /\ ~(Len(p.current) >= MaxFrame)
      BY <1>1, <1>6, <1>7, <1>11
    <3>2. Take(p, x) = [p EXCEPT !.current = Append(@, x)]
      BY <1>11, <3>1 DEF Take
    <3>. QED  BY <1>6, <3>2
  <2>2. \A i \in d + 1..m + 1 : s[i] # Newline
    <3>. SUFFICES ASSUME NEW i \in d + 1..m + 1 PROVE s[i] # Newline
      OBVIOUS
    <3>1. i \in d + 1..m \/ i = m + 1
      BY <1>1
    <3>. QED  BY <1>2, <1>4, <1>11, <3>1
  <2>3. \A i \in 1..(m + 1) - MaxFrame : ~TooLong(s, i)
    <3>. SUFFICES ASSUME NEW i \in 1..(m + 1) - MaxFrame PROVE ~TooLong(s, i)
      OBVIOUS
    <3>1. CASE i \in 1..m - MaxFrame
      BY <1>3, <3>1
    <3>2. CASE i = m + 1 - MaxFrame
      <4>1. d # 0 /\ d \in i..i + MaxFrame
        BY <1>1, <1>11, <3>2
      <4>. QED  BY <1>2, <4>1 DEF TooLong
    <3>3. i \in 1..m - MaxFrame \/ i = m + 1 - MaxFrame
      BY <1>1
    <3>. QED  BY <3>1, <3>2, <3>3
  <2>4. d \in 0..m + 1 /\ (m + 1) - d <= MaxFrame
    BY <1>1, <1>11
  <2>5. Holds(Take(p, x), frames, S, s, m + 1, d)
    BY <1>2, <1>7, <2>1, <2>2, <2>3, <2>4 DEF Holds
  <2>. QED  BY <1>4, <2>5
<1>12. m - d = MaxFrame \/ m - d < MaxFrame
  BY <1>1
<1>. QED  BY <1>9, <1>10, <1>11, <1>12

\* What gave up stays so.
LEMMA TakeGivesUp ==
  ASSUME NEW s, NEW m \in Nat, NEW p, NEW x, GivesUp(p, s, m)
  PROVE  GivesUp(Take(p, x), s, m + 1)
<1>1. Take(p, x) = p
  BY DEF GivesUp, Take
<1>2. 1..m - MaxFrame \subseteq 1..(m + 1) - MaxFrame
  BY FrameAssumption DEF FrameAssumption
<1>. QED  BY <1>1, <1>2 DEF GivesUp

\* what the parser may be after m units of s
Parsed(p, S, s, m) == GivesUp(p, s, m) \/ \E fs, d : Holds(p, fs, S, s, m, d)

\* Whatever is read after what the parser holds, append() cuts it where it must be cut, or
\* gives up for a reason.
LEMMA AppendedCuts ==
  ASSUME NEW q, Between(q), NEW units, Sequence(units)
  PROVE  \E S : /\ q.current \o units \in Seq(S)
               /\ Parsed(Appended(q, units), S, q.current \o units, Len(q.current \o units))
<1>1. PICK c : c = q.current
  OBVIOUS
<1>2. PICK A : c \in Seq(A)
  BY <1>1 DEF Between, Sequence
<1>3. PICK B : units \in Seq(B)
  BY DEF Sequence
<1>4. PICK S : S = A \cup B \cup {Newline}
  OBVIOUS
<1>5. PICK s : s = c \o units
  OBVIOUS
<1>6. PICK l \in Nat, n \in Nat : l = Len(c) /\ n = Len(units)
  BY <1>2, <1>3
<1>7. c \in Seq(S) /\ units \in Seq(S)
  <2>1. \A i \in 1..l : c[i] \in S
    BY <1>2, <1>4, <1>6
  <2>2. \A i \in 1..n : units[i] \in S
    BY <1>3, <1>4, <1>6
  <2>. QED  BY <1>2, <1>3, <1>6, <2>1, <2>2
<1>8. /\ s \in Seq(S) /\ Len(s) = l + n
      /\ \A i \in 1..l : s[i] = c[i]
      /\ \A i \in 1..n : s[l + i] = units[i]
  BY <1>5, <1>6, <1>7
<1>9. PICK r : Takes(r, n, q, units) /\ r[n] = Appended(q, units)
  BY <1>3, <1>6, AppendedTakes
<1>10. Parsed(r[0], S, s, l + 0)
  <2>1. q = [current |-> c, completed |-> << >>, overflowed |-> FALSE]
    BY <1>1 DEF Between
  <2>2. l <= MaxFrame /\ MaxFrame \in Nat /\ \A i \in 1..l : s[i] # Newline
    BY <1>1, <1>2, <1>6, <1>8, FrameAssumption DEF Between, FrameAssumption
  <2>3. SubSeq(s, 0 + 1, l) = c
    <3>1. PICK t : t = SubSeq(s, 0 + 1, l)
      OBVIOUS
    <3>2. l <= Len(s) /\ 0 \in Nat /\ 0 <= l /\ l - 0 = l /\ \A i \in 1..l : 0 + i = i
      BY <1>8
    <3>3. t \in Seq(S) /\ Len(t) = l - 0 /\ \A i \in 1..l - 0 : t[i] = s[0 + i]
      BY <1>8, <3>1, <3>2, PiecesJoin
    <3>4. Len(t) = l /\ \A i \in 1..l : t[i] = c[i]
      BY <1>8, <3>2, <3>3
    <3>5. t = c
      BY <1>6, <1>7, <3>3, <3>4
    <3>. QED  BY <3>1, <3>5
  <2>4. CutUpTo(<< >>, S, s, 0)
    <3>1. PICK U : U = [k \in 0..0 |-> << >>]
      OBVIOUS
    <3>2. U \in [0..0 -> Seq(S)] /\ U[0] = << >>
      BY <3>1
    <3>3. Joins(U, << >>)
      BY <3>1 DEF Joins
    <3>4. SubSeq(s, 1, 0) = << >> /\ << >> \in Seq(Seq(S)) /\ Len(<< >>) = 0
      BY <1>8
    <3>. QED  BY <3>2, <3>3, <3>4 DEF CutUpTo
  <2>5. 1..l - MaxFrame = {} /\ 0 \in 0..l /\ l - 0 <= MaxFrame
    BY <2>2
  <2>6. \A i \in 0 + 1..l : s[i] # Newline
    BY <2>2
  <2>7. Holds(q, << >>, S, s, l, 0)
    BY <2>1, <2>3, <2>4, <2>5, <2>6 DEF Holds
  <2>8. r[0] = q /\ l + 0 = l
    BY <1>9 DEF Takes
  <2>. QED  BY <2>7, <2>8 DEF Parsed
<1>11. ASSUME NEW k \in Nat, k + 1 <= n, Parsed(r[k], S, s, l + k)
       PROVE  Parsed(r[k + 1], S, s, l + (k + 1))
  <2>1. r[k + 1] = Take(r[k], s[(l + k) + 1])
    <3>1. k \in 0..n - 1 /\ k + 1 \in 1..n /\ l + (k + 1) = (l + k) + 1
      BY <1>11
    <3>. QED  BY <1>8, <1>9, <3>1 DEF Takes
  <2>2. l + k \in Nat /\ (l + k) + 1 <= Len(s) /\ l + (k + 1) = (l + k) + 1
    BY <1>8, <1>11
  <2>3. CASE GivesUp(r[k], s, l + k)
    BY <2>1, <2>2, <2>3, TakeGivesUp DEF Parsed
  <2>4. CASE \E fs, d : Holds(r[k], fs, S, s, l + k, d)
    <3>1. PICK fs, d : Holds(r[k], fs, S, s, l + k, d)
      BY <2>4
    <3>. QED  BY <1>8, <2>1, <2>2, <3>1, TakeHolds DEF Parsed
  <2>. QED  BY <1>11, <2>3, <2>4 DEF Parsed
<1>12. Parsed(r[n], S, s, l + n)
  <2>. DEFINE bad == {k \in Nat : k <= n /\ ~Parsed(r[k], S, s, l + k)}
  <2>1. 0 \notin bad
    BY <1>10
  <2>2. ASSUME NEW k \in Nat, k + 1 \in bad PROVE k \in bad
    <3>1. k + 1 <= n /\ ~Parsed(r[k + 1], S, s, l + (k + 1)) /\ k <= n
      BY <2>2
    <3>. QED  BY <1>11, <3>1
  <2>3. bad \in SUBSET Nat
    OBVIOUS
  <2>. HIDE DEF bad
  <2>4. bad = {}
    BY <2>1, <2>2, <2>3, NoException
  <2>. QED  BY <2>4 DEF bad
<1>. QED  BY <1>1, <1>5, <1>8, <1>9, <1>12

\* What is held is the beginning of a frame, and with the frames it is the whole stream.
LEMMA HeldIsWhole ==
  ASSUME NEW S, NEW s \in Seq(S), NEW p, NEW frames, NEW d,
         Holds(p, frames, S, s, Len(s), d)
  PROVE  /\ Between(Popped(p)) /\ ~p.overflowed
         /\ Uncut(p.completed) \o p.current = s
<1>1. PICK m \in Nat : m = Len(s)
  OBVIOUS
<1>2. PICK c : c = SubSeq(s, d + 1, m)
  OBVIOUS
<1>3. p = [current |-> c, completed |-> frames, overflowed |-> FALSE]
  BY <1>1, <1>2 DEF Holds
<1>4. d \in Nat /\ d <= m /\ m <= Len(s) /\ m - d <= MaxFrame
      /\ CutUpTo(frames, S, s, d) /\ \A i \in d + 1..m : s[i] # Newline
  BY <1>1 DEF Holds
<1>5. /\ c \in Seq(S) /\ Len(c) = m - d /\ \A i \in 1..m - d : c[i] = s[d + i]
      /\ SubSeq(s, 1, d) \o c = SubSeq(s, 1, m)
  BY <1>2, <1>4, PiecesJoin
<1>6. Popped(p) = [current |-> c, completed |-> << >>, overflowed |-> FALSE]
  <2>1. Popped(p) = [p EXCEPT !.completed = << >>]
    BY DEF Popped
  <2>. QED  BY <1>3, <2>1
<1>7. \A i \in 1..Len(c) : c[i] # Newline
  <2>. SUFFICES ASSUME NEW i \in 1..Len(c) PROVE c[i] # Newline
    OBVIOUS
  <2>1. i \in 1..m - d /\ d + i \in d + 1..m
    BY <1>4, <1>5
  <2>. QED  BY <1>4, <1>5, <2>1
<1>8. Between(Popped(p))
  BY <1>4, <1>5, <1>6, <1>7 DEF Between, Sequence
<1>9. Uncut(frames) = SubSeq(s, 1, d)
  BY <1>4, UncutIsJoined DEF CutUpTo
<1>10. SubSeq(s, 1, m) = s
  BY <1>1
<1>. QED  BY <1>3, <1>5, <1>8, <1>9, <1>10

-----------------------------------------------------------------------------
\* a connection whose stream is a sequence, and whose parser is between two reads
Sound(c) ==
  /\ c = [link |-> c.link, authenticated |-> c.authenticated, awaitingPong |-> c.awaitingPong,
          wire |-> c.wire, parser |-> c.parser, session |-> c.session,
          inbox |-> c.inbox, pending |-> c.pending]
  /\ Sequence(c.wire) /\ Between(c.parser)

StreamInv == Sound(conn)

\* Nothing is a sequence.
LEMMA EmptySequence == Sequence(<< >>)
BY DEF Sequence

\* Two sequences joined are one.
LEMMA JoinedSequence ==
  ASSUME NEW s, NEW t, Sequence(s), Sequence(t) PROVE Sequence(s \o t)
<1>1. PICK A : s \in Seq(A)
  BY DEF Sequence
<1>2. PICK B : t \in Seq(B)
  BY DEF Sequence
<1>3. s \in Seq(A \cup B) /\ t \in Seq(A \cup B)
  <2>1. \A i \in 1..Len(s) : s[i] \in A \cup B
    BY <1>1
  <2>2. \A i \in 1..Len(t) : t[i] \in A \cup B
    BY <1>2
  <2>. QED  BY <1>1, <1>2, <2>1, <2>2
<1>4. s \o t \in Seq(A \cup B)
  BY <1>3
<1>. QED  BY <1>4 DEF Sequence

\* A frame is one, whatever its message.
LEMMA FrameSequence == ASSUME NEW m PROVE Sequence(Frame(m))
<1>1. PICK n : n = CASE m.copy.kind = "long" -> MaxFrame + 1
                   [] m.copy.kind = "text" -> MaxFrame
                   [] OTHER -> 1
  OBVIOUS
<1>2. n \in Nat
  BY <1>1, FrameAssumption DEF FrameAssumption
<1>3. PICK s : s = [i \in 1..n |-> m]
  OBVIOUS
<1>4. Sequence(s)
  <2>1. s \in Seq({m})
    BY <1>2, <1>3
  <2>. QED  BY <2>1 DEF Sequence
<1>5. Sequence(<<Newline>>)
  <2>1. <<Newline>> \in Seq({Newline})
    OBVIOUS
  <2>. QED  BY <2>1 DEF Sequence
<1>6. Frame(m) = s \o <<Newline>>
  BY <1>1, <1>3 DEF Frame
<1>. QED  BY <1>4, <1>5, <1>6, JoinedSequence

\* What is read of a stream and what is left of it are.
LEMMA PieceSequence ==
  ASSUME NEW s, Sequence(s), NEW n \in 1..Len(s)
  PROVE  Sequence(SubSeq(s, 1, n)) /\ Sequence(SubSeq(s, n + 1, Len(s)))
<1>1. PICK A : s \in Seq(A)
  BY DEF Sequence
<1>2. SubSeq(s, 1, n) \in Seq(A) /\ SubSeq(s, n + 1, Len(s)) \in Seq(A)
  BY <1>1
<1>. QED  BY <1>2 DEF Sequence

\* A client without a connection, and a parser that has read nothing.
LEMMA NoConnSound == Sound(NoConn) /\ Between(EmptyParser)
<1>1. Between(EmptyParser)
  <2>1. Len(<< >>) <= MaxFrame /\ DOMAIN << >> = {}
    BY FrameAssumption DEF FrameAssumption
  <2>. QED  BY <2>1, EmptySequence DEF Between, EmptyParser
<1>. QED  BY <1>1, EmptySequence DEF Sound, NoConn

\* A field that is neither the stream nor the parser may be anything, the stream any
\* sequence, and the parser any that is between two reads.
LEMMA SoundFields ==
  ASSUME NEW c, Sound(c), NEW x
  PROVE  /\ Sound([c EXCEPT !.link = x]) /\ Sound([c EXCEPT !.authenticated = x])
         /\ Sound([c EXCEPT !.awaitingPong = x]) /\ Sound([c EXCEPT !.session = x])
         /\ Sound([c EXCEPT !.inbox = x]) /\ Sound([c EXCEPT !.pending = x])
         /\ Sequence(x) => Sound([c EXCEPT !.wire = x])
         /\ Between(x) => Sound([c EXCEPT !.parser = x])
<1>1. PICK l, a, o, w, q, e, b, y :
        /\ c = [link |-> l, authenticated |-> a, awaitingPong |-> o, wire |-> w, parser |-> q,
                session |-> e, inbox |-> b, pending |-> y]
        /\ Sequence(w) /\ Between(q)
  BY DEF Sound
<1>2. [c EXCEPT !.link = x]
      = [link |-> x, authenticated |-> a, awaitingPong |-> o, wire |-> w, parser |-> q,
         session |-> e, inbox |-> b, pending |-> y]
  BY <1>1
<1>3. [c EXCEPT !.authenticated = x]
      = [link |-> l, authenticated |-> x, awaitingPong |-> o, wire |-> w, parser |-> q,
         session |-> e, inbox |-> b, pending |-> y]
  BY <1>1
<1>4. [c EXCEPT !.awaitingPong = x]
      = [link |-> l, authenticated |-> a, awaitingPong |-> x, wire |-> w, parser |-> q,
         session |-> e, inbox |-> b, pending |-> y]
  BY <1>1
<1>5. [c EXCEPT !.wire = x]
      = [link |-> l, authenticated |-> a, awaitingPong |-> o, wire |-> x, parser |-> q,
         session |-> e, inbox |-> b, pending |-> y]
  BY <1>1
<1>6. [c EXCEPT !.parser = x]
      = [link |-> l, authenticated |-> a, awaitingPong |-> o, wire |-> w, parser |-> x,
         session |-> e, inbox |-> b, pending |-> y]
  BY <1>1
<1>7. [c EXCEPT !.session = x]
      = [link |-> l, authenticated |-> a, awaitingPong |-> o, wire |-> w, parser |-> q,
         session |-> x, inbox |-> b, pending |-> y]
  BY <1>1
<1>8. [c EXCEPT !.inbox = x]
      = [link |-> l, authenticated |-> a, awaitingPong |-> o, wire |-> w, parser |-> q,
         session |-> e, inbox |-> x, pending |-> y]
  BY <1>1
<1>9. [c EXCEPT !.pending = x]
      = [link |-> l, authenticated |-> a, awaitingPong |-> o, wire |-> w, parser |-> q,
         session |-> e, inbox |-> b, pending |-> x]
  BY <1>1
<1>. QED  BY <1>1, <1>2, <1>3, <1>4, <1>5, <1>6, <1>7, <1>8, <1>9 DEF Sound

\* After its end a connection has an empty stream and a new parser.
LEMMA EndedSound == ASSUME NEW c, Sound(c) PROVE Sound(Ended(c))
<1>1. PICK d : d = [c EXCEPT !.link = "broken"]
  OBVIOUS
<1>2. PICK e : e = [d EXCEPT !.wire = << >>]
  OBVIOUS
<1>3. PICK f : f = [e EXCEPT !.parser = EmptyParser]
  OBVIOUS
<1>4. Ended(c) = [f EXCEPT !.session = "none"]
  BY <1>1, <1>2, <1>3 DEF Ended
<1>5. Sound(d)
  BY <1>1, SoundFields
<1>6. Sound(e)
  BY <1>2, <1>5, EmptySequence, SoundFields
<1>7. Sound(f)
  BY <1>3, <1>6, NoConnSound, SoundFields
<1>8. Sound([f EXCEPT !.session = "none"])
  BY <1>7, SoundFields
<1>. QED  BY <1>4, <1>8

\* What is written goes to the end of the stream.
LEMMA WrittenSound ==
  ASSUME NEW c, Sound(c), NEW m, Written(c, m)
  PROVE  Sound(conn')
<1>1. Sound([c EXCEPT !.wire = @ \o Frame(m)])
  <2>1. Sequence(c.wire \o Frame(m))
    BY JoinedSequence, FrameSequence DEF Sound
  <2>. QED  BY <2>1, SoundFields
<1>. QED  BY <1>1 DEF Written

\* A read of any length is cut in order, and leaves the parser between two reads.
LEMMA ReadCuts ==
  ASSUME Sound(conn), NEW n \in 1..Len(conn.wire)
  PROVE  /\ CutsInOrder(n)
         /\ ~Appended(conn.parser, SubSeq(conn.wire, 1, n)).overflowed =>
              Between(Popped(Appended(conn.parser, SubSeq(conn.wire, 1, n))))
<1>1. PICK units : units = SubSeq(conn.wire, 1, n)
  OBVIOUS
<1>2. PICK q : q = conn.parser
  OBVIOUS
<1>3. PICK s : s = q.current \o units
  OBVIOUS
<1>4. PICK p : p = Appended(q, units)
  OBVIOUS
<1>5. PICK S : s \in Seq(S) /\ Parsed(p, S, s, Len(s))
  BY <1>1, <1>2, <1>3, <1>4, AppendedCuts, PieceSequence DEF Sound
<1>6. CASE GivesUp(p, s, Len(s))
  BY <1>1, <1>2, <1>3, <1>4, <1>6 DEF GivesUp, CutsInOrder
<1>7. CASE \E fs, d : Holds(p, fs, S, s, Len(s), d)
  <2>1. PICK fs, d : Holds(p, fs, S, s, Len(s), d)
    BY <1>7
  <2>2. Between(Popped(p)) /\ ~p.overflowed /\ Uncut(p.completed) \o p.current = s
    BY <1>5, <2>1, HeldIsWhole
  <2>3. ~\E i \in 1..Len(s) - MaxFrame : TooLong(s, i)
    BY <2>1 DEF Holds
  <2>. QED  BY <1>1, <1>2, <1>3, <1>4, <2>2, <2>3 DEF CutsInOrder
<1>. QED  BY <1>5, <1>6, <1>7 DEF Parsed

\* A connection that ends while it is read: its parser no longer matters.
LEMMA EndedOfHeard ==
  ASSUME NEW c, Sound(c), NEW q, NEW x
  PROVE  Sound(Ended([[c EXCEPT !.parser = q] EXCEPT !.inbox = x]))
<1>1. PICK d : d = [c EXCEPT !.inbox = x]
  OBVIOUS
<1>2. Ended([[c EXCEPT !.parser = q] EXCEPT !.inbox = x]) = Ended(d)
  BY <1>1 DEF Ended, Sound
<1>. QED  BY <1>1, <1>2, SoundFields, EndedSound

\* The server's read leaves a parser between two reads, or an ended connection.
LEMMA ServerReadsSound ==
  ASSUME Sound(conn), NEW n \in 1..Len(conn.wire), ServerReads(n)
  PROVE  Sound(conn')
<1>1. PICK p : p = Appended(conn.parser, SubSeq(conn.wire, 1, n))
  OBVIOUS
<1>2. PICK w : w = SubSeq(conn.wire, n + 1, Len(conn.wire)) /\ Sequence(w)
  BY PieceSequence DEF Sound
<1>3. PICK x : x = conn.inbox \o Replies(p.completed)
  OBVIOUS
<1>4. PICK heard : heard = [conn EXCEPT !.wire = w, !.parser = Popped(p), !.inbox = x]
  OBVIOUS
<1>5. \/ conn' = Ended(heard)
      \/ ~p.overflowed /\ \E y : conn' = [heard EXCEPT !.session = y]
  BY <1>1, <1>2, <1>3, <1>4 DEF ServerReads
<1>6. PICK c : c = [conn EXCEPT !.wire = w]
  OBVIOUS
<1>7. PICK d : d = [c EXCEPT !.parser = Popped(p)]
  OBVIOUS
<1>8. heard = [d EXCEPT !.inbox = x]
  BY <1>4, <1>6, <1>7
<1>9. Sound(c)
  BY <1>2, <1>6, SoundFields
<1>10. Sound(Ended(heard))
  BY <1>7, <1>8, <1>9, EndedOfHeard
<1>11. ASSUME ~p.overflowed, NEW y PROVE Sound([heard EXCEPT !.session = y])
  <2>1. Between(Popped(p))
    BY <1>1, <1>11, ReadCuts
  <2>2. Sound(d)
    BY <1>7, <1>9, <2>1, SoundFields
  <2>3. Sound(heard)
    BY <1>8, <2>2, SoundFields
  <2>. QED  BY <2>3, SoundFields
<1>. QED  BY <1>5, <1>10, <1>11

\* At the start there is no connection.
LEMMA InitSound == CliInit => Sound(conn)
BY NoConnSound DEF CliInit

\* Every step of the client, the server and the network keeps it.
LEMMA StepSound == Sound(conn) /\ [CliNext]_cliVars => Sound(conn')
<1>. SUFFICES ASSUME Sound(conn), [CliNext]_cliVars PROVE Sound(conn')
  OBVIOUS
<1>0. Close => Sound(conn')
  BY NoConnSound DEF Close
<1>. USE DEF thread, clock, world
<1>1. CASE ConnectToServer
  <2>1. Sound([NoConn EXCEPT !.link = "open", !.session = "new"])
    <3>1. Sound([[NoConn EXCEPT !.link = "open"] EXCEPT !.session = "new"])
      BY NoConnSound, SoundFields
    <3>2. [[NoConn EXCEPT !.link = "open"] EXCEPT !.session = "new"]
          = [NoConn EXCEPT !.link = "open", !.session = "new"]
      BY DEF NoConn
    <3>. QED  BY <3>1, <3>2
  <2>. QED  BY <1>1, <2>1, WrittenSound DEF ConnectToServer
<1>2. CASE PollIncoming
  <2>1. ASSUME NEW m, NEW c, Sound(c), Process(m, c) PROVE Sound(conn')
    <3>1. CASE m.type = "failed"
      BY <1>0, <2>1, <3>1 DEF Process
    <3>2. CASE m.type = "relay"
      BY <2>1, <3>2 DEF Process
    <3>3. CASE m.type \notin {"failed", "relay"}
      <4>1. conn' = [c EXCEPT !.authenticated = c.authenticated \/ m.type = "ok",
                              !.awaitingPong = c.awaitingPong /\ m.type # "pong"]
        BY <2>1, <3>3 DEF Process
      <4>2. PICK d : d = [c EXCEPT !.authenticated = c.authenticated \/ m.type = "ok"]
        OBVIOUS
      <4>3. conn' = [d EXCEPT !.awaitingPong = c.awaitingPong /\ m.type # "pong"]
        BY <4>1, <4>2
      <4>4. Sound(d)
        BY <2>1, <4>2, SoundFields
      <4>. QED  BY <4>3, <4>4, SoundFields
    <3>. QED  BY <3>1, <3>2, <3>3
  <2>2. Sound([conn EXCEPT !.pending = Tail(@)])
    BY SoundFields
  <2>3. Sound([conn EXCEPT !.pending = Tail(Head(conn.inbox)), !.inbox = Tail(@)])
    <3>1. PICK d : d = [conn EXCEPT !.pending = Tail(Head(conn.inbox))]
      OBVIOUS
    <3>2. [conn EXCEPT !.pending = Tail(Head(conn.inbox)), !.inbox = Tail(@)]
          = [d EXCEPT !.inbox = Tail(conn.inbox)]
      BY <3>1
    <3>3. Sound(d)
      BY <3>1, SoundFields
    <3>. QED  BY <3>2, <3>3, SoundFields
  <2>. QED  BY <1>0, <1>2, <2>1, <2>2, <2>3 DEF PollIncoming
<1>3. CASE PollClipboard
  BY <1>3 DEF PollClipboard
<1>4. CASE Send
  BY <1>0, <1>4, WrittenSound DEF Send, NotWritten
<1>5. CASE MaybeSendHeartbeat
  <2>1. Sound([conn EXCEPT !.awaitingPong = TRUE])
    BY SoundFields
  <2>. QED
    BY <1>0, <1>5, <2>1, WrittenSound
    DEF MaybeSendHeartbeat, NotWritten, HeartbeatDead, HeartbeatDue
<1>6. CASE \E ticks \in {0, 1} : Sleep(ticks)
  BY <1>6 DEF Sleep
<1>7. CASE Blocked
  BY <1>7 DEF Blocked
<1>8. CASE Signal
  BY <1>0, <1>8 DEF Signal
<1>9. CASE ServerReadsSome
  BY <1>9, ServerReadsSound DEF ServerReadsSome
<1>10. CASE Relay
  <2>1. PICK inbox : conn' = [conn EXCEPT !.inbox = inbox]
    BY <1>10 DEF Relay
  <2>. QED  BY <2>1, SoundFields
<1>11. CASE Break
  <2>1. PICK inbox : conn' = [Ended(conn) EXCEPT !.inbox = inbox]
    BY <1>11 DEF Break
  <2>. QED  BY <2>1, SoundFields, EndedSound
<1>12. CASE FallSilent
  <2>1. PICK inbox : conn' = [Ended(conn) EXCEPT !.link = "silent", !.inbox = inbox]
    BY <1>12 DEF FallSilent
  <2>2. PICK d : d = [Ended(conn) EXCEPT !.link = "silent"]
    OBVIOUS
  <2>3. conn' = [d EXCEPT !.inbox = inbox]
    BY <2>1, <2>2
  <2>4. Sound(d)
    BY <2>2, SoundFields, EndedSound
  <2>. QED  BY <2>3, <2>4, SoundFields
<1>13. CASE ServerStarts
  BY <1>13 DEF ServerStarts
<1>14. CASE LocalCopy
  BY <1>14 DEF LocalCopy
<1>15. CASE UNCHANGED cliVars
  BY <1>15 DEF cliVars
<1>. QED
  BY <1>1, <1>2, <1>3, <1>4, <1>5, <1>6, <1>7, <1>8, <1>9, <1>10, <1>11, <1>12, <1>13, <1>14,
     <1>15
  DEF CliNext, Thread

\* In every reachable state the server's parser holds the beginning of one frame, at most
\* MaxFrame units of it, and nothing it should have handed out (FrameParser::append, popFrame).
THEOREM StreamInvariant == CliSpec => []StreamInv
<1>1. CliInit => StreamInv
  BY InitSound DEF StreamInv
<1>2. StreamInv /\ [CliNext]_cliVars => StreamInv'
  BY StepSound DEF StreamInv
<1>. QED  BY <1>1, <1>2, PTL DEF CliSpec

\* However TCP cuts the stream, a read hands out the frames that were written, in order and
\* whole, and ends the connection exactly for a line that is too long (FrameParser::append).
THEOREM FramesStayInOrder == CliSpec => FramesInOrder
<1>1. StreamInv => [\A n \in 1..Len(conn.wire) : ServerReads(n) => CutsInOrder(n)]_cliVars
  BY ReadCuts DEF StreamInv
<1>. QED  BY <1>1, StreamInvariant, PTL DEF FramesInOrder

=============================================================================
