--------------------------- MODULE GuiConnection ---------------------------
(***************************************************************************)
(* The connection of the two Qt clients: TcpClient with its reconnect,     *)
(* heartbeat and heartbeat timeout timers (tcpclient.cpp), and what the    *)
(* main window does on its signals, which reach it synchronously.          *)
(*                                                                         *)
(* Everything runs in one event loop, so a handler is a step; the message  *)
(* box of a rejected authentication runs a loop of its own, in which all   *)
(* but the user's clicks goes on.  Of QSslSocket, which is not part of the *)
(* repository, the model has the states the handlers depend on.  Time is   *)
(* counted in ticks; no timer is late.                                     *)
(***************************************************************************)
EXTENDS Integers

CONSTANTS
  Heartbeat,    \* kHeartbeatIntervalMs, in ticks
  Timeout,      \* kHeartbeatTimeoutMs
  BaseDelay, MaxDelay,   \* kReconnectBaseDelayMs, kReconnectMaxDelayMs
  MaxAttempt,   \* where the exponent of the delay stops growing
  MaxDialogs    \* bound: message boxes on top of each other

ASSUME TimerAssumption ==
  /\ {Heartbeat, Timeout, BaseDelay, MaxDelay, MaxDialogs} \subseteq Nat \ {0}
  /\ MaxAttempt \in Nat

\* a fact of arithmetic, stated because the provers know nothing of exponents
ASSUME PowerAssumption == \A n \in 0..MaxAttempt : 2^n \in Nat

VARIABLES
  requested,       \* the window's connectionRequested
  monitoring,      \* whether the clipboard monitor's timer runs
  dialogs,         \* open message boxes of a rejected authentication
  manual,          \* manualDisconnect
  authenticated,
  attempt,         \* reconnectAttempt, as far as the delay depends on it
  reconnect, heartbeat, timeout,   \* the three timers: ticks to go, or Off
  socket,          \* unconnected, connecting, handshake, ready, closing
  pendingClose,    \* disconnectFromHost() was called on a connecting socket
  asked,           \* whether the server owes an auth_response
  live,            \* whether the other end still answers, or closes
  unanswered       \* the age of the oldest ping without a pong, Off when there is none

windowVars == <<requested, monitoring, dialogs>>
timerVars  == <<reconnect, heartbeat, timeout>>
vars == <<windowVars, manual, authenticated, attempt, timerVars, socket, pendingClose,
          asked, live, unanswered>>

Off == -1
Timer(max) == {Off} \cup 0..max
Connected == {"handshake", "ready", "closing"}   \* Qt signals disconnected from these

Least(m, n) == IF m < n THEN m ELSE n
Delay(n) == Least(BaseDelay * 2^n, MaxDelay)

-----------------------------------------------------------------------------
\* scheduleReconnect, n attempts after a connection succeeded
ScheduleReconnect(n) ==
  IF manual \/ reconnect # Off
  THEN UNCHANGED reconnect /\ attempt' = n
  ELSE reconnect' = Delay(n) /\ attempt' = Least(n + 1, MaxAttempt)

\* stopHeartbeat, and the flag every caller resets with it
HeartbeatStops ==
  /\ heartbeat' = Off
  /\ timeout' = Off
  /\ unanswered' = Off
  /\ authenticated' = FALSE

\* the socket is closed: handleDisconnected of the client and of the window
Disconnected ==
  /\ HeartbeatStops
  /\ monitoring' = FALSE
  /\ socket' = "unconnected"
  /\ pendingClose' = FALSE
  /\ asked' = FALSE
  /\ live' = TRUE

\* beginConnection: abort() of a socket that was connected signals disconnected, which
\* starts the reconnect timer that has just been stopped
BeginConnection(n) ==
  /\ HeartbeatStops
  /\ IF socket \in Connected
     THEN /\ reconnect' = Delay(n)
          /\ attempt' = Least(n + 1, MaxAttempt)
          /\ monitoring' = FALSE
     ELSE /\ reconnect' = Off
          /\ attempt' = n
          /\ UNCHANGED monitoring
  /\ socket' = "connecting"
  /\ pendingClose' = FALSE
  /\ asked' = FALSE
  /\ live' = TRUE

-----------------------------------------------------------------------------
(* The user.                                                                 *)

\* onConnectClicked, then connectToServer
ClickConnect ==
  /\ ~requested /\ dialogs = 0
  /\ requested' = TRUE
  /\ manual' = FALSE
  /\ BeginConnection(0)
  /\ UNCHANGED dialogs

\* plausible slip: the timer of the next attempt is not stopped
DisconnectFromServer_TimerRuns(monitors) ==
  /\ manual' = TRUE
  /\ UNCHANGED <<attempt, reconnect>>
  /\ \/ /\ socket = "unconnected"
        /\ HeartbeatStops
        /\ monitoring' = monitors
        /\ UNCHANGED <<socket, asked, live, pendingClose>>
     \/ /\ socket # "unconnected"
        /\ Disconnected

\* disconnectFromServer: at once, or when what the socket still holds is written;
\* monitors tells whether the clipboard is watched until then
DisconnectFromServer(monitors) ==
  /\ manual' = TRUE
  /\ reconnect' = Off
  /\ UNCHANGED attempt
  /\ \/ /\ socket \in {"unconnected", "connecting"}
        /\ HeartbeatStops
        /\ pendingClose' = (socket = "connecting")
        /\ monitoring' = monitors
        /\ UNCHANGED <<socket, asked, live>>
     \/ /\ socket \in Connected
        /\ HeartbeatStops
        /\ socket' = "closing"
        /\ monitoring' = monitors
        /\ UNCHANGED <<pendingClose, asked, live>>
     \/ /\ socket \in Connected
        /\ Disconnected

\* onConnectClicked
ClickDisconnect ==
  /\ requested /\ dialogs = 0
  /\ requested' = FALSE
  /\ DisconnectFromServer(FALSE)
  /\ UNCHANGED dialogs

\* the message box returns to handleAuthResponse
CloseDialog ==
  /\ dialogs > 0
  /\ dialogs' = dialogs - 1
  /\ DisconnectFromServer(monitoring)
  /\ UNCHANGED requested

-----------------------------------------------------------------------------
(* The socket.                                                               *)

\* handleConnected, which with TLS does nothing
TcpConnected ==
  /\ socket = "connecting"
  /\ socket' = "handshake"
  /\ UNCHANGED <<windowVars, manual, authenticated, attempt, timerVars, pendingClose, asked,
                 live, unanswered>>

\* plausible slip: the window is not told that the handshake is over
HandleConnected_Untold ==
  /\ socket = "handshake" /\ live
  /\ socket' = IF pendingClose THEN "closing" ELSE "ready"
  /\ attempt' = 0
  /\ pendingClose' = FALSE
  /\ UNCHANGED <<windowVars, manual, authenticated, timerVars, asked, live, unanswered>>

\* handleConnected without TLS, handleEncrypted with it: the window sends auth, and a
\* close that was waiting for the connection follows
HandleConnected ==
  /\ socket = "connecting" \/ (socket = "handshake" /\ live)
  /\ attempt' = 0
  /\ asked' = TRUE
  /\ socket' = IF pendingClose THEN "closing" ELSE "ready"
  /\ pendingClose' = FALSE
  /\ UNCHANGED <<windowVars, manual, authenticated, timerVars, live, unanswered>>

\* plausible slip: a connection that fails to come about is not tried again
ConnectFails_GivesUp ==
  /\ socket = "connecting"
  /\ socket' = "unconnected"
  /\ pendingClose' = FALSE
  /\ UNCHANGED <<windowVars, manual, authenticated, attempt, timerVars, asked, live, unanswered>>

\* handleError, with the socket unconnected: disconnected is not signalled
ConnectFails ==
  /\ socket = "connecting"
  /\ socket' = "unconnected"
  /\ pendingClose' = FALSE
  /\ ScheduleReconnect(attempt)
  /\ UNCHANGED <<windowVars, manual, authenticated, heartbeat, timeout, asked, live, unanswered>>

\* plausible slip: the clipboard is watched on
SocketCloses_Watching ==
  /\ socket \in Connected /\ (live \/ timeout = 0)
  /\ HeartbeatStops
  /\ socket' = "unconnected" /\ pendingClose' = FALSE /\ asked' = FALSE /\ live' = TRUE
  /\ ScheduleReconnect(attempt)
  /\ UNCHANGED windowVars /\ UNCHANGED manual

\* the server closes the connection, the handshake fails, the last bytes are written, or
\* handleHeartbeatTimeout aborts
SocketCloses ==
  /\ socket \in Connected /\ (live \/ timeout = 0)
  /\ Disconnected
  /\ ScheduleReconnect(attempt)
  /\ UNCHANGED <<requested, dialogs, manual>>

\* the other end is gone without a trace
LinkDies ==
  /\ socket \in Connected /\ live
  /\ live' = FALSE
  /\ UNCHANGED <<windowVars, manual, authenticated, attempt, timerVars, socket, pendingClose,
                 asked, unanswered>>

-----------------------------------------------------------------------------
(* handleReadyRead.  A closing socket still reads.                           *)

Answers == socket \in {"ready", "closing"} /\ live

\* handleReadyRead, then handleAuthResponse: resetHeartbeat, startMonitoring
AuthAccepted ==
  /\ asked /\ Answers
  /\ asked' = FALSE
  /\ authenticated' = TRUE
  /\ heartbeat' = Heartbeat
  /\ timeout' = Off
  /\ monitoring' = TRUE
  /\ UNCHANGED <<requested, dialogs, manual, attempt, reconnect, socket, pendingClose, live,
                 unanswered>>

\* the disconnect comes when the message box is closed
AuthRejected ==
  /\ asked /\ Answers
  /\ dialogs < MaxDialogs
  /\ asked' = FALSE
  /\ HeartbeatStops
  /\ requested' = FALSE
  /\ monitoring' = FALSE
  /\ dialogs' = dialogs + 1
  /\ UNCHANGED <<manual, attempt, reconnect, socket, pendingClose, live>>

Pong ==
  /\ unanswered # Off /\ Answers
  /\ timeout' = Off
  /\ unanswered' = Off
  /\ UNCHANGED <<windowVars, manual, authenticated, attempt, reconnect, heartbeat, socket,
                 pendingClose, asked, live>>

-----------------------------------------------------------------------------
(* The timers.                                                               *)

\* attemptReconnect
ReconnectFires ==
  /\ reconnect = 0
  /\ ~manual
  /\ BeginConnection(attempt)
  /\ UNCHANGED <<requested, dialogs, manual>>

\* sendHeartbeat: the single shot timeout starts anew with every ping
HeartbeatFires ==
  /\ heartbeat = 0
  /\ heartbeat' = Heartbeat
  /\ IF socket = "ready"
     THEN /\ timeout' = Timeout
          /\ unanswered' = IF unanswered = Off THEN 0 ELSE unanswered
     ELSE UNCHANGED <<timeout, unanswered>>
  /\ UNCHANGED <<windowVars, manual, authenticated, attempt, reconnect, socket, pendingClose,
                 asked, live>>

OneLess(t) == IF t = Off THEN Off ELSE t - 1

Tick ==
  /\ 0 \notin {reconnect, heartbeat, timeout}
  /\ reconnect' = OneLess(reconnect)
  /\ heartbeat' = OneLess(heartbeat)
  /\ timeout' = OneLess(timeout)
  /\ unanswered' = IF unanswered = Off THEN Off ELSE Least(unanswered + 1, Timeout + 1)
  /\ UNCHANGED <<windowVars, manual, authenticated, attempt, socket, pendingClose, asked, live>>

-----------------------------------------------------------------------------
Init ==
  /\ requested = FALSE /\ monitoring = FALSE /\ dialogs = 0
  /\ manual = FALSE /\ authenticated = FALSE /\ attempt = 0
  /\ reconnect = Off /\ heartbeat = Off /\ timeout = Off
  /\ socket = "unconnected" /\ pendingClose = FALSE
  /\ asked = FALSE /\ live = TRUE /\ unanswered = Off

User     == ClickConnect \/ ClickDisconnect \/ CloseDialog
Opening  == TcpConnected \/ HandleConnected \/ ConnectFails
Answered == AuthAccepted \/ AuthRejected

Next == User \/ Opening \/ SocketCloses \/ LinkDies \/ Answered \/ Pong
        \/ ReconnectFires \/ HeartbeatFires \/ Tick

Spec == Init /\ [][Next]_vars

\* The event loop runs, an attempt to connect ends one way or the other, and a server that
\* is there answers and lets a closing socket go.
FairSpec ==
  /\ Spec
  /\ WF_vars(Tick) /\ WF_vars(ReconnectFires) /\ WF_vars(HeartbeatFires)
  /\ WF_vars(Opening) /\ WF_vars(Answered) /\ WF_vars(Pong)
  /\ WF_vars(socket = "closing" /\ SocketCloses)

-----------------------------------------------------------------------------
\* While the window says the user wants the connection, a client without a socket has
\* another attempt coming (scheduleReconnect is reached from every end of a connection).
AttemptComing == requested /\ socket = "unconnected" => reconnect # Off /\ ~manual

\* After Disconnect, or with the last rejection dismissed, nothing connects again by
\* itself: no timer runs, and an attempt under way is to be closed.
StaysDisconnected ==
  ~requested /\ dialogs = 0 => reconnect = Off /\ (socket = "connecting" => pendingClose)

\* The clipboard is watched, and the server pinged, from the accepted authentication until
\* the session is over, however it ends; only a socket that is closing may still be
\* watched for (and onClipboardTextChanged then sends nothing).
WatchedInSession ==
  /\ authenticated => monitoring
  /\ monitoring => authenticated \/ socket = "closing"
  /\ (heartbeat # Off) <=> authenticated
  /\ timeout # Off => authenticated

\* A ping that is not answered for the heartbeat timeout ends the connection, as
\* docs/07_client/client-design.md has it.  It does not: sendHeartbeat starts the timeout
\* anew with every ping, and the next ping comes before it is over.
DeadLinkNoticed == unanswered <= Timeout

\* The timer of another attempt runs over an open socket.  This comes about when Connect
\* is clicked on a socket that is not yet closed after Disconnect: the abort() in
\* beginConnection signals disconnected after the timer was stopped.
Overlaps == reconnect # Off /\ socket # "unconnected"

\* Once nothing but the client acts, the user's wish is met for good, reconnecting as often
\* as it takes - unless the other end is silently gone (see DeadLinkNoticed; before the
\* authentication there is no heartbeat at all), or the timer of another attempt overlaps
\* the connection: it then cuts it, and every one after it, within a second.
Settles ==
  \/ []<><<User \/ ConnectFails \/ AuthRejected \/ SocketCloses>>_vars
  \/ []<>~live
  \/ []<>Overlaps
  \/ <>[](IF requested THEN authenticated ELSE dialogs > 0 \/ socket # "ready")

=============================================================================
