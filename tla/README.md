# Verification of RemoteClipboard

RemoteClipboard keeps the clipboards of several computers in step. A server (two
builds, 64 MB and 512 MB, over one `server_common`) accepts TLS connections, authenticates
clients and relays their texts and files to the others; the clients are a Linux command
line program, a Qt window for Wayland and a Qt window for Windows. The TLA+ modules here
model the server's threads, its routing, its handling of files and of failed logins, its frame
parser and its database's schema; in the clients the observers of the clipboard, the loop of
the command line program, the connection, the profiles and the settings of the Qt programs,
and the reception of files; and the configuration files of all of them. TLC checks them on small
instances. Of the 40 properties the runs find to hold, 33 are about safety, and each of these is also a theorem, which TLAPS proves
for every size; the other seven say that something happens in the end.

Run in this directory: `tlc -workers 2 -config <X>.cfg <M>` for a run of the table below
(`PROJECT.json` has them too), and `tlapm <M>Proofs.tla` for the proofs, where `<M>` is `SessionLifecycle`, `Delivery`,
`FileIntake`, `BundleIntake`, `AuthRate`, `Client`, `Receiver` or `Configuration` (some minutes at most each).

## 1. The system

### Components

| component | state | operations | what makes it correct |
|---|---|---|---|
| **sessions and threads** (`tcpserver.cpp`: `startServer`, `acceptNewConnection`, `clientLoop`, `writerLoop`, `enqueue`, `requestClientClose`, `finalizeClient`, `reapClosedClients`, `stopServer`) | `running_`, `clients_` by descriptor, `activeHandshakes_`, for each session two threads, its socket, `closing`, `finished`, a send queue with mutex and condition variable | accept, handshake, read, write, broadcast into another session's queue, close, reap, stop | no thread works on a descriptor that is closed or reused; no session is lost; the handshake counter is exact; no wakeup is lost; stop ends everything |
| **authentication and routing** (`authenticateClient`, `processMessage`, `broadcastMessage`, `router.cpp`, `recordAcceptedEvent`) | `authenticated`, the router's map of callbacks, queues with a byte budget | auth, register, accept an event, snapshot, send to each recipient, drop the slow | each recipient gets what the others published, in each publisher's order, once, without a gap; never its own |
| **chunked uploads** (`handleChunkTransfer*`, `discardTransfer`, `cleanupExpiredTransfers`) | `incomingTransfers` of each session, work files in `.transfers`, stored files | start, chunk, complete, expire, discard | quota; sequence, size and digest; recipients learn only of what is stored; no work file stays |
| **bundles, retention, upload window** (`persistFiles`, `makeFilePathUnique`, `cleanupExpiredFiles`, `consumeUploadBudget`) | directories with work files and files; the window's start and sum | validate, write all, rename all, undo, sweep | all or nothing; names that repeat do not collide; the limit per minute |
| **rate limit of failed logins** (`authenticationAllowed`, `recordAuthenticationFailure`) | `authenticationRates_` by address and account | check, record, prune | a bounded table; a bounded number of guesses |
| **observers of the clipboard** (`clipboardmonitor.cpp` twice, `pollClipboard`) | the signature of what was seen last | poll, publish, show a remote text | clipboards converge; nothing is sent back and forth for ever |
| **connection of the Qt clients** (`tcpclient.cpp`, `mainwindow.cpp`) | three timers, `manualDisconnect`, `authenticated`, the back-off, the window's `connectionRequested`, open message boxes | connect, disconnect, the socket's signals, answers, ping, reconnect | it reconnects as long as the user wants, and only then; heartbeat and observer run exactly during a session |
| **reception of files by the clients** (`handleChunkTransferMessage`, `finalizeIncomingTransfer`, `saveReceivedFiles`; `handleChunkTransfer`, `saveLegacyFiles`) | open transfers with their file, the reception directory | start, chunk, complete, bundle, disconnect, quit | what is reported as saved is whole and stays; what is given up goes |
| **the command line client's loop** (`main` of `clipboard_sync.cpp`: `connectToServer`, `pollIncomingMessages`, `pollClipboard`, `sendJson`, `sendChunkedFiles`, `maybeSendHeartbeat`) | the socket and what TLS has buffered, `authenticated`, `awaitingPong`, the back-off, the signature | connect, read, poll, send, ping, sleep | it comes back after every failure; what stays copied arrives |
| **frame parser** (`frameparser.cpp`) | bytes without a line end yet, complete frames, `overflowed` | append, pop, overflow | every complete frame once and in order, whatever the reads; too long a frame is noticed |
| **configuration and start** (`serverconfig.cpp`, `server_main.cpp`, `config.cpp`, `prepareConfig`, the head of `startServer`, `SqliteStorage::initialize`) | the file with backup and temporary file, the database file, how far the process is | load, merge, validate, save in four steps, open, migrate, listen | a crash leaves the configuration; a server that serves has its schema |
| **profiles and settings of the window** (`clientconfig.cpp`, `mainwindow.cpp`, `settingsdialog.cpp`) | the profiles in the file, in `appConfig`, in the selector, the fields, the dialog's copy | type, pick, switch, save, connect, edit, add, remove, accept | what was left alone stays; an attempt sends what was given |
| SQLite metadata, beyond the schema | the rows | `recordEvent` | |
| protocol validation, JSON, Base64, SHA-256, names | none | encode, decode, validate | |
| settings, themes, languages, autostart, packaging | | | |

### How they interact

A session's **reader** thread reads frames, answers on its own session's queue and calls, for
an accepted event, the storage and then the **router**, which copies the callbacks of the other
sessions under its mutex and calls them after releasing it. A callback is `enqueue` on the
*recipient's* queue, in the *sender's* thread: it takes the recipient's queue mutex, and when
the byte budget is exceeded it closes the recipient. The recipient's **writer** thread takes from
the queue and writes to the socket. The **acceptor** thread creates sessions. **main** polls:
every round it may sweep expired files, and it joins finished sessions (`reapClosedClients`); at
the end it stops the server. Shared state is `clients_` (one mutex), the router's map (one), each
queue (one each), the rate table and the upload window (one each), and atomics.
At the start the configuration is read, merged and saved before there is a thread; the window reads
and saves its own all the time, in handlers of clicks and of the connection.
A client is one thread (or Qt's event loop): timers, socket signals and clicks are callbacks that
do not interleave, except that a modal message box runs the event loop inside a handler.

### What is hard

- a descriptor is a number the kernel hands out again; three kinds of thread use it;
- a condition variable is notified from places that do not hold its mutex;
- broadcasts run outside the router's lock while sessions come and go;
- checks and what they guard are in separate critical sections (failed logins);
- several files are written, closed, renamed and swept, each of which may fail, or the process crash;
- two wl-paste clients never read back what was written;
- timers that restart each other; an `abort()` that calls back into the code that called it;
- a message box inside a signal handler;
- a name that is free when looked at and taken later;
- a client that blocks in a write while its heartbeat runs, and a `select()` that does not see what TLS has read;
- a file replaced in four steps, any of which may fail or be the last;
- profiles held in four places (file, memory, fields, dialog), each written back over the others.

`PROJECT.json` lists the hazards at their lines, with the properties aimed at each.

## 2. Modules

| module | models | is composed of |
|---|---|---|
| `SessionLifecycle` | threads, descriptors, locks, wakeups, joins | |
| `SessionLifecycleProofs` | its theorems | extends it |
| `PubSub` | the abstract promise: publish, join, receive, drop | |
| `Delivery` | authentication, registration, broadcast, queues, writers | refines `PubSub` |
| `DeliveryProofs` | its theorems | extends it |
| `UploadBudget` | `consumeUploadBudget` | |
| `FileIntake` | chunked uploads | extends `UploadBudget` |
| `FileIntakeProofs` | its theorems | extends it |
| `BundleIntake` | bundles and the sweep | extends `UploadBudget` |
| `BundleIntakeProofs` | its theorems | extends it |
| `AuthRate` | the rate limit | |
| `AuthRateProofs` | its theorems | extends it |
| `ClipboardSync` | the three clients' observers over an ordered network (what `PubSub` promises) | |
| `GuiConnection` | the Qt client's connection and window | |
| `Receiver` | reception in the CLI and the Qt client | |
| `ReceiverProofs` | its theorems | extends it |
| `FrameParser` | the frame parser, as functions on its state | |
| `CliClient` | the command line client's loop against a server and a network that fail | extends `FrameParser` |
| `ClientProofs` | theorems about `ClipboardSync`, `GuiConnection` and `CliClient` | extends the three |
| `Startup` | configuration file and start of server and CLI, schema of the database | |
| `WindowProfiles` | profiles, fields and settings dialog of the Qt clients | |
| `Configuration` | the programs and their settings | extends `Startup`, instantiates `WindowProfiles` |
| `ConfigurationProofs` | theorems about `Startup` and `WindowProfiles` in `Configuration` | extends it |
| `MC*` | the instance: symmetry and the values a cfg cannot write | extends its module |

Operators whose name ends in a suffix like `Enqueue_Drops` are slips a programmer could make in
the definition that follows; no behaviour uses them. They show, one for each checked property,
that the property notices: with the slip in place TLC finds it violated.

### SessionLifecycle

One action for each stretch of code between two points where threads may interfere. `reader`,
`writer`, `acceptor` and `mainPc` say where each thread is; `call[t]` is a call of `enqueue` or
`requestClientClose` that thread `t` is inside, with its target and the descriptor it has
already read. `EnqueueCall`, `EnqueueLock`, `Notify` are the unlocked test, the critical section
and the `notify_one` after it; `CloseCall`, `CloseExchange`, `CloseShutdown`, `Notify` are
`requestClientClose`: `closing.exchange(true)`, `shutdown`, and `notify_all`, which does *not*
take the mutex. `WriterTest` and `WriterBlock` are separate because the predicate and the wait
are two steps of a thread that holds the mutex. `holder` is the kernel's table: `AcceptNewConnection`
takes any free descriptor, `JoinWriter` frees it. `sock` is `client->socket`. `Emplaced` is
`map::emplace`, which keeps the old entry. A new session's reader runs before the acceptor has
stored its `std::thread` (`StoreReaderThread`): `handle` says whether it has, and `unjoined`
collects sessions finalised too early.

Abstracted: frames are their effect (answered, accepted, broadcast, rejected); `queue` counts
payloads; reading and writing on one SSL object are independent.

### Delivery and PubSub

`PubSub` knows how many events each session has published, who has joined, who was dropped, and
`received[r][s]`: `r` gets `s`'s events one by one from where it joined. `Delivery` has the
reader's path through `processMessage` (`ReadFrame`, `Answer`, `AuthReply`, `Register`, `AuthFails`,
`Reject`, `AcceptEvent`, `Broadcast`, `Deliver`, `Leave`), queues of payloads with `queuedBytes`
kept by hand as in the code, and the writer (`WriterPop`, `WriterSends`, `WriterFails`, `WriterEnds`).
Under the refinement an event is published when the router's snapshot is taken, a session joins when
it is registered, is dropped when `closing` is set, and receives when the writer has written. Here
`enqueue` is one step, as its mutex makes it; that wakeups arrive is `SessionLifecycle`'s matter.
`recordEvent` is one step whose outcome the code ignores.

### FileIntake, BundleIntake, UploadBudget

`FileIntake` has each check of start, chunk and complete in the code's order; every message begins
with the sweep of the session's expired transfers (`Swept`). A file number stands for the two names
made from the clock and `nextEventId_` (taken as unique); a digest is the content it is of. Opening,
writing, closing and renaming may fail; a lost `close()` leaves a prefix, since its result is not
checked. What was accepted is forwarded (`Forward`), unless its recording throws (`ForwardFails`):
`recordAcceptedEvent` reads `workspace_id` and `device_id`, which nothing has validated, as strings, after the
message has taken effect, and `processFrame` answers the exception with INVALID_JSON. `told` is a history
variable: what the others were sent of a transfer, and what kinds of its messages were withheld from them in this way.
`CleanExpired` is the retention sweep, `Crash` empties memory and keeps the disk.
`BundleIntake` has the two loops of `persistFiles` (`WriteItem`, `RenameItem`) with the undo in
`BundleFails`, interleaved with `CleanWork`/`CleanFile`, the sweep in main that may meet a bundle in
progress, and `Crash`; `told` says of a bundle that the others heard of it, that they did not, or that it was withheld.
Both go through `UploadBudget`'s fixed window, which begins with the process and never refunds.

### AuthRate

`Ask` (a session names an account), `Check` (`authenticationAllowed`), `Record`
(`recordAuthenticationFailure`, two keys, the cap and the pruning), `Tick` (windows age). `looked` is
a history variable: how many wrong passwords were compared since a key's window opened.

### ClipboardSync

A peer runs one of three programs. `CliPoll`, `WaylandPoll`, `WindowsPoll` read the clipboard, compare
with the signature and publish; `Receive` shows a remote text. `tail` counts the newlines that
`wl-paste`, called without `--no-newline`, has added. A word stands for what a user copied. Files take
part as local content: they are published and replace a text, and a recipient stores them without
touching its clipboard.

### GuiConnection

The variables are the fields: `requested`, `monitoring`, `dialogs` of the window; `manual`,
`authenticated`, `attempt` and the timers `reconnect`, `heartbeat`, `timeout` (what is left, or `Off`) of
`TcpClient`; the state of the `QSslSocket`. Each click, signal and timer is an action, and `Tick` lets a
second pass when no timer is due. `unanswered` is a history variable: seconds since the last unanswered
ping series began. `handleHeartbeatTimeout` is a way for the socket to close. The Windows sources are
the same code but for an include and `reconnectUsingCurrentProfile`, which nothing calls.

### Receiver

A program, CLI or Qt, receives the messages of chunked transfers and of a bundle in order, possibly
losing some while it is offline. `files` is the reception directory (paths are a second and a suffix),
`incoming` the open transfers, `kept` what the user was told is saved. `UniquePath` looks at the
directory; `BundlePath` is the CLI's variant that appends the time without looking again. A bundle's file that
cannot be opened takes no name; the CLI counts it as saved all the same, but there is nothing that could be kept.

### FrameParser and CliClient

`Take` is one round of the loop of `append`, `Appended` the fold of it over what a read gave, `Popped`
`popFrame` until it is empty. `CliClient` is the loop of `main`: `phase` goes through `ConnectToServer`,
`PollIncoming`, `PollClipboard`, `Send` (once for each message), `MaybeSendHeartbeat` and `Sleep`. `Close` and
`BackOff` are what the code calls in each of them, and a write to a broken connection may end the process,
since nobody catches SIGPIPE. `PollIncoming` reads only when the *socket* is readable: `pending` is what an
`SSL_read` has left of a record. And `SSL_read` waits for a whole record, on a socket that blocks and has no timeout:
when the link falls silent or breaks, what has come of the records ends anywhere (`Arrived`), perhaps in the middle of one
(`<< >>`), and on a silent link `PollIncoming` never returns from that one (`Hung`). `Blocked` lets time pass inside a write,
and inside a read whose record is still on its way. The server's side is its parser
and `Replies`; `ServerReadsSome` cuts the stream anywhere. `Break`, `FallSilent` and `ServerStarts` are the
network and the server. `settled` is a history variable: the copies that arrived, and those that went down
with a connection.

### Startup, WindowProfiles, Configuration

`Startup`: `load` takes a file that is missing, torn or cannot be opened for none. `ServerConfig` and `CliConfig` are the merging of file, environment and command line as the two
programs do it, `ServerAccepts` and `CliAccepts` what they refuse. `Write`, `Backup`, `Remove`, `Install` are
the steps of `save()`, with each program's treatment of each failure; `OpenStorage`, `ExecuteSchema` (one
statement at a time), `InitializeTls`, `Listen` those of `startServer`. `Crash` kills the process between
any two and may tear the file that is being written. `saved` and `lost` are history variables.
`WindowProfiles`: `Saved` is `saveSettings`, `ApplyConfigToUi` what fills the selector, `EditorSaved`,
`RowSelected` and `Repopulated` the dialog's slots with the signals they cause. The tray and the hotkeys act
while the dialog is open (`SwitchToNext`), and so does the connection (`Authenticated`).
`Configuration` puts them side by side, for one run: the programs share no file, so a behaviour is that of
one of them.

## 3. Runs

| run | config, instance | shows |
|---|---|---|
| `lifecycle_safety` | `SessionLifecycle_safety`: 2 sessions, 2 descriptors, 1 handshake at a time, queue of 1, TLS; at most 2 threads inside `enqueue` or `requestClientClose` at once (`TwoCalls`); symmetric | the safety invariants of the threads |
| `lifecycle_live` | `SessionLifecycle_live`: 2 sessions that share 1 descriptor | main returns unless a wakeup is lost; closing sessions finish |
| `lifecycle_lostwakeup` | 1 session | **violation**: `stopServer` may hang in `join` |
| `delivery` | `Delivery`: 2 sessions, 3 frames each, sizes 1 and 2, queue of 2 bytes | budget, recording, refinement of `PubSub` with its fairness |
| `intake_safety` | `FileIntake_safety`: 1 session, 2 transfer ids, 2 byte values, files of up to 2 bytes, 2 transfers, quota 2, upload limit 1, lifetime 1; messages of the first transfer may be withheld (`MaxWithheld`) | quota, integrity, no leaks |
| `bundle_safety` | `BundleIntake_safety`: 2 sessions, 2 bundles of up to 2 items, 2 names, retention 0 | all or nothing under sweep, failures, recording that throws, crash |
| `authrate_safety` | `AuthRate_safety`: 3 sessions, one of the owner, 2 addresses, 2 accounts, 3 entries, limit 1 | cap and bounded guesses |
| `clipboard` | `ClipboardSync_safety`: 3 peers in the mixes of `MCClipboardSync` (no, one or two wl-paste clients), 2 copies | convergence, coming to rest |
| `gui` | `GuiConnection`: the code's own periods (10 s, 30 s, 1 to 30 s, 5 doublings), 2 message boxes | timers, flags and socket agree; the user's wish is met |
| `receiver` | `Receiver`: 2 transfers of up to 2 chunks, a bundle of 3 equal names, 2 seconds, 1 fault | saved files are whole and stay, others go |
| `cli` | `CliClient`: 2 copies of any kind, 1 message relayed, 1 fault, frames of at most 1 unit, ping after 1 tick, timeout 2, longest delay 1 | it comes back, and what is copied arrives |
| `configuration` | `Configuration`: 3 starts, 3 faults and crashes, 3 statements, the options of `MCConfiguration`; 3 profiles, 3 edits, 2 texts | the configuration survives; profiles are kept; the schema is whole |

The slowest (`clipboard`, `delivery`, `intake_safety`, `lifecycle_safety`, `cli`, `receiver`) take one to three minutes with two workers.

**The properties, by run.**
*lifecycle_safety*: `DescriptorsOwned` (a live thread's descriptor is open and its own), `SlotsAccounted`,
`NoSessionLost`, `NoStrandedMessage` (a writer sleeps on a message only while somebody is about to
notify it), `RouterHandlesLive`, `StopLeavesNothing`, `TypeOK` (with the limits of handshakes and queues).
*lifecycle_live*: `MainReturns`, `ClosingSessionFinishes`.
*delivery*: `BudgetExact`, `RecordedFirst`, `ImplementsPubSub`, `EveryEventArrives`.
*intake_safety*: `QuotaHeld`, `DeliveredWhole` (what recipients see of a transfer is in rising order, gapless but for what was
withheld, and a completion only of a stored file), `StoredWhole` (a stored file is what was sent on and what its digest says, or names its exception), `NothingLeaks`, `NoLateChunk`, `TypeOK` (with the upload window).
*bundle_safety*: `BundleStored`, `NothingHalfDone`. *authrate_safety*: `GuessesBounded`, `TypeOK` (with the table's cap).
*clipboard*: `Converges`, `ComesToRest`.
*gui*: `AttemptComing`, `StaysDisconnected`, `WatchedInSession`, `Settles`.
*receiver*: `KeptWhole`, `NeverOverwritten`, `NoOrphans`.
*cli*: `FramesInOrder` (a read of the server keeps the stream, however cut, or notices the overflow), `ComesBack`
(again and again the client is authenticated on an open connection with nothing unread), `CopyArrives` (what stays in the clipboard is sent, or
went down with its connection).
*configuration*: `ConfigSurvives` (the last saved configuration is whole in the file or in its backup), `PlainStart` (a
start without options runs with it or not at all), `SchemaComplete`, `UntouchedKept` (accepting the dialog leaves alone
the profiles that were left alone), `SentAsGiven` (an attempt sends what was given at the click).

**Why the bounds are enough.** Two sessions and one descriptor already give the reuse of a descriptor and
a broadcast into a session that is being finalised; a third adds only another broadcaster, and the
invariants are proved for any number. `TwoCalls` keeps that run at 1.6 million states: the races need a call and
what it races with; without the bound (4.4 million states) TLC finds no error either. Two publishers and a queue of two bytes give interleaved publishers,
an overflow and a partly filled budget; again the proof covers every size. A transfer of two bytes with two
byte values tells order, loss and change of chunks apart; one of the two transfers may lose messages to recording, so that the other shows what
holds without; an upload limit of 1 is met by the second byte of a window; two ids give several transfers in one quota. Two
items with two names give a collision and a rename that fails after another. Three sessions, two of them
guessing, give the race between check and record, and three entries for four keys a full table. Three peers
give a recipient that is neither publisher; `MaxTail` 1 stands for one newline or more. In `gui` nothing is
scaled down but the number of stacked boxes: the second box is the case that differs. Two transfers and a
bundle meet in one second or in different ones. In `cli` a text is
just as long as the limit or one unit longer, so that every boundary of the parser is met; two copies overtake each
other, and one fault at any place is enough for each way to lose a connection and be back. In `configuration` three
starts give a saved configuration, a start that is killed while it replaces it and one that finds what is left; three faults
allow a crash after a failure after a crash; three profiles a row before and one after the row removed.
Symmetry is used in runs without liveness only.

**Deadlock** is checked except where the system may stop for good: all frames of `Delivery` are used up
(`MaxFrames`), all copies of `ClipboardSync` are made, all messages of `Receiver` received, the process of `CliClient` over, or all starts and edits of `Configuration` used up.

### Fairness

- *Server*: every thread that can run is scheduled (weak fairness for each thread's steps). Reading and
  writing are steps that happen because the sockets have 10 s send and receive timeouts (`kSocketTimeout`).
  A mutex that is free again and again is acquired (strong fairness of `EnqueueLock` only). Nothing makes
  clients connect, send or leave, or the user start or stop the server.
- *Delivery*: a frame that was read is processed, writers run, and a closing session leaves its loop.
- *Clipboard*: polls come every half second, and what arrives is read.
- *Window*: Qt's timers fire, attempts to connect end, a server that is there answers, and a closing
  socket closes. Nothing is assumed of the user, nor of a link that is silently dead.

- *Command line client*: its thread runs on; a pass takes no time or some, but not none for ever (strong fairness of
  `Sleep(1)`, for the `sleep` at its end); the server reads what has arrived, and is started again when it is down. A
  connection that fell silent without a word may stay so.

## 4. Proofs

Every theorem is about the specification the runs check, with its constants left open. The assumptions on the constants are the
`ASSUME`s of the modules, which TLC evaluates on each instance. Most say that limits are (positive) natural numbers and that
the values standing for *nothing* are no values. What goes beyond that is named below.

`SessionLifecycleProofs`, for any sessions, descriptors and limits (`Session` may be infinite):

- `TypeCorrect`;
- `NoMessageIsStranded`, with `Quiet`: a writer about to sleep has seen an empty queue and holds the mutex that a push
  needs, and a writer that is not past its last write is inside no call; and `NoEarlyWriter`: no writer exists
  before the handshake is over;
- `OwnershipInvariant`: `IInv` is inductive. `DescriptorsOwned` alone is not: a step that closes a descriptor
  keeps it only because main has joined both threads, so `Threads` says that main is at the writer's join
  only past the reader's, `Handles` that a session without a stored thread handle is the one the acceptor is about to
  store (otherwise the reader could be skipped by `joinable()`), `Held` that the kernel's table agrees with
  `sock`, `Unborn` that a session not yet accepted holds nothing, `WorkList` that map, work list and
  current session are disjoint, `Routed` that what is registered is past its handshake;
- from it `DescriptorsAreOwned`, `RouterHandlesAreLive`, `NoSessionIsLost`; and `SlotsAreAccounted`, where the
  cardinality of the sessions in their handshake changes with the counter, by the library's facts on finite sets;
- `StoppedIsEmpty`, from the same invariant: when `stopServer` returns, the map and the work list are empty, so that no session is left that
  could hold a descriptor, a thread or a slot.

`DeliveryProofs`, for any sessions, sizes and queue limit: `TypeCorrect`, `EventsAreRecordedFirst`,
`DeliveryImplementsPubSub`, step simulation from `DInv`: `Handled` ties the reader's event to what was accepted,
`Routed` says a joined session is registered or closing, and `InTransit` says of every recipient and publisher
that the payloads on the way are wanted (`Owned`), in order (`Ordered`) and all there (`Complete`), so that what the
writer writes next is exactly the next event. `BudgetIsExact` is about a sum: `queuedBytes` follows the fold over the queue as
payloads go in at its end and out at its head.

`FileIntakeProofs`, for any sessions, transfers, files, limits and contents: `IntakeInvariant`, and from it `IntakeTypes`,
`TransfersAreDelivered`, `FilesAreStored`, `NothingIsLeaked`, `ChunksAreInTime`. What recipients were told and what is on disk change at
different steps (the file first, the forwarding after), so that neither property is inductive: `Going` relates the work file, the
bytes counted, the next number and what the others will know when the reader has sent what it has in hand (`Due`); `Opening` and
`Forwarding` say what that is, and `Sound` what holds of what the others have heard when messages were withheld (rising numbers, `Rising`, all below the
next, `Below`); `Missed` is what a message leaves that is withheld; `Distinct` and `Apart` that transfers and busy readers have files of their own, `Unused` and `Finished` what
files not yet or no longer open are. `QuotasHold` adds up the declared sizes of a table: `Limited` says that what is open and what was just accepted
together are within the quota.

`BundleIntakeProofs`, for any sessions, bundles, numbers of items and either retention: `BundleInvariant`, and from it `BundlesAreStored` and
`NothingIsHalfDone`. `Working` says how far a reader is: each item so far is on disk as a work file or a file, or was swept by main; what
is before `item` is renamed, what is after it is not; a finished bundle is told or withheld, and its files are there either way. `makeFilePathUnique` returns a free path because a bundle has fewer files than
there are suffixes (`SomeSuffixIsFree`, by the pigeonhole theorem).

`AuthRateProofs`, for any finite set of sessions (those a process has at a time are; with infinitely many the bound would be none), any addresses,
accounts, limit, cap and window: `RateTypes`, `RateInvariant`, `GuessesAreBounded`. The bound alone is not inductive, since check and record
are two critical sections: `Accounted` says that what was looked at is counted, and that together with the sessions *waiting* to count it, it is within the bound: a session
comes to wait only if it has seen less than the limit counted.

`ClientProofs` has three parts, about components that share nothing.

- *Connection of the Qt clients*, for any periods, back-off and number of message boxes: `ConnectionInvariant`, and from it
  `AttemptIsComing`, `DisconnectedStays`, `SessionIsWatched`. The three need each other, and `Wish`: the window's `connectionRequested` and
  the client's `manualDisconnect` are never both set, and a message box is open only over a connection that is no longer wanted;
  otherwise the reconnect timer could be started behind it. Assumed is `PowerAssumption`, that a power of two is a natural number:
  the provers know no exponents.
- *Clipboards*, for any peers, any assignment of the three programs to them and any number of copies: `SyncInvariant`, and from it
  `ClipboardsConverge`. `Converges` speaks of states where nothing moves; what is kept on the way there is `KeepsUp`: unless texts raced,
  each client that has joined shows the last text (or files of its own), or the last text is under way to it, or it has something else
  to publish. A poll that publishes a text makes it the last one and sends it to all others at once. A client that receives a text may rely on
  its being the last, since without a race all texts under way are the same (`OneText`). One that joins late has published nothing
  (`Outside`), so that its first poll publishes whatever is there. What a user copies is published by the next poll because it was
  seen nowhere before (`Copied`): otherwise it could equal the signature and be kept back.
- *Stream and frame parser*, for any lengths of frames, any cuts and any messages: `StreamInvariant` and `FramesStayInOrder`. Between two
  reads the parser holds the beginning of one frame (`Between`). A read is a fold over what was read: `AppendedTakes` unrolls it, and
  `TakeHolds` takes one unit. After each the parser either holds a piece of the stream that begins after a line end, the frames before it
  being the stream up to there cut at its line ends (`Holds`), or it has given up, and some line so far is too long (`GivesUp`).

`ReceiverProofs`, for any transfers, bundles, seconds and faults: `ReceiverInvariant`, and from it `KeptFilesAreWhole`, `KeptFilesStay`, `NoFileIsOrphaned`.
`Filling` says that an open transfer's file holds at most the chunks relayed so far, and that if it holds as many, they are these, in order, so that the check
of the size at the end is enough where there is no hole. That the names found by `uniqueFilePath` are free follows as above
(there are more numbers than files); the paths of a bundle are a recursive function, shown to be defined for every file before it is used, whichever of the files can be opened.

`ConfigurationProofs`, for any options, passwords, statements, starts and faults, any texts and any number of edits:

- `ConfigurationRefinesStartup`: the window takes no part in the other programs' files;
- `ConfigurationSurvives`: `ConfigSurvives` alone is not inductive, since a step may remove or replace the file. `BackedUp` says
  that what is about to be removed is in the backup, `Prepared` that what is about to be installed is the whole new
  configuration, and `Complete` that a configuration is never taken for a missing file;
- `SchemaIsComplete`: `Executed` ties the process's count of statements to what the file holds, `Fresh` says that a process
  begins with none and no open database (what `StartFailed` must not leave behind), `Whole` that it goes on only
  after the last;
- `StartsArePlain`, from `PlainInv`: what is saved could be run again (`Sound`: it has a user, and `--insecure` only in development), and the file, if
  it can be read, is that; one that cannot be opened gives the defaults, which have no user and are refused. Assumed of the options (`OptionsAssumption`) is what `parseCommandLine`, `applyEnvironment` and
  `parseArgs` can give: settings, flags that are Boolean, and `--insecure` for the client only;
- `CredentialsAreSentAsGiven` and `DialogLeavesAlone`, from `WindowInv`: in every list of profiles the ids are distinct and were generated
  (`Proper`), the selector has the profiles of the configuration (`InWindow`), between two events the dialog's editor says what the profile of its
  row says (`Tidy`), and a profile that was not touched is the same in both lists (`Agrees`). In `RemoveProfile` the editor is saved over
  the row that has moved up; that profile counts as touched, and afterwards the editor says again what its row says.

Where a statement is about all natural numbers (sums, recursive functions, least free suffix) the proofs take the least counterexample, by
`WFMin` of the library, as its induction theorems have an operator as parameter, which the provers cannot instantiate.

**Only model-checked**: liveness (`MainReturns`, `ClosingSessionFinishes`, `EveryEventArrives`, `ComesToRest`,
`Settles`, `ComesBack`, `CopyArrives`), which the prover cannot do.

## 5. Where the code and its documents part

Checked by the run that expects a violation: `stopServer` can hang (`tcpserver.cpp:625`; remediation plan, line 66), because
the notification of `requestClientClose` may fall between the writer's test and its wait. `MainReturns` shows that nothing
else keeps main from returning.

Stated in the modules, and refuted by TLC when added as INVARIANT or PROPERTY to the named config:

- `EveryReaderJoined` (`SessionLifecycle_safety`; README.md:14): a session that ends before the acceptor
  has stored its thread is finalised without joining it (`tcpserver.cpp:461`).
- `NoShutdownAfterClose` (`SessionLifecycle_safety`; remediation plan, line 149): a broadcaster that has read the descriptor can be overtaken by
  `finalizeClient`, and shuts down a reused one (`tcpserver.cpp:623`).
- `AuthenticatedIsSubscribed` (`Delivery`; tests/tcpserver_integration_test.cpp:269-276): the positive reply
  precedes the registration (`tcpserver.cpp:746`, `764`).
- `ReceptionHoldsFiles` (`BundleIntake_safety`; README.md:217): the work files of a bundle lie in the reception directory, where a crash
  leaves them (`tcpserver.cpp:989`).

- `NobodyEchoes` (`ClipboardSync_safety`; client design, line 15): a wl-paste client publishes what it was sent, with a
  newline more (`clipboard_sync.cpp:281`); two of them go on for ever.
- `DeadLinkNoticed` (`GuiConnection`; client design, line 9): each ping starts the heartbeat timeout anew, so that it never
  expires (`tcpclient.cpp:189`).

Exempted, with the reason in the property's comment: `NeverOverwritten` leaves out the CLI's bundle files
with the time in their name, which a third file of that name in the same second overwrites (release notes v0.2.0, lines 20-21, say otherwise, as they do
of partial files, which all clients write under their final name); `KeptWhole` leaves out the CLI's
transfers without a digest; `ComesToRest` leaves out a Windows client whose user copied files, which sends them
as files and as text in turn; `Settles` leaves out Connect clicked on a socket that is still closing, after
which the reconnect timer cuts every new connection. `ConfigSurvives` leaves out what follows a server's temporary file
that was torn at its closing, which nobody looks at (`serverconfig.cpp:120-128`); `PlainStart` leaves out the CLI's TLS;
`UntouchedKept` leaves out the profile that comes to the place of a removed one, over which the editor is saved.
`DeliveredWhole` and `StoredWhole` leave out the gaps of a transfer of which a message was withheld because its recording threw, and
`NothingHalfDone` the files of a bundle that was withheld. `ComesBack` and `CopyArrives` leave out a server that falls silent before the client
is authenticated, for which there is no timeout, and a link that falls silent in the middle of a record (`Hung`).

Met while reading, and in the models as the code has it:

- *Server.* A message whose `workspace_id` or `device_id` is not a string passes validation, takes effect, and is then refused:
  `recordAcceptedEvent` throws (`tcpserver.cpp:867-868`), after a chunk is counted, a file stored or a bundle renamed into place, and before
  the broadcast. The sender is told INVALID_JSON, the others see a gap or nothing, and the files stay.
- *Configuration.* A configuration killed between removal and renaming is in `.bak` only, which no `load` reads
  (README.md:48). The CLI takes an option given with its default value for one not given, so that
  `--host 127.0.0.1` does not override the file (`clipboard_sync.cpp:151`), and turns TLS on again unless `--development` is given
  each time. A file of a secret, once saved, wins over every later password, and `development_mode` stays on once saved.
- *Window.* What a user changes in the dialog about the profile that the window shows is overwritten when the dialog is
  accepted, by what the window still shows (`mainwindow.cpp:887`, both copies); the same goes for the receive directory.
  A reconnection sends the credentials now shown to the host of the last click (`mainwindow.cpp:766`), and
  `lastConnectedProfileId` may name a profile that was never connected. An autostarted client never connects, since no
  password is saved.
- *Command line client.* A write that blocks longer than the heartbeat timeout ends a good connection at its return, as
  the pong is read later. A link that falls silent in the middle of a TLS record, or after one without application data, stops the only thread in
`SSL_read` (`clipboard_sync.cpp:519-521`), before the heartbeat that client design, line 9, gives the CLI too can look at it. A connection lost outside the heartbeat is tried again without a delay at first (client design, line 9). A copy that
  goes down with its connection is not sent again.

## 6. Not modelled

- **OpenSSL's state** and the kernel's buffers: a read or write succeeds or fails; in `CliClient` a record takes one or two reads, comes whole or never ends.
- **Formats**: JSON, Base64, SHA-256, cleaning of names: a message is a record, a digest its content.
- **wl-copy that fails**, directories and unreadable files in the observers; connection loss in `ClipboardSync`.
- **Removals that fail**: the undo of `persistFiles`, `discardTransfer` and the clients' discarding are taken to remove what is there.
- **A second start of an open transfer** and directories that cannot be made in `Receiver`.
- **The sender of the Qt clients**, the CLI's loop over a socket that never blocks; bundles that are empty or too large.
- **Rows of the database**: recording is one step, and what the storage answers is ignored by the server. That the preparation of a row
  throws is in the intake modules, where the message has taken effect by then; in `Delivery` such a message is answered like any other that is not accepted.
- **Loss of power**: the JSON stores of the server and the CLI sync nothing, so that nothing could be said.
- **The window's receive directory, shortcuts, tray icon and file dialogs**, beyond what they do to the profiles.
- **Parsing of the command line**: a start is given the options that matter as a record.
- **Themes, languages, autostart, packaging**: layout and operating system settings.

## 7. Plan

Done, in this order: the threads (most depends on them), the routing with its abstract service, uploads,
bundles, rate limit, observers, window, reception; the proofs of the first two; then the command line
client's loop with the frame parser, the configuration files with the start and their proofs, and the window's profiles.

Then the proofs of all safety properties: of the server, the reception of files, the configuration and the window's profiles, the Qt client's connection, and last
of the clipboards and the stream.

Next: the heartbeat of a client composed with the server's 10 s read timeout, and the observers over connections that break.
