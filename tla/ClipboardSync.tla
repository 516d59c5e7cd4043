--------------------------- MODULE ClipboardSync ---------------------------
(***************************************************************************)
(* Clipboards kept in step through the server: the poll of the local       *)
(* clipboard and the receipt of remote content in the three clients (the   *)
(* Linux CLI, the Wayland window and the Windows window).  Each of them    *)
(* has one thread, so that a poll and a receipt are atomic; the network    *)
(* keeps the order of one sender's messages to one recipient (see PubSub), *)
(* and nothing else.                                                       *)
(***************************************************************************)
EXTENDS Integers, Sequences, FiniteSets

Program == {"cli", "wayland", "windows"}

CONSTANTS
  Peer,
  Assignment,  \* which clients the peers may run
  Nobody,      \* who copied the empty text
  MaxCopies,   \* bound: what the users copy altogether
  MaxTail,     \* bound: where the count of added newlines saturates
  MaxInFlight  \* bound: messages from one peer to another under way

ASSUME SyncAssumption ==
  /\ Assignment \subseteq [Peer -> Program]
  /\ Nobody \notin Peer
  /\ MaxCopies \in Nat
  /\ MaxTail \in Nat \ {0}
  /\ MaxInFlight \in Nat \ {0}

\* what was copied, by whom and when, stands for the text or the file list itself
Word == (Peer \X (1..MaxCopies)) \cup {<<Nobody, 0>>}
Content == [kind : {"none", "text", "files"}, word : Word, tail : 0..MaxTail]
Nothing == [kind |-> "none", word |-> <<Nobody, 0>>, tail |-> 0]
Text(word, tail) == [kind |-> "text", word |-> word, tail |-> tail]
NoText == Text(<<Nobody, 0>>, 0)

VARIABLES
  program,     \* which of the clients a peer runs
  joined,      \* the peers that are authenticated
  clip,        \* the desktop's clipboard
  lastSignature,  \* of the Qt clients, or the CLI's signature; Nothing before the first
  net,         \* net[s][r]: what is on its way from s to r
  copies,      \* how often users have copied something
  last,        \* the text that was published last
  raced        \* whether two different texts were ever under way at once

syncVars == <<program, joined, clip, lastSignature, net, copies, last, raced>>

-----------------------------------------------------------------------------
(* What a poll takes the clipboard to hold.                                  *)

\* wl-paste adds a newline to a text unless it is told not to; a clipboard without
\* content prints nothing
WlPaste(c) ==
  IF c.kind = "none" THEN NoText
  ELSE Text(c.word, IF c.tail < MaxTail THEN c.tail + 1 ELSE MaxTail)

\* readClipboardFiles, then readClipboardText; pollClipboard does the same
ReadByWlPaste(p) == IF clip[p].kind = "files" THEN clip[p] ELSE WlPaste(clip[p])

\* QClipboard::text() of a file list is the list of its names
QtText(c) == IF c.kind = "none" THEN NoText ELSE Text(c.word, c.tail)

\* a file list that is known already falls through to the text
ReadByQt(p) ==
  IF clip[p].kind = "files" /\ clip[p] # lastSignature[p] THEN clip[p] ELSE QtText(clip[p])

Observed(p) == IF program[p] = "windows" THEN ReadByQt(p) ELSE ReadByWlPaste(p)

-----------------------------------------------------------------------------
Unsent(p) == p \in joined /\ Observed(p) # lastSignature[p]

InFlight == UNION {{net[s][r][i] : i \in DOMAIN net[s][r]} : s, r \in Peer}

\* some other text is under way
Races(c) == \E m \in InFlight : m.kind = "text" /\ m.word # c.word

\* plausible slip: the broadcast ends with its first recipient
Published_ToOne(p, c) ==
  LET first == CHOOSE r \in joined \ {p} : TRUE IN
  IF joined \subseteq {p} THEN net ELSE [net EXCEPT ![p][first] = Append(@, c)]

\* the server sends it to every other authenticated session
Published(p, c) ==
  [net EXCEPT ![p] = [r \in Peer |->
    IF r \in joined \ {p} THEN Append(net[p][r], c) ELSE net[p][r]]]

\* plausible slip: only what is shown is remembered, not what is published
Poll_Unmarked(p) ==
  /\ Unsent(p)
  /\ \A r \in Peer : Len(net[p][r]) < MaxInFlight
  /\ net' = Published(p, Observed(p))
  /\ last' = IF Observed(p).kind = "text" THEN Observed(p) ELSE last
  /\ raced' = (raced \/ Races(Observed(p)))
  /\ UNCHANGED <<program, joined, clip, lastSignature, copies>>

\* the signature is replaced before the message is handed to the connection
Poll(p) ==
  LET c == Observed(p) IN
  /\ Unsent(p)
  /\ \A r \in Peer : Len(net[p][r]) < MaxInFlight
  /\ lastSignature' = [lastSignature EXCEPT ![p] = c]
  /\ net' = Published(p, c)
  /\ last' = IF c.kind = "text" THEN c ELSE last
  /\ raced' = (raced \/ Races(c))
  /\ UNCHANGED <<program, joined, clip, copies>>

CliPoll(p)     == program[p] = "cli" /\ Poll(p)
WaylandPoll(p) == program[p] = "wayland" /\ Poll(p)
WindowsPoll(p) == program[p] = "windows" /\ Poll(p)

-----------------------------------------------------------------------------
(* Remote content.                                                           *)

Shows(p, c) ==
  /\ clip' = [clip EXCEPT ![p] = c]
  /\ lastSignature' = [lastSignature EXCEPT ![p] = c]

\* files go to the reception directory and leave the clipboard alone
Unmoved(p, c) == c.kind = "files" /\ UNCHANGED <<clip, lastSignature>>

CliShows(p, c)     == program[p] = "cli" /\ c.kind = "text" /\ Shows(p, c)
WaylandShows(p, c) == program[p] = "wayland" /\ c.kind = "text" /\ Shows(p, c)

\* an empty text is ignored
WindowsShows(p, c) ==
  /\ program[p] = "windows" /\ c.kind = "text"
  /\ IF c = NoText THEN UNCHANGED <<clip, lastSignature>> ELSE Shows(p, c)

Receive(p, s) ==
  /\ net[s][p] # <<>>
  /\ LET c == Head(net[s][p]) IN
     Unmoved(p, c) \/ CliShows(p, c) \/ WaylandShows(p, c) \/ WindowsShows(p, c)
  /\ net' = [net EXCEPT ![s][p] = Tail(@)]
  /\ UNCHANGED <<program, joined, copies, last, raced>>

-----------------------------------------------------------------------------
UserCopies(p) ==
  /\ copies < MaxCopies
  /\ copies' = copies + 1
  /\ \E kind \in {"text", "files"} :
       clip' = [clip EXCEPT ![p] = [kind |-> kind, word |-> <<p, copies'>>, tail |-> 0]]
  /\ UNCHANGED <<program, joined, lastSignature, net, last, raced>>

\* the auth_response with status ok; until then nothing is polled
Join(p) ==
  /\ p \notin joined
  /\ joined' = joined \cup {p}
  /\ UNCHANGED <<program, clip, lastSignature, net, copies, last, raced>>

SyncInit ==
  /\ program \in Assignment
  /\ joined = {}
  /\ clip = [p \in Peer |-> Nothing]
  /\ lastSignature = [p \in Peer |-> Nothing]
  /\ net = [s \in Peer |-> [r \in Peer |-> <<>>]]
  /\ copies = 0
  /\ last = NoText
  /\ raced = FALSE

Client(p) ==
  \/ CliPoll(p) \/ WaylandPoll(p) \/ WindowsPoll(p)
  \/ \E s \in Peer : Receive(p, s)

SyncNext == \E p \in Peer : Client(p) \/ UserCopies(p) \/ Join(p)

SyncSpec == SyncInit /\ [][SyncNext]_syncVars

\* Every client polls twice a second and reads what arrives.
SyncFairSpec ==
  /\ SyncSpec
  /\ \A p \in Peer : WF_syncVars(CliPoll(p) \/ WaylandPoll(p) \/ WindowsPoll(p))
  /\ \A p, s \in Peer : WF_syncVars(Receive(p, s))

-----------------------------------------------------------------------------
WlPeers == {p \in Peer : program[p] # "windows"}

Quiet == InFlight = {} /\ \A p \in Peer : ~Unsent(p)

\* Texts that were never under way together leave every joined clipboard with the text
\* that was published last, up to the newlines wl-paste adds, or with files its own user
\* has copied since, whoever joins late.  An empty text is no such text (Windows ignores
\* it).
Converges ==
  Quiet /\ ~raced /\ last.word # <<Nobody, 0>> =>
    \A p \in joined : clip[p].kind = "files" \/ clip[p].word = last.word

\* However users race, the clients come to rest, as long as there are not two wl-paste
\* peers (which lengthen each other's text) and no Windows user has copied files (which
\* its client sends for ever, as files and as text in turn).
ComesToRest ==
  Cardinality(WlPeers) <= 1 =>
    <>[]Quiet \/ <>[](\E p \in joined \ WlPeers : clip[p].kind = "files")

\* p publishes what somebody else copied
Echoes(p) ==
  \E r \in Peer : Len(net'[p][r]) > Len(net[p][r]) /\ Observed(p).word[1] \notin {p, Nobody}

\* docs/07_client/client-design.md line 15: "keep remote content from being sent back by
\* the local observer", in every client.
NobodyEchoes == [][\A p \in Peer : ~Echoes(p)]_syncVars

=============================================================================
