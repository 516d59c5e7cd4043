------------------------------ MODULE Receiver ------------------------------
(***************************************************************************)
(* What a client does with the files the server relays to it: the chunked  *)
(* transfers and the bundles of the command line client                    *)
(* (handleChunkTransfer, saveLegacyFiles) and of the Qt clients            *)
(* (handleChunkTransferMessage, finalizeIncomingTransfer,                  *)
(* saveReceivedFiles), which do the same with other details.               *)
(*                                                                         *)
(* The messages of a transfer come in the order the server relayed them;   *)
(* those relayed while the client is away are lost.  All files have one    *)
(* name and one sender, so that only the second in the name of their       *)
(* directory keeps them apart.  A digest is the content it was made from.  *)
(* Any operation on a file may fail, in the ways its caller tells apart.   *)
(***************************************************************************)
EXTENDS Integers, FiniteSets, SequencesExt

CONSTANTS
  Transfer, Bundle,   \* the chunked transfers and the bundles that are relayed
  MaxChunks,          \* bound: chunks of a transfer
  BundleFiles,        \* the files of a bundle
  MaxSecond,          \* bound: seconds that pass
  MaxFaults           \* bound: failing file operations

ASSUME ReceiverAssumption ==
  /\ {MaxChunks, BundleFiles, MaxSecond, MaxFaults} \subseteq Nat
  /\ Transfer \cap Bundle = {}

VARIABLES
  program,    \* "cli" or "gui"
  size,       \* the chunks of each transfer
  digest,     \* whether the sender gave a digest for it
  relayed,    \* how many of its messages the server has relayed
  bundled,    \* the bundles that have been relayed
  online,
  second,
  files,      \* path -> content, below the reception directory
  incoming,   \* incomingTransfers: the open transfers
  kept,       \* path -> what was reported as saved there
  faults

sources == <<program, size, digest>>
vars == <<sources, relayed, bundled, online, second, files, incoming, kept, faults>>

Stamped == -1       \* in a path: the name with the time instead of a number
Path == (0..MaxSecond) \X (Nat \cup {Stamped})
Whole(t) == [k \in 1..size[t] |-> <<t, k>>]
Item(b, k) == <<b, k>>

\* the function f, which says v of x
With(f, x, v) == [y \in DOMAIN f \cup {x} |-> IF y = x THEN v ELSE f[y]]

Fault == faults < MaxFaults /\ faults' = faults + 1
NoFault == UNCHANGED faults

-----------------------------------------------------------------------------
\* plausible slip: the name is taken as it comes
UniquePath_Requested(fs) == <<second, 0>>

\* uniqueFilePath, makeFilePathUnique: the first free number, 0 being the name itself
UniquePath(fs) ==
  <<second, CHOOSE n \in 0..Cardinality(fs) :
     <<second, n>> \notin fs /\ \A m \in 0..n - 1 : <<second, m>> \in fs>>

\* file_transfer_start, when the file can be opened
Start(t) ==
  LET path == UniquePath(DOMAIN files) IN
  \/ /\ files' = With(files, path, << >>)
     /\ incoming' = With(incoming, t, [path |-> path, written |-> 0, bad |-> FALSE])
     /\ NoFault /\ UNCHANGED kept
  \/ Fault /\ UNCHANGED <<files, incoming, kept>>

\* plausible slip: the files stay
Discard_KeepsFiles(ts) ==
  /\ incoming' = Restrict(incoming, DOMAIN incoming \ ts)
  /\ UNCHANGED files

\* the transfers ts are given up and their files removed
Discard(ts) ==
  /\ files' = Restrict(files, DOMAIN files \ {incoming[t].path : t \in ts})
  /\ incoming' = Restrict(incoming, DOMAIN incoming \ ts)

\* file_transfer_chunk; seq is not looked at.  The Qt clients give up when a write fails;
\* the command line client counts on, into a stream that takes nothing more.
Chunk(t, k) ==
  LET path == incoming[t].path IN
  /\ UNCHANGED kept
  /\ \/ /\ ~incoming[t].bad /\ NoFault
        /\ files' = [files EXCEPT ![path] = Append(@, <<t, k>>)]
        /\ incoming' = [incoming EXCEPT ![t].written = @ + 1]
     \/ program = "gui" /\ Fault /\ Discard({t})
     \/ /\ program = "cli"
        /\ IF incoming[t].bad THEN NoFault ELSE Fault
        /\ incoming' = [incoming EXCEPT ![t].written = @ + 1, ![t].bad = TRUE]
        /\ UNCHANGED files

\* plausible slip: the digest is compared only when no size was given
Accepts_SizeOnly(t, content) ==
  LET received == IF program = "gui" THEN Len(content) ELSE incoming[t].written
  IN IF size[t] > 0 THEN received = size[t] ELSE content = Whole(t)

\* the checks at the end: the Qt clients read the file back for its size, the command
\* line client takes the number it counted
Accepts(t, content) ==
  LET received == IF program = "gui" THEN Len(content) ELSE incoming[t].written
  IN /\ size[t] > 0 => received = size[t]
     /\ digest[t] => content = Whole(t)

\* file_transfer_complete; closing the file may lose what was not yet on the disk
Complete(t) ==
  LET path == incoming[t].path
      content == files[path]
  IN \E n \in 0..Len(content) :
       LET final == SubSeq(content, 1, n) IN
       /\ IF n = Len(content) THEN NoFault ELSE Fault
       /\ IF Accepts(t, final)
          THEN /\ files' = [files EXCEPT ![path] = final]
               /\ kept' = With(kept, path, t)
               /\ incoming' = Restrict(incoming, DOMAIN incoming \ {t})
          ELSE Discard({t}) /\ UNCHANGED kept

\* finalizeIncomingTransfer cannot open the file to verify it: it stays as it is
CannotVerify(t) ==
  /\ program = "gui" /\ Fault
  /\ incoming' = Restrict(incoming, DOMAIN incoming \ {t})
  /\ UNCHANGED <<files, kept>>

\* handleChunkTransfer, handleChunkTransferMessage, for the next message of t
RelayTransfer(t) ==
  LET k == relayed[t] IN
  /\ k < size[t] + 2
  /\ relayed' = [relayed EXCEPT ![t] = k + 1]
  /\ IF online /\ (k = 0 \/ t \in DOMAIN incoming)
     THEN IF k = 0 THEN Start(t)
          ELSE IF k <= size[t] THEN Chunk(t, k)
          ELSE Complete(t) \/ CannotVerify(t)
     ELSE UNCHANGED <<files, incoming, kept, faults>>
  /\ UNCHANGED <<sources, bundled, online, second>>

\* where the next file of a bundle goes: the command line client takes the time for a
\* name that is in use, and does not look whether that is in use as well
BundlePath(fs) ==
  IF program = "gui" \/ <<second, 0>> \notin fs THEN UniquePath(fs) ELSE <<second, Stamped>>

\* where those of the files that could be opened are
Opened(paths, opened) == {paths[k] : k \in DOMAIN paths \cap opened}

\* the paths of its files, one after the other; a file that cannot be opened takes none
BundlePaths(fs, opened) ==
  LET Paths[k \in 0..BundleFiles] ==   \* the paths of the first k files
        IF k = 0 THEN << >>
        ELSE Append(Paths[k - 1], BundlePath(fs \cup Opened(Paths[k - 1], opened)))
  IN Paths[BundleFiles]

\* the file of a bundle that was written last to the path p
LastAt(p, paths, opened) ==
  CHOOSE k \in opened : paths[k] = p /\ \A j \in opened : paths[j] = p => j <= k

\* saveReceivedFiles, saveLegacyFiles: one file after the other, writes unchecked.  The
\* window leaves out a file that it cannot open; the command line client counts it as
\* saved, although nothing is there.
RelayBundle(b) ==
  /\ b \notin bundled
  /\ bundled' = bundled \cup {b}
  /\ IF online
     THEN \E opened \in SUBSET (1..BundleFiles) : \E short \in SUBSET opened :
            LET paths == BundlePaths(DOMAIN files, opened)
                there == Opened(paths, opened)
            IN /\ IF opened = 1..BundleFiles /\ short = {} THEN NoFault ELSE Fault
               /\ files' = [p \in DOMAIN files \cup there |->
                              IF p \notin there THEN files[p]
                              ELSE IF LastAt(p, paths, opened) \in short THEN << >>
                              ELSE <<Item(b, LastAt(p, paths, opened))>>]
               /\ kept' = [p \in DOMAIN kept \cup there |->
                             IF p \in there THEN b ELSE kept[p]]
     ELSE UNCHANGED <<files, kept, faults>>
  /\ UNCHANGED <<sources, relayed, online, second, incoming>>

-----------------------------------------------------------------------------
\* close() of the command line client drops what is open; the window keeps it
Disconnect ==
  /\ online
  /\ online' = FALSE
  /\ IF program = "cli" THEN Discard(DOMAIN incoming) ELSE UNCHANGED <<files, incoming>>
  /\ UNCHANGED <<sources, relayed, bundled, second, kept, faults>>

Reconnect ==
  /\ ~online
  /\ online' = TRUE
  /\ UNCHANGED <<sources, relayed, bundled, second, files, incoming, kept, faults>>

\* ~MainWindow, ~ClientConnection, and another start
Quit ==
  /\ online' = FALSE
  /\ Discard(DOMAIN incoming)
  /\ UNCHANGED <<sources, relayed, bundled, second, kept, faults>>

\* the process is killed, and started again
Crash ==
  /\ online' = FALSE
  /\ incoming' = << >>
  /\ Fault
  /\ UNCHANGED <<sources, relayed, bundled, second, files, kept>>

Tick ==
  /\ second < MaxSecond
  /\ second' = second + 1
  /\ UNCHANGED <<sources, relayed, bundled, online, files, incoming, kept, faults>>

Init ==
  /\ program \in {"cli", "gui"}
  /\ size \in [Transfer -> 0..MaxChunks]
  /\ digest \in [Transfer -> BOOLEAN]
  /\ relayed = [t \in Transfer |-> 0]
  /\ bundled = {}
  /\ online = TRUE
  /\ second = 0
  /\ files = << >> /\ incoming = << >> /\ kept = << >>
  /\ faults = 0

Next ==
  \/ \E t \in Transfer : RelayTransfer(t)
  \/ \E b \in Bundle : RelayBundle(b)
  \/ Disconnect \/ Reconnect \/ Quit \/ Crash \/ Tick

Spec == Init /\ [][Next]_vars

-----------------------------------------------------------------------------
OpenPaths == {incoming[t].path : t \in DOMAIN incoming}

\* A chunked file that was reported as saved is what the sender sent, whatever was lost on
\* the way or on the disk (the checks of file_transfer_complete).  Without a digest the
\* command line client cannot promise it: it compares the size it counted itself.
KeptWhole ==
  \A p \in DOMAIN kept : kept[p] \in Transfer =>
    (digest[kept[p]] \/ program = "gui" => files[p] = Whole(kept[p]))

\* What was reported as saved is not written to again, by another transfer, another bundle
\* or a late chunk - but for the name with the time that the command line client gives the
\* files of a bundle when their own is in use, which it does not check.
NeverOverwritten ==
  [][\A p \in DOMAIN kept :
       p[2] # Stamped => p \in DOMAIN files' /\ files'[p] = files[p] /\ kept'[p] = kept[p]]_vars

\* A transfer that is over, or given up, leaves its file only if it was reported as saved;
\* what else can leave one is a crash, or a file that cannot be read back.
NoOrphans ==
  [][\A p \in OpenPaths \ OpenPaths' :
       \/ p \in DOMAIN kept'
       \/ p \notin DOMAIN files'
       \/ Crash
       \/ \E t \in Transfer : RelayTransfer(t) /\ CannotVerify(t)]_vars

=============================================================================
