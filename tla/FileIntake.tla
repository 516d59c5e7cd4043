----------------------------- MODULE FileIntake -----------------------------
(***************************************************************************)
(* Chunked uploads at the server (handleChunkTransfer* in                  *)
(* server_common/tcpserver.cpp): the transfers of each session, their work *)
(* files under .transfers, the directories and files they end in, and the  *)
(* messages the other clients are sent.  The sessions' threads, the sweep  *)
(* of old files and a crash of the process interleave.                     *)
(*                                                                         *)
(* A file number stands for the two names handleChunkTransferStart makes   *)
(* from the clock and nextEventId_, which are taken as unique.  A digest   *)
(* stands for the content it is of.                                        *)
(***************************************************************************)
EXTENDS UploadBudget, FiniteSets, SequencesExt

CONSTANTS
  Session,
  Id,             \* transfer_id
  Byte,
  None,           \* no digest, no file, no transfer
  Gone,           \* a file that retention has removed
  MaxTransfers,   \* kMaxTransfersPerSession
  MaxBytes,       \* maxMessageBytes_
  ChunkBytes,     \* kChunkSizeBytes
  Lifetime,       \* kTransferLifetime, in ticks
  MaxFiles,       \* bound: the transfers started
  MaxSeq,         \* bound: the sequence numbers in use
  MaxWithheld     \* bound: the last transfer of which messages are withheld

Upto(n) == UNION {[1..k -> Byte] : k \in 0..n}
Content == Upto(MaxBytes)
Digest  == Content \cup {None}
File    == 1..MaxFiles

ASSUME IntakeAssumption ==
  /\ MaxTransfers \in Nat
  /\ MaxBytes \in Nat \ {0}
  /\ ChunkBytes \in Nat \ {0}
  /\ Lifetime \in Nat \ {0}
  /\ MaxFiles \in Nat
  /\ MaxSeq \in Nat
  /\ MaxWithheld \in Nat
  /\ None \notin Seq(Byte) \cup Id
  /\ Gone \notin Seq(Byte) \cup {None}

VARIABLES
  at,         \* where the session's reader is: "out", "idle", "open", "forward"
  message,    \* the message its reader handles
  table,      \* incomingTransfers: for each id the transfer's file, or 0
  meta,       \* for each file expectedSize, sha256, receivedSize and nextSequence
  left,       \* expiresAt - now of the transfers in a table
  used,       \* the files started so far
  part,       \* the content of temporaryPath
  final,      \* the content of targetPath; Gone when retention removed it
  dirs,       \* the transfer directories on disk
  crashed,    \* whether the process has crashed once
  told        \* history: told[f] is the transfer as the other clients are sent it, with
              \* the kinds of the accepted messages that were withheld from them

diskVars  == <<part, final, dirs>>
tableVars == <<table, meta, left, used>>
vars == <<at, message, tableVars, diskVars, crashed, told, budgetVars>>

Meta    == [declared : 0..MaxBytes, digest : Digest, received : 0..MaxBytes, next : Nat]
Message == [kind : {"none", "start", "chunk", "complete"}, id : Id \cup {None},
            file : 0..MaxFiles, seq : Nat, data : Seq(Byte)]
NoMessage == [kind |-> "none", id |-> None, file |-> 0, seq |-> 0, data |-> <<>>]
NoMeta == [declared |-> 0, digest |-> None, received |-> 0, next |-> 0]
Unheard == [started |-> FALSE, seqs |-> <<>>, data |-> <<>>, done |-> FALSE, withheld |-> {}]

Files(s) == {table[s][id] : id \in Id} \ {0}

-----------------------------------------------------------------------------
(* processMessage begins with cleanupExpiredTransfers.  A message's action   *)
(* works on the table and the disk that sweep leaves.                        *)

\* plausible slip: nothing expires
Expired_None(s) == {}
Expired(s) == {f \in Files(s) : left[f] = 0}
Swept(s) == [id \in Id |-> IF table[s][id] \in Expired(s) THEN 0 ELSE table[s][id]]

Records(s) == [f \in File |-> IF f \in Expired(s) THEN NoMeta ELSE meta[f]]

\* discardTransfer closes and removes the work file and the empty directory
Discarding(F) ==
  /\ part' = [f \in File |-> IF f \in F THEN None ELSE part[f]]
  /\ dirs' = dirs \ F
  /\ left' = [f \in File |-> IF f \in F THEN 0 ELSE left[f]]
  /\ meta' = [f \in File |-> IF f \in F THEN NoMeta ELSE meta[f]]

MaySpeak(s) == at[s] = "idle"
ReaderAt(s, to) == at' = [at EXCEPT ![s] = to]

\* every message that is answered and changes nothing else; there is one in every state
Refuse(s) ==
  /\ MaySpeak(s)
  /\ table' = [table EXCEPT ![s] = Swept(s)]
  /\ Discarding(Expired(s))
  /\ UNCHANGED <<at, message, used, final, crashed, told, budgetVars>>

-----------------------------------------------------------------------------
(* file_transfer_start                                                       *)

Declared(T) == MapThenSumSet(LAMBDA id : meta[T[id]].declared, {id \in Id : T[id] # 0})

\* plausible slip: only the new transfer is held to the limit
WithinQuota_Single(T, size) == size <= MaxBytes
WithinQuota(T, size) ==
  /\ Cardinality({id \in Id : T[id] # 0}) < MaxTransfers
  /\ size <= MaxBytes
  /\ Declared(T) + size <= MaxBytes

Start(s, id, size, digest) ==
  LET f == used + 1 IN
  /\ MaySpeak(s)
  /\ f \in File
  /\ Swept(s)[id] = 0
  /\ WithinQuota(Swept(s), size)
  /\ used' = f
  /\ table' = [table EXCEPT ![s] = Swept(s)]
  /\ part' = [g \in File |-> IF g \in Expired(s) THEN None ELSE part[g]]
  /\ \/ /\ dirs' = (dirs \ Expired(s)) \cup {f}
        /\ meta' = [Records(s) EXCEPT ![f] =
             [declared |-> size, digest |-> digest, received |-> 0, next |-> 0]]
        /\ message' = [message EXCEPT ![s] =
             [kind |-> "start", id |-> id, file |-> f, seq |-> 0, data |-> <<>>]]
        /\ ReaderAt(s, "open")
     \/ /\ dirs' = dirs \ Expired(s)      \* the directory cannot be made
        /\ meta' = Records(s)
        /\ UNCHANGED <<message, at>>
  /\ UNCHANGED <<left, final, crashed, told, budgetVars>>

OpenPart(s) ==
  LET m == message[s] IN
  /\ at[s] = "open"
  /\ part' = [part EXCEPT ![m.file] = <<>>]
  /\ table' = [table EXCEPT ![s][m.id] = m.file]
  /\ left' = [left EXCEPT ![m.file] = Lifetime]
  /\ ReaderAt(s, "forward")
  /\ UNCHANGED <<message, meta, used, final, dirs, crashed, told, budgetVars>>

OpenFails(s) ==
  /\ at[s] = "open"
  /\ dirs' = dirs \ {message[s].file}
  /\ meta' = [meta EXCEPT ![message[s].file] = NoMeta]
  /\ ReaderAt(s, "idle")
  /\ message' = [message EXCEPT ![s] = NoMessage]
  /\ UNCHANGED <<table, left, used, part, final, crashed, told, budgetVars>>

-----------------------------------------------------------------------------
(* file_transfer_chunk                                                       *)

\* plausible slip: a repeated chunk is let through
InSequence_Repeats(f, seq) == seq <= meta[f].next
InSequence(f, seq) == seq = meta[f].next
Fits(f, data) ==
  /\ Len(data) <= ChunkBytes
  /\ Len(data) <= meta[f].declared - meta[f].received

ChunkArrives(s, id, seq, data) ==
  /\ MaySpeak(s)
  /\ Swept(s)[id] # 0
  /\ InSequence(Swept(s)[id], seq)
  /\ Fits(Swept(s)[id], data)

Counted(r, data) == [r EXCEPT !.received = @ + Len(data), !.next = @ + 1]

Chunk(s, id, seq, data) ==
  LET f == Swept(s)[id] IN
  /\ ChunkArrives(s, id, seq, data)
  /\ ConsumeBudget(Len(data))
  /\ table' = [table EXCEPT ![s] = Swept(s)]
  /\ part' = [g \in File |-> IF g \in Expired(s) THEN None
                             ELSE IF g = f THEN part[g] \o data ELSE part[g]]
  /\ dirs' = dirs \ Expired(s)
  /\ meta' = [Records(s) EXCEPT ![f] = Counted(meta[f], data)]
  /\ left' = [left EXCEPT ![f] = Lifetime]
  /\ message' = [message EXCEPT ![s] =
       [kind |-> "chunk", id |-> id, file |-> f, seq |-> seq, data |-> data]]
  /\ ReaderAt(s, "forward")
  /\ UNCHANGED <<used, final, crashed, told>>

\* the budget is spent, the transfer is not
ChunkWriteFails(s, id, seq, data) ==
  /\ ChunkArrives(s, id, seq, data)
  /\ ConsumeBudget(Len(data))
  /\ table' = [table EXCEPT ![s] = [Swept(s) EXCEPT ![id] = 0]]
  /\ Discarding(Expired(s) \cup {Swept(s)[id]})
  /\ UNCHANGED <<at, message, used, final, crashed, told>>

ChunkRateLimited(s, id, seq, data) ==
  /\ ChunkArrives(s, id, seq, data)
  /\ RefuseBudget(Len(data))
  /\ table' = [table EXCEPT ![s] = Swept(s)]
  /\ Discarding(Expired(s))
  /\ UNCHANGED <<at, message, used, final, crashed, told>>

-----------------------------------------------------------------------------
(* file_transfer_complete                                                    *)

\* what is in the work file after close(): the disk may refuse what it flushes, and the
\* outcome is not looked at
Flushed(f) == {SubSeq(part[f], 1, k) : k \in 0..Len(part[f])}

\* plausible slip: the size is not compared
Verified_SizeIgnored(f, content) == meta[f].digest \in {None, content}
Verified(f, content) ==
  /\ meta[f].received = meta[f].declared
  /\ meta[f].digest \in {None, content}

Complete(s, id, content) ==
  LET f == Swept(s)[id] IN
  /\ MaySpeak(s)
  /\ f # 0
  /\ content \in Flushed(f)
  /\ Verified(f, content)
  /\ table' = [table EXCEPT ![s] = [Swept(s) EXCEPT ![id] = 0]]
  /\ part' = [g \in File |-> IF g \in Expired(s) \cup {f} THEN None ELSE part[g]]
  /\ dirs' = dirs \ Expired(s)
  /\ final' = [final EXCEPT ![f] = content]
  /\ message' = [message EXCEPT ![s] =
       [kind |-> "complete", id |-> id, file |-> f, seq |-> 0, data |-> <<>>]]
  /\ ReaderAt(s, "forward")
  /\ left' = [left EXCEPT ![f] = 0]
  /\ meta' = Records(s)
  /\ UNCHANGED <<used, crashed, told, budgetVars>>

\* a wrong size or digest, or a rename that fails, which any may
CompleteFails(s, id) ==
  /\ MaySpeak(s)
  /\ Swept(s)[id] # 0
  /\ table' = [table EXCEPT ![s] = [Swept(s) EXCEPT ![id] = 0]]
  /\ Discarding(Expired(s) \cup {Swept(s)[id]})
  /\ UNCHANGED <<at, message, used, final, crashed, told, budgetVars>>

-----------------------------------------------------------------------------
(* The accepted message is recorded and broadcast.  Whether the database     *)
(* takes the record is ignored, but recordAcceptedEvent reads two fields of  *)
(* the message that nothing has validated, and throws when one of them is    *)
(* not a string: then the message has taken effect, its sender is answered   *)
(* INVALID_JSON, and nobody else hears of it.                                *)

\* the transfer r as the other clients know it, with one message more
Sent(r, m) ==
  CASE m.kind = "start"    -> [r EXCEPT !.started = TRUE]
    [] m.kind = "chunk"    -> [r EXCEPT !.seqs = Append(@, m.seq), !.data = @ \o m.data]
    [] m.kind = "complete" -> [r EXCEPT !.done = TRUE]

Forward(s) ==
  LET m == message[s] IN
  /\ at[s] = "forward"
  /\ told' = [told EXCEPT ![m.file] = Sent(told[m.file], m)]
  /\ ReaderAt(s, "idle")
  /\ message' = [message EXCEPT ![s] = NoMessage]
  /\ UNCHANGED <<tableVars, diskVars, crashed, budgetVars>>

ForwardFails(s) ==
  LET m == message[s] IN
  /\ at[s] = "forward"
  /\ m.file <= MaxWithheld
  /\ told' = [told EXCEPT ![m.file].withheld = @ \cup {m.kind}]
  /\ ReaderAt(s, "idle")
  /\ message' = [message EXCEPT ![s] = NoMessage]
  /\ UNCHANGED <<tableVars, diskVars, crashed, budgetVars>>

-----------------------------------------------------------------------------
(* The session, the clock, retention and the process.                        *)

Enter(s) ==
  /\ at[s] = "out"
  /\ ReaderAt(s, "idle")
  /\ UNCHANGED <<message, tableVars, diskVars, crashed, told, budgetVars>>

\* plausible slip: the work files of a finalized session stay
Leave_Forgets(s) ==
  /\ MaySpeak(s)
  /\ table' = [table EXCEPT ![s] = [id \in Id |-> 0]]
  /\ ReaderAt(s, "out")
  /\ left' = [f \in File |-> IF f \in Files(s) THEN 0 ELSE left[f]]
  /\ UNCHANGED <<message, meta, used, part, final, dirs, crashed, told, budgetVars>>

\* finalizing the session: cleanupClientTransfers
Leave(s) ==
  /\ MaySpeak(s)
  /\ table' = [table EXCEPT ![s] = [id \in Id |-> 0]]
  /\ Discarding(Files(s))
  /\ ReaderAt(s, "out")
  /\ UNCHANGED <<message, used, final, crashed, told, budgetVars>>

Tick ==
  /\ left' = [f \in File |-> IF left[f] > 0 THEN left[f] - 1 ELSE 0]
  /\ BudgetTick
  /\ UNCHANGED <<at, message, table, meta, used, diskVars, crashed, told>>

\* cleanupExpiredFiles; .transfers is left alone, and directories stay
CleanExpired(f) ==
  /\ final[f] \notin {None, Gone}
  /\ final' = [final EXCEPT ![f] = Gone]
  /\ UNCHANGED <<at, message, tableVars, part, dirs, crashed, told, budgetVars>>

Crash ==
  /\ at' = [s \in Session |-> "out"]
  /\ table' = [s \in Session |-> [id \in Id |-> 0]]
  /\ message' = [s \in Session |-> NoMessage]
  /\ left' = [f \in File |-> 0]
  /\ meta' = [f \in File |-> IF final[f] = None THEN NoMeta ELSE meta[f]]
  /\ crashed' = TRUE
  /\ uploaded' = 0
  /\ windowAge' = 0
  /\ UNCHANGED <<used, diskVars, told>>

-----------------------------------------------------------------------------
Init ==
  /\ at = [s \in Session |-> "out"]
  /\ message = [s \in Session |-> NoMessage]
  /\ table = [s \in Session |-> [id \in Id |-> 0]]
  /\ meta = [f \in File |-> NoMeta]
  /\ left = [f \in File |-> 0]
  /\ used = 0
  /\ part = [f \in File |-> None]
  /\ final = [f \in File |-> None]
  /\ dirs = {}
  /\ crashed = FALSE
  /\ told = [f \in File |-> Unheard]
  /\ BudgetInit

MessageArrives(s) ==
  \/ Refuse(s)
  \/ \E id \in Id, size \in 0..MaxBytes, digest \in Digest : Start(s, id, size, digest)
  \/ \E id \in Id, seq \in 0..MaxSeq, data \in Upto(ChunkBytes) :
       \/ Chunk(s, id, seq, data)
       \/ ChunkWriteFails(s, id, seq, data)
       \/ ChunkRateLimited(s, id, seq, data)
  \/ \E id \in Id, content \in Content : Complete(s, id, content)
  \/ \E id \in Id : CompleteFails(s, id)

SessionStep(s) ==
  \/ Enter(s) \/ MessageArrives(s) \/ OpenPart(s) \/ OpenFails(s)
  \/ Forward(s) \/ ForwardFails(s) \/ Leave(s)

Next ==
  \/ \E s \in Session : SessionStep(s)
  \/ \E f \in File : CleanExpired(f)
  \/ Tick
  \/ Crash

Spec == Init /\ [][Next]_vars

-----------------------------------------------------------------------------
Told == [started : BOOLEAN, seqs : Seq(Nat), data : Seq(Byte), done : BOOLEAN,
         withheld : SUBSET {"start", "chunk", "complete"}]

\* The variables have the types the code gives them, and the upload window's sum
\* stays within its limit (consumeUploadBudget).
TypeOK ==
  /\ at \in [Session -> {"out", "idle", "open", "forward"}]
  /\ message \in [Session -> Message]
  /\ table \in [Session -> [Id -> 0..MaxFiles]]
  /\ meta \in [File -> Meta]
  /\ left \in [File -> 0..Lifetime]
  /\ used \in 0..MaxFiles
  /\ part \in [File -> Seq(Byte) \cup {None}]
  /\ final \in [File -> Seq(Byte) \cup {None, Gone}]
  /\ dirs \subseteq File
  /\ crashed \in BOOLEAN
  /\ told \in [File -> Told]
  /\ BudgetType

\* However starts, completions, failures and expiries follow one another, the open
\* transfers of a session and what they declared together stay within its quota
\* (handleChunkTransferStart).
QuotaHeld == \A s \in Session :
  /\ Cardinality({id \in Id : table[s][id] # 0}) <= MaxTransfers
  /\ Declared(table[s]) <= MaxBytes

\* What the other clients are sent of a transfer are chunks in their order, none twice, and
\* a complete only if the server has stored the file, even if retention has taken it
\* since.  Unless a chunk was withheld from them, they are sent every chunk from the first
\* on, and of a completed transfer the declared size; and unless the start was withheld,
\* they are sent it before all else (processMessage forwards accepted messages only, and
\* all of them whose recording does not throw).
DeliveredWhole == \A f \in File :
  LET r == told[f] IN
  /\ \A i, j \in 1..Len(r.seqs) : i < j => r.seqs[i] < r.seqs[j]
  /\ r.seqs # <<>> \/ r.done => r.started \/ "start" \in r.withheld
  /\ r.done => final[f] # None
  /\ "chunk" \notin r.withheld =>
       /\ \A i \in 1..Len(r.seqs) : r.seqs[i] = i - 1
       /\ r.done => Len(r.data) = meta[f].declared

\* A file in the reception directory has the digest that was declared, if one was, and
\* unless a chunk was withheld from the other clients they were sent the declared number
\* of bytes: the file is what they were sent, or its beginning if close() lost the rest
\* (handleChunkTransferComplete compares the size it has counted and the digest of what
\* it reads back), wherever the process crashed.
StoredWhole == \A f \in File : final[f] \notin {None, Gone} =>
  /\ meta[f].digest \in {None, final[f]}
  /\ "chunk" \notin told[f].withheld =>
       /\ Len(told[f].data) = meta[f].declared
       /\ IsPrefix(final[f], told[f].data)

\* The open transfers have a work file each and no two share one; and as long as the
\* process does not crash, no work file and no empty transfer directory is left behind
\* (discardTransfer on every path that ends a transfer).
NothingLeaks ==
  /\ \A s, t \in Session, i, j \in Id :
       table[s][i] # 0 => /\ part[table[s][i]] # None
                          /\ table[s][i] = table[t][j] => s = t /\ i = j
  /\ ~crashed => \A f \in File :
       LET open == \E s \in Session : f \in Files(s) IN
       /\ part[f] # None => open
       /\ f \in dirs => \/ open
                         \/ final[f] # None
                         \/ \E s \in Session : at[s] = "open" /\ message[s].file = f

\* No chunk is written to a transfer whose deadline has passed: the sweep at the head
\* of processMessage comes before the lookup.
NoLateChunk == [][\A f \in File :
  part[f] # None /\ part'[f] \notin {None, part[f]} => left[f] > 0]_vars

=============================================================================
