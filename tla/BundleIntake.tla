---------------------------- MODULE BundleIntake ----------------------------
(***************************************************************************)
(* Small files at the server (persistFiles in server_common/tcpserver.cpp):*)
(* a bundle is validated as a whole, its items are written under work      *)
(* names into a directory of their own, and then renamed one by one.  The  *)
(* sessions' threads, the sweep of old files and a crash of the process    *)
(* interleave with it at every file.                                       *)
(*                                                                         *)
(* A batch number stands for the directory name made from the clock and    *)
(* nextEventId_; a path in it is a name and the suffix makeFilePathUnique  *)
(* gives it.                                                               *)
(***************************************************************************)
EXTENDS UploadBudget, Sequences, FiniteSets, FiniteSetsExt

CONSTANTS
  Session,
  Name,           \* sanitized file names
  MaxItems,       \* the items a bundle may have
  Bytes,          \* the sizes a bundle may have in all
  RetentionZero,  \* whether the sweep may take files of this very moment
  MaxBatches      \* bound: the bundles accepted

Batch == 1..MaxBatches
Item  == 1..MaxItems
Pending == UNION {[1..n -> Name] : n \in Item}   \* the names in pendingFiles

ASSUME BundleAssumption ==
  /\ MaxItems \in Nat
  /\ Bytes \subseteq Nat
  /\ RetentionZero \in BOOLEAN
  /\ MaxBatches \in Nat

VARIABLES
  at,         \* where the session's reader is: "out", "idle", "write", "rename", "forward"
  batch,      \* the batch its reader handles, or 0
  item,       \* the index of the loop it is in
  names,      \* for each batch the names of pendingFiles
  used,       \* the batches started so far
  works,      \* for each batch the items whose work file is on disk
  files,      \* for each batch the files on disk, as [path, item]
  swept,      \* for each batch the items the sweep removed
  dirs,       \* the batch directories on disk
  crashed,    \* whether the process has crashed once
  told        \* history: for each batch whether the other clients were sent it: "no", "yes",
              \* or "withheld", when it was stored and then refused

diskVars == <<works, files, swept, dirs>>
vars == <<at, batch, item, names, used, diskVars, crashed, told, budgetVars>>

Path  == [name : Name, suffix : 0..MaxItems]
Entry == [path : Path, item : Item]

ReaderAt(s, to) == at' = [at EXCEPT ![s] = to]
InProgress(b) == \E s \in Session : at[s] \in {"write", "rename"} /\ batch[s] = b

-----------------------------------------------------------------------------
\* a bundle that is refused before the budget is asked
Refuse(s) ==
  /\ at[s] = "idle"
  /\ UNCHANGED vars

RateLimited(s, bytes) ==
  /\ at[s] = "idle"
  /\ RefuseBudget(bytes)
  /\ UNCHANGED <<at, batch, item, names, used, diskVars, crashed, told>>

AcceptBundle(s, pending, bytes) ==
  LET b == used + 1 IN
  /\ at[s] = "idle"
  /\ b \in Batch
  /\ ConsumeBudget(bytes)
  /\ used' = b
  /\ names' = [names EXCEPT ![b] = pending]
  /\ \/ /\ dirs' = dirs \cup {b}
        /\ batch' = [batch EXCEPT ![s] = b]
        /\ item' = [item EXCEPT ![s] = 1]
        /\ ReaderAt(s, "write")
     \/ UNCHANGED <<dirs, batch, item, at>>     \* the directory cannot be made
  /\ UNCHANGED <<works, files, swept, crashed, told>>

\* the work file of one item is written and closed
WriteItem(s) ==
  LET b == batch[s] IN
  /\ at[s] = "write"
  /\ works' = [works EXCEPT ![b] = @ \cup {item[s]}]
  /\ IF item[s] < Len(names[b])
     THEN /\ item' = [item EXCEPT ![s] = @ + 1]
          /\ UNCHANGED at
     ELSE /\ item' = [item EXCEPT ![s] = 1]
          /\ ReaderAt(s, "rename")
  /\ UNCHANGED <<batch, names, used, files, swept, dirs, crashed, told, budgetVars>>

\* makeFilePathUnique: the first suffix no file has
TakenBy(b, path) == \E e \in files[b] : e.path = path
UniquePath_Requested(b, name) == [name |-> name, suffix |-> 0]
UniquePath(b, name) ==
  [name |-> name,
   suffix |-> Min({k \in 0..MaxItems : ~TakenBy(b, [name |-> name, suffix |-> k])})]

\* rename replaces what is at the target
RenameItem(s) ==
  LET b == batch[s]
      path == UniquePath(b, names[b][item[s]])
  IN
  /\ at[s] = "rename"
  /\ item[s] \in works[b]
  /\ works' = [works EXCEPT ![b] = @ \ {item[s]}]
  /\ files' = [files EXCEPT ![b] =
       {e \in @ : e.path # path} \cup {[path |-> path, item |-> item[s]]}]
  /\ IF item[s] < Len(names[b])
     THEN /\ item' = [item EXCEPT ![s] = @ + 1]
          /\ UNCHANGED at
     ELSE /\ item' = [item EXCEPT ![s] = 0]
          /\ ReaderAt(s, "forward")
  /\ UNCHANGED <<batch, names, used, swept, dirs, crashed, told, budgetVars>>

\* plausible slip: only what was committed is removed
BundleFails_KeepsWork(s) ==
  /\ at[s] \in {"write", "rename"}
  /\ files' = [files EXCEPT ![batch[s]] = {}]
  /\ batch' = [batch EXCEPT ![s] = 0]
  /\ item' = [item EXCEPT ![s] = 0]
  /\ ReaderAt(s, "idle")
  /\ UNCHANGED <<names, used, works, swept, dirs, crashed, told, budgetVars>>

\* an item cannot be written or renamed: the batch is taken back and refused
BundleFails(s) ==
  LET b == batch[s] IN
  /\ at[s] \in {"write", "rename"}
  /\ works' = [works EXCEPT ![b] = {}]
  /\ files' = [files EXCEPT ![b] = {}]
  /\ dirs' = dirs \ {b}
  /\ batch' = [batch EXCEPT ![s] = 0]
  /\ item' = [item EXCEPT ![s] = 0]
  /\ ReaderAt(s, "idle")
  /\ UNCHANGED <<names, used, swept, crashed, told, budgetVars>>

\* recordAcceptedEvent and broadcastMessage
Forward(s) ==
  /\ at[s] = "forward"
  /\ told' = [told EXCEPT ![batch[s]] = "yes"]
  /\ batch' = [batch EXCEPT ![s] = 0]
  /\ ReaderAt(s, "idle")
  /\ UNCHANGED <<item, names, used, diskVars, crashed, budgetVars>>

\* recordAcceptedEvent throws, as a field that nothing has validated is not a string: the
\* sender is answered INVALID_JSON, and the files stay
ForwardFails(s) ==
  /\ at[s] = "forward"
  /\ told' = [told EXCEPT ![batch[s]] = "withheld"]
  /\ batch' = [batch EXCEPT ![s] = 0]
  /\ ReaderAt(s, "idle")
  /\ UNCHANGED <<item, names, used, diskVars, crashed, budgetVars>>

-----------------------------------------------------------------------------
Enter(s) ==
  /\ at[s] = "out"
  /\ ReaderAt(s, "idle")
  /\ UNCHANGED <<batch, item, names, used, diskVars, crashed, told, budgetVars>>

Leave(s) ==
  /\ at[s] = "idle"
  /\ ReaderAt(s, "out")
  /\ UNCHANGED <<batch, item, names, used, diskVars, crashed, told, budgetVars>>

Tick ==
  /\ BudgetTick
  /\ UNCHANGED <<at, batch, item, names, used, diskVars, crashed, told>>

\* cleanupExpiredFiles removes a regular file, work file or not, whose time has come
OldEnough(b) == RetentionZero \/ ~InProgress(b)

CleanWork(b, i) ==
  /\ OldEnough(b)
  /\ i \in works[b]
  /\ works' = [works EXCEPT ![b] = @ \ {i}]
  /\ swept' = [swept EXCEPT ![b] = @ \cup {i}]
  /\ UNCHANGED <<at, batch, item, names, used, files, dirs, crashed, told, budgetVars>>

CleanFile(b, e) ==
  /\ OldEnough(b)
  /\ e \in files[b]
  /\ files' = [files EXCEPT ![b] = @ \ {e}]
  /\ swept' = [swept EXCEPT ![b] = @ \cup {e.item}]
  /\ UNCHANGED <<at, batch, item, names, used, works, dirs, crashed, told, budgetVars>>

Crash ==
  /\ at' = [s \in Session |-> "out"]
  /\ batch' = [s \in Session |-> 0]
  /\ item' = [s \in Session |-> 0]
  /\ crashed' = TRUE
  /\ uploaded' = 0
  /\ windowAge' = 0
  /\ UNCHANGED <<names, used, diskVars, told>>

-----------------------------------------------------------------------------
Init ==
  /\ at = [s \in Session |-> "out"]
  /\ batch = [s \in Session |-> 0]
  /\ item = [s \in Session |-> 0]
  /\ names = [b \in Batch |-> <<>>]
  /\ used = 0
  /\ works = [b \in Batch |-> {}]
  /\ files = [b \in Batch |-> {}]
  /\ swept = [b \in Batch |-> {}]
  /\ dirs = {}
  /\ crashed = FALSE
  /\ told = [b \in Batch |-> "no"]
  /\ BudgetInit

SessionStep(s) ==
  \/ Enter(s) \/ Leave(s) \/ Refuse(s)
  \/ \E bytes \in Bytes :
       \/ RateLimited(s, bytes)
       \/ \E pending \in Pending : AcceptBundle(s, pending, bytes)
  \/ WriteItem(s) \/ RenameItem(s) \/ BundleFails(s)
  \/ Forward(s) \/ ForwardFails(s)

CleanUp ==
  \E b \in Batch :
    \/ \E i \in works[b] : CleanWork(b, i)
    \/ \E e \in files[b] : CleanFile(b, e)

Next == (\E s \in Session : SessionStep(s)) \/ CleanUp \/ Tick \/ Crash

Spec == Init /\ [][Next]_vars

-----------------------------------------------------------------------------
Stored(b) == {e.item : e \in files[b]}

\* A bundle the other clients are sent is stored whole: each of its items has a file of
\* its own under its own name, even where names repeat, or was there until the sweep
\* took it (persistFiles returns true only after every rename).  So is one that is
\* refused because its recording throws: it is on disk as a whole or not at all.
BundleStored == \A b \in Batch : told[b] # "no" =>
  /\ Stored(b) \cup swept[b] = 1..Len(names[b])
  /\ \A e \in files[b] : e.path.name = names[b][e.item]

\* A bundle that is refused half way leaves nothing on disk: as long as the process does
\* not crash, work files exist only while their batch is in progress and files only of
\* batches that are in progress or stored whole.  The latter were sent on, except for
\* those whose recording threw.
NothingHalfDone == ~crashed =>
  \A b \in Batch :
    /\ works[b] # {} => InProgress(b)
    /\ files[b] # {} \/ b \in dirs =>
         InProgress(b) \/ told[b] # "no" \/ \E s \in Session : at[s] = "forward" /\ batch[s] = b

\* README.md line 217: files are first written to the .transfers work directory, and only
\* moved to the reception directory once verified.  Then what is left in the reception
\* directory, a crash included, are files and no work files.
ReceptionHoldsFiles == \A b \in Batch : ~InProgress(b) => works[b] = {}

=============================================================================
