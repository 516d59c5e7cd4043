-------------------------- MODULE FileIntakeProofs --------------------------
(***************************************************************************)
(* Theorems about chunked uploads, for any number of sessions, transfers   *)
(* and files, any limits and any contents.                                 *)
(***************************************************************************)
EXTENDS FileIntake, FiniteSetTheorems, WellFoundedInduction, TLAPS

-----------------------------------------------------------------------------
(* The inductive invariant                                                  *)

InOrder(seqs) == \A i \in 1..Len(seqs) : seqs[i] = i - 1
Rising(seqs) == \A i, j \in 1..Len(seqs) : i < j => seqs[i] < seqs[j]
Below(seqs, n) == \A i \in 1..Len(seqs) : seqs[i] < n

Busy(s) == at[s] \in {"open", "forward"}
Unlisted(f) == \A s \in Session, id \in Id : table[s][id] # f

\* f as the other clients will know it when s has sent what it is about to send
Due(s, f) ==
  IF at[s] = "forward" /\ message[s].file = f THEN Sent(told[f], message[s]) ELSE told[f]

\* no two transfers share a file, and no two readers work on one
Distinct == \A s, t \in Session, i, j \in Id :
  table[s][i] # 0 /\ table[s][i] = table[t][j] => s = t /\ i = j
Apart == \A s, t \in Session :
  Busy(s) /\ Busy(t) /\ message[s].file = message[t].file => s = t

\* a file before its work file is made
Untouched(f) == Unlisted(f) /\ part[f] = None /\ final[f] = None /\ told[f] = Unheard
Unused(f) == f > used =>
  Untouched(f) /\ f \notin dirs /\ \A s \in Session : Busy(s) => message[s].file # f

\* what a reader that is busy has before it
Opening(s) == at[s] = "open" =>
  /\ message[s].kind = "start" /\ message[s].id \in Id /\ message[s].file \in File
  /\ table[s][message[s].id] = 0 /\ message[s].file <= used /\ Untouched(message[s].file)
  /\ meta[message[s].file].received = 0 /\ meta[message[s].file].next = 0
Forwarding(s) == at[s] = "forward" =>
  /\ message[s].id \in Id /\ message[s].file \in File
  /\ \/ message[s].kind \in {"start", "chunk"} /\ table[s][message[s].id] = message[s].file
     \/ message[s].kind = "complete" /\ final[message[s].file] # None

\* an open transfer as r, what is sent of it: what is in the work file is what was counted
\* and, unless a chunk was withheld, what is sent
Sound(r, f) ==
  /\ r.started \/ "start" \in r.withheld
  /\ ~r.done /\ Rising(r.seqs) /\ Below(r.seqs, meta[f].next)
  /\ "chunk" \notin r.withheld =>
       r.data = part[f] /\ Len(r.seqs) = meta[f].next /\ InOrder(r.seqs)
Going(s, f) ==
  /\ part[f] \in Seq(Byte) /\ final[f] = None
  /\ Len(part[f]) = meta[f].received /\ meta[f].received <= meta[f].declared
  /\ Sound(Due(s, f), f)

\* a stored file belongs to no transfer any more, and the others have all of it that was
\* not withheld
Finished(f) == final[f] # None =>
  /\ Unlisted(f) /\ (told[f].started \/ "start" \in told[f].withheld)
  /\ final[f] # Gone => meta[f].digest \in {None, final[f]}
  /\ "chunk" \notin told[f].withheld =>
       /\ Len(told[f].data) = meta[f].declared
       /\ final[f] # Gone => IsPrefix(final[f], told[f].data)

\* DeliveredWhole and the end of NothingLeaks of one file
Heard(f) ==
  /\ Rising(told[f].seqs)
  /\ told[f].seqs # <<>> \/ told[f].done => told[f].started \/ "start" \in told[f].withheld
  /\ told[f].done => final[f] # None
  /\ "chunk" \notin told[f].withheld =>
       /\ InOrder(told[f].seqs)
       /\ told[f].done => Len(told[f].data) = meta[f].declared
Tidy(f) == ~crashed =>
  /\ part[f] # None => ~Unlisted(f)
  /\ f \in dirs => \/ ~Unlisted(f) \/ final[f] # None
                   \/ \E s \in Session : at[s] = "open" /\ message[s].file = f

Lives(f) == Unused(f) /\ Finished(f) /\ Heard(f) /\ Tidy(f)

Inv ==
  /\ TypeOK /\ Distinct /\ Apart
  /\ \A s \in Session : Opening(s) /\ Forwarding(s)
  /\ \A s \in Session, id \in Id : table[s][id] # 0 => Going(s, table[s][id])
  /\ \A f \in File : Lives(f)

-----------------------------------------------------------------------------
(* Types                                                                    *)

\* The limits as the provers take them, one by one.
LEMMA Limits ==
  /\ MaxTransfers \in Nat /\ MaxBytes \in Nat /\ MaxBytes > 0 /\ ChunkBytes \in Nat
  /\ Lifetime \in Nat /\ Lifetime > 0 /\ MaxFiles \in Nat /\ MaxSeq \in Nat
  /\ None \notin Seq(Byte) /\ None \notin Id /\ Gone \notin Seq(Byte) /\ Gone # None
  /\ UploadLimit \in Nat /\ Window \in Nat /\ Window > 0
BY IntakeAssumption, BudgetAssumption DEF IntakeAssumption, BudgetAssumption

\* Chunks and contents are sequences of bytes.
LEMMA ContentsAreSequences ==
  /\ Upto(ChunkBytes) \subseteq Seq(Byte) /\ Content \subseteq Seq(Byte)
  /\ \A data \in Upto(ChunkBytes) : Len(data) \in Nat
<1>1. \A n \in Nat : [1..n -> Byte] \subseteq Seq(Byte)
  OBVIOUS
<1>2. \A n \in Nat : Upto(n) \subseteq Seq(Byte)
  BY <1>1 DEF Upto
<1>3. Upto(ChunkBytes) \subseteq Seq(Byte) /\ Content \subseteq Seq(Byte)
  BY <1>2, Limits DEF Content
<1>. QED  BY <1>3

\* What stands for nothing is of the types.
LEMMA NothingIsTyped ==
  NoMeta \in Meta /\ NoMessage \in Message /\ Unheard \in Told
<1>1. None \in Digest /\ 0 \in 0..MaxBytes /\ 0 \in 0..MaxFiles
  BY Limits DEF Digest
<1>. QED  BY <1>1 DEF NoMeta, Meta, NoMessage, Message, Unheard, Told

\* The upload budget stays within its limit, whatever is asked of it.
LEMMA BudgetStays ==
  /\ \A n \in Nat : BudgetType /\ (ConsumeBudget(n) \/ RefuseBudget(n)) => BudgetType'
  /\ BudgetType /\ BudgetTick => BudgetType'
  /\ BudgetInit => BudgetType
BY Limits
DEF BudgetType, ConsumeBudget, RefuseBudget, BudgetTick, BudgetInit, BudgetAllows, InWindow, WindowOver

\* What the sweep takes from a table, and what it leaves.
LEMMA SweepFacts ==
  ASSUME TypeOK, NEW s \in Session
  PROVE  /\ Expired(s) \subseteq Files(s) /\ Files(s) \subseteq File
         /\ \A f \in Files(s) : \E id \in Id : table[s][id] = f
         /\ \A id \in Id : table[s][id] # 0 => table[s][id] \in Files(s)
         /\ \A f \in Expired(s) : left[f] = 0
         /\ \A id \in Id :
              /\ Swept(s)[id] = IF table[s][id] \in Expired(s) THEN 0 ELSE table[s][id]
              /\ Swept(s)[id] # 0 =>
                   /\ Swept(s)[id] = table[s][id] /\ Swept(s)[id] \in File
                   /\ Swept(s)[id] \notin Expired(s) /\ left[Swept(s)[id]] > 0
         /\ Swept(s) = [id \in Id |-> IF table[s][id] \in Expired(s) THEN 0 ELSE table[s][id]]
         /\ Swept(s) \in [Id -> 0..MaxFiles] /\ Records(s) \in [File -> Meta]
         /\ \A f \in File : Records(s)[f] = IF f \in Expired(s) THEN NoMeta ELSE meta[f]
<1>1. \A id \in Id : table[s][id] \in 0..MaxFiles
  BY DEF TypeOK
<1>2. Files(s) \subseteq File /\ Expired(s) \subseteq Files(s)
  BY <1>1, Limits DEF Files, Expired, File
<1>3. \A id \in Id : table[s][id] # 0 => table[s][id] \in Files(s)
  BY DEF Files
<1>4. \A id \in Id : Swept(s)[id] = IF table[s][id] \in Expired(s) THEN 0 ELSE table[s][id]
  BY DEF Swept
<1>5. \A f \in File : left[f] \in 0..Lifetime
  BY DEF TypeOK
<1>6. ASSUME NEW id \in Id, Swept(s)[id] # 0
      PROVE  /\ Swept(s)[id] = table[s][id] /\ Swept(s)[id] \in File
             /\ Swept(s)[id] \notin Expired(s) /\ left[Swept(s)[id]] > 0
  <2>1. Swept(s)[id] = table[s][id] /\ table[s][id] \notin Expired(s) /\ table[s][id] \in Files(s)
    BY <1>3, <1>4, <1>6
  <2>2. left[table[s][id]] # 0
    BY <2>1 DEF Expired
  <2>. QED  BY <1>2, <1>5, <2>1, <2>2, Limits
<1>7. Swept(s) \in [Id -> 0..MaxFiles]
  BY <1>1, Limits DEF Swept
<1>8. Records(s) \in [File -> Meta]
  BY NothingIsTyped DEF Records, TypeOK
<1>9. \A f \in Files(s) : \E id \in Id : table[s][id] = f
  BY DEF Files
<1>10. \A f \in Expired(s) : left[f] = 0
  BY DEF Expired
<1>11. \A f \in File : Records(s)[f] = IF f \in Expired(s) THEN NoMeta ELSE meta[f]
  BY DEF Records
<1>12. Swept(s) = [id \in Id |-> IF table[s][id] \in Expired(s) THEN 0 ELSE table[s][id]]
  BY DEF Swept
<1>. QED  BY <1>2, <1>3, <1>4, <1>6, <1>7, <1>8, <1>9, <1>10, <1>11, <1>12

\* Discarding leaves types as they are.
LEMMA DiscardingTyped ==
  ASSUME TypeOK, NEW F \in SUBSET File, Discarding(F)
  PROVE  /\ part' \in [File -> Seq(Byte) \cup {None}] /\ dirs' \subseteq File
         /\ left' \in [File -> 0..Lifetime] /\ meta' \in [File -> Meta]
         /\ \A f \in File :
              /\ part'[f] = IF f \in F THEN None ELSE part[f]
              /\ meta'[f] = IF f \in F THEN NoMeta ELSE meta[f]
              /\ f \in dirs' => f \in dirs /\ f \notin F
BY NothingIsTyped, Limits DEF Discarding, TypeOK

-----------------------------------------------------------------------------
(* What a step leaves as it was                                             *)

\* A file that a table holds is not stored, and is in no other table.
LEMMA ListedFacts ==
  ASSUME Inv, NEW s \in Session, NEW id \in Id, table[s][id] # 0
  PROVE  /\ table[s][id] \in File /\ table[s][id] <= used /\ final[table[s][id]] = None
         /\ Going(s, table[s][id]) /\ ~Unlisted(table[s][id])
         /\ \A t \in Session : Busy(t) /\ message[t].file = table[s][id] =>
              t = s /\ at[s] = "forward"
<1>. DEFINE f == table[s][id]
<1>1. f \in File
  BY Limits DEF Inv, TypeOK, File
<1>2. ~Unlisted(f)
  BY DEF Unlisted
<1>3. f <= used
  <2>1. used \in Nat /\ f \in Nat
    BY <1>1, Limits DEF Inv, TypeOK, File
  <2>. QED  BY <1>1, <1>2, <2>1 DEF Inv, Lives, Unused, Untouched
<1>4. Going(s, f)
  BY DEF Inv
<1>5. final[f] = None
  BY <1>4 DEF Going
<1>6. ASSUME NEW t \in Session, Busy(t), message[t].file = f
      PROVE  t = s /\ at[s] = "forward"
  <2>1. at[t] # "open"
    BY <1>2, <1>6 DEF Inv, Opening, Untouched
  <2>2. at[t] = "forward" /\ table[t][message[t].id] = f /\ message[t].id \in Id
    BY <1>5, <1>6, <2>1 DEF Busy, Inv, Forwarding
  <2>. QED  BY <2>2 DEF Inv, Distinct
<1>. HIDE DEF f
<1>7. /\ f \in File /\ f <= used /\ final[f] = None /\ Going(s, f) /\ ~Unlisted(f)
      /\ \A t \in Session : Busy(t) /\ message[t].file = f => t = s /\ at[s] = "forward"
  BY <1>1, <1>2, <1>3, <1>4, <1>5, <1>6
<1>. QED  BY <1>7 DEF f

Shrinks == \A t \in Session, id \in Id : table'[t][id] \in {0, table[t][id]}

\* As long as tables only lose transfers, no two come to share a file.
LEMMA ShrinkingTables ==
  ASSUME Inv, Shrinks
  PROVE  Distinct' /\ \A f \in File : Unlisted(f) => Unlisted(f)'
<1>1. 0 \notin File
  BY Limits DEF File
<1>2. Distinct'
  BY DEF Shrinks, Inv, Distinct
<1>. QED  BY <1>1, <1>2 DEF Shrinks, Unlisted

\* A transfer goes on as long as nothing of its file changes.
LEMMA GoingKept ==
  ASSUME NEW s, NEW f, Going(s, f), Due(s, f)' = Due(s, f),
         part'[f] = part[f], final'[f] = final[f], meta'[f] = meta[f]
  PROVE  Going(s, f)'
BY DEF Going, Sound

\* A session that is between two messages gives up the transfers of F, and changes its row
\* of the table no more than that, except for files T that no other session deals with.
Confined(s, F, T) ==
  /\ F \subseteq Files(s) /\ T \subseteq File /\ at[s] = "idle"
  /\ \A t \in Session : t # s =>
       table'[t] = table[t] /\ at'[t] = at[t] /\ message'[t] = message[t]
  /\ \A id \in Id : /\ table'[s][id] \in {0, table[s][id]} /\ table'[s][id] \notin F
                    /\ table[s][id] \notin F \cup T => table'[s][id] = table[s][id]
  /\ \A f \in File \ T :
       /\ part'[f] = IF f \in F THEN None ELSE part[f]
       /\ meta'[f] = IF f \in F THEN NoMeta ELSE meta[f]
       /\ final'[f] = final[f]
       /\ f \in dirs' => f \in dirs /\ f \notin F
  /\ told' = told /\ crashed' = crashed /\ used' \in Nat /\ used' >= used
  /\ \A f \in T, t \in Session : t # s =>
       (\A id \in Id : table[t][id] # f) /\ (Busy(t) => message[t].file # f)
  /\ Busy(s)' => message'[s].file \in T

\* what then goes on to hold
Elsewhere(s, T) ==
  /\ Distinct' /\ Apart' /\ (\A f \in File : Unlisted(f) => Unlisted(f)')
  /\ \A t \in Session : t # s => Opening(t)' /\ Forwarding(t)'
  /\ \A t \in Session, id \in Id : \A g : g = table'[t][id] /\ g \notin T \cup {0} => Going(t, g)'
  /\ \A f \in File \ T : Lives(f)'

\* What one session does to its own transfers leaves the others as they were.
LEMMA ElsewhereKept ==
  ASSUME Inv, NEW s \in Session, NEW F, NEW T, Confined(s, F, T)
  PROVE  Elsewhere(s, T)
<1>. USE DEF Confined
<1>0. TypeOK /\ F \in SUBSET File /\ 0 \notin File /\ used \in Nat
  BY SweepFacts, Limits DEF Inv, TypeOK, File
<1>1. Shrinks
  BY DEF Shrinks
<1>2. \A g \in F : (\E id \in Id : table[s][id] = g /\ g # 0) /\ final[g] = None
  <2>1. \A g \in F : \E id \in Id : table[s][id] = g /\ g # 0
    BY DEF Files
  <2>. QED  BY <2>1, ListedFacts
<1>3. \A t \in Session, id \in Id : table'[t][id] # 0 =>
        table'[t][id] = table[t][id] /\ table[t][id] \notin F
  BY <1>2 DEF Inv, Distinct
<1>4. \A t \in Session, id \in Id : table[t][id] \in File \ (F \cup T) =>
        table'[t][id] = table[t][id]
  OBVIOUS
<1>5. \A t \in Session : Busy(t)' /\ t # s => Busy(t) /\ message[t].file \notin T
  BY DEF Busy
<1>6. \A t \in Session, f \in File \ T : Due(t, f)' = Due(t, f)
  <2>1. \A f \in File \ T : Due(s, f)' = told[f] /\ Due(s, f) = told[f]
    BY DEF Due, Busy
  <2>2. \A t \in Session, f \in File : t # s => Due(t, f)' = Due(t, f)
    BY DEF Due
  <2>. QED  BY <2>1, <2>2
<1>7. Distinct' /\ \A f \in File : Unlisted(f) => Unlisted(f)'
  BY <1>1, ShrinkingTables
<1>8. \A f \in File \ T : Untouched(f) => Untouched(f)'
  BY <1>7 DEF Untouched
<1>9. \A f \in File \ T : f \notin F => part'[f] = part[f] /\ meta'[f] = meta[f]
  OBVIOUS
<1>10. \A f \in File \ T : f \notin F /\ ~Unlisted(f) => ~Unlisted(f)'
  BY <1>4 DEF Unlisted
<1>11. Apart'
  BY <1>5 DEF Inv, Apart
<1>12. ASSUME NEW t \in Session, t # s PROVE Opening(t)' /\ Forwarding(t)'
  <2>1. Opening(t) /\ Forwarding(t)
    BY DEF Inv
  <2>2. Opening(t)'
    <3>. SUFFICES ASSUME at[t] = "open" PROVE Opening(t)'
      BY <1>12 DEF Opening
    <3>1. message[t].file \in File \ T /\ Untouched(message[t].file)'
      BY <1>5, <1>8, <1>12, <2>1 DEF Opening, Busy
    <3>2. message[t].file <= used'
      BY <1>0, <2>1, <3>1 DEF Opening, File
    <3>3. meta'[message[t].file] = meta[message[t].file]
      <4>1. message[t].file \notin F
        BY <1>2, <1>12, <2>1 DEF Opening, Untouched, Unlisted
      <4>. QED  BY <3>1, <4>1
    <3>. QED  BY <1>12, <2>1, <3>1, <3>2, <3>3 DEF Opening
  <2>3. Forwarding(t)'
    BY <1>5, <1>12, <2>1 DEF Forwarding, Busy
  <2>. QED  BY <2>2, <2>3
<1>13. ASSUME NEW t \in Session, NEW id \in Id, NEW g, g = table'[t][id], g \notin T \cup {0}
       PROVE  Going(t, g)'
  <2>1. g = table[t][id] /\ g \notin F
    BY <1>3, <1>13
  <2>2. Going(t, g) /\ g \in File
    BY <1>13, <2>1, ListedFacts
  <2>3. Due(t, g)' = Due(t, g) /\ part'[g] = part[g] /\ final'[g] = final[g] /\ meta'[g] = meta[g]
    BY <1>6, <1>9, <1>13, <2>1, <2>2
  <2>. QED  BY <2>2, <2>3, GoingKept
<1>14. ASSUME NEW f \in File \ T PROVE Lives(f)'
  <2>0. Lives(f) /\ f \in Nat
    BY <1>14 DEF Inv, File
  <2>1. Unused(f)'
    BY <1>0, <1>5, <1>8, <1>14, <2>0 DEF Lives, Unused
  <2>2. Finished(f)'
    BY <1>2, <1>7, <1>9, <1>14, <2>0 DEF Lives, Finished
  <2>3. Heard(f)'
    BY <1>2, <1>9, <1>14, <2>0 DEF Lives, Heard
  <2>4. Tidy(f)'
    <3>. SUFFICES ASSUME ~crashed
                  PROVE  /\ part'[f] # None => ~Unlisted(f)'
                         /\ f \in dirs' =>
                              \/ ~Unlisted(f)' \/ final'[f] # None
                              \/ \E t \in Session : at'[t] = "open" /\ message'[t].file = f
      BY DEF Tidy
    <3>1. part'[f] # None => ~Unlisted(f)'
      BY <1>9, <1>10, <1>14, <2>0 DEF Lives, Tidy
    <3>2. ASSUME NEW t \in Session, at[t] = "open", message[t].file = f
          PROVE  at'[t] = "open" /\ message'[t].file = f
      BY <3>2
    <3>3. f \in dirs' => \/ ~Unlisted(f)' \/ final'[f] # None
                         \/ \E t \in Session : at'[t] = "open" /\ message'[t].file = f
      BY <1>10, <1>14, <2>0, <3>2 DEF Lives, Tidy
    <3>. QED  BY <3>1, <3>3
  <2>. QED  BY <2>1, <2>2, <2>3, <2>4 DEF Lives
<1>. QED
  BY <1>7, <1>11, <1>12, <1>13, <1>14 DEF Elsewhere

-----------------------------------------------------------------------------
(* The messages of a session                                                *)

\* The row of a session's table without the transfers of F.
Without(s, F) == [id \in Id |-> IF table[s][id] \in F THEN 0 ELSE table[s][id]]

\* Such a row is of the table's type, and the sweep leaves one.
LEMMA WithoutTyped ==
  ASSUME TypeOK, NEW s \in Session, NEW F \in SUBSET Files(s)
  PROVE  /\ [table EXCEPT ![s] = Without(s, F)] \in [Session -> [Id -> 0..MaxFiles]]
         /\ Swept(s) = Without(s, Expired(s))
         /\ \A id \in Id : Without(s, F)[id] = IF table[s][id] \in F THEN 0 ELSE table[s][id]
BY Limits DEF Without, TypeOK, Swept

\* Transfers are given up, and the session goes on or ends.
LEMMA DroppedInv ==
  ASSUME Inv, NEW s \in Session, NEW F \in SUBSET Files(s), at[s] = "idle",
         table' = [table EXCEPT ![s] = Without(s, F)],
         part' = [f \in File |-> IF f \in F THEN None ELSE part[f]],
         meta' = [f \in File |-> IF f \in F THEN NoMeta ELSE meta[f]],
         dirs' = dirs \ F, left' \in [File -> 0..Lifetime],
         NEW to \in {"idle", "out"}, at' = [at EXCEPT ![s] = to],
         used' \in used..MaxFiles, UNCHANGED <<message, final, crashed, told>>, BudgetType'
  PROVE  Inv'
<1>0. TypeOK /\ F \in SUBSET File /\ used \in Nat /\ 0 \notin F
  <2>1. TypeOK /\ F \in SUBSET File
    BY SweepFacts DEF Inv
  <2>2. used \in Nat /\ 0 \notin File
    BY <2>1, Limits DEF TypeOK, File
  <2>. QED  BY <2>1, <2>2
<1>1. /\ table' \in [Session -> [Id -> 0..MaxFiles]]
      /\ \A t \in Session : t # s => table'[t] = table[t] /\ at'[t] = at[t]
      /\ \A id \in Id : table'[s][id] = IF table[s][id] \in F THEN 0 ELSE table[s][id]
      /\ at'[s] = to /\ at' \in [Session -> {"out", "idle", "open", "forward"}]
  BY <1>0, WithoutTyped DEF TypeOK
<1>2. used' \in Nat /\ used' >= used /\ used' \in 0..MaxFiles
  BY <1>0, Limits DEF TypeOK
<1>3. ~Busy(s)'
  BY <1>1 DEF Busy
<1>4. Elsewhere(s, {})
  <2>1. Confined(s, F, {})
    BY <1>0, <1>1, <1>2, <1>3 DEF Confined
  <2>. QED  BY <2>1, ElsewhereKept
<1>5. TypeOK'
  <2>1. part' \in [File -> Seq(Byte) \cup {None}] /\ meta' \in [File -> Meta] /\ dirs' \subseteq File
    BY <1>0, NothingIsTyped DEF TypeOK
  <2>. QED  BY <1>0, <1>1, <1>2, <2>1 DEF TypeOK
<1>6. Opening(s)' /\ Forwarding(s)'
  BY <1>3 DEF Busy, Opening, Forwarding
<1>. QED  BY <1>4, <1>5, <1>6 DEF Inv, Elsewhere

\* Whatever is refused, or fails and takes its transfer along, and the end of a session.
LEMMA GivingUpInv ==
  ASSUME Inv, NEW s \in Session,
         \/ Refuse(s) \/ Leave(s)
         \/ \E id \in Id : CompleteFails(s, id)
         \/ \E id \in Id, seq \in 0..MaxSeq, data \in Upto(ChunkBytes) :
              ChunkWriteFails(s, id, seq, data) \/ ChunkRateLimited(s, id, seq, data)
  PROVE  Inv'
<1>0. TypeOK /\ Files(s) \subseteq File /\ Expired(s) \subseteq Files(s)
      /\ Swept(s) = Without(s, Expired(s)) /\ used \in used..MaxFiles /\ BudgetType
      /\ at = [at EXCEPT ![s] = at[s]]
  BY SweepFacts, WithoutTyped, Limits DEF Inv, TypeOK
<1>1. ASSUME NEW F \in SUBSET Files(s), at[s] = "idle", Discarding(F),
             table' = [table EXCEPT ![s] = Without(s, F)],
             NEW to \in {"idle", "out"}, at' = [at EXCEPT ![s] = to],
             UNCHANGED <<message, used, final, crashed, told>>, BudgetType'
      PROVE  Inv'
  <2>1. left' \in [File -> 0..Lifetime]
    BY <1>0, <1>1, DiscardingTyped
  <2>. QED  BY <1>0, <1>1, <2>1, DroppedInv DEF Discarding
<1>2. ASSUME NEW id \in Id, Swept(s)[id] # 0
      PROVE  /\ Expired(s) \cup {Swept(s)[id]} \in SUBSET Files(s)
             /\ [Swept(s) EXCEPT ![id] = 0] = Without(s, Expired(s) \cup {Swept(s)[id]})
  <2>1. Swept(s)[id] = table[s][id] /\ table[s][id] \in Files(s) /\ table[s][id] # 0
    BY <1>0, <1>2, SweepFacts
  <2>2. \A j \in Id : j # id => table[s][j] # table[s][id]
    BY <2>1 DEF Inv, Distinct
  <2>. QED  BY <1>0, <2>1, <2>2 DEF Without
<1>3. CASE Refuse(s)
  BY <1>0, <1>1, <1>3 DEF Refuse, MaySpeak, BudgetType, budgetVars
<1>4. CASE Leave(s)
  <2>1. [id \in Id |-> 0] = Without(s, Files(s))
    BY <1>0, SweepFacts DEF Without
  <2>. QED  BY <1>0, <1>1, <1>4, <2>1 DEF Leave, MaySpeak, ReaderAt, BudgetType, budgetVars
<1>5. ASSUME NEW id \in Id, CompleteFails(s, id) PROVE Inv'
  BY <1>0, <1>1, <1>2, <1>5 DEF CompleteFails, MaySpeak, BudgetType, budgetVars
<1>6. ASSUME NEW id \in Id, NEW seq, NEW data \in Upto(ChunkBytes), ChunkWriteFails(s, id, seq, data)
      PROVE  Inv'
  <2>1. BudgetType'
    BY <1>0, <1>6, BudgetStays, ContentsAreSequences DEF ChunkWriteFails
  <2>. QED  BY <1>0, <1>1, <1>2, <1>6, <2>1 DEF ChunkWriteFails, ChunkArrives, MaySpeak
<1>7. ASSUME NEW id \in Id, NEW seq, NEW data \in Upto(ChunkBytes), ChunkRateLimited(s, id, seq, data)
      PROVE  Inv'
  <2>1. BudgetType'
    BY <1>0, <1>7, BudgetStays, ContentsAreSequences DEF ChunkRateLimited
  <2>. QED  BY <1>0, <1>1, <1>7, <2>1 DEF ChunkRateLimited, ChunkArrives, MaySpeak
<1>. QED  BY <1>3, <1>4, <1>5, <1>6, <1>7

\* An accepted start: its directory is there, its work file is not yet.
LEMMA StartInv ==
  ASSUME Inv, NEW s \in Session, NEW id \in Id, NEW size \in 0..MaxBytes, NEW digest \in Digest,
         Start(s, id, size, digest)
  PROVE  Inv'
<1>f. PICK f : f = used + 1
  OBVIOUS
<1>. DEFINE F == Expired(s)
            m == [kind |-> "start", id |-> id, file |-> f, seq |-> 0, data |-> <<>>]
            record == [declared |-> size, digest |-> digest, received |-> 0, next |-> 0]
<1>0. /\ TypeOK /\ F \subseteq Files(s) /\ F \subseteq File
      /\ used \in Nat /\ f \in File /\ f \in 0..MaxFiles /\ f > used /\ 0 \notin File
      /\ Swept(s) = Without(s, F) /\ Swept(s)[id] = 0 /\ at[s] = "idle" /\ BudgetType'
  <2>1. TypeOK /\ F \subseteq Files(s) /\ F \subseteq File /\ Swept(s) = Without(s, F)
    BY SweepFacts, WithoutTyped DEF Inv
  <2>2. f \in File /\ Swept(s)[id] = 0 /\ at[s] = "idle" /\ BudgetType'
    BY <1>f, <2>1 DEF Start, MaySpeak, TypeOK, BudgetType, budgetVars
  <2>3. used \in Nat
    BY <2>1, Limits DEF TypeOK
  <2>. QED  BY <1>f, <2>1, <2>2, <2>3, Limits DEF File
<1>1. Untouched(f) /\ f \notin dirs /\ \A t \in Session : Busy(t) => message[t].file # f
  BY <1>0 DEF Inv, Lives, Unused
<1>2. f \notin F
  BY <1>0, <1>1, SweepFacts DEF Untouched, Unlisted
<1>3. /\ used' = f /\ table' = [table EXCEPT ![s] = Without(s, F)]
      /\ part' = [g \in File |-> IF g \in F THEN None ELSE part[g]]
      /\ UNCHANGED <<left, final, crashed, told>>
  BY <1>0, <1>f DEF Start
<1>4. Records(s) = [g \in File |-> IF g \in F THEN NoMeta ELSE meta[g]]
      /\ Records(s) \in [File -> Meta]
  BY <1>0, SweepFacts DEF Records
<1>5. CASE dirs' = dirs \ F /\ meta' = Records(s) /\ UNCHANGED <<message, at>>
  <2>1. used' \in used..MaxFiles /\ left' \in [File -> 0..Lifetime] /\ at' = [at EXCEPT ![s] = "idle"]
    BY <1>0, <1>3, <1>5, Limits DEF TypeOK, File
  <2>. HIDE DEF F
  <2>. QED  BY <1>0, <1>3, <1>4, <1>5, <2>1, DroppedInv
<1>6. CASE /\ dirs' = (dirs \ F) \cup {f} /\ meta' = [Records(s) EXCEPT ![f] = record]
           /\ message' = [message EXCEPT ![s] = m] /\ ReaderAt(s, "open")
  <2>1. record \in Meta /\ m \in Message
    <3>1. <<>> \in Seq(Byte) /\ 0 \in 0..MaxBytes
      BY Limits
    <3>. QED  BY <1>0, <3>1 DEF Meta, Message
  <2>. HIDE DEF F, m, record
  <2>2. /\ message'[s] = m /\ message' \in [Session -> Message] /\ at'[s] = "open"
        /\ at' \in [Session -> {"out", "idle", "open", "forward"}]
        /\ \A t \in Session : t # s => message'[t] = message[t] /\ at'[t] = at[t]
    BY <1>0, <1>6, <2>1 DEF TypeOK, ReaderAt
  <2>3. /\ table' \in [Session -> [Id -> 0..MaxFiles]]
        /\ \A t \in Session : t # s => table'[t] = table[t]
        /\ \A i \in Id : table'[s][i] = IF table[s][i] \in F THEN 0 ELSE table[s][i]
        /\ table'[s][id] = 0
    BY <1>0, <1>3, WithoutTyped DEF TypeOK
  <2>4. /\ meta' \in [File -> Meta] /\ meta'[f] = record
        /\ \A g \in File \ {f} : meta'[g] = IF g \in F THEN NoMeta ELSE meta[g]
    BY <1>0, <1>4, <1>6, <2>1
  <2>5. m.kind = "start" /\ m.id = id /\ m.file = f /\ record.received = 0 /\ record.next = 0
    BY DEF m, record
  <2>6. TypeOK'
    <3>1. part' \in [File -> Seq(Byte) \cup {None}] /\ dirs' \subseteq File /\ used' \in 0..MaxFiles
      BY <1>0, <1>3, <1>6 DEF TypeOK
    <3>. QED  BY <1>0, <1>3, <2>2, <2>3, <2>4, <3>1 DEF TypeOK
  <2>7. Elsewhere(s, {f})
    <3>1. \A t \in Session, i \in Id : table[t][i] # f
      BY <1>1 DEF Untouched, Unlisted
    <3>2. used' \in Nat /\ used' >= used
      BY <1>0, <1>3, Limits DEF File
    <3>3. Confined(s, F, {f})
      BY <1>0, <1>1, <1>3, <1>6, <2>2, <2>3, <2>4, <2>5, <3>1, <3>2 DEF Confined
    <3>. QED  BY <3>3, ElsewhereKept
  <2>8. Untouched(f)'
    BY <1>0, <1>1, <1>2, <1>3, <2>7 DEF Untouched, Elsewhere
  <2>9. Opening(s)' /\ Forwarding(s)'
    BY <1>0, <1>3, <2>2, <2>3, <2>4, <2>5, <2>8 DEF Opening, Forwarding
  <2>10. \A t \in Session, i \in Id : table'[t][i] # f
    BY <2>8 DEF Untouched, Unlisted
  <2>11. Lives(f)'
    <3>1. Unused(f)'
      BY <1>0, <1>3 DEF Unused
    <3>2. Finished(f)' /\ Heard(f)'
      BY <2>8 DEF Untouched, Finished, Heard, Unheard, InOrder, Rising
    <3>3. Tidy(f)'
      BY <2>2, <2>5, <2>8 DEF Tidy, Untouched
    <3>. QED  BY <3>1, <3>2, <3>3 DEF Lives
  <2>. QED  BY <2>6, <2>7, <2>9, <2>10, <2>11 DEF Inv, Elsewhere
<1>. QED  BY <1>0, <1>f, <1>4, <1>5, <1>6 DEF Start

\* An accepted chunk: it is in the work file, and still to be sent.
LEMMA ChunkInv ==
  ASSUME Inv, NEW s \in Session, NEW id \in Id, NEW seq \in 0..MaxSeq,
         NEW data \in Upto(ChunkBytes), Chunk(s, id, seq, data)
  PROVE  Inv'
<1>f. PICK f : f = Swept(s)[id]
  OBVIOUS
<1>. DEFINE F == Expired(s)
            m == [kind |-> "chunk", id |-> id, file |-> f, seq |-> seq, data |-> data]
            record == Counted(meta[f], data)
<1>0. /\ TypeOK /\ F \subseteq Files(s) /\ F \subseteq File /\ Swept(s) = Without(s, F)
      /\ f \in File /\ f # 0 /\ table[s][id] = f /\ f \notin F /\ at[s] = "idle" /\ ~Busy(s)
      /\ 0 \notin File
  <2>1. TypeOK /\ F \subseteq Files(s) /\ F \subseteq File /\ Swept(s) = Without(s, F)
    BY SweepFacts, WithoutTyped DEF Inv
  <2>2. f # 0 /\ at[s] = "idle"
    BY <1>f DEF Chunk, ChunkArrives, MaySpeak
  <2>3. f \in File /\ table[s][id] = f /\ f \notin F
    BY <1>f, <2>1, <2>2, SweepFacts
  <2>. QED  BY <2>1, <2>2, <2>3 DEF Busy, File
<1>1. /\ seq = meta[f].next /\ Len(data) <= meta[f].declared - meta[f].received
      /\ data \in Seq(Byte) /\ Len(data) \in Nat /\ seq \in Nat /\ BudgetType'
  <2>1. data \in Seq(Byte) /\ Len(data) \in Nat
    BY ContentsAreSequences
  <2>2. BudgetType'
    BY <1>0, <2>1, BudgetStays DEF Chunk, TypeOK
  <2>. QED  BY <1>f, <2>1, <2>2, Limits DEF Chunk, ChunkArrives, InSequence, Fits
<1>2. /\ table' = [table EXCEPT ![s] = Without(s, F)]
      /\ part' = [g \in File |-> IF g \in F THEN None
                                 ELSE IF g = f THEN part[g] \o data ELSE part[g]]
      /\ dirs' = dirs \ F /\ meta' = [Records(s) EXCEPT ![f] = record]
      /\ left' = [left EXCEPT ![f] = Lifetime] /\ message' = [message EXCEPT ![s] = m]
      /\ at' = [at EXCEPT ![s] = "forward"] /\ UNCHANGED <<used, final, crashed, told>>
  BY <1>0, <1>f DEF Chunk, ReaderAt
<1>3. /\ Going(s, f) /\ Due(s, f) = told[f] /\ final[f] = None /\ f <= used
      /\ \A t \in Session : Busy(t) => message[t].file # f
  BY <1>0, ListedFacts DEF Due
<1>4. meta[f] \in Meta /\ record \in Meta /\ m \in Message /\ Records(s)[f] = meta[f]
      /\ record.received = meta[f].received + Len(data) /\ record.next = meta[f].next + 1
      /\ record.declared = meta[f].declared
  <2>1. meta[f] \in Meta /\ Records(s)[f] = meta[f]
    BY <1>0, SweepFacts DEF TypeOK
  <2>2. meta[f].received + Len(data) \in 0..MaxBytes /\ meta[f].next + 1 \in Nat
    BY <1>1, <2>1, Limits DEF Meta
  <2>3. m \in Message
    BY <1>0, <1>1, Limits DEF Message, File
  <2>. QED  BY <2>1, <2>2, <2>3 DEF Meta, Counted
<1>5. m.kind = "chunk" /\ m.id = id /\ m.file = f /\ m.seq = seq /\ m.data = data
  OBVIOUS
<1>6. /\ meta' \in [File -> Meta] /\ meta'[f] = record
      /\ \A g \in File \ {f} : meta'[g] = IF g \in F THEN NoMeta ELSE meta[g]
  <2>1. PICK rest : rest = Records(s)
    OBVIOUS
  <2>2. /\ rest \in [File -> Meta] /\ rest[f] = meta[f]
        /\ \A g \in File : rest[g] = IF g \in F THEN NoMeta ELSE meta[g]
    BY <1>0, <2>1, SweepFacts
  <2>3. meta' = [rest EXCEPT ![f] = record]
    BY <1>2, <2>1
  <2>. HIDE DEF record
  <2>. QED  BY <1>0, <1>4, <2>2, <2>3
<1>. HIDE DEF F, m, record
<1>7. /\ message'[s] = m /\ message' \in [Session -> Message] /\ at'[s] = "forward"
      /\ at' \in [Session -> {"out", "idle", "open", "forward"}]
      /\ \A t \in Session : t # s => message'[t] = message[t] /\ at'[t] = at[t]
  BY <1>0, <1>2, <1>4 DEF TypeOK
<1>8. /\ table' \in [Session -> [Id -> 0..MaxFiles]]
      /\ \A t \in Session : t # s => table'[t] = table[t]
      /\ \A i \in Id : table'[s][i] = IF table[s][i] \in F THEN 0 ELSE table[s][i]
      /\ table'[s][id] = f
  <2>1. table' = [table EXCEPT ![s] = Without(s, F)] /\ table \in [Session -> [Id -> 0..MaxFiles]]
    BY <1>0, <1>2 DEF TypeOK
  <2>. QED  BY <1>0, <2>1, WithoutTyped
<1>9. part[f] \in Seq(Byte) /\ part'[f] = part[f] \o data /\ part'[f] \in Seq(Byte)
      /\ Len(part'[f]) = Len(part[f]) + Len(data)
      /\ \A g \in File \ {f} : part'[g] = IF g \in F THEN None ELSE part[g]
  BY <1>0, <1>1, <1>2, <1>3 DEF Going
<1>10. TypeOK'
  <2>1. part' \in [File -> Seq(Byte) \cup {None}]
    BY <1>0, <1>2, <1>9 DEF TypeOK
  <2>2. left' \in [File -> 0..Lifetime] /\ dirs' \subseteq File
    BY <1>0, <1>2, Limits DEF TypeOK
  <2>. QED  BY <1>0, <1>1, <1>2, <1>6, <1>7, <1>8, <2>1, <2>2 DEF TypeOK
<1>11. Elsewhere(s, {f})
  <2>1. \A t \in Session, i \in Id : t # s => table[t][i] # f
    BY <1>0 DEF Inv, Distinct
  <2>2. used' \in Nat /\ used' >= used
    BY <1>0, <1>2, Limits DEF TypeOK
  <2>3. Confined(s, F, {f})
    BY <1>0, <1>2, <1>3, <1>5, <1>6, <1>7, <1>8, <1>9, <2>1, <2>2 DEF Confined
  <2>. QED  BY <2>3, ElsewhereKept
<1>12. Opening(s)' /\ Forwarding(s)'
  BY <1>0, <1>5, <1>7, <1>8 DEF Opening, Forwarding
<1>13. Going(s, f)'
  <2>1. Sound(told[f], f) /\ Len(part[f]) = meta[f].received
    BY <1>3 DEF Going
  <2>2. told[f].seqs \in Seq(Nat) /\ told[f] \in Told
    BY <1>0 DEF TypeOK, Told
  <2>3. Due(s, f)' = [told[f] EXCEPT !.seqs = Append(@, seq), !.data = @ \o data]
    BY <1>2, <1>5, <1>7 DEF Due, Sent
  <2>4. PICK r, seqs : r = Due(s, f)' /\ seqs = told[f].seqs
    OBVIOUS
  <2>5. /\ r.started = told[f].started /\ r.done = told[f].done /\ r.withheld = told[f].withheld
        /\ r.data = told[f].data \o data /\ r.seqs = Append(seqs, seq) /\ seqs \in Seq(Nat)
    BY <2>2, <2>3, <2>4 DEF Told
  <2>7. meta[f].next \in Nat /\ meta'[f].next = meta[f].next + 1
    BY <1>4, <1>6 DEF Meta
  <2>8. Rising(r.seqs) /\ Below(r.seqs, meta'[f].next)
    <3>1. Rising(seqs) /\ Below(seqs, meta[f].next)
      BY <2>1, <2>4 DEF Sound
    <3>. QED  BY <1>1, <2>5, <2>7, <3>1 DEF Rising, Below
  <2>9. "chunk" \notin told[f].withheld =>
          r.data = part'[f] /\ Len(r.seqs) = meta'[f].next /\ InOrder(r.seqs)
    <3>. SUFFICES ASSUME "chunk" \notin told[f].withheld
                  PROVE  r.data = part'[f] /\ Len(r.seqs) = meta'[f].next /\ InOrder(r.seqs)
      OBVIOUS
    <3>1. told[f].data = part[f] /\ Len(seqs) = meta[f].next /\ InOrder(seqs)
      BY <2>1, <2>4 DEF Sound
    <3>2. InOrder(Append(seqs, seq))
      BY <1>1, <2>5, <3>1 DEF InOrder
    <3>. QED  BY <1>9, <2>5, <2>7, <3>1, <3>2
  <2>10. Sound(r, f)'
    BY <2>1, <2>5, <2>8, <2>9 DEF Sound
  <2>6. Len(part'[f]) = meta'[f].received /\ meta'[f].received <= meta'[f].declared
    BY <1>1, <1>4, <1>6, <1>9, <2>1 DEF Meta
  <2>. QED  BY <1>2, <1>3, <1>9, <2>4, <2>6, <2>10 DEF Going
<1>14. \A t \in Session, i \in Id : table'[t][i] = f => t = s
  BY <1>0, <1>8, <1>11 DEF Elsewhere, Distinct
<1>15. Lives(f)'
  <2>1. Unused(f)' /\ Finished(f)'
    BY <1>0, <1>2, <1>3, Limits DEF Unused, Finished, TypeOK, File
  <2>2. Heard(f)'
    BY <1>0, <1>2, <1>3 DEF Inv, Lives, Heard
  <2>3. Tidy(f)'
    BY <1>8 DEF Tidy, Unlisted
  <2>. QED  BY <2>1, <2>2, <2>3 DEF Lives
<1>. QED  BY <1>10, <1>11, <1>12, <1>13, <1>14, <1>15 DEF Inv, Elsewhere

\* A verified transfer: its file is stored, and the others are still to be told.
LEMMA CompleteInv ==
  ASSUME Inv, NEW s \in Session, NEW id \in Id, NEW content \in Content, Complete(s, id, content)
  PROVE  Inv'
<1>f. PICK f : f = Swept(s)[id]
  OBVIOUS
<1>. DEFINE F == Expired(s)
            m == [kind |-> "complete", id |-> id, file |-> f, seq |-> 0, data |-> <<>>]
<1>0. /\ TypeOK /\ F \subseteq Files(s) /\ F \subseteq File /\ Swept(s) = Without(s, F)
      /\ f \in File /\ f # 0 /\ table[s][id] = f /\ f \notin F /\ at[s] = "idle" /\ ~Busy(s)
      /\ 0 \notin File
  <2>1. TypeOK /\ F \subseteq Files(s) /\ F \subseteq File /\ Swept(s) = Without(s, F)
    BY SweepFacts, WithoutTyped DEF Inv
  <2>2. f # 0 /\ at[s] = "idle"
    BY <1>f DEF Complete, MaySpeak
  <2>3. f \in File /\ table[s][id] = f /\ f \notin F
    BY <1>f, <2>1, <2>2, SweepFacts
  <2>. QED  BY <2>1, <2>2, <2>3 DEF Busy, File
<1>1. /\ content \in Flushed(f) /\ Verified(f, content)
      /\ table' = [table EXCEPT ![s] = [Without(s, F) EXCEPT ![id] = 0]]
      /\ part' = [g \in File |-> IF g \in F \cup {f} THEN None ELSE part[g]]
      /\ dirs' = dirs \ F /\ meta' = Records(s) /\ final' = [final EXCEPT ![f] = content]
      /\ left' = [left EXCEPT ![f] = 0] /\ message' = [message EXCEPT ![s] = m]
      /\ at' = [at EXCEPT ![s] = "forward"] /\ UNCHANGED <<used, crashed, told>> /\ BudgetType'
  BY <1>0, <1>f DEF Complete, ReaderAt, TypeOK, BudgetType, budgetVars
<1>2. /\ Going(s, f) /\ Due(s, f) = told[f] /\ f <= used
      /\ \A t \in Session : Busy(t) => message[t].file # f
  BY <1>0, ListedFacts DEF Due
<1>3. content \in Seq(Byte) /\ content # None /\ content # Gone
  BY ContentsAreSequences, Limits
<1>4. m \in Message /\ m.kind = "complete" /\ m.id = id /\ m.file = f
  BY <1>0, Limits DEF Message, File
<1>5. /\ meta' \in [File -> Meta] /\ meta'[f] = meta[f]
      /\ \A g \in File \ {f} : meta'[g] = IF g \in F THEN NoMeta ELSE meta[g]
  BY <1>0, <1>1, SweepFacts
<1>. HIDE DEF F, m
<1>6. /\ message'[s] = m /\ message' \in [Session -> Message] /\ at'[s] = "forward"
      /\ at' \in [Session -> {"out", "idle", "open", "forward"}]
      /\ \A t \in Session : t # s => message'[t] = message[t] /\ at'[t] = at[t]
  BY <1>0, <1>1, <1>4 DEF TypeOK
<1>7. /\ table' \in [Session -> [Id -> 0..MaxFiles]]
      /\ \A t \in Session : t # s => table'[t] = table[t]
      /\ \A i \in Id : table'[s][i] = IF table[s][i] \in F \/ i = id THEN 0 ELSE table[s][i]
  <2>1. /\ Without(s, F) \in [Id -> 0..MaxFiles]
        /\ \A i \in Id : Without(s, F)[i] = IF table[s][i] \in F THEN 0 ELSE table[s][i]
    BY <1>0, Limits DEF Without, TypeOK
  <2>2. PICK row : row = [Without(s, F) EXCEPT ![id] = 0]
    OBVIOUS
  <2>3. /\ row \in [Id -> 0..MaxFiles]
        /\ \A i \in Id : row[i] = IF table[s][i] \in F \/ i = id THEN 0 ELSE table[s][i]
    BY <2>1, <2>2, Limits
  <2>4. table' = [table EXCEPT ![s] = row]
    BY <1>1, <2>2
  <2>. QED  BY <1>0, <2>3, <2>4 DEF TypeOK
<1>8. TypeOK'
  <2>1. part' \in [File -> Seq(Byte) \cup {None}] /\ final' \in [File -> Seq(Byte) \cup {None, Gone}]
    BY <1>0, <1>1, <1>3 DEF TypeOK
  <2>2. left' \in [File -> 0..Lifetime] /\ dirs' \subseteq File
    BY <1>0, <1>1, Limits DEF TypeOK
  <2>. QED  BY <1>0, <1>1, <1>5, <1>6, <1>7, <2>1, <2>2 DEF TypeOK
<1>9. \A t \in Session, i \in Id : table[t][i] = f => t = s /\ i = id
  BY <1>0 DEF Inv, Distinct
<1>10. Elsewhere(s, {f})
  <2>1. used' \in Nat /\ used' >= used
    BY <1>0, <1>1, Limits DEF TypeOK
  <2>2. \A g \in File \ {f} : final'[g] = final[g]
    BY <1>0, <1>1 DEF TypeOK
  <2>3. \A i \in Id : /\ table'[s][i] \in {0, table[s][i]} /\ table'[s][i] \notin F
                      /\ table[s][i] \notin F \cup {f} => table'[s][i] = table[s][i]
    BY <1>0, <1>7
  <2>4. Confined(s, F, {f})
    BY <1>0, <1>1, <1>2, <1>4, <1>5, <1>6, <1>7, <1>9, <2>1, <2>2, <2>3 DEF Confined
  <2>. QED  BY <2>4, ElsewhereKept
<1>11. final'[f] = content /\ part'[f] = None
  BY <1>0, <1>1 DEF TypeOK
<1>12. Opening(s)' /\ Forwarding(s)'
  BY <1>0, <1>3, <1>4, <1>6, <1>11 DEF Opening, Forwarding
<1>13. \A t \in Session, i \in Id : table'[t][i] # f
  BY <1>0, <1>7, <1>9
<1>14. Lives(f)'
  <2>1. Unused(f)'
    BY <1>0, <1>1, <1>2, Limits DEF Unused, TypeOK, File
  <2>2. /\ told[f].started \/ "start" \in told[f].withheld
        /\ ~told[f].done /\ part[f] \in Seq(Byte) /\ Len(part[f]) = meta[f].received
        /\ "chunk" \notin told[f].withheld => told[f].data = part[f]
    BY <1>2 DEF Going, Sound
  <2>3. PICK k \in 0..Len(part[f]) : content = SubSeq(part[f], 1, k)
    BY <1>1 DEF Flushed
  <2>4. "chunk" \notin told[f].withheld => IsPrefix(content, told[f].data)
    <3>1. Len(content) = k
      BY <2>2, <2>3
    <3>2. SubSeq(content, 1, Len(content)) = content
      BY <1>3
    <3>. QED  BY <2>2, <2>3, <3>1, <3>2 DEF IsPrefix
  <2>5. Finished(f)'
    BY <1>1, <1>5, <1>11, <1>13, <2>2, <2>4 DEF Finished, Unlisted, Verified
  <2>6. Heard(f)'
    BY <1>0, <1>1, <2>2 DEF Inv, Lives, Heard
  <2>7. Tidy(f)'
    BY <1>3, <1>11 DEF Tidy
  <2>. QED  BY <2>1, <2>5, <2>6, <2>7 DEF Lives
<1>. QED  BY <1>8, <1>10, <1>12, <1>13, <1>14 DEF Inv, Elsewhere

\* The work file is open: the transfer is in the table from here on.
LEMMA OpenPartInv ==
  ASSUME Inv, NEW s \in Session, OpenPart(s)
  PROVE  Inv'
<1>f. PICK f, id : f = message[s].file /\ id = message[s].id
  OBVIOUS
<1>0. /\ TypeOK /\ at[s] = "open" /\ Busy(s) /\ f \in File /\ id \in Id /\ table[s][id] = 0 /\ f <= used
      /\ Untouched(f) /\ meta[f].received = 0 /\ meta[f].next = 0 /\ message[s].kind = "start"
      /\ used \in Nat /\ 0 \notin File
  <2>1. TypeOK /\ at[s] = "open" /\ Opening(s)
    BY DEF OpenPart, Inv
  <2>2. used \in Nat /\ 0 \notin File
    BY <2>1, Limits DEF TypeOK, File
  <2>. QED  BY <1>f, <2>1, <2>2 DEF Opening, Busy
<1>1. /\ part' = [part EXCEPT ![f] = <<>>] /\ left' = [left EXCEPT ![f] = Lifetime]
      /\ table' = [table EXCEPT ![s] = [table[s] EXCEPT ![id] = f]]
      /\ at' = [at EXCEPT ![s] = "forward"]
      /\ UNCHANGED <<message, meta, used, final, dirs, crashed, told, budgetVars>>
  BY <1>f DEF OpenPart, ReaderAt
<1>2. /\ table' \in [Session -> [Id -> 0..MaxFiles]]
      /\ \A t \in Session, i \in Id : table'[t][i] = IF t = s /\ i = id THEN f ELSE table[t][i]
  <2>1. f \in 0..MaxFiles
    BY <1>0, Limits DEF File
  <2>2. PICK row : row = [table[s] EXCEPT ![id] = f]
    OBVIOUS
  <2>3. row \in [Id -> 0..MaxFiles] /\ \A i \in Id : row[i] = IF i = id THEN f ELSE table[s][i]
    BY <1>0, <2>1, <2>2 DEF TypeOK
  <2>4. table' = [table EXCEPT ![s] = row] /\ table \in [Session -> [Id -> 0..MaxFiles]]
    BY <1>0, <1>1, <2>2 DEF TypeOK
  <2>. QED  BY <2>3, <2>4
<1>3. /\ part'[f] = <<>> /\ \A g \in File \ {f} : part'[g] = part[g]
      /\ at'[s] = "forward" /\ \A t \in Session : t # s => at'[t] = at[t]
  BY <1>0, <1>1 DEF TypeOK
<1>4. TypeOK'
  <2>1. part' \in [File -> Seq(Byte) \cup {None}]
    BY <1>0, <1>1 DEF TypeOK
  <2>2. left' \in [File -> 0..Lifetime]
    BY <1>0, <1>1, Limits DEF TypeOK
  <2>3. at' \in [Session -> {"out", "idle", "open", "forward"}] /\ BudgetType'
    BY <1>0, <1>1 DEF TypeOK, BudgetType, budgetVars
  <2>. QED  BY <1>0, <1>1, <1>2, <2>1, <2>2, <2>3 DEF TypeOK
<1>5. \A t \in Session : Busy(t)' => Busy(t) /\ message'[t] = message[t]
  BY <1>0, <1>1, <1>3 DEF Busy
<1>6. \A t \in Session : t # s /\ Busy(t) => message[t].file # f
  BY <1>0, <1>f DEF Inv, Apart
<1>7. Distinct' /\ Apart'
  <2>1. Apart'
    BY <1>5 DEF Inv, Apart
  <2>2. \A t \in Session, i \in Id : table[t][i] # f
    BY <1>0 DEF Untouched, Unlisted
  <2>3. Distinct'
    BY <1>0, <1>2, <2>2 DEF Inv, Distinct
  <2>. QED  BY <2>1, <2>3
<1>8. \A g \in File \ {f} : (Unlisted(g)' <=> Unlisted(g)) /\ (Untouched(g) => Untouched(g)')
  <2>1. \A g \in File \ {f} : Unlisted(g)' <=> Unlisted(g)
    BY <1>0, <1>2 DEF Unlisted
  <2>. QED  BY <1>1, <1>3, <2>1 DEF Untouched
<1>9. ASSUME NEW t \in Session PROVE Opening(t)' /\ Forwarding(t)'
  <2>1. Opening(t) /\ Forwarding(t)
    BY DEF Inv
  <2>2. CASE t = s
    BY <1>0, <1>1, <1>2, <1>3, <1>f, <2>2 DEF Opening, Forwarding
  <2>3. CASE t # s
    <3>1. Opening(t)'
      BY <1>1, <1>2, <1>3, <1>6, <1>8, <2>1, <2>3 DEF Opening, Busy
    <3>2. Forwarding(t)'
      BY <1>1, <1>2, <1>3, <2>1, <2>3 DEF Forwarding
    <3>. QED  BY <3>1, <3>2
  <2>. QED  BY <2>2, <2>3
<1>10. Going(s, f)'
  <2>1. told[f] = Unheard /\ final[f] = None /\ part'[f] \in Seq(Byte) /\ meta[f].declared \in Nat
    BY <1>0, <1>3, Limits DEF Untouched, TypeOK, Meta
  <2>2. Due(s, f)' = [Unheard EXCEPT !.started = TRUE]
    BY <1>0, <1>1, <1>3, <1>f, <2>1 DEF Due, Sent
  <2>3. PICK r : r = Due(s, f)'
    OBVIOUS
  <2>4. r.started /\ ~r.done /\ r.data = <<>> /\ r.seqs = <<>> /\ Len(part'[f]) = 0
    BY <1>3, <2>2, <2>3 DEF Unheard
  <2>5. Sound(r, f)'
    BY <1>0, <1>1, <1>3, <2>4 DEF Sound, InOrder, Rising, Below
  <2>. QED  BY <1>0, <1>1, <1>3, <2>1, <2>3, <2>4, <2>5 DEF Going
<1>11. ASSUME NEW t \in Session, NEW i \in Id, NEW g, g = table'[t][i], g # 0 PROVE Going(t, g)'
  <2>1. CASE g = f
    <3>1. t = s
      BY <1>0, <1>2, <1>11, <2>1 DEF Untouched, Unlisted
    <3>. QED  BY <1>10, <2>1, <3>1
  <2>2. CASE g # f
    <3>1. g = table[t][i]
      BY <1>2, <1>11, <2>2
    <3>2. Going(t, g) /\ g \in File
      BY <1>11, <3>1, ListedFacts
    <3>3. Due(t, g)' = Due(t, g)
      BY <1>0, <1>1, <1>3, <1>f, <2>2 DEF Due
    <3>. QED  BY <1>1, <1>3, <2>2, <3>2, <3>3, GoingKept
  <2>. QED  BY <2>1, <2>2
<1>12. Lives(f)'
  <2>1. Unused(f)' /\ Finished(f)'
    BY <1>0, <1>1 DEF Unused, Finished, Untouched, File
  <2>2. Heard(f)'
    BY <1>0, <1>1 DEF Untouched, Heard, Unheard, InOrder, Rising
  <2>3. Tidy(f)'
    BY <1>0, <1>2 DEF Tidy, Unlisted
  <2>. QED  BY <2>1, <2>2, <2>3 DEF Lives
<1>13. ASSUME NEW g \in File, g # f PROVE Lives(g)'
  <2>0. Lives(g)
    BY DEF Inv
  <2>1. Unused(g)'
    BY <1>1, <1>5, <1>8, <1>13, <2>0 DEF Lives, Unused
  <2>2. Finished(g)' /\ Heard(g)'
    BY <1>1, <1>8, <1>13, <2>0 DEF Lives, Finished, Heard
  <2>3. \A t \in Session : at[t] = "open" /\ message[t].file = g =>
          at'[t] = "open" /\ message'[t].file = g
    BY <1>1, <1>3, <1>13, <1>f
  <2>4. Tidy(g)'
    BY <1>1, <1>3, <1>8, <1>13, <2>0, <2>3 DEF Lives, Tidy
  <2>. QED  BY <2>1, <2>2, <2>4 DEF Lives
<1>. QED  BY <1>4, <1>7, <1>9, <1>11, <1>12, <1>13 DEF Inv

\* The work file cannot be opened: nothing of the transfer is left.
LEMMA OpenFailsInv ==
  ASSUME Inv, NEW s \in Session, OpenFails(s)
  PROVE  Inv'
<1>f. PICK f : f = message[s].file
  OBVIOUS
<1>0. /\ TypeOK /\ at[s] = "open" /\ Busy(s) /\ f \in File /\ f <= used
      /\ Untouched(f) /\ used \in Nat /\ 0 \notin File
  <2>1. TypeOK /\ at[s] = "open" /\ Opening(s)
    BY DEF OpenFails, Inv
  <2>2. used \in Nat /\ 0 \notin File
    BY <2>1, Limits DEF TypeOK, File
  <2>. QED  BY <1>f, <2>1, <2>2 DEF Opening, Busy
<1>1. /\ dirs' = dirs \ {f} /\ meta' = [meta EXCEPT ![f] = NoMeta]
      /\ at' = [at EXCEPT ![s] = "idle"] /\ message' = [message EXCEPT ![s] = NoMessage]
      /\ UNCHANGED <<table, left, used, part, final, crashed, told, budgetVars>>
  BY <1>f DEF OpenFails, ReaderAt
<1>2. /\ \A g \in File \ {f} : meta'[g] = meta[g]
      /\ at'[s] = "idle" /\ \A t \in Session : t # s => at'[t] = at[t] /\ message'[t] = message[t]
  BY <1>0, <1>1 DEF TypeOK
<1>3. TypeOK'
  <2>1. /\ meta' \in [File -> Meta] /\ message' \in [Session -> Message]
        /\ at' \in [Session -> {"out", "idle", "open", "forward"}] /\ BudgetType'
    BY <1>0, <1>1, NothingIsTyped DEF TypeOK, BudgetType, budgetVars
  <2>. QED  BY <1>0, <1>1, <2>1 DEF TypeOK
<1>4. \A t \in Session : Busy(t)' => t # s /\ Busy(t) /\ message'[t] = message[t] /\ message[t].file # f
  BY <1>0, <1>2, <1>f DEF Inv, Apart, Busy
<1>5. /\ Distinct' /\ Apart'
      /\ \A g \in File : (Unlisted(g)' <=> Unlisted(g)) /\ (Untouched(g)' <=> Untouched(g))
  <2>1. Distinct' /\ \A g \in File : Unlisted(g)' <=> Unlisted(g)
    BY <1>1 DEF Inv, Distinct, Unlisted
  <2>2. Apart'
    BY <1>4 DEF Inv, Apart
  <2>. QED  BY <1>1, <2>1, <2>2 DEF Untouched
<1>6. ASSUME NEW t \in Session PROVE Opening(t)' /\ Forwarding(t)'
  <2>1. Opening(t) /\ Forwarding(t)
    BY DEF Inv
  <2>2. CASE ~Busy(t)'
    BY <2>2 DEF Busy, Opening, Forwarding
  <2>3. CASE Busy(t)'
    <3>1. /\ t # s /\ at'[t] = at[t] /\ message'[t] = message[t] /\ message[t].file # f
          /\ table' = table /\ used' = used /\ final' = final
      BY <1>1, <1>2, <1>4, <2>3
    <3>2. Opening(t)'
      BY <1>2, <1>5, <2>1, <3>1 DEF Opening
    <3>3. Forwarding(t)'
      BY <2>1, <3>1 DEF Forwarding
    <3>. QED  BY <3>2, <3>3
  <2>. QED  BY <2>2, <2>3
<1>7. ASSUME NEW t \in Session, NEW i \in Id, NEW g, g = table'[t][i], g # 0 PROVE Going(t, g)'
  <2>1. g = table[t][i]
    BY <1>1, <1>7
  <2>2. Going(t, g) /\ g \in File
    BY <1>7, <2>1, ListedFacts
  <2>3. g # f
    BY <1>0, <2>1 DEF Untouched, Unlisted
  <2>4. Due(t, g)' = Due(t, g)
    BY <1>0, <1>1, <1>2 DEF Due
  <2>. QED  BY <1>1, <1>2, <2>2, <2>3, <2>4, GoingKept
<1>8. ASSUME NEW g \in File PROVE Lives(g)'
  <2>0. Lives(g)
    BY DEF Inv
  <2>1. Unused(g)'
    BY <1>1, <1>4, <1>5, <1>8, <2>0 DEF Lives, Unused
  <2>2. Heard(g)'
    BY <1>0, <1>1, <1>2, <1>8, <2>0 DEF Lives, Heard, Untouched, Unheard
  <2>3. Finished(g)'
    BY <1>0, <1>1, <1>2, <1>5, <1>8, <2>0 DEF Lives, Finished, Untouched
  <2>4. g # f => \A t \in Session : at[t] = "open" /\ message[t].file = g =>
                   at'[t] = "open" /\ message'[t].file = g
    BY <1>2, <1>f
  <2>5. Tidy(g)'
    BY <1>0, <1>1, <1>5, <1>8, <2>0, <2>4 DEF Lives, Tidy, Untouched
  <2>. QED  BY <2>1, <2>2, <2>3, <2>5 DEF Lives
<1>. QED  BY <1>3, <1>5, <1>6, <1>7, <1>8 DEF Inv

\* what s has to send is withheld instead
Missed(r, m) == [r EXCEPT !.withheld = @ \cup {m.kind}]

\* A transfer is as sound without the message as it would have been with it.
LEMMA MissedIsSound ==
  ASSUME NEW r \in Told, NEW m \in Message, NEW f \in File, meta[f].next \in Nat,
         m.kind \in {"start", "chunk"}, Sound(Sent(r, m), f)
  PROVE  Sound(Missed(r, m), f)
<1>1. PICK x, y : x = Sent(r, m) /\ y = Missed(r, m)
  OBVIOUS
<1>2. /\ y.started = r.started /\ y.seqs = r.seqs /\ y.data = r.data /\ y.done = r.done
      /\ y.withheld = r.withheld \cup {m.kind} /\ r.seqs \in Seq(Nat) /\ m.seq \in Nat
  BY <1>1 DEF Missed, Told, Message
<1>3. Sound(x, f)
  BY <1>1
<1>4. CASE m.kind = "start"
  <2>1. x.seqs = r.seqs /\ x.data = r.data /\ x.done = r.done /\ x.withheld = r.withheld
    BY <1>1, <1>4 DEF Sent, Told
  <2>2. Sound(y, f)
    BY <1>2, <1>3, <1>4, <2>1 DEF Sound
  <2>. QED  BY <1>1, <2>2
<1>5. CASE m.kind = "chunk"
  <2>1. /\ x.seqs = Append(r.seqs, m.seq) /\ x.started = r.started /\ x.done = r.done
        /\ x.withheld = r.withheld
    BY <1>1, <1>5 DEF Sent, Told
  <2>2. PICK seqs : seqs = r.seqs
    OBVIOUS
  <2>3. Rising(Append(seqs, m.seq)) /\ Below(Append(seqs, m.seq), meta[f].next) /\ seqs \in Seq(Nat)
    BY <1>2, <1>3, <2>1, <2>2 DEF Sound
  <2>4. \A k \in 1..Len(seqs) : /\ k \in 1..Len(Append(seqs, m.seq))
                                /\ Append(seqs, m.seq)[k] = seqs[k]
    BY <1>2, <2>3
  <2>5. Rising(seqs) /\ Below(seqs, meta[f].next)
    BY <2>3, <2>4 DEF Rising, Below
  <2>6. Sound(y, f)
    BY <1>2, <1>3, <1>5, <2>1, <2>2, <2>5 DEF Sound
  <2>. QED  BY <1>1, <2>6
<1>. QED  BY <1>4, <1>5

\* The accepted message has been sent, and the others know what was due; or it has been
\* withheld, and they know what they knew.
LEMMA ForwardInv ==
  ASSUME Inv, NEW s \in Session, Forward(s) \/ ForwardFails(s)
  PROVE  Inv'
<1>f. PICK m, f, id : m = message[s] /\ f = m.file /\ id = m.id
  OBVIOUS
<1>0. /\ TypeOK /\ at[s] = "forward" /\ Busy(s) /\ f \in File /\ id \in Id /\ used \in Nat /\ 0 \notin File
      /\ \/ m.kind \in {"start", "chunk"} /\ table[s][id] = f
         \/ m.kind = "complete" /\ final[f] # None
  <2>1. TypeOK /\ at[s] = "forward" /\ Forwarding(s)
    BY DEF Forward, ForwardFails, Inv
  <2>2. used \in Nat /\ 0 \notin File
    BY <2>1, Limits DEF TypeOK, File
  <2>. QED  BY <1>f, <2>1, <2>2 DEF Forwarding, Busy
<1>1. /\ \/ told' = [told EXCEPT ![f] = Sent(told[f], m)]
         \/ told' = [told EXCEPT ![f] = Missed(told[f], m)]
      /\ at' = [at EXCEPT ![s] = "idle"] /\ message' = [message EXCEPT ![s] = NoMessage]
      /\ UNCHANGED <<table, meta, left, used, part, final, dirs, crashed, budgetVars>>
  <2>1. CASE Forward(s)
    BY <1>f, <2>1 DEF Forward, ReaderAt, tableVars, diskVars
  <2>2. CASE ForwardFails(s)
    BY <1>f, <2>2 DEF ForwardFails, Missed, ReaderAt, tableVars, diskVars
  <2>. QED  BY <2>1, <2>2
<1>2. /\ told'[f] \in {Sent(told[f], m), Missed(told[f], m)} /\ \A g \in File \ {f} : told'[g] = told[g]
      /\ at'[s] = "idle" /\ \A t \in Session : t # s => at'[t] = at[t] /\ message'[t] = message[t]
  BY <1>0, <1>1 DEF TypeOK
<1>3. \A t \in Session : Busy(t)' => t # s /\ Busy(t) /\ message'[t] = message[t] /\ message[t].file # f
  BY <1>0, <1>2, <1>f DEF Inv, Apart, Busy
<1>4. Sent(told[f], m) \in Told /\ Missed(told[f], m) \in Told
  <2>1. /\ m \in Message /\ told[f] \in Told /\ told[f].seqs \in Seq(Nat) /\ told[f].data \in Seq(Byte)
        /\ m.seq \in Nat /\ m.data \in Seq(Byte)
    BY <1>0, <1>f DEF TypeOK, Told, Message
  <2>2. Append(told[f].seqs, m.seq) \in Seq(Nat) /\ told[f].data \o m.data \in Seq(Byte)
    BY <2>1
  <2>3. Missed(told[f], m) \in Told
    BY <1>0, <2>1 DEF Missed, Told
  <2>. QED  BY <1>0, <2>1, <2>2, <2>3 DEF Sent, Told
<1>5. TypeOK'
  <2>1. /\ told' \in [File -> Told] /\ message' \in [Session -> Message]
        /\ at' \in [Session -> {"out", "idle", "open", "forward"}] /\ BudgetType'
    BY <1>0, <1>1, <1>4, NothingIsTyped DEF TypeOK, BudgetType, budgetVars
  <2>. QED  BY <1>0, <1>1, <2>1 DEF TypeOK
<1>6. Distinct' /\ Apart' /\ \A g \in File : Unlisted(g)' <=> Unlisted(g)
  <2>1. Distinct' /\ \A g \in File : Unlisted(g)' <=> Unlisted(g)
    BY <1>1 DEF Inv, Distinct, Unlisted
  <2>2. Apart'
    BY <1>3 DEF Inv, Apart
  <2>. QED  BY <2>1, <2>2
<1>7. \A g \in File \ {f} : Untouched(g) => Untouched(g)'
  BY <1>1, <1>2, <1>6 DEF Untouched
<1>8. ASSUME NEW t \in Session PROVE Opening(t)' /\ Forwarding(t)'
  <2>1. Opening(t) /\ Forwarding(t)
    BY DEF Inv
  <2>2. CASE ~Busy(t)'
    BY <2>2 DEF Busy, Opening, Forwarding
  <2>3. CASE Busy(t)'
    <3>1. /\ t # s /\ at'[t] = at[t] /\ message'[t] = message[t] /\ message[t].file # f
          /\ table' = table /\ used' = used /\ final' = final /\ meta' = meta
      BY <1>1, <1>2, <1>3, <2>3
    <3>2. Opening(t)'
      BY <1>7, <2>1, <3>1 DEF Opening
    <3>3. Forwarding(t)'
      BY <2>1, <3>1 DEF Forwarding
    <3>. QED  BY <3>2, <3>3
  <2>. QED  BY <2>2, <2>3
<1>9. ASSUME table[s][id] = f PROVE Sound(told'[f], f) /\ Going(s, f) /\ ~Unlisted(f) /\ final[f] = None
  <2>1. Going(s, f) /\ ~Unlisted(f) /\ final[f] = None
    BY <1>0, <1>9, ListedFacts
  <2>2. Due(s, f) = Sent(told[f], m)
    BY <1>0, <1>f DEF Due
  <2>3. /\ told[f] \in Told /\ m \in Message /\ meta[f].next \in Nat
        /\ m.kind \in {"start", "chunk"} /\ Sound(Sent(told[f], m), f)
    BY <1>0, <1>f, <2>1, <2>2 DEF TypeOK, Meta, Going
  <2>4. Sound(Missed(told[f], m), f)
    BY <1>0, <2>3, MissedIsSound
  <2>. QED  BY <1>2, <2>1, <2>3, <2>4
<1>12. ASSUME NEW t \in Session, NEW i \in Id, NEW g, g = table'[t][i], g # 0 PROVE Going(t, g)'
  <2>1. g = table[t][i]
    BY <1>1, <1>12
  <2>2. Going(t, g) /\ g \in File /\ (g = f => t = s /\ table[t][i] = f)
    BY <1>0, <1>12, <1>f, <2>1, ListedFacts
  <2>3. CASE g # f
    <3>1. Due(t, g)' = Due(t, g)
      BY <1>0, <1>1, <1>2, <1>f, <2>2, <2>3 DEF Due
    <3>. QED  BY <1>1, <2>2, <3>1, GoingKept
  <2>4. CASE g = f
    <3>1. t = s /\ table[s][id] = f
      <4>1. m.kind \in {"start", "chunk"}
        BY <1>0, <2>2, <2>4 DEF Going
      <4>. QED  BY <1>0, <2>2, <2>4, <4>1
    <3>2. PICK r : r = told'[f]
      OBVIOUS
    <3>3. Due(s, f)' = r
      BY <1>2, <3>2 DEF Due
    <3>4. Sound(r, f)'
      BY <1>1, <1>9, <3>1, <3>2 DEF Sound
    <3>. QED  BY <1>1, <2>2, <2>4, <3>1, <3>3, <3>4 DEF Going
  <2>. QED  BY <2>3, <2>4
<1>10. Lives(f)'
  <2>0. Lives(f) /\ f \in Nat
    BY <1>0 DEF Inv, File
  <2>1. Unused(f)'
    BY <1>0, <1>1, <1>f, <2>0 DEF Lives, Unused
  <2>2. CASE table[s][id] = f
    <3>1. Heard(f)'
      BY <1>1, <1>9, <2>2 DEF Sound, Heard
    <3>2. Finished(f)' /\ Tidy(f)'
      BY <1>0, <1>1, <1>6, <1>9, <2>2 DEF Finished, Tidy
    <3>. QED  BY <2>1, <3>1, <3>2 DEF Lives
  <2>3. CASE m.kind = "complete" /\ final[f] # None
    <3>1. PICK r, q : r = told[f] /\ q = told'[f]
      OBVIOUS
    <3>2. /\ q.started = r.started /\ q.seqs = r.seqs /\ q.data = r.data
          /\ q.withheld \in {r.withheld, r.withheld \cup {"complete"}}
      BY <1>0, <1>2, <2>3, <3>1 DEF Sent, Missed, TypeOK, Told
    <3>3. Finished(f)'
      BY <1>0, <1>1, <1>6, <2>0, <3>1, <3>2 DEF Lives, Finished
    <3>4. Heard(f)'
      BY <1>1, <2>0, <2>3, <3>1, <3>2 DEF Lives, Heard, Finished
    <3>5. Tidy(f)'
      BY <1>0, <1>1, <1>6, <2>0, <2>3 DEF Lives, Tidy
    <3>. QED  BY <2>1, <3>3, <3>4, <3>5 DEF Lives
  <2>. QED  BY <1>0, <2>2, <2>3
<1>11. ASSUME NEW g \in File, g # f PROVE Lives(g)'
  <2>0. Lives(g)
    BY DEF Inv
  <2>1. Unused(g)'
    BY <1>1, <1>3, <1>7, <1>11, <2>0 DEF Lives, Unused
  <2>2. Heard(g)' /\ Finished(g)'
    BY <1>1, <1>2, <1>6, <1>11, <2>0 DEF Lives, Heard, Finished
  <2>3. \A t \in Session : at[t] = "open" /\ message[t].file = g =>
          at'[t] = "open" /\ message'[t].file = g
    BY <1>0, <1>2
  <2>4. Tidy(g)'
    BY <1>1, <1>6, <1>11, <2>0, <2>3 DEF Lives, Tidy
  <2>. QED  BY <2>1, <2>2, <2>4 DEF Lives
<1>. QED  BY <1>5, <1>6, <1>8, <1>10, <1>11, <1>12 DEF Inv

-----------------------------------------------------------------------------
(* The rest of the process                                                  *)

\* Sessions begin, the clock advances, retention removes files.
Quiet ==
  /\ message' = message /\ table' = table /\ meta' = meta /\ used' = used /\ part' = part
  /\ dirs' = dirs /\ crashed' = crashed /\ told' = told
  /\ at' \in [Session -> {"out", "idle", "open", "forward"}]
  /\ \A t \in Session : at'[t] = at[t] \/ (at'[t] = "idle" /\ at[t] = "out")
  /\ final' \in [File -> Seq(Byte) \cup {None, Gone}]
  /\ \A f \in File : final'[f] = final[f] \/ (final'[f] = Gone /\ final[f] # None)
  /\ left' \in [File -> 0..Lifetime] /\ BudgetType'

\* A quiet step keeps the invariant.
LEMMA QuietInv == Inv /\ Quiet => Inv'
<1>. SUFFICES ASSUME Inv, Quiet PROVE Inv'
  OBVIOUS
<1>. USE DEF Quiet
<1>0. TypeOK' /\ Distinct' /\ 0 \notin File
  BY DEF Inv, TypeOK, Distinct, File
<1>1. \A t \in Session : (Busy(t)' <=> Busy(t)) /\ (Busy(t) => at'[t] = at[t])
  BY DEF Busy
<1>2. Apart'
  BY <1>1 DEF Inv, Apart
<1>3. \A f \in File : (Unlisted(f)' <=> Unlisted(f)) /\ (Untouched(f) => Untouched(f)')
  BY Limits DEF Unlisted, Untouched
<1>4. \A f \in File : (final'[f] # None <=> final[f] # None) /\ (final'[f] # Gone => final'[f] = final[f])
  BY Limits
<1>5. ASSUME NEW t \in Session PROVE Opening(t)' /\ Forwarding(t)'
  <2>1. Opening(t) /\ Forwarding(t)
    BY DEF Inv
  <2>2. CASE ~Busy(t)'
    BY <2>2 DEF Busy, Opening, Forwarding
  <2>3. CASE Busy(t)'
    <3>1. at'[t] = at[t]
      BY <1>1, <2>3
    <3>2. Opening(t)'
      BY <1>3, <2>1, <3>1 DEF Opening
    <3>3. Forwarding(t)'
      BY <1>4, <2>1, <3>1 DEF Forwarding
    <3>. QED  BY <3>2, <3>3
  <2>. QED  BY <2>2, <2>3
<1>6. ASSUME NEW t \in Session, NEW i \in Id, NEW g, g = table'[t][i], g # 0 PROVE Going(t, g)'
  <2>1. Going(t, g) /\ g \in File /\ final[g] = None
    BY <1>6, ListedFacts
  <2>2. Due(t, g)' = Due(t, g)
    BY <1>1 DEF Due, Busy
  <2>. QED  BY <2>1, <2>2, GoingKept
<1>7. ASSUME NEW f \in File PROVE Lives(f)'
  <2>0. Lives(f)
    BY DEF Inv
  <2>1. Unused(f)'
    BY <1>1, <1>3, <2>0 DEF Lives, Unused
  <2>2. Finished(f)' /\ Heard(f)'
    BY <1>3, <1>4, <2>0 DEF Lives, Finished, Heard
  <2>3. \A t \in Session : at[t] = "open" => at'[t] = "open"
    BY <1>1 DEF Busy
  <2>4. Tidy(f)'
    BY <1>3, <1>4, <2>0, <2>3 DEF Lives, Tidy
  <2>. QED  BY <2>1, <2>2, <2>4 DEF Lives
<1>. QED  BY <1>0, <1>2, <1>5, <1>6, <1>7 DEF Inv

\* The process crashes: the sessions are gone, the disk is as it was.
LEMMA CrashInv == Inv /\ Crash => Inv'
<1>. SUFFICES ASSUME Inv, Crash PROVE Inv'
  OBVIOUS
<1>0. TypeOK /\ 0 \notin File /\ 0 \in 0..MaxFiles
  BY Limits DEF Inv, File
<1>1. /\ at' = [s \in Session |-> "out"] /\ crashed' = TRUE
      /\ \A s \in Session, id \in Id : table'[s][id] = 0
      /\ \A f \in File : final[f] # None => meta'[f] = meta[f]
      /\ UNCHANGED <<used, part, final, dirs, told>>
  BY DEF Crash, diskVars
<1>2. TypeOK'
  <2>1. table' \in [Session -> [Id -> 0..MaxFiles]] /\ message' \in [Session -> Message]
    BY <1>0, NothingIsTyped DEF Crash
  <2>2. meta' \in [File -> Meta] /\ left' \in [File -> 0..Lifetime] /\ BudgetType'
    BY <1>0, NothingIsTyped, Limits DEF Crash, TypeOK, BudgetType
  <2>. QED  BY <1>0, <1>1, <2>1, <2>2 DEF TypeOK
<1>3. \A s \in Session : ~Busy(s)' /\ Opening(s)' /\ Forwarding(s)'
  BY <1>1 DEF Busy, Opening, Forwarding
<1>4. Distinct' /\ Apart' /\ \A f \in File : Unlisted(f)'
  BY <1>0, <1>1, <1>3 DEF Distinct, Apart, Unlisted
<1>5. ASSUME NEW f \in File PROVE Lives(f)'
  <2>0. Lives(f)
    BY DEF Inv
  <2>1. Unused(f)'
    BY <1>1, <1>3, <1>4, <2>0 DEF Lives, Unused, Untouched
  <2>2. Finished(f)' /\ Heard(f)' /\ Tidy(f)'
    BY <1>1, <1>4, <2>0 DEF Lives, Finished, Heard, Tidy
  <2>. QED  BY <2>1, <2>2 DEF Lives
<1>. QED  BY <1>1, <1>2, <1>3, <1>4, <1>5 DEF Inv

\* No step of the program breaks the invariant.
LEMMA StepInv == Inv /\ [Next]_vars => Inv'
<1>. SUFFICES ASSUME Inv, [Next]_vars PROVE Inv'
  OBVIOUS
<1>0. /\ TypeOK /\ at \in [Session -> {"out", "idle", "open", "forward"}] /\ left \in [File -> 0..Lifetime]
      /\ final \in [File -> Seq(Byte) \cup {None, Gone}] /\ BudgetType
  BY DEF Inv, TypeOK
<1>1. ASSUME NEW s \in Session, SessionStep(s) PROVE Inv'
  <2>1. CASE Enter(s)
    <3>1. /\ \A t \in Session : at'[t] = at[t] \/ (at'[t] = "idle" /\ at[t] = "out")
          /\ at' \in [Session -> {"out", "idle", "open", "forward"}]
      BY <1>0, <2>1 DEF Enter, ReaderAt
    <3>2. /\ message' = message /\ table' = table /\ meta' = meta /\ used' = used /\ part' = part
          /\ dirs' = dirs /\ crashed' = crashed /\ told' = told
          /\ left' = left /\ final' = final
      BY <2>1 DEF Enter, tableVars, diskVars
    <3>3. BudgetType'
      BY <1>0, <2>1 DEF Enter, BudgetType, budgetVars
    <3>. QED  BY <1>0, <3>1, <3>2, <3>3, QuietInv DEF Quiet
  <2>2. CASE MessageArrives(s)
    BY <2>2, GivingUpInv, StartInv, ChunkInv, CompleteInv DEF MessageArrives
  <2>3. CASE OpenPart(s)
    BY <2>3, OpenPartInv
  <2>4. CASE OpenFails(s)
    BY <2>4, OpenFailsInv
  <2>5. CASE Forward(s) \/ ForwardFails(s)
    BY <2>5, ForwardInv
  <2>6. CASE Leave(s)
    BY <2>6, GivingUpInv
  <2>. QED  BY <1>1, <2>1, <2>2, <2>3, <2>4, <2>5, <2>6 DEF SessionStep
<1>2. ASSUME NEW f \in File, CleanExpired(f) PROVE Inv'
  <2>1. /\ \A g \in File : final'[g] = final[g] \/ (final'[g] = Gone /\ final[g] # None)
        /\ final' \in [File -> Seq(Byte) \cup {None, Gone}]
    BY <1>0, <1>2 DEF CleanExpired
  <2>2. /\ message' = message /\ table' = table /\ meta' = meta /\ used' = used /\ part' = part
        /\ dirs' = dirs /\ crashed' = crashed /\ told' = told
        /\ at' = at /\ left' = left
    BY <1>2 DEF CleanExpired, tableVars
  <2>3. BudgetType'
    BY <1>0, <1>2 DEF CleanExpired, BudgetType, budgetVars
  <2>. QED  BY <1>0, <2>1, <2>2, <2>3, QuietInv DEF Quiet
<1>3. CASE Tick
  <2>1. left' \in [File -> 0..Lifetime] /\ BudgetType'
    BY <1>0, <1>3, Limits, BudgetStays DEF Tick
  <2>2. /\ message' = message /\ table' = table /\ meta' = meta /\ used' = used /\ part' = part
        /\ dirs' = dirs /\ crashed' = crashed /\ told' = told
        /\ at' = at /\ final' = final
    BY <1>3 DEF Tick, diskVars
  <2>. QED  BY <1>0, <2>1, <2>2, QuietInv DEF Quiet
<1>4. CASE Crash
  BY <1>4, CrashInv
<1>5. CASE UNCHANGED vars
  <2>1. /\ message' = message /\ table' = table /\ meta' = meta /\ used' = used /\ part' = part
        /\ dirs' = dirs /\ crashed' = crashed /\ told' = told
        /\ at' = at /\ left' = left /\ final' = final
    BY <1>5 DEF vars, tableVars, diskVars
  <2>2. BudgetType'
    BY <1>0, <1>5 DEF vars, BudgetType, budgetVars
  <2>. QED  BY <1>0, <2>1, <2>2, QuietInv DEF Quiet
<1>. QED  BY <1>1, <1>2, <1>3, <1>4, <1>5 DEF Next

\* The program begins in the invariant.
LEMMA InitInv == Init => Inv
<1>. SUFFICES ASSUME Init PROVE Inv
  OBVIOUS
<1>0. 0 \notin File /\ 0 \in 0..MaxFiles
  BY Limits DEF File
<1>1. TypeOK
  <2>1. /\ at \in [Session -> {"out", "idle", "open", "forward"}] /\ message \in [Session -> Message]
        /\ table \in [Session -> [Id -> 0..MaxFiles]]
    BY <1>0, NothingIsTyped DEF Init
  <2>2. /\ meta \in [File -> Meta] /\ left \in [File -> 0..Lifetime] /\ used \in 0..MaxFiles
        /\ part \in [File -> Seq(Byte) \cup {None}] /\ final \in [File -> Seq(Byte) \cup {None, Gone}]
        /\ dirs \subseteq File /\ crashed \in BOOLEAN
    <3>1. 0 \in 0..Lifetime
      BY Limits
    <3>2. meta \in [File -> Meta] /\ left \in [File -> 0..Lifetime] /\ used \in 0..MaxFiles
      BY <1>0, <3>1, NothingIsTyped DEF Init
    <3>3. part \in [File -> Seq(Byte) \cup {None}] /\ final \in [File -> Seq(Byte) \cup {None, Gone}]
      BY DEF Init
    <3>. QED  BY <3>2, <3>3 DEF Init
  <2>3. told \in [File -> Told] /\ BudgetType
    BY NothingIsTyped, BudgetStays DEF Init, Unheard
  <2>. QED  BY <2>1, <2>2, <2>3 DEF TypeOK
<1>2. \A s \in Session : ~Busy(s) /\ Opening(s) /\ Forwarding(s)
  BY DEF Init, Busy, Opening, Forwarding
<1>3. \A s \in Session, id \in Id : table[s][id] = 0
  BY DEF Init
<1>4. Distinct /\ Apart /\ \A f \in File : Unlisted(f)
  BY <1>0, <1>2, <1>3 DEF Distinct, Apart, Unlisted
<1>5. ASSUME NEW f \in File PROVE Lives(f)
  <2>1. part[f] = None /\ final[f] = None /\ told[f] = Unheard /\ f \notin dirs
    BY DEF Init, Unheard
  <2>2. Unused(f) /\ Finished(f) /\ Tidy(f)
    BY <1>2, <1>4, <2>1 DEF Unused, Untouched, Finished, Tidy
  <2>3. Heard(f)
    BY <2>1 DEF Heard, Unheard, InOrder, Rising
  <2>. QED  BY <2>2, <2>3 DEF Lives
<1>. QED  BY <1>1, <1>2, <1>3, <1>4, <1>5 DEF Inv

-----------------------------------------------------------------------------
(* Sums over finite sets, as the community modules' folds define them         *)

\* A set of numbers that is not empty has a least one.
LEMMA Least == ASSUME NEW S \in SUBSET Nat, S # {} PROVE \E x \in S : \A y \in S : x <= y
<1>. DEFINE R == OpToRel(<, Nat)
<1>1. IsWellFoundedOn(R, Nat)
  BY NatLessThanWellFounded
<1>2. R = {ss \in Nat \X Nat : ss[1] < ss[2]}
  BY DEF OpToRel
<1>. HIDE DEF R
<1>3. PICK x \in S : \A y \in S : ~(<<y, x>> \in R)
  BY <1>1, WFMin
<1>4. \A y \in S : ~(y < x)
  BY <1>2, <1>3
<1>5. \A y \in S : x <= y
  BY <1>4
<1>. QED  BY <1>5

\* So a collection of finite sets has a member that is none any more when it loses an element.
LEMMA Smallest ==
  ASSUME NEW S, IsFiniteSet(S), NEW B \in SUBSET SUBSET S, B # {}
  PROVE  \E s \in B : \A x \in s : s \ {x} \notin B
<1>. DEFINE sizes == {Cardinality(s) : s \in B}
<1>1. \A s \in B : IsFiniteSet(s) /\ Cardinality(s) \in Nat
  BY FS_Subset, FS_CardinalityType
<1>2. PICK n \in sizes : \A m \in sizes : n <= m
  <2>1. sizes \in SUBSET Nat /\ sizes # {}
    BY <1>1
  <2>. HIDE DEF sizes
  <2>. QED  BY <2>1, Least
<1>3. PICK s \in B : n = Cardinality(s)
  BY <1>2
<1>4. \A x \in s : Cardinality(s \ {x}) = Cardinality(s) - 1
  BY <1>1, FS_RemoveElement
<1>5. \A x \in s : s \ {x} \in B => FALSE
  <2>1. \A r \in B : Cardinality(s) <= Cardinality(r)
    BY <1>2, <1>3
  <2>. HIDE DEF sizes
  <2>. QED  BY <1>1, <1>4, <2>1
<1>. QED  BY <1>5

AnyOf(s) == CHOOSE x \in s : TRUE

\* What g makes of a set is what w makes of its elements, added up one at a time.
OneMore(g, s, w) == IF s = {} THEN 0 ELSE w[AnyOf(s)] + g[s \ {AnyOf(s)}]
Adds(g, S, w) == g = [s \in SUBSET S |-> OneMore(g, s, w)]
Total(S, w) == (CHOOSE g : Adds(g, S, w))[S]

\* A recursion over the subsets of a finite set defines a function.
LEMMA AddsExists == ASSUME NEW S, IsFiniteSet(S), NEW w PROVE \E g : Adds(g, S, w)
<1>. DEFINE Good(n) == \E g : \A s \in SUBSET S : Cardinality(s) <= n => g[s] = OneMore(g, s, w)
            bad == {n \in Nat : ~Good(n)}
<1>1. \A s \in SUBSET S :
        /\ IsFiniteSet(s) /\ Cardinality(s) \in Nat
        /\ Cardinality(s) = 0 <=> s = {}
  BY FS_Subset, FS_CardinalityType, FS_EmptySet
<1>2. ASSUME NEW s \in SUBSET S, s # {}
      PROVE  s \ {AnyOf(s)} \in SUBSET S /\ Cardinality(s \ {AnyOf(s)}) = Cardinality(s) - 1
  BY <1>1, <1>2, FS_RemoveElement DEF AnyOf
<1>3. Good(0)
  <2>. DEFINE g == [s \in SUBSET S |-> 0]
  <2>1. \A s \in SUBSET S : Cardinality(s) <= 0 => g[s] = OneMore(g, s, w)
    BY <1>1 DEF OneMore
  <2>. QED  BY <2>1
<1>4. ASSUME NEW n \in Nat, n # 0, Good(n - 1) PROVE Good(n)
  <2>1. PICK g : \A s \in SUBSET S : Cardinality(s) <= n - 1 => g[s] = OneMore(g, s, w)
    BY <1>4
  <2>2. PICK h : h = [s \in SUBSET S |-> OneMore(g, s, w)]
    OBVIOUS
  <2>3. ASSUME NEW s \in SUBSET S, Cardinality(s) <= n PROVE h[s] = OneMore(h, s, w)
    <3>1. CASE s = {}
      BY <2>2, <3>1 DEF OneMore
    <3>2. CASE s # {}
      <4>1. s \ {AnyOf(s)} \in SUBSET S /\ Cardinality(s \ {AnyOf(s)}) <= n - 1
        BY <1>1, <1>2, <2>3, <3>2
      <4>2. h[s \ {AnyOf(s)}] = g[s \ {AnyOf(s)}]
        BY <2>1, <2>2, <4>1
      <4>. QED  BY <2>2, <3>2, <4>2 DEF OneMore
    <3>. QED  BY <3>1, <3>2
  <2>. QED  BY <2>3
<1>5. bad = {}
  <2>. HIDE DEF Good
  <2>1. ASSUME bad # {} PROVE FALSE
    <3>1. PICK n \in bad : \A m \in bad : n <= m
      BY <2>1, Least
    <3>2. n # 0 /\ n - 1 \in Nat /\ n - 1 \notin bad
      BY <1>3, <3>1
    <3>. QED  BY <1>4, <3>1, <3>2
  <2>. QED  BY <2>1
<1>6. PICK g : \A s \in SUBSET S : Cardinality(s) <= Cardinality(S) => g[s] = OneMore(g, s, w)
  <2>1. Cardinality(S) \in Nat
    BY FS_CardinalityType
  <2>. QED  BY <1>5, <2>1
<1>7. \A s \in SUBSET S : g[s] = OneMore(g, s, w)
  BY <1>6, FS_Subset
<1>8. PICK h : h = [s \in SUBSET S |-> g[s]]
  OBVIOUS
<1>9. \A s \in SUBSET S : OneMore(h, s, w) = g[s]
  <2>1. \A s \in SUBSET S : s # {} => h[s \ {AnyOf(s)}] = g[s \ {AnyOf(s)}]
    BY <1>8
  <2>. QED  BY <1>7, <2>1 DEF OneMore
<1>. QED  BY <1>8, <1>9 DEF Adds

\* It defines one function: two agree on the sets both are about.
LEMMA AddsAgree ==
  ASSUME NEW S, IsFiniteSet(S), NEW T \in SUBSET S, NEW w, NEW g, NEW h,
         Adds(g, S, w), Adds(h, T, w)
  PROVE  g[T] = h[T]
<1>. DEFINE bad == {s \in SUBSET T : g[s] # h[s]}
<1>1. ASSUME bad # {} PROVE FALSE
  <2>1. PICK s \in bad : \A x \in s : s \ {x} \notin bad
    <3>. IsFiniteSet(T) /\ bad \in SUBSET SUBSET T
      BY FS_Subset
    <3>. HIDE DEF bad
    <3>. QED  BY <1>1, Smallest
  <2>2. g[s] = OneMore(g, s, w) /\ h[s] = OneMore(h, s, w)
    BY DEF Adds
  <2>3. CASE s = {}
    BY <2>2, <2>3 DEF OneMore
  <2>4. CASE s # {}
    <3>1. AnyOf(s) \in s
      BY <2>4 DEF AnyOf
    <3>2. g[s \ {AnyOf(s)}] = h[s \ {AnyOf(s)}]
      BY <2>1, <3>1
    <3>. QED  BY <2>2, <2>4, <3>2 DEF OneMore
  <2>. QED  BY <2>3, <2>4
<1>. QED  BY <1>1

\* A sum is that of a set without some element, and the weight of this one.
LEMMA TotalStep ==
  ASSUME NEW S, IsFiniteSet(S), NEW w
  PROVE  Total(S, w) = IF S = {} THEN 0 ELSE w[AnyOf(S)] + Total(S \ {AnyOf(S)}, w)
<1>1. PICK g : g = CHOOSE f : Adds(f, S, w)
  OBVIOUS
<1>2. PICK h : h = CHOOSE f : Adds(f, S \ {AnyOf(S)}, w)
  OBVIOUS
<1>3. IsFiniteSet(S \ {AnyOf(S)})
  BY FS_Subset, S \ {AnyOf(S)} \subseteq S
<1>4. Adds(g, S, w)
  BY <1>1, AddsExists
<1>5. Adds(h, S \ {AnyOf(S)}, w)
  BY <1>2, <1>3, AddsExists
<1>6. g[S \ {AnyOf(S)}] = h[S \ {AnyOf(S)}]
  BY <1>4, <1>5, AddsAgree
<1>7. Total(S, w) = g[S] /\ Total(S \ {AnyOf(S)}, w) = h[S \ {AnyOf(S)}]
  BY <1>1, <1>2 DEF Total
<1>8. g[S] = OneMore(g, S, w)
  BY <1>4 DEF Adds
<1>. QED  BY <1>6, <1>7, <1>8 DEF OneMore

\* The sum of numbers is a number.
LEMMA TotalType ==
  ASSUME NEW S, IsFiniteSet(S), NEW w, \A x \in S : w[x] \in Nat
  PROVE  Total(S, w) \in Nat
<1>. DEFINE bad == {s \in SUBSET S : Total(s, w) \notin Nat}
<1>1. ASSUME bad # {} PROVE FALSE
  <2>1. PICK s \in bad : \A x \in s : s \ {x} \notin bad
    <3>. bad \in SUBSET SUBSET S
      OBVIOUS
    <3>. HIDE DEF bad
    <3>. QED  BY <1>1, Smallest
  <2>2. IsFiniteSet(s)
    BY FS_Subset
  <2>3. CASE s = {}
    <3>1. Total(s, w) = 0
      BY <2>2, <2>3, TotalStep
    <3>. QED  BY <3>1
  <2>4. CASE s # {}
    <3>1. AnyOf(s) \in s
      BY <2>4 DEF AnyOf
    <3>2. Total(s \ {AnyOf(s)}, w) \in Nat /\ w[AnyOf(s)] \in Nat
      BY <2>1, <3>1
    <3>3. Total(s, w) = w[AnyOf(s)] + Total(s \ {AnyOf(s)}, w)
      BY <2>2, <2>4, TotalStep
    <3>. QED  BY <3>2, <3>3
  <2>. QED  BY <2>3, <2>4
<1>. QED  BY <1>1

\* It is the same whichever element is taken out first.
LEMMA TotalWithout ==
  ASSUME NEW S, IsFiniteSet(S), NEW w, \A x \in S : w[x] \in Nat, NEW a \in S
  PROVE  Total(S, w) = w[a] + Total(S \ {a}, w)
<1>. DEFINE bad == {s \in SUBSET S : \E x \in s : Total(s, w) # w[x] + Total(s \ {x}, w)}
<1>1. ASSUME bad # {} PROVE FALSE
  <2>1. PICK s \in bad : \A x \in s : s \ {x} \notin bad
    <3>. bad \in SUBSET SUBSET S
      OBVIOUS
    <3>. HIDE DEF bad
    <3>. QED  BY <1>1, Smallest
  <2>2. PICK x \in s : Total(s, w) # w[x] + Total(s \ {x}, w)
    OBVIOUS
  <2>3. PICK y : y = AnyOf(s)
    OBVIOUS
  <2>4. y \in s
    BY <2>2, <2>3 DEF AnyOf
  <2>5. \A t \in SUBSET S : IsFiniteSet(t) /\ Total(t, w) \in Nat
    BY FS_Subset, TotalType
  <2>6. Total(s, w) = w[y] + Total(s \ {y}, w)
    BY <2>2, <2>3, <2>5, TotalStep
  <2>7. x # y
    BY <2>2, <2>6
  <2>8. Total(s \ {y}, w) = w[x] + Total((s \ {y}) \ {x}, w)
    BY <2>1, <2>4, <2>7
  <2>9. Total(s \ {x}, w) = w[y] + Total((s \ {x}) \ {y}, w)
    BY <2>1, <2>2, <2>4, <2>7
  <2>10. (s \ {x}) \ {y} = (s \ {y}) \ {x}
    OBVIOUS
  <2>11. PICK n \in Nat : n = Total((s \ {y}) \ {x}, w)
    BY <2>5
  <2>12. w[x] \in Nat /\ w[y] \in Nat
    BY <2>2, <2>4
  <2>13. w[y] + (w[x] + n) = w[x] + (w[y] + n)
    BY <2>12
  <2>14. Total(s, w) = w[y] + (w[x] + n)
    BY <2>6, <2>8, <2>11
  <2>15. Total(s \ {x}, w) = w[y] + n
    BY <2>9, <2>10, <2>11
  <2>. QED  BY <2>2, <2>13, <2>14, <2>15
<1>. QED  BY <1>1

\* It depends on the weights of its elements alone.
LEMMA TotalOfEqual ==
  ASSUME NEW S, IsFiniteSet(S), NEW w, NEW v, \A x \in S : w[x] = v[x]
  PROVE  Total(S, w) = Total(S, v)
<1>. DEFINE bad == {s \in SUBSET S : Total(s, w) # Total(s, v)}
<1>1. ASSUME bad # {} PROVE FALSE
  <2>1. PICK s \in bad : \A x \in s : s \ {x} \notin bad
    <3>. bad \in SUBSET SUBSET S
      OBVIOUS
    <3>. HIDE DEF bad
    <3>. QED  BY <1>1, Smallest
  <2>2. IsFiniteSet(s)
    BY FS_Subset
  <2>3. CASE s = {}
    BY <2>2, <2>3, TotalStep
  <2>4. CASE s # {}
    <3>1. AnyOf(s) \in s
      BY <2>4 DEF AnyOf
    <3>2. Total(s \ {AnyOf(s)}, w) = Total(s \ {AnyOf(s)}, v) /\ w[AnyOf(s)] = v[AnyOf(s)]
      BY <2>1, <3>1
    <3>3. Total(s, w) = w[AnyOf(s)] + Total(s \ {AnyOf(s)}, w)
      BY <2>2, <2>4, TotalStep
    <3>4. Total(s, v) = v[AnyOf(s)] + Total(s \ {AnyOf(s)}, v)
      BY <2>2, <2>4, TotalStep
    <3>. QED  BY <3>2, <3>3, <3>4
  <2>. QED  BY <2>3, <2>4
<1>. QED  BY <1>1

\* A part of a set adds up to no more than the whole.
LEMMA TotalOfPart ==
  ASSUME NEW S, IsFiniteSet(S), NEW T \in SUBSET S, NEW w, \A x \in S : w[x] \in Nat
  PROVE  Total(T, w) <= Total(S, w)
<1>. DEFINE bad == {s \in SUBSET S : T \subseteq s /\ ~(Total(T, w) <= Total(s, w))}
<1>1. ASSUME bad # {} PROVE FALSE
  <2>1. PICK s \in bad : \A x \in s : s \ {x} \notin bad
    <3>. bad \in SUBSET SUBSET S
      OBVIOUS
    <3>. HIDE DEF bad
    <3>. QED  BY <1>1, Smallest
  <2>2. \A t \in SUBSET S : IsFiniteSet(t) /\ Total(t, w) \in Nat
    BY FS_Subset, TotalType
  <2>3. CASE s = T
    BY <2>2, <2>3
  <2>4. CASE s # T
    <3>1. PICK x \in s : x \notin T
      BY <2>4
    <3>2. Total(T, w) <= Total(s \ {x}, w)
      BY <2>1, <3>1
    <3>3. Total(s, w) = w[x] + Total(s \ {x}, w)
      BY <2>2, TotalWithout
    <3>4. w[x] \in Nat /\ Total(s \ {x}, w) \in Nat /\ Total(T, w) \in Nat
      BY <2>2
    <3>. QED  BY <3>2, <3>3, <3>4
  <2>. QED  BY <2>3, <2>4
<1>. QED  BY <1>1

-----------------------------------------------------------------------------
(* The quota                                                                *)

Open(s) == {id \in Id : table[s][id] # 0}
Sizes(s) == [id \in Id |-> meta[table[s][id]].declared]

\* the transfer that is accepted and not yet open counts
Accepted(s) == IF at[s] = "open" THEN 1 ELSE 0
AcceptedSize(s) == IF at[s] = "open" THEN meta[message[s].file].declared ELSE 0

Limited(s) ==
  /\ IsFiniteSet(Open(s))
  /\ Cardinality(Open(s)) + Accepted(s) <= MaxTransfers
  /\ Total(Open(s), Sizes(s)) + AcceptedSize(s) <= MaxBytes

\* What the code adds up is a total of this kind.
LEMMA DeclaredIsTotal ==
  ASSUME NEW T, IsFiniteSet({id \in Id : T[id] # 0})
  PROVE  Declared(T) = Total({id \in Id : T[id] # 0}, [id \in Id |-> meta[T[id]].declared])
<1>1. PICK X : X = {id \in Id : T[id] # 0}
  OBVIOUS
<1>2. PICK w : w = [id \in Id |-> meta[T[id]].declared]
  OBVIOUS
<1>. DEFINE Summed(f) == f = [s \in SUBSET X |->
                   IF s = {} THEN 0
                   ELSE meta[T[CHOOSE x \in s : TRUE]].declared + f[s \ {CHOOSE x \in s : TRUE}]]
<1>3. PICK g : g = CHOOSE f : Summed(f)
  OBVIOUS
<1>4. PICK h : h = CHOOSE f : Adds(f, X, w)
  OBVIOUS
<1>5. Declared(T) = g[X]
  BY <1>1, <1>3 DEF Declared, MapThenSumSet, MapThenFoldSet
<1>6. \E f : Adds(f, X, w)
  BY <1>1, AddsExists
<1>7. ASSUME NEW s \in SUBSET X, s # {}
      PROVE  w[AnyOf(s)] = meta[T[CHOOSE x \in s : TRUE]].declared /\ AnyOf(s) = CHOOSE x \in s : TRUE
  BY <1>1, <1>2, <1>7 DEF AnyOf
<1>8. ASSUME NEW f
      PROVE  Adds(f, X, w) <=> Summed(f)
  BY <1>7 DEF Adds, OneMore
<1>. HIDE DEF Summed
<1>9. Adds(g, X, w) /\ Adds(h, X, w)
  BY <1>3, <1>4, <1>6, <1>8
<1>10. g[X] = h[X]
  BY <1>1, <1>9, AddsAgree
<1>. QED  BY <1>1, <1>2, <1>4, <1>5, <1>10 DEF Total

\* The sizes of open transfers, and the total, are numbers.
LEMMA SizesAreNumbers ==
  ASSUME TypeOK, NEW s \in Session, IsFiniteSet(Open(s))
  PROVE  /\ \A id \in Open(s) : Sizes(s)[id] \in Nat
         /\ Total(Open(s), Sizes(s)) \in Nat /\ Cardinality(Open(s)) \in Nat
<1>1. \A id \in Open(s) : table[s][id] \in File
  BY Limits DEF TypeOK, Open, File
<1>2. \A id \in Open(s) : Sizes(s)[id] \in 0..MaxBytes
  BY <1>1 DEF TypeOK, Open, Sizes, Meta
<1>3. \A id \in Open(s) : Sizes(s)[id] \in Nat
  BY <1>2, Limits
<1>. QED  BY <1>3, TotalType, FS_CardinalityType

\* A session that opens nothing, and of whose transfers the sizes stay.
Loose(t) ==
  /\ \A id \in Id : table'[t][id] # 0 =>
       table'[t][id] = table[t][id] /\ meta'[table[t][id]].declared = meta[table[t][id]].declared
  /\ at'[t] = "open" =>
       at[t] = "open" /\ meta'[message'[t].file].declared = meta[message[t].file].declared

\* It stays within its limits.
LEMMA LooseLimited ==
  ASSUME Inv, NEW t \in Session, Limited(t), Loose(t), TypeOK'
  PROVE  Limited(t)'
<1>0. TypeOK
  BY DEF Inv
<1>1. PICK O : O = Open(t)
  OBVIOUS
<1>2. PICK P : P = Open(t)'
  OBVIOUS
<1>3. PICK w : w = Sizes(t)
  OBVIOUS
<1>4. PICK v : v = Sizes(t)'
  OBVIOUS
<1>5. P \in SUBSET O /\ IsFiniteSet(O) /\ O \subseteq Id
  BY <1>1, <1>2 DEF Loose, Open, Limited
<1>6. IsFiniteSet(P) /\ Cardinality(P) <= Cardinality(O) /\ Cardinality(P) \in Nat /\ Cardinality(O) \in Nat
  BY <1>5, FS_Subset, FS_CardinalityType
<1>7. \A id \in P : v[id] = w[id]
  BY <1>2, <1>3, <1>4 DEF Loose, Open, Sizes
<1>8. \A id \in O : w[id] \in Nat
  BY <1>0, <1>1, <1>3, <1>5, SizesAreNumbers
<1>9. Total(P, v) = Total(P, w)
  BY <1>6, <1>7, TotalOfEqual
<1>10. Total(P, w) <= Total(O, w) /\ Total(P, w) \in Nat /\ Total(O, w) \in Nat
  BY <1>5, <1>6, <1>8, TotalOfPart, TotalType
<1>11. /\ Accepted(t) \in Nat /\ Accepted(t)' \in Nat /\ Accepted(t)' <= Accepted(t)
  BY DEF Accepted, Loose
<1>12. AcceptedSize(t)' \in {0, AcceptedSize(t)} /\ AcceptedSize(t) \in Nat
  <2>1. at[t] = "open" => meta[message[t].file].declared \in Nat
    <3>1. at[t] = "open" => message[t].file \in File
      BY DEF Inv, Opening
    <3>2. \A f \in File : meta[f].declared \in 0..MaxBytes
      BY <1>0 DEF TypeOK, Meta
    <3>. QED  BY <3>1, <3>2, Limits
  <2>. QED  BY <2>1 DEF AcceptedSize, Loose
<1>13. Cardinality(O) + Accepted(t) <= MaxTransfers /\ Total(O, w) + AcceptedSize(t) <= MaxBytes
  BY <1>1, <1>3 DEF Limited
<1>14. Cardinality(P) + Accepted(t)' <= MaxTransfers
  BY <1>6, <1>11, <1>13, Limits
<1>15. Total(P, v) + AcceptedSize(t)' <= MaxBytes
  BY <1>9, <1>10, <1>12, <1>13, Limits
<1>. QED  BY <1>2, <1>4, <1>6, <1>14, <1>15 DEF Limited

\* Session s gives up the transfers of F, and only their files are forgotten.
Drops(s, F) ==
  /\ \A t \in Session : t # s => /\ table'[t] = table[t] /\ at'[t] = at[t] /\ message'[t] = message[t]
                                 /\ \A id \in Id : table[t][id] \notin F
                                 /\ at[t] = "open" => message[t].file \notin F
  /\ \A id \in Id : table'[s][id] # 0 => table'[s][id] = table[s][id] /\ table[s][id] \notin F
  /\ \A g \in File \ F : meta'[g].declared = meta[g].declared

\* What one session gives up leaves the others as they were.
LEMMA DropsLoose ==
  ASSUME Inv, NEW s \in Session, NEW F, Drops(s, F)
  PROVE  \A t \in Session : t # s \/ at'[s] # "open" => Loose(t)
<1>1. \A t \in Session, id \in Id : table[t][id] # 0 => table[t][id] \in File
  BY Limits DEF Inv, TypeOK, File
<1>2. \A t \in Session : at[t] = "open" => message[t].file \in File
  BY DEF Inv, Opening
<1>3. ASSUME NEW t \in Session, t # s PROVE Loose(t)
  BY <1>1, <1>2, <1>3 DEF Drops, Loose
<1>4. at'[s] # "open" => Loose(s)
  BY <1>1 DEF Drops, Loose
<1>. QED  BY <1>3, <1>4

\* No other session deals with the transfers of this one.
LEMMA OthersApart ==
  ASSUME Inv, NEW s \in Session, NEW F \in SUBSET Files(s), NEW t \in Session, t # s
  PROVE  (\A id \in Id : table[t][id] \notin F) /\ (at[t] = "open" => message[t].file \notin F)
<1>0. TypeOK
  BY DEF Inv
<1>1. \A g \in F : \E id \in Id : table[s][id] = g /\ g # 0
  BY DEF Files
<1>2. \A id \in Id : table[t][id] \notin F
  BY <1>1 DEF Inv, Distinct
<1>3. at[t] = "open" => message[t].file \notin F
  BY <1>1 DEF Inv, Opening, Untouched, Unlisted
<1>. QED  BY <1>2, <1>3

\* An accepted start was held to the limits, the transfer that it opens included.
LEMMA StartLimited ==
  ASSUME Inv, Inv', \A t \in Session : Limited(t), NEW s \in Session, NEW id \in Id,
         NEW size \in 0..MaxBytes, NEW digest \in Digest, Start(s, id, size, digest)
  PROVE  \A t \in Session : Limited(t)'
<1>0. TypeOK /\ TypeOK' /\ Expired(s) \in SUBSET Files(s) /\ used \in Nat /\ 0 \notin File
  <2>1. TypeOK /\ TypeOK'
    BY DEF Inv
  <2>2. used \in Nat /\ 0 \notin File
    BY <2>1, Limits DEF TypeOK, File
  <2>. QED  BY <2>1, <2>2, SweepFacts
<1>1. PICK f : f = used + 1
  OBVIOUS
<1>2. PICK P : P = {i \in Id : Swept(s)[i] # 0}
  OBVIOUS
<1>3. f \in File /\ f > used /\ WithinQuota(Swept(s), size) /\ table' = [table EXCEPT ![s] = Swept(s)]
      /\ at[s] = "idle"
  BY <1>0, <1>1 DEF Start, MaySpeak
<1>4. Untouched(f) /\ \A t \in Session : Busy(t) => message[t].file # f
  BY <1>3 DEF Inv, Lives, Unused
<1>5. /\ table'[s] = Swept(s)
      /\ \A i \in P : Swept(s)[i] = table[s][i] /\ Swept(s)[i] \in File \ (Expired(s) \cup {f})
  BY <1>0, <1>2, <1>3, <1>4, SweepFacts DEF TypeOK, Untouched, Unlisted
<1>6. CASE meta' = Records(s) /\ UNCHANGED <<message, at>>
  <2>1. Drops(s, Expired(s))
    <3>1. \A g \in File \ Expired(s) : meta'[g] = meta[g]
      BY <1>0, <1>6, SweepFacts
    <3>2. \A t \in Session : t # s => table'[t] = table[t] /\ at'[t] = at[t] /\ message'[t] = message[t]
      BY <1>0, <1>3, <1>6 DEF TypeOK
    <3>. QED  BY <1>0, <1>2, <1>5, <3>1, <3>2, OthersApart DEF Drops
  <2>2. \A t \in Session : Loose(t)
    BY <1>3, <1>6, <2>1, DropsLoose
  <2>. QED  BY <1>0, <2>2, LooseLimited
<1>7. ASSUME /\ meta' = [Records(s) EXCEPT ![f] =
                  [declared |-> size, digest |-> digest, received |-> 0, next |-> 0]]
             /\ message' = [message EXCEPT ![s] =
                  [kind |-> "start", id |-> id, file |-> f, seq |-> 0, data |-> <<>>]]
             /\ ReaderAt(s, "open")
      PROVE  \A t \in Session : Limited(t)'
  <2>1. /\ meta'[f].declared = size /\ message'[s].file = f /\ at'[s] = "open"
        /\ \A t \in Session : t # s => message'[t] = message[t] /\ at'[t] = at[t]
        /\ \A g \in File \ (Expired(s) \cup {f}) : meta'[g] = meta[g]
    <3>1. meta'[f].declared = size
      BY <1>0, <1>3, <1>7, SweepFacts
    <3>2. \A g \in File \ (Expired(s) \cup {f}) : meta'[g] = meta[g]
      BY <1>0, <1>3, <1>7, SweepFacts
    <3>. QED  BY <1>0, <1>7, <3>1, <3>2 DEF TypeOK, ReaderAt
  <2>2. Drops(s, Expired(s) \cup {f})
    <3>1. \A t \in Session : t # s =>
            /\ \A i \in Id : table[t][i] \notin Expired(s) \cup {f}
            /\ at[t] = "open" => message[t].file \notin Expired(s) \cup {f}
      BY <1>0, <1>4, OthersApart DEF Untouched, Unlisted, Busy
    <3>2. \A t \in Session : t # s => table'[t] = table[t]
      BY <1>0, <1>3 DEF TypeOK
    <3>. QED  BY <1>2, <1>5, <2>1, <3>1, <3>2 DEF Drops
  <2>3. \A t \in Session : t # s => Limited(t)'
    <3>1. \A t \in Session : t # s => Loose(t)
      BY <2>2, DropsLoose
    <3>. QED  BY <1>0, <3>1, LooseLimited
  <2>4. Limited(s)'
    <3>1. PICK v : v = Sizes(s)'
      OBVIOUS
    <3>2. PICK w : w = [i \in Id |-> meta[Swept(s)[i]].declared]
      OBVIOUS
    <3>3. Open(s)' = P
      BY <1>2, <1>5 DEF Open
    <3>4. IsFiniteSet(P) /\ Cardinality(P) \in Nat
      <4>1. P \subseteq Open(s) /\ IsFiniteSet(Open(s))
        BY <1>0, <1>2, SweepFacts DEF Open, Limited
      <4>. QED  BY <4>1, FS_Subset, FS_CardinalityType
    <3>5. \A i \in P : v[i] = w[i]
      BY <1>2, <1>5, <2>1, <3>1, <3>2 DEF Sizes
    <3>6. Total(P, v) = Total(P, w)
      BY <3>4, <3>5, TotalOfEqual
    <3>7. Declared(Swept(s)) = Total(P, w)
      BY <1>2, <3>2, <3>4, DeclaredIsTotal
    <3>8. Cardinality(P) < MaxTransfers /\ Total(P, w) + size <= MaxBytes
      BY <1>2, <1>3, <3>7 DEF WithinQuota
    <3>9. Accepted(s)' = 1 /\ AcceptedSize(s)' = size
      BY <2>1 DEF Accepted, AcceptedSize
    <3>10. Cardinality(P) + 1 <= MaxTransfers
      BY <3>4, <3>8, Limits
    <3>. QED  BY <3>1, <3>3, <3>4, <3>6, <3>8, <3>9, <3>10 DEF Limited
  <2>. QED  BY <2>3, <2>4
<1>. QED  BY <1>1, <1>6, <1>7 DEF Start

\* When the work file is made, what was accepted becomes what is open.
LEMMA OpenPartLimited ==
  ASSUME Inv, Inv', \A t \in Session : Limited(t), NEW s \in Session, OpenPart(s)
  PROVE  \A t \in Session : Limited(t)'
<1>0. TypeOK /\ TypeOK'
  BY DEF Inv
<1>1. PICK m : m = message[s]
  OBVIOUS
<1>2. /\ at[s] = "open" /\ m.id \in Id /\ m.file \in File /\ table[s][m.id] = 0
      /\ table' = [table EXCEPT ![s][m.id] = m.file] /\ meta' = meta /\ message' = message
      /\ at' = [at EXCEPT ![s] = "forward"]
  BY <1>1 DEF OpenPart, ReaderAt, Inv, Opening
<1>3. \A t \in Session : t # s => Limited(t)'
  <2>1. \A t \in Session : t # s => Loose(t)
    BY <1>0, <1>2 DEF Loose, TypeOK
  <2>. QED  BY <1>0, <2>1, LooseLimited
<1>4. Limited(s)'
  <2>1. PICK O : O = Open(s)
    OBVIOUS
  <2>2. PICK w : w = Sizes(s)
    OBVIOUS
  <2>3. PICK v : v = Sizes(s)'
    OBVIOUS
  <2>4. PICK k : k = m.id
    OBVIOUS
  <2>5. /\ table'[s][k] = m.file /\ m.file # 0
        /\ \A i \in Id : i # k => table'[s][i] = table[s][i]
    <3>1. table[s] \in [Id -> 0..MaxFiles]
      BY <1>0 DEF TypeOK
    <3>. QED  BY <1>0, <1>2, <2>4, <3>1, Limits DEF TypeOK, File
  <2>6. Open(s)' = O \cup {k} /\ k \notin O /\ k \in Id /\ IsFiniteSet(O) /\ O \subseteq Id
    BY <1>2, <2>1, <2>4, <2>5 DEF Open, Limited
  <2>7. /\ IsFiniteSet(O \cup {k}) /\ Cardinality(O \cup {k}) = Cardinality(O) + 1
        /\ Cardinality(O) \in Nat
    BY <2>6, FS_AddElement, FS_CardinalityType
  <2>8. (\A i \in O : v[i] = w[i]) /\ v[k] = meta[m.file].declared
    BY <1>2, <2>1, <2>2, <2>3, <2>5, <2>6 DEF Sizes
  <2>9. \A i \in O \cup {k} : v[i] \in Nat
    <3>1. \A i \in O : w[i] \in Nat
      BY <1>0, <2>1, <2>2, <2>6, SizesAreNumbers
    <3>2. meta[m.file].declared \in Nat
      BY <1>0, <1>2, Limits DEF TypeOK, Meta
    <3>. QED  BY <2>8, <3>1, <3>2
  <2>10. (O \cup {k}) \ {k} = O
    BY <2>6
  <2>11. Total(O \cup {k}, v) = v[k] + Total(O, v)
    BY <2>7, <2>9, <2>10, TotalWithout
  <2>12. Total(O, v) = Total(O, w) /\ Total(O, w) \in Nat
    <3>1. Total(O, v) = Total(O, w)
      BY <2>6, <2>8, TotalOfEqual
    <3>2. Total(O, v) \in Nat
      BY <2>6, <2>9, TotalType
    <3>. QED  BY <3>1, <3>2
  <2>13. Cardinality(O) + 1 <= MaxTransfers /\ Total(O, w) + v[k] <= MaxBytes
    <3>1. Accepted(s) = 1 /\ AcceptedSize(s) = v[k]
      BY <1>1, <1>2, <2>8 DEF Accepted, AcceptedSize
    <3>. QED  BY <2>1, <2>2, <3>1 DEF Limited
  <2>14. Accepted(s)' = 0 /\ AcceptedSize(s)' = 0
    BY <1>0, <1>2 DEF Accepted, AcceptedSize, TypeOK
  <2>15. v[k] \in Nat
    BY <2>9
  <2>16. Cardinality(O \cup {k}) + 0 <= MaxTransfers
    BY <2>7, <2>13
  <2>17. Total(O \cup {k}, v) + 0 <= MaxBytes
    BY <2>11, <2>12, <2>13, <2>15
  <2>. QED  BY <2>3, <2>6, <2>7, <2>14, <2>16, <2>17 DEF Limited
<1>. QED  BY <1>3, <1>4

\* No other step opens a transfer, or makes more of one.
LEMMA OtherStepsLoose ==
  ASSUME Inv, NEW s \in Session,
         \/ Refuse(s) \/ Leave(s) \/ OpenFails(s) \/ Forward(s) \/ ForwardFails(s) \/ Enter(s)
         \/ \E id \in Id, content \in Content : Complete(s, id, content)
         \/ \E id \in Id : CompleteFails(s, id)
         \/ \E id \in Id, seq \in 0..MaxSeq, data \in Upto(ChunkBytes) :
              \/ Chunk(s, id, seq, data)
              \/ ChunkWriteFails(s, id, seq, data)
              \/ ChunkRateLimited(s, id, seq, data)
  PROVE  \A t \in Session : Loose(t)
<1>0. /\ TypeOK /\ Expired(s) \in SUBSET Files(s) /\ Files(s) \subseteq File
      /\ Swept(s) = Without(s, Expired(s))
  BY SweepFacts, WithoutTyped DEF Inv
<1>1. ASSUME NEW F \in SUBSET Files(s), at[s] = "idle",
             table' = [table EXCEPT ![s] = Without(s, F)],
             \A g \in File \ F : meta'[g].declared = meta[g].declared,
             NEW to \in {"idle", "out", "forward"}, at' = [at EXCEPT ![s] = to],
             \A t \in Session : t # s => message'[t] = message[t]
      PROVE  \A t \in Session : Loose(t)
  <2>1. /\ \A t \in Session : t # s => table'[t] = table[t] /\ at'[t] = at[t]
        /\ \A id \in Id : table'[s][id] = IF table[s][id] \in F THEN 0 ELSE table[s][id]
        /\ at'[s] = to
    <3>1. table' = [table EXCEPT ![s] = Without(s, F)] /\ at' = [at EXCEPT ![s] = to]
      BY <1>1
    <3>2. \A id \in Id : Without(s, F)[id] = IF table[s][id] \in F THEN 0 ELSE table[s][id]
      BY <1>0, WithoutTyped
    <3>. QED  BY <1>0, <3>1, <3>2 DEF TypeOK
  <2>2. Drops(s, F)
    BY <1>1, <2>1, OthersApart DEF Drops
  <2>. QED  BY <1>1, <2>1, <2>2, DropsLoose
<1>2. ASSUME NEW id \in Id, Swept(s)[id] # 0
      PROVE  /\ Expired(s) \cup {Swept(s)[id]} \in SUBSET Files(s)
             /\ [Swept(s) EXCEPT ![id] = 0] = Without(s, Expired(s) \cup {Swept(s)[id]})
             /\ Swept(s)[id] \in File \ Expired(s)
  <2>1. Swept(s)[id] = table[s][id] /\ table[s][id] \in Files(s) /\ table[s][id] # 0
        /\ Swept(s)[id] \in File \ Expired(s)
    BY <1>0, <1>2, SweepFacts
  <2>2. \A j \in Id : j # id => table[s][j] # table[s][id]
    BY <2>1 DEF Inv, Distinct
  <2>. QED  BY <1>0, <2>1, <2>2 DEF Without
<1>3. \A g \in File \ Expired(s) : Records(s)[g] = meta[g]
  BY <1>0, SweepFacts
<1>4. at = [at EXCEPT ![s] = at[s]]
  BY <1>0 DEF TypeOK
<1>5. ASSUME NEW F \in SUBSET Files(s), Discarding(F)
      PROVE  \A g \in File \ F : meta'[g].declared = meta[g].declared
  BY <1>0, <1>5 DEF Discarding
<1>6. CASE Refuse(s)
  BY <1>0, <1>1, <1>4, <1>5, <1>6 DEF Refuse, MaySpeak
<1>7. CASE Leave(s)
  <2>1. [id \in Id |-> 0] = Without(s, Files(s))
    BY <1>0, SweepFacts DEF Without
  <2>. QED  BY <1>0, <1>1, <1>5, <1>7, <2>1 DEF Leave, MaySpeak, ReaderAt
<1>8. ASSUME NEW id \in Id, CompleteFails(s, id) PROVE \A t \in Session : Loose(t)
  BY <1>0, <1>1, <1>2, <1>4, <1>5, <1>8 DEF CompleteFails, MaySpeak
<1>9. ASSUME NEW id \in Id, NEW seq, NEW data, ChunkWriteFails(s, id, seq, data)
      PROVE  \A t \in Session : Loose(t)
  BY <1>0, <1>1, <1>2, <1>4, <1>5, <1>9 DEF ChunkWriteFails, ChunkArrives, MaySpeak
<1>10. ASSUME NEW id \in Id, NEW seq, NEW data, ChunkRateLimited(s, id, seq, data)
      PROVE  \A t \in Session : Loose(t)
  BY <1>0, <1>1, <1>4, <1>5, <1>10 DEF ChunkRateLimited, ChunkArrives, MaySpeak
<1>11. ASSUME NEW id \in Id, NEW content, Complete(s, id, content) PROVE \A t \in Session : Loose(t)
  <2>1. Swept(s)[id] # 0 /\ at[s] = "idle" /\ meta' = Records(s)
        /\ table' = [table EXCEPT ![s] = [Swept(s) EXCEPT ![id] = 0]]
        /\ at' = [at EXCEPT ![s] = "forward"] /\ \A t \in Session : t # s => message'[t] = message[t]
    BY <1>0, <1>11 DEF Complete, MaySpeak, ReaderAt, TypeOK
  <2>2. \A g \in File \ (Expired(s) \cup {Swept(s)[id]}) : meta'[g].declared = meta[g].declared
    BY <1>3, <2>1
  <2>. QED  BY <1>1, <1>2, <2>1, <2>2
<1>12. ASSUME NEW id \in Id, NEW seq, NEW data, Chunk(s, id, seq, data)
       PROVE  \A t \in Session : Loose(t)
  <2>1. PICK f : f = Swept(s)[id]
    OBVIOUS
  <2>2. /\ f # 0 /\ at[s] = "idle" /\ meta' = [Records(s) EXCEPT ![f] = Counted(meta[f], data)]
        /\ table' = [table EXCEPT ![s] = Without(s, Expired(s))]
        /\ at' = [at EXCEPT ![s] = "forward"] /\ \A t \in Session : t # s => message'[t] = message[t]
    BY <1>0, <1>12, <2>1 DEF Chunk, ChunkArrives, MaySpeak, ReaderAt, TypeOK
  <2>3. f \in File \ Expired(s) /\ meta[f] \in Meta
    BY <1>0, <1>2, <2>1, <2>2 DEF TypeOK
  <2>4. Counted(meta[f], data).declared = meta[f].declared
    BY <2>3 DEF Counted, Meta
  <2>5. \A g \in File \ Expired(s) : meta'[g].declared = meta[g].declared
    <3>1. Records(s) \in [File -> Meta]
      BY <1>0, SweepFacts
    <3>2. meta'[f].declared = meta[f].declared
      BY <2>2, <2>3, <2>4, <3>1
    <3>3. \A g \in File \ Expired(s) : g # f => meta'[g] = meta[g]
      BY <1>3, <2>2, <3>1
    <3>. QED  BY <3>2, <3>3
  <2>. QED  BY <1>0, <1>1, <2>2, <2>5
<1>13. CASE OpenFails(s)
  <2>1. PICK f : f = message[s].file
    OBVIOUS
  <2>2. /\ at[s] = "open" /\ f \in File /\ Unlisted(f) /\ meta' = [meta EXCEPT ![f] = NoMeta]
        /\ table' = table /\ at' = [at EXCEPT ![s] = "idle"]
        /\ \A t \in Session : t # s => message'[t] = message[t]
    BY <1>0, <1>13, <2>1 DEF OpenFails, ReaderAt, Inv, Opening, Untouched, TypeOK
  <2>3. \A t \in Session : t # s /\ at[t] = "open" => message[t].file # f
    BY <2>1, <2>2 DEF Inv, Apart, Busy
  <2>4. at'[s] = "idle" /\ \A t \in Session : t # s => at'[t] = at[t]
    BY <1>0, <2>2 DEF TypeOK
  <2>5. \A g \in File \ {f} : meta'[g] = meta[g]
    BY <1>0, <2>2 DEF TypeOK
  <2>6. Drops(s, {f})
    BY <2>2, <2>3, <2>4, <2>5 DEF Drops, Unlisted
  <2>. QED  BY <2>4, <2>6, DropsLoose
<1>14. CASE Forward(s) \/ ForwardFails(s)
  <2>1. /\ at' = [at EXCEPT ![s] = "idle"] /\ table' = table /\ meta' = meta
        /\ message' = [message EXCEPT ![s] = NoMessage]
    BY <1>14 DEF Forward, ForwardFails, ReaderAt, tableVars
  <2>. QED  BY <1>0, <2>1 DEF Loose, TypeOK
<1>15. CASE Enter(s)
  <2>1. at' = [at EXCEPT ![s] = "idle"] /\ table' = table /\ meta' = meta /\ message' = message
    BY <1>15 DEF Enter, ReaderAt, tableVars
  <2>. QED  BY <1>0, <2>1 DEF Loose, TypeOK
<1>. QED  BY <1>6, <1>7, <1>8, <1>9, <1>10, <1>11, <1>12, <1>13, <1>14, <1>15

\* No step of the program takes a session over its limits.
LEMMA StepLimited ==
  Inv /\ Inv' /\ (\A t \in Session : Limited(t)) /\ [Next]_vars => \A t \in Session : Limited(t)'
<1>. SUFFICES ASSUME Inv, Inv', \A t \in Session : Limited(t), [Next]_vars
              PROVE  \A t \in Session : Limited(t)'
  OBVIOUS
<1>0. TypeOK'
  BY DEF Inv
<1>1. ASSUME NEW s \in Session, SessionStep(s) PROVE \A t \in Session : Limited(t)'
  <2>1. CASE OpenPart(s)
    BY <2>1, OpenPartLimited
  <2>2. CASE \E id \in Id, size \in 0..MaxBytes, digest \in Digest : Start(s, id, size, digest)
    BY <2>2, StartLimited
  <2>3. CASE \A t \in Session : Loose(t)
    BY <1>0, <2>3, LooseLimited
  <2>. QED  BY <1>1, <2>1, <2>2, <2>3, OtherStepsLoose DEF SessionStep, MessageArrives
<1>2. CASE \E f \in File : CleanExpired(f)
  <2>1. \A t \in Session : Loose(t)
    BY <1>2 DEF CleanExpired, tableVars, Loose
  <2>. QED  BY <1>0, <2>1, LooseLimited
<1>3. CASE Tick
  <2>1. \A t \in Session : Loose(t)
    BY <1>3 DEF Tick, Loose
  <2>. QED  BY <1>0, <2>1, LooseLimited
<1>4. CASE Crash
  <2>1. \A t \in Session : Loose(t)
    BY <1>4 DEF Crash, Loose
  <2>. QED  BY <1>0, <2>1, LooseLimited
<1>5. CASE UNCHANGED vars
  <2>1. \A t \in Session : Loose(t)
    BY <1>5 DEF vars, tableVars, Loose
  <2>. QED  BY <1>0, <2>1, LooseLimited
<1>. QED  BY <1>1, <1>2, <1>3, <1>4, <1>5 DEF Next

\* Nothing is open at first.
LEMMA InitLimited == Init => \A t \in Session : Limited(t)
<1>. SUFFICES ASSUME Init, NEW t \in Session PROVE Limited(t)
  OBVIOUS
<1>1. Open(t) = {} /\ at[t] = "out"
  BY DEF Init, Open
<1>2. Total({}, Sizes(t)) = 0 /\ Cardinality({}) = 0 /\ IsFiniteSet({})
  BY FS_EmptySet, TotalStep
<1>. QED  BY <1>1, <1>2, Limits DEF Limited, Accepted, AcceptedSize

-----------------------------------------------------------------------------
(* Theorems                                                                 *)

\* The invariant holds in every reachable state.
THEOREM IntakeInvariant == Spec => []Inv
<1>1. Init => Inv
  BY InitInv
<1>2. Inv /\ [Next]_vars => Inv'
  BY StepInv
<1>. QED  BY <1>1, <1>2, PTL DEF Spec

\* Types, and the upload budget within its limit (consumeUploadBudget).
THEOREM IntakeTypes == Spec => []TypeOK
<1>1. Inv => TypeOK
  BY DEF Inv
<1>. QED  BY <1>1, IntakeInvariant, PTL

\* Other clients see a transfer's start, its chunks in order and without a gap, and a
\* complete only for what the server has stored (processMessage, handleChunkTransfer*).
THEOREM TransfersAreDelivered == Spec => []DeliveredWhole
<1>1. Inv => DeliveredWhole
  BY DEF Inv, DeliveredWhole, Lives, Heard, InOrder, Rising
<1>. QED  BY <1>1, IntakeInvariant, PTL

\* A stored file is what the other clients were sent, or the beginning of it if the disk
\* lost the rest and no digest was declared (handleChunkTransferComplete).
THEOREM FilesAreStored == Spec => []StoredWhole
<1>1. Inv => StoredWhole
  BY DEF Inv, StoredWhole, Lives, Finished
<1>. QED  BY <1>1, IntakeInvariant, PTL

\* Transfers have work files of their own, and the server leaves no other behind
\* (discardTransfer, cleanupClientTransfers, cleanupExpiredTransfers).
THEOREM NothingIsLeaked == Spec => []NothingLeaks
<1>1. ASSUME Inv PROVE NothingLeaks
  <2>0. 0 \notin File
    BY Limits DEF File
  <2>1. \A s \in Session, id \in Id : table[s][id] # 0 => part[table[s][id]] # None
    BY <1>1, Limits DEF Inv, Going
  <2>2. \A s, t \in Session, i, j \in Id :
          table[s][i] # 0 /\ table[s][i] = table[t][j] => s = t /\ i = j
    BY <1>1 DEF Inv, Distinct
  <2>3. \A f \in File : ~Unlisted(f) => \E s \in Session : f \in Files(s)
    BY <2>0 DEF Unlisted, Files
  <2>4. \A f \in File : Tidy(f)
    BY <1>1 DEF Inv, Lives
  <2>. QED  BY <2>1, <2>2, <2>3, <2>4 DEF NothingLeaks, Tidy
<1>. QED  BY <1>1, IntakeInvariant, PTL

\* No chunk goes into a transfer whose deadline has passed (cleanupExpiredTransfers is
\* what processMessage begins with).
THEOREM ChunksAreInTime == Spec => NoLateChunk
<1>1. ASSUME Inv, [Next]_vars, NEW f \in File, part[f] # None, part'[f] \notin {None, part[f]}
      PROVE  left[f] > 0
  <2>0. TypeOK
    BY <1>1 DEF Inv
  <2>1. \A s \in Session : ~OpenPart(s)
    <3>1. ASSUME NEW s \in Session, OpenPart(s) PROVE FALSE
      <4>1. /\ message[s].file \in File /\ part[message[s].file] = None
            /\ part' = [part EXCEPT ![message[s].file] = <<>>]
        BY <1>1, <3>1 DEF OpenPart, Inv, Opening, Untouched
      <4>2. part'[f] = part[f]
        BY <1>1, <2>0, <4>1 DEF TypeOK
      <4>. QED  BY <1>1, <4>2
    <3>. QED  BY <3>1
  <2>2. ASSUME NEW s \in Session, NEW id \in Id, NEW seq, NEW data, Chunk(s, id, seq, data)
        PROVE  left[f] > 0
    <3>1. f = Swept(s)[id] /\ Swept(s)[id] # 0
      BY <1>1, <2>2 DEF Chunk, ChunkArrives
    <3>. QED  BY <2>0, <3>1, SweepFacts
  <2>3. ASSUME NEW s \in Session, SessionStep(s) PROVE left[f] > 0
    <3>1. ~Enter(s) /\ ~OpenFails(s) /\ ~Forward(s) /\ ~ForwardFails(s)
      BY <1>1 DEF Enter, OpenFails, Forward, ForwardFails, diskVars
    <3>2. ~Refuse(s) /\ ~Leave(s)
      BY <1>1 DEF Refuse, Leave, Discarding
    <3>3. \A id \in Id : \A size, digest : ~Start(s, id, size, digest)
      BY <1>1 DEF Start
    <3>4. \A id \in Id : \A content : ~Complete(s, id, content) /\ ~CompleteFails(s, id)
      BY <1>1 DEF Complete, CompleteFails, Discarding
    <3>5. \A id \in Id : \A seq, data : ~ChunkWriteFails(s, id, seq, data) /\ ~ChunkRateLimited(s, id, seq, data)
      BY <1>1 DEF ChunkWriteFails, ChunkRateLimited, Discarding
    <3>. QED  BY <2>1, <2>2, <2>3, <3>1, <3>2, <3>3, <3>4, <3>5 DEF SessionStep, MessageArrives
  <2>4. ~Tick /\ ~Crash /\ ~UNCHANGED vars /\ \A g \in File : ~CleanExpired(g)
    BY <1>1 DEF Tick, Crash, CleanExpired, vars, diskVars
  <2>. QED  BY <1>1, <2>3, <2>4 DEF Next
<1>2. Inv /\ [Next]_vars =>
        [\A f \in File : part[f] # None /\ part'[f] \notin {None, part[f]} => left[f] > 0]_vars
  BY <1>1
<1>. QED  BY <1>2, IntakeInvariant, PTL DEF Spec, NoLateChunk

\* The open transfers of a session, and what they declared, stay within its quota
\* (handleChunkTransferStart).
THEOREM QuotasHold == Spec => []QuotaHeld
<1>1. Init => \A t \in Session : Limited(t)
  BY InitLimited
<1>2. Inv /\ Inv' /\ (\A t \in Session : Limited(t)) /\ [Next]_vars => (\A t \in Session : Limited(t))'
  BY StepLimited
<1>3. ASSUME Inv, \A t \in Session : Limited(t) PROVE QuotaHeld
  <2>1. ASSUME NEW s \in Session
        PROVE  Cardinality(Open(s)) <= MaxTransfers /\ Declared(table[s]) <= MaxBytes
    <3>1. Limited(s) /\ IsFiniteSet(Open(s)) /\ TypeOK
      BY <1>3 DEF Limited, Inv
    <3>2. Declared(table[s]) = Total(Open(s), Sizes(s))
      BY <3>1, DeclaredIsTotal DEF Open, Sizes
    <3>3. Total(Open(s), Sizes(s)) \in Nat /\ Cardinality(Open(s)) \in Nat
      BY <3>1, SizesAreNumbers
    <3>4. AcceptedSize(s) \in Nat /\ Accepted(s) \in Nat
      <4>1. at[s] = "open" => message[s].file \in File
        BY <1>3 DEF Inv, Opening
      <4>. QED  BY <3>1, <4>1, Limits DEF AcceptedSize, Accepted, TypeOK, Meta
    <3>. QED  BY <3>1, <3>2, <3>3, <3>4, Limits DEF Limited
  <2>. QED  BY <2>1 DEF QuotaHeld, Open
<1>. QED  BY <1>1, <1>2, <1>3, IntakeInvariant, PTL DEF Spec

=============================================================================
