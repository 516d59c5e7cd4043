------------------------- MODULE BundleIntakeProofs -------------------------
(***************************************************************************)
(* Theorems about bundles of small files, for any number of sessions and   *)
(* bundles, any limit on a bundle's items and either retention.            *)
(***************************************************************************)
EXTENDS BundleIntake, FiniteSetTheorems, WellFoundedInduction, TLAPS

-----------------------------------------------------------------------------
(* The inductive invariant                                                  *)

Places == {"out", "idle", "write", "rename", "forward"}
Busy(s) == at[s] \in {"write", "rename", "forward"}

Typed ==
  /\ at \in [Session -> Places]
  /\ batch \in [Session -> 0..MaxBatches]
  /\ item \in [Session -> 0..MaxItems]
  /\ names \in [Batch -> Pending \cup {<<>>}]
  /\ used \in 0..MaxBatches
  /\ works \in [Batch -> SUBSET Item]
  /\ files \in [Batch -> SUBSET Entry]
  /\ swept \in [Batch -> SUBSET Item]
  /\ dirs \subseteq Batch
  /\ crashed \in BOOLEAN
  /\ told \in [Batch -> {"no", "yes", "withheld"}]

\* no two readers have a batch in common
Apart == \A s, t \in Session : Busy(s) /\ Busy(t) /\ batch[s] = batch[t] => s = t

\* the items that are on disk under either name, or were
Accounted(b) == Stored(b) \cup swept[b] \cup works[b]

\* what a reader has done of its batch
Working(s) == Busy(s) =>
  /\ batch[s] \in Batch /\ batch[s] <= used /\ told[batch[s]] = "no" /\ names[batch[s]] \in Pending
  /\ at[s] \in {"write", "rename"} => item[s] \in 1..Len(names[batch[s]])
  /\ at[s] = "write" => files[batch[s]] = {} /\ Accounted(batch[s]) = 1..(item[s] - 1)
  /\ at[s] = "rename" =>
       /\ Accounted(batch[s]) = 1..Len(names[batch[s]])
       /\ works[batch[s]] \subseteq item[s]..Len(names[batch[s]])
       /\ Stored(batch[s]) \subseteq 1..(item[s] - 1)
  /\ at[s] = "forward" =>
       Accounted(batch[s]) = 1..Len(names[batch[s]]) /\ works[batch[s]] = {}

\* an item has one file, under its name
Filed(b) ==
  /\ \A e, g \in files[b] : e.item = g.item => e = g
  /\ \A e \in files[b] : e.path.name = names[b][e.item]
Whole(b) == told[b] # "no" => Accounted(b) = 1..Len(names[b]) /\ works[b] = {}
Fresh(b) == b > used =>
  works[b] = {} /\ files[b] = {} /\ swept[b] = {} /\ b \notin dirs /\ told[b] = "no"

\* NothingHalfDone of one batch
Tidy(b) == ~crashed =>
  /\ works[b] # {} => InProgress(b)
  /\ files[b] # {} \/ b \in dirs =>
       \/ InProgress(b) \/ told[b] # "no" \/ \E s \in Session : at[s] = "forward" /\ batch[s] = b

Kept(b) == Filed(b) /\ Whole(b) /\ Fresh(b) /\ Tidy(b)

Inv ==
  /\ Typed /\ Apart
  /\ \A s \in Session : Working(s)
  /\ \A b \in Batch : Kept(b)

-----------------------------------------------------------------------------
(* Paths                                                                    *)

\* A set of numbers that is not empty has a least one.
LEMMA Least == ASSUME NEW S \in SUBSET Nat, S # {} PROVE Min(S) \in S
<1>. DEFINE R == OpToRel(<, Nat)
<1>1. IsWellFoundedOn(R, Nat)
  BY NatLessThanWellFounded
<1>2. R = {ss \in Nat \X Nat : ss[1] < ss[2]}
  BY DEF OpToRel
<1>. HIDE DEF R
<1>3. PICK x \in S : \A y \in S : ~(<<y, x>> \in R)
  BY <1>1, WFMin
<1>4. \A y \in S : ~(y < x)
  BY <1>2, <1>3
<1>5. \A y \in S : x <= y
  BY <1>4
<1>. QED  BY <1>5 DEF Min

\* A bundle has fewer files than there are suffixes, so makeFilePathUnique finds one.
LEMMA SomeSuffixIsFree ==
  ASSUME Typed, NEW b \in Batch, Filed(b), NEW name \in Name
  PROVE  \E k \in 0..MaxItems : ~TakenBy(b, [name |-> name, suffix |-> k])
<1>0. MaxItems \in Nat
  BY BundleAssumption DEF BundleAssumption
<1>. SUFFICES ASSUME \A k \in 0..MaxItems : TakenBy(b, [name |-> name, suffix |-> k])
              PROVE  FALSE
  OBVIOUS
<1>. DEFINE Holder(k) == CHOOSE e \in files[b] : e.path = [name |-> name, suffix |-> k]
            holds == [k \in 0..MaxItems |-> Holder(k).item]
<1>1. \A k \in 0..MaxItems :
        Holder(k) \in files[b] /\ Holder(k).path = [name |-> name, suffix |-> k]
  BY DEF TakenBy
<1>2. \A e \in files[b] : e.item \in Item
  BY DEF Typed, Entry
<1>3. holds \in [0..MaxItems -> Item]
  BY <1>1, <1>2
<1>4. IsFiniteSet(Item) /\ Cardinality(Item) = MaxItems
  BY <1>0, FS_Interval DEF Item
<1>5. IsFiniteSet(0..MaxItems) /\ Cardinality(0..MaxItems) = MaxItems + 1
  BY <1>0, FS_Interval
<1>6. Cardinality(Item) < Cardinality(0..MaxItems)
  BY <1>0, <1>4, <1>5
<1>7. PICK j, k \in 0..MaxItems : j # k /\ holds[j] = holds[k]
  <2>. HIDE DEF holds
  <2>. QED  BY <1>3, <1>4, <1>5, <1>6, FS_PigeonHole
<1>8. Holder(j) = Holder(k)
  BY <1>1, <1>7 DEF Filed
<1>9. [name |-> name, suffix |-> j] = [name |-> name, suffix |-> k]
  BY <1>1, <1>8
<1>. QED  BY <1>7, <1>9

\* The path an item is renamed to is one no file has.
LEMMA PathIsFree ==
  ASSUME Typed, NEW b \in Batch, Filed(b), NEW name \in Name
  PROVE  /\ UniquePath(b, name) \in Path /\ UniquePath(b, name).name = name
         /\ \A e \in files[b] : e.path # UniquePath(b, name)
<1>. DEFINE S == {k \in 0..MaxItems : ~TakenBy(b, [name |-> name, suffix |-> k])}
<1>1. S \in SUBSET Nat /\ S # {}
  BY SomeSuffixIsFree, BundleAssumption DEF BundleAssumption
<1>2. Min(S) \in S
  BY <1>1, Least
<1>3. UniquePath(b, name) = [name |-> name, suffix |-> Min(S)]
  BY DEF UniquePath
<1>4. Min(S) \in 0..MaxItems /\ ~TakenBy(b, [name |-> name, suffix |-> Min(S)])
  BY <1>2
<1>. HIDE DEF S
<1>. QED  BY <1>3, <1>4 DEF Path, TakenBy

-----------------------------------------------------------------------------
(* What a reader does to its batch, the others do not see                   *)

\* The step of s is about the batch b, which no other session deals with.
Confined(s, b) ==
  /\ \A t \in Session : t # s => at'[t] = at[t] /\ batch'[t] = batch[t] /\ item'[t] = item[t]
  /\ \A c \in Batch : c # b =>
       /\ works'[c] = works[c] /\ files'[c] = files[c] /\ swept'[c] = swept[c] /\ names'[c] = names[c]
       /\ (c \in dirs' => c \in dirs) /\ told'[c] = told[c]
  /\ crashed' = crashed /\ used' \in Nat /\ used' >= used
  /\ \A t \in Session : t # s /\ Busy(t) => batch[t] # b
  /\ (Busy(s) => batch[s] = b) /\ (Busy(s)' => batch'[s] = b)

\* what then goes on to hold
Elsewhere(s, b) ==
  /\ Apart'
  /\ \A t \in Session : t # s => Working(t)'
  /\ \A c \in Batch : c # b => Kept(c)'

\* One reader's step leaves what holds of the others and of their batches.
LEMMA ElsewhereKept ==
  ASSUME Inv, NEW s \in Session, NEW b \in Batch, Confined(s, b)
  PROVE  Elsewhere(s, b)
<1>. USE DEF Confined
<1>0. used \in Nat /\ used' \in Nat /\ used' >= used /\ Batch \subseteq Nat
  BY BundleAssumption DEF BundleAssumption, Inv, Typed, Batch
<1>1. \A t \in Session : t # s => (Busy(t)' <=> Busy(t))
  BY DEF Busy
<1>2. Apart'
  BY <1>1 DEF Inv, Apart
<1>3. \A c \in Batch : c # b => Stored(c)' = Stored(c) /\ Accounted(c)' = Accounted(c)
  BY DEF Stored, Accounted
<1>4. ASSUME NEW t \in Session, t # s PROVE Working(t)'
  <2>. SUFFICES ASSUME Busy(t)' PROVE Working(t)'
    BY DEF Working
  <2>1. Busy(t) /\ Working(t)
    BY <1>1, <1>4 DEF Inv
  <2>2. batch'[t] = batch[t] /\ at'[t] = at[t] /\ item'[t] = item[t] /\ batch[t] # b
    BY <1>4, <2>1
  <2>3. PICK c : c = batch[t]
    OBVIOUS
  <2>4. c \in Batch /\ c # b /\ c <= used /\ told[c] = "no"
    BY <2>1, <2>2, <2>3 DEF Working
  <2>5. c <= used' /\ told'[c] = "no" /\ names'[c] = names[c] /\ works'[c] = works[c]
        /\ files'[c] = files[c] /\ Stored(c)' = Stored(c) /\ Accounted(c)' = Accounted(c)
    BY <1>0, <1>3, <2>4
  <2>. QED  BY <2>1, <2>2, <2>3, <2>4, <2>5 DEF Working
<1>5. ASSUME NEW c \in Batch, c # b PROVE Kept(c)'
  <2>0. Kept(c)
    BY DEF Inv
  <2>1. Filed(c)'
    BY <1>5, <2>0 DEF Kept, Filed
  <2>2. Whole(c)'
    BY <1>3, <1>5, <2>0 DEF Kept, Whole
  <2>3. Fresh(c)'
    BY <1>0, <1>5, <2>0 DEF Kept, Fresh
  <2>4. InProgress(c) => InProgress(c)'
    BY <1>5 DEF InProgress, Busy
  <2>5. (\E t \in Session : at[t] = "forward" /\ batch[t] = c) =>
          (\E t \in Session : at'[t] = "forward" /\ batch'[t] = c)
    BY <1>5 DEF Busy
  <2>6. Tidy(c)'
    BY <1>5, <2>0, <2>4, <2>5 DEF Kept, Tidy
  <2>. QED  BY <2>1, <2>2, <2>3, <2>6 DEF Kept
<1>. QED  BY <1>2, <1>4, <1>5 DEF Elsewhere

\* A bundle has between one item and MaxItems, and each has a name.
LEMMA PendingFacts ==
  ASSUME NEW pending \in Pending
  PROVE  /\ Len(pending) \in Nat /\ Len(pending) <= MaxItems /\ Len(pending) >= 1
         /\ MaxItems \in Nat /\ 1 \in 0..MaxItems /\ 1 \in 1..Len(pending)
         /\ \A j \in 1..Len(pending) : pending[j] \in Name
<1>1. PICK n \in Item : pending \in [1..n -> Name]
  BY DEF Pending
<1>2. n \in Nat /\ n >= 1 /\ n <= MaxItems /\ MaxItems \in Nat
  BY BundleAssumption DEF BundleAssumption, Item
<1>3. Len(pending) = n
  BY <1>1, <1>2
<1>. QED  BY <1>1, <1>2, <1>3

\* A reader that is busy has a batch, which no other reader has.
LEMMA BusyFacts ==
  ASSUME Inv, NEW s \in Session, Busy(s), NEW b, b = batch[s]
  PROVE  /\ Typed /\ b \in Batch /\ b <= used /\ told[b] = "no" /\ names[b] \in Pending
         /\ Len(names[b]) \in Nat /\ Len(names[b]) <= MaxItems /\ Len(names[b]) >= 1
         /\ item[s] \in 0..MaxItems /\ used \in Nat /\ b \in Nat
         /\ Kept(b) /\ Working(s)
         /\ \A t \in Session : t # s /\ Busy(t) => batch[t] # b
<1>1. Typed /\ Working(s)
  BY DEF Inv
<1>2. b \in Batch /\ b <= used /\ told[b] = "no" /\ names[b] \in Pending
  BY <1>1 DEF Working
<1>. QED
  BY <1>1, <1>2, PendingFacts, BundleAssumption
  DEF BundleAssumption, Inv, Apart, Batch, Typed

-----------------------------------------------------------------------------
(* The steps of a reader                                                    *)

\* A bundle is accepted, and its batch begins.
LEMMA AcceptInv ==
  ASSUME Inv, NEW s \in Session, NEW pending \in Pending, NEW bytes \in Bytes,
         AcceptBundle(s, pending, bytes)
  PROVE  Inv'
<1>b. PICK b : b = used + 1
  OBVIOUS
<1>0. /\ Typed /\ b \in Batch /\ used \in Nat /\ b \in Nat /\ b > used /\ b \in 0..MaxBatches
      /\ at[s] = "idle" /\ ~Busy(s)
  <2>1. Typed /\ b \in Batch /\ at[s] = "idle"
    BY <1>b DEF AcceptBundle, Inv
  <2>. QED  BY <1>b, <2>1, BundleAssumption DEF BundleAssumption, Typed, Batch, Busy
<1>1. /\ works[b] = {} /\ files[b] = {} /\ swept[b] = {} /\ b \notin dirs /\ told[b] = "no"
      /\ \A t \in Session : Busy(t) => batch[t] # b
  <2>1. \A t \in Session : Busy(t) => batch[t] \in Nat /\ batch[t] <= used
    BY <1>0 DEF Inv, Working, Batch
  <2>. QED  BY <1>0, <2>1 DEF Inv, Kept, Fresh
<1>2. /\ used' = b /\ names' = [names EXCEPT ![b] = pending]
      /\ UNCHANGED <<works, files, swept, crashed, told>>
  BY <1>b DEF AcceptBundle
<1>3. names' \in [Batch -> Pending \cup {<<>>}] /\ names'[b] = pending
      /\ \A c \in Batch : c # b => names'[c] = names[c]
  BY <1>0, <1>2 DEF Typed
<1>4. Filed(b)' /\ Whole(b)' /\ Fresh(b)'
  BY <1>0, <1>1, <1>2 DEF Filed, Whole, Fresh
<1>5. CASE UNCHANGED <<dirs, batch, item, at>>
  <2>1. Typed'
    BY <1>0, <1>2, <1>3, <1>5 DEF Typed
  <2>2. Elsewhere(s, b)
    <3>1. Confined(s, b)
      BY <1>0, <1>1, <1>2, <1>3, <1>5 DEF Confined, Busy
    <3>. QED  BY <1>0, <3>1, ElsewhereKept
  <2>3. Working(s)' /\ Tidy(b)'
    BY <1>0, <1>1, <1>2, <1>5 DEF Working, Busy, Tidy
  <2>. QED  BY <1>4, <2>1, <2>2, <2>3 DEF Inv, Elsewhere, Kept
<1>6. CASE /\ dirs' = dirs \cup {b} /\ batch' = [batch EXCEPT ![s] = b]
           /\ item' = [item EXCEPT ![s] = 1] /\ ReaderAt(s, "write")
  <2>1. MaxItems \in Nat /\ 1 \in 1..Len(pending) /\ 1 \in 0..MaxItems
    BY PendingFacts
  <2>2. /\ at'[s] = "write" /\ batch'[s] = b /\ item'[s] = 1
        /\ \A t \in Session : t # s => at'[t] = at[t] /\ batch'[t] = batch[t] /\ item'[t] = item[t]
    BY <1>0, <1>6 DEF Typed, ReaderAt
  <2>3. Typed'
    <3>1. /\ at' \in [Session -> Places] /\ batch' \in [Session -> 0..MaxBatches]
          /\ item' \in [Session -> 0..MaxItems] /\ dirs' \subseteq Batch
      BY <1>0, <1>6, <2>1 DEF Typed, ReaderAt, Places
    <3>. QED  BY <1>0, <1>2, <1>3, <3>1 DEF Typed
  <2>4. Elsewhere(s, b)
    <3>1. Confined(s, b)
      BY <1>0, <1>1, <1>2, <1>3, <1>6, <2>2 DEF Confined
    <3>. QED  BY <1>0, <3>1, ElsewhereKept
  <2>5. Stored(b)' = {} /\ Accounted(b)' = {}
    BY <1>1, <1>2 DEF Stored, Accounted
  <2>6. Working(s)'
    BY <1>0, <1>1, <1>2, <1>3, <2>1, <2>2, <2>5 DEF Working, Busy
  <2>7. InProgress(b)'
    BY <2>2 DEF InProgress
  <2>8. Tidy(b)'
    BY <2>7 DEF Tidy
  <2>. QED  BY <1>4, <2>3, <2>4, <2>6, <2>8 DEF Inv, Elsewhere, Kept
<1>. QED  BY <1>5, <1>6, <1>b DEF AcceptBundle

\* An item is written.
LEMMA WriteItemInv ==
  ASSUME Inv, NEW s \in Session, WriteItem(s)
  PROVE  Inv'
<1>b. PICK b, i : b = batch[s] /\ i = item[s]
  OBVIOUS
<1>0. at[s] = "write" /\ Busy(s)
  BY DEF WriteItem, Busy
<1>1. /\ Typed /\ b \in Batch /\ b <= used /\ told[b] = "no" /\ names[b] \in Pending
      /\ Len(names[b]) \in Nat /\ Len(names[b]) <= MaxItems /\ used \in Nat /\ b \in Nat /\ Kept(b)
      /\ \A t \in Session : t # s /\ Busy(t) => batch[t] # b
  BY <1>b, <1>0, BusyFacts
<1>2. i \in 1..Len(names[b]) /\ files[b] = {} /\ Accounted(b) = 1..(i - 1)
  BY <1>b, <1>0 DEF Inv, Working
<1>3. /\ works' = [works EXCEPT ![b] = works[b] \cup {i}]
      /\ UNCHANGED <<batch, names, used, files, swept, dirs, crashed, told>>
  BY <1>b DEF WriteItem
<1>4. i \in Item /\ 1 \in 0..MaxItems
  BY <1>1, <1>2, BundleAssumption DEF Item, BundleAssumption
<1>5. works' \in [Batch -> SUBSET Item] /\ works'[b] = works[b] \cup {i}
      /\ \A c \in Batch : c # b => works'[c] = works[c]
  BY <1>1, <1>3, <1>4 DEF Typed
<1>6. Stored(b)' = {} /\ Accounted(b)' = 1..i /\ works'[b] \subseteq 1..i
  <2>1. Accounted(b)' = Accounted(b) \cup {i} /\ Stored(b)' = {}
    BY <1>2, <1>3, <1>5 DEF Accounted, Stored
  <2>2. (1..(i - 1)) \cup {i} = 1..i
    BY <1>1, <1>2
  <2>3. works'[b] \subseteq Accounted(b)'
    BY DEF Accounted
  <2>. QED  BY <1>2, <2>1, <2>2, <2>3
<1>7. Filed(b)' /\ Whole(b)' /\ Fresh(b)'
  BY <1>1, <1>2, <1>3 DEF Filed, Whole, Fresh
<1>8. \/ i < Len(names[b]) /\ item' = [item EXCEPT ![s] = i + 1] /\ at' = at
      \/ i = Len(names[b]) /\ item' = [item EXCEPT ![s] = 1] /\ at' = [at EXCEPT ![s] = "rename"]
  BY <1>b, <1>1, <1>2 DEF WriteItem, ReaderAt
<1>9. /\ at' \in [Session -> Places] /\ item' \in [Session -> 0..MaxItems]
      /\ \A t \in Session : t # s => at'[t] = at[t] /\ item'[t] = item[t]
      /\ \/ i < Len(names[b]) /\ item'[s] = i + 1 /\ at'[s] = "write"
         \/ i = Len(names[b]) /\ item'[s] = 1 /\ at'[s] = "rename"
  <2>1. i + 1 \in 0..MaxItems \/ i = Len(names[b])
    BY <1>1, <1>2, BundleAssumption DEF BundleAssumption
  <2>2. /\ at \in [Session -> Places] /\ item \in [Session -> 0..MaxItems] /\ at[s] = "write"
        /\ "rename" \in Places
    BY <1>0, <1>1 DEF Typed, Places
  <2>3. CASE i < Len(names[b]) /\ item' = [item EXCEPT ![s] = i + 1] /\ at' = at
    BY <1>1, <1>2, <2>1, <2>2, <2>3
  <2>4. CASE i = Len(names[b]) /\ item' = [item EXCEPT ![s] = 1]
             /\ at' = [at EXCEPT ![s] = "rename"]
    BY <1>4, <2>2, <2>4
  <2>. QED  BY <1>8, <2>3, <2>4
<1>10. Typed'
  BY <1>1, <1>3, <1>5, <1>9 DEF Typed
<1>11. Elsewhere(s, b)
  <2>1. Confined(s, b)
    BY <1>1, <1>3, <1>5, <1>9, <1>b DEF Confined
  <2>. QED  BY <1>1, <2>1, ElsewhereKept
<1>12. Working(s)'
  <2>1. batch'[s] = b /\ names'[b] = names[b] /\ files'[b] = {}
    BY <1>b, <1>2, <1>3
  <2>2. CASE i < Len(names[b]) /\ item'[s] = i + 1 /\ at'[s] = "write"
    <3>1. i + 1 \in 1..Len(names[b]) /\ (i + 1) - 1 = i
      BY <1>1, <1>2, <2>2
    <3>. QED  BY <1>1, <1>3, <1>6, <2>1, <2>2, <3>1 DEF Working
  <2>3. CASE i = Len(names[b]) /\ item'[s] = 1 /\ at'[s] = "rename"
    <3>1. 1 \in 1..Len(names[b])
      BY <1>1, <1>2
    <3>. QED  BY <1>1, <1>3, <1>6, <2>1, <2>3, <3>1 DEF Working
  <2>. QED  BY <1>9, <2>2, <2>3
<1>13. Tidy(b)'
  <2>1. InProgress(b)'
    BY <1>b, <1>3, <1>9 DEF InProgress
  <2>. QED  BY <2>1 DEF Tidy
<1>. QED  BY <1>7, <1>10, <1>11, <1>12, <1>13 DEF Inv, Elsewhere, Kept

\* An item gets its name, and no other item's file is lost for it.
LEMMA RenameItemInv ==
  ASSUME Inv, NEW s \in Session, RenameItem(s)
  PROVE  Inv'
<1>b. PICK b, i, path : b = batch[s] /\ i = item[s] /\ path = UniquePath(b, names[b][i])
  OBVIOUS
<1>0. at[s] = "rename" /\ Busy(s)
  BY DEF RenameItem, Busy
<1>1. /\ Typed /\ b \in Batch /\ b <= used /\ told[b] = "no" /\ names[b] \in Pending
      /\ Len(names[b]) \in Nat /\ Len(names[b]) <= MaxItems /\ used \in Nat /\ b \in Nat /\ Kept(b)
      /\ \A t \in Session : t # s /\ Busy(t) => batch[t] # b
  BY <1>b, <1>0, BusyFacts
<1>2. /\ i \in 1..Len(names[b]) /\ Accounted(b) = 1..Len(names[b])
      /\ works[b] \subseteq i..Len(names[b]) /\ Stored(b) \subseteq 1..(i - 1)
  BY <1>b, <1>0 DEF Inv, Working
<1>3. names[b][i] \in Name
  BY <1>1, <1>2, PendingFacts
<1>4. path \in Path /\ path.name = names[b][i] /\ \A e \in files[b] : e.path # path
  BY <1>b, <1>1, <1>3, PathIsFree DEF Kept
<1>. DEFINE entry == [path |-> path, item |-> i]
<1>5. /\ i \in works[b] /\ works' = [works EXCEPT ![b] = works[b] \ {i}]
      /\ files' = [files EXCEPT ![b] = {e \in files[b] : e.path # path} \cup {entry}]
      /\ UNCHANGED <<batch, names, used, swept, dirs, crashed, told>>
  BY <1>b DEF RenameItem
<1>6. i \in Item /\ 0 \in 0..MaxItems /\ entry \in Entry
  <2>1. i \in Item /\ 0 \in 0..MaxItems
    BY <1>1, <1>2, BundleAssumption DEF Item, BundleAssumption
  <2>. QED  BY <1>4, <2>1 DEF Entry
<1>7. /\ works' \in [Batch -> SUBSET Item] /\ works'[b] = works[b] \ {i}
      /\ files' \in [Batch -> SUBSET Entry] /\ files'[b] = files[b] \cup {entry}
      /\ \A c \in Batch : c # b => works'[c] = works[c] /\ files'[c] = files[c]
  <2>1. {e \in files[b] : e.path # path} = files[b] /\ files[b] \subseteq Entry
    BY <1>1, <1>4 DEF Typed
  <2>. HIDE DEF entry
  <2>2. files' = [files EXCEPT ![b] = files[b] \cup {entry}]
    BY <1>5, <2>1
  <2>. QED  BY <1>1, <1>5, <1>6, <2>1, <2>2 DEF Typed
<1>8. entry.item = i /\ entry.path.name = names[b][i]
  BY <1>4
<1>. HIDE DEF entry
<1>9. Stored(b)' = Stored(b) \cup {i}
  BY <1>7, <1>8 DEF Stored
<1>10. Accounted(b)' = 1..Len(names[b])
  <2>1. Accounted(b)' = Accounted(b)
    BY <1>5, <1>7, <1>9 DEF Accounted
  <2>. QED  BY <1>2, <2>1
<1>11. Filed(b)' /\ Whole(b)' /\ Fresh(b)'
  <2>1. ASSUME NEW e \in files[b] PROVE e.item # i
    <3>1. e.item \in 1..(i - 1)
      BY <1>2 DEF Stored
    <3>. QED  BY <1>1, <1>2, <3>1
  <2>2. Filed(b)'
    BY <1>1, <1>5, <1>7, <1>8, <2>1 DEF Kept, Filed
  <2>. QED  BY <1>1, <1>5, <2>2 DEF Whole, Fresh
<1>12. \/ i < Len(names[b]) /\ item' = [item EXCEPT ![s] = i + 1] /\ at' = at
       \/ i = Len(names[b]) /\ item' = [item EXCEPT ![s] = 0] /\ at' = [at EXCEPT ![s] = "forward"]
  BY <1>b, <1>1, <1>2 DEF RenameItem, ReaderAt
<1>13. /\ at' \in [Session -> Places] /\ item' \in [Session -> 0..MaxItems]
       /\ \A t \in Session : t # s => at'[t] = at[t] /\ item'[t] = item[t]
       /\ \/ i < Len(names[b]) /\ item'[s] = i + 1 /\ at'[s] = "rename"
          \/ i = Len(names[b]) /\ at'[s] = "forward"
  <2>1. i + 1 \in 0..MaxItems \/ i = Len(names[b])
    BY <1>1, <1>2, BundleAssumption DEF BundleAssumption
  <2>2. /\ at \in [Session -> Places] /\ item \in [Session -> 0..MaxItems] /\ at[s] = "rename"
        /\ "forward" \in Places
    BY <1>0, <1>1 DEF Typed, Places
  <2>3. CASE i < Len(names[b]) /\ item' = [item EXCEPT ![s] = i + 1] /\ at' = at
    BY <1>1, <1>2, <2>1, <2>2, <2>3
  <2>4. CASE i = Len(names[b]) /\ item' = [item EXCEPT ![s] = 0]
             /\ at' = [at EXCEPT ![s] = "forward"]
    BY <1>6, <2>2, <2>4
  <2>. QED  BY <1>12, <2>3, <2>4
<1>14. Typed'
  BY <1>1, <1>5, <1>7, <1>13 DEF Typed
<1>15. Elsewhere(s, b)
  <2>1. Confined(s, b)
    BY <1>1, <1>5, <1>7, <1>13, <1>b DEF Confined
  <2>. QED  BY <1>1, <2>1, ElsewhereKept
<1>16. Working(s)'
  <2>1. batch'[s] = b /\ names'[b] = names[b]
    BY <1>b, <1>5
  <2>2. CASE i < Len(names[b]) /\ item'[s] = i + 1 /\ at'[s] = "rename"
    <3>1. i + 1 \in 1..Len(names[b]) /\ (i + 1) - 1 = i
      BY <1>1, <1>2, <2>2
    <3>2. works'[b] \subseteq (i + 1)..Len(names[b]) /\ Stored(b)' \subseteq 1..i
      BY <1>1, <1>2, <1>7, <1>9
    <3>. QED  BY <1>1, <1>5, <1>10, <2>1, <2>2, <3>1, <3>2 DEF Working
  <2>3. CASE i = Len(names[b]) /\ at'[s] = "forward"
    <3>1. works'[b] = {}
      BY <1>1, <1>2, <1>7, <2>3
    <3>. QED  BY <1>1, <1>5, <1>10, <2>1, <2>3, <3>1 DEF Working
  <2>. QED  BY <1>13, <2>2, <2>3
<1>17. Tidy(b)'
  <2>1. at'[s] = "rename" => InProgress(b)'
    BY <1>b, <1>5 DEF InProgress
  <2>2. at'[s] = "forward" =>
          works'[b] = {} /\ \E t \in Session : at'[t] = "forward" /\ batch'[t] = b
    BY <1>b, <1>1, <1>2, <1>5, <1>7, <1>13
  <2>. QED  BY <1>13, <2>1, <2>2 DEF Tidy
<1>. QED  BY <1>11, <1>14, <1>15, <1>16, <1>17 DEF Inv, Elsewhere, Kept

\* An item cannot be written or renamed: nothing of the batch is left.
LEMMA BundleFailsInv ==
  ASSUME Inv, NEW s \in Session, BundleFails(s)
  PROVE  Inv'
<1>b. PICK b : b = batch[s]
  OBVIOUS
<1>0. Busy(s)
  BY DEF BundleFails, Busy
<1>1. /\ Typed /\ b \in Batch /\ b <= used /\ told[b] = "no" /\ used \in Nat /\ b \in Nat
      /\ \A t \in Session : t # s /\ Busy(t) => batch[t] # b
  BY <1>b, <1>0, BusyFacts
<1>2. /\ works' = [works EXCEPT ![b] = {}] /\ files' = [files EXCEPT ![b] = {}] /\ dirs' = dirs \ {b}
      /\ batch' = [batch EXCEPT ![s] = 0] /\ item' = [item EXCEPT ![s] = 0]
      /\ at' = [at EXCEPT ![s] = "idle"] /\ UNCHANGED <<names, used, swept, crashed, told>>
  BY <1>b DEF BundleFails, ReaderAt
<1>3. /\ works'[b] = {} /\ files'[b] = {} /\ at'[s] = "idle"
      /\ \A c \in Batch : c # b => works'[c] = works[c] /\ files'[c] = files[c]
      /\ \A t \in Session : t # s => at'[t] = at[t] /\ batch'[t] = batch[t] /\ item'[t] = item[t]
  BY <1>1, <1>2 DEF Typed
<1>4. Typed'
  <2>1. 0 \in 0..MaxItems /\ 0 \in 0..MaxBatches /\ "idle" \in Places
    BY BundleAssumption DEF BundleAssumption, Places
  <2>2. /\ works' \in [Batch -> SUBSET Item] /\ files' \in [Batch -> SUBSET Entry]
        /\ dirs' \subseteq Batch
    BY <1>1, <1>2 DEF Typed
  <2>3. /\ batch' \in [Session -> 0..MaxBatches] /\ item' \in [Session -> 0..MaxItems]
        /\ at' \in [Session -> Places]
    BY <1>1, <1>2, <2>1 DEF Typed
  <2>. QED  BY <1>1, <1>2, <2>2, <2>3 DEF Typed
<1>5. ~Busy(s)' /\ Working(s)'
  BY <1>3 DEF Busy, Working
<1>6. Elsewhere(s, b)
  <2>1. Confined(s, b)
    BY <1>1, <1>2, <1>3, <1>5, <1>b DEF Confined
  <2>. QED  BY <1>1, <2>1, ElsewhereKept
<1>7. Kept(b)'
  BY <1>1, <1>2, <1>3 DEF Kept, Filed, Whole, Fresh, Tidy
<1>. QED  BY <1>4, <1>5, <1>6, <1>7 DEF Inv, Elsewhere

\* The bundle is sent to the other clients, or its recording throws.
LEMMA ForwardInv ==
  ASSUME Inv, NEW s \in Session, Forward(s) \/ ForwardFails(s)
  PROVE  Inv'
<1>b. PICK b : b = batch[s]
  OBVIOUS
<1>0. Busy(s) /\ at[s] = "forward"
  BY DEF Forward, ForwardFails, Busy
<1>1. /\ Typed /\ b \in Batch /\ b <= used /\ told[b] = "no" /\ used \in Nat /\ b \in Nat /\ Kept(b)
      /\ \A t \in Session : t # s /\ Busy(t) => batch[t] # b
  BY <1>b, <1>0, BusyFacts
<1>2. Accounted(b) = 1..Len(names[b]) /\ works[b] = {}
  BY <1>0, <1>b DEF Inv, Working
<1>3. /\ \E how \in {"yes", "withheld"} : told' = [told EXCEPT ![b] = how]
      /\ batch' = [batch EXCEPT ![s] = 0]
      /\ at' = [at EXCEPT ![s] = "idle"]
      /\ UNCHANGED <<item, names, used, works, files, swept, dirs, crashed>>
  <2>1. CASE Forward(s)
    BY <1>b, <2>1 DEF Forward, ReaderAt, diskVars
  <2>2. CASE ForwardFails(s)
    BY <1>b, <2>2 DEF ForwardFails, ReaderAt, diskVars
  <2>. QED  BY <2>1, <2>2
<1>4. /\ at'[s] = "idle" /\ \A t \in Session : t # s => at'[t] = at[t] /\ batch'[t] = batch[t]
      /\ told'[b] # "no" /\ \A c \in Batch : c # b => told'[c] = told[c]
  BY <1>1, <1>3 DEF Typed
<1>5. Typed'
  <2>1. 0 \in 0..MaxBatches /\ "idle" \in Places
    BY BundleAssumption DEF BundleAssumption, Places
  <2>2. /\ batch' \in [Session -> 0..MaxBatches] /\ at' \in [Session -> Places]
        /\ told' \in [Batch -> {"no", "yes", "withheld"}]
    BY <1>1, <1>3, <2>1 DEF Typed
  <2>. QED  BY <1>1, <1>3, <2>2 DEF Typed
<1>6. ~Busy(s)' /\ Working(s)'
  BY <1>4 DEF Busy, Working
<1>7. Elsewhere(s, b)
  <2>1. Confined(s, b)
    BY <1>1, <1>3, <1>4, <1>6, <1>b DEF Confined
  <2>. QED  BY <1>1, <2>1, ElsewhereKept
<1>8. Accounted(b)' = Accounted(b)
  BY <1>3 DEF Accounted, Stored
<1>9. Kept(b)'
  BY <1>1, <1>2, <1>3, <1>4, <1>8 DEF Kept, Filed, Whole, Fresh, Tidy
<1>. QED  BY <1>5, <1>6, <1>7, <1>9 DEF Inv, Elsewhere

-----------------------------------------------------------------------------
(* The rest of the process                                                  *)

\* Sessions come and go, messages are refused, the clock advances.
Quiet ==
  /\ at' \in [Session -> Places]
  /\ \A s \in Session : at'[s] = at[s] \/ {at[s], at'[s]} \subseteq {"out", "idle"}
  /\ batch' = batch /\ item' = item /\ names' = names /\ used' = used /\ works' = works
  /\ files' = files /\ swept' = swept /\ dirs' = dirs /\ crashed' = crashed /\ told' = told

\* Such a step keeps the invariant.
LEMMA QuietInv == Inv /\ Quiet => Inv'
<1>. SUFFICES ASSUME Inv, Quiet PROVE Inv'
  OBVIOUS
<1>. USE DEF Quiet
<1>1. Typed'
  BY DEF Inv, Typed
<1>2. \A s \in Session : (Busy(s)' <=> Busy(s)) /\ (Busy(s) => at'[s] = at[s])
  BY DEF Busy
<1>3. Apart'
  BY <1>2 DEF Inv, Apart
<1>4. \A b \in Batch : Stored(b)' = Stored(b) /\ Accounted(b)' = Accounted(b)
  BY DEF Stored, Accounted
<1>5. ASSUME NEW s \in Session PROVE Working(s)'
  <2>1. CASE ~Busy(s)
    BY <1>2, <2>1 DEF Working
  <2>2. CASE Busy(s)
    <3>1. Working(s) /\ at'[s] = at[s]
      BY <1>2, <2>2 DEF Inv
    <3>. QED  BY <1>4, <2>2, <3>1 DEF Working
  <2>. QED  BY <2>1, <2>2
<1>6. ASSUME NEW b \in Batch PROVE Kept(b)'
  <2>1. Kept(b)
    BY DEF Inv
  <2>2. InProgress(b) => InProgress(b)'
    BY <1>2 DEF InProgress, Busy
  <2>3. \A s \in Session : at[s] = "forward" => at'[s] = "forward"
    BY <1>2 DEF Busy
  <2>4. Tidy(b)'
    BY <2>1, <2>2, <2>3 DEF Kept, Tidy
  <2>. QED  BY <1>4, <2>1, <2>4 DEF Kept, Filed, Whole, Fresh
<1>. QED  BY <1>1, <1>3, <1>5, <1>6 DEF Inv

\* The sweep takes files of the batch b, and what it takes is accounted for.
Sweeping(b) ==
  /\ at' = at /\ batch' = batch /\ item' = item /\ names' = names /\ used' = used
  /\ dirs' = dirs /\ crashed' = crashed /\ told' = told
  /\ \A c \in Batch : c # b => works'[c] = works[c] /\ files'[c] = files[c] /\ swept'[c] = swept[c]
  /\ works' \in [Batch -> SUBSET Item] /\ files' \in [Batch -> SUBSET Entry]
  /\ swept' \in [Batch -> SUBSET Item]
  /\ works'[b] \subseteq works[b] /\ files'[b] \subseteq files[b] /\ Accounted(b)' = Accounted(b)

\* It keeps the invariant, whatever the readers are at.
LEMMA SweepingInv ==
  ASSUME Inv, NEW b \in Batch, Sweeping(b)
  PROVE  Inv'
<1>. USE DEF Sweeping
<1>1. Typed' /\ Apart'
  BY DEF Inv, Typed, Apart, Busy
<1>2. \A c \in Batch : /\ Accounted(c)' = Accounted(c) /\ Stored(c)' \subseteq Stored(c)
                       /\ works'[c] \subseteq works[c] /\ files'[c] \subseteq files[c]
  BY DEF Accounted, Stored
<1>3. ASSUME NEW s \in Session PROVE Working(s)'
  <2>. SUFFICES ASSUME Busy(s) PROVE Working(s)'
    BY DEF Working, Busy
  <2>1. Working(s) /\ batch[s] \in Batch
    BY DEF Inv, Working
  <2>. QED  BY <1>2, <2>1 DEF Working
<1>4. ASSUME NEW c \in Batch PROVE Kept(c)'
  <2>0. Kept(c)
    BY DEF Inv
  <2>1. Filed(c)' /\ Whole(c)'
    BY <1>2, <2>0 DEF Kept, Filed, Whole
  <2>2. Fresh(c)'
    <3>1. c > used => Accounted(c) = {}
      BY <2>0 DEF Kept, Fresh, Accounted, Stored
    <3>2. swept'[c] \subseteq Accounted(c)'
      BY DEF Accounted
    <3>. QED  BY <1>2, <2>0, <3>1, <3>2 DEF Kept, Fresh
  <2>3. Tidy(c)'
    BY <1>2, <2>0 DEF Kept, Tidy, InProgress
  <2>. QED  BY <2>1, <2>2, <2>3 DEF Kept
<1>. QED  BY <1>1, <1>3, <1>4 DEF Inv

\* cleanupExpiredFiles removes a work file or a file.
LEMMA CleanUpInv == Inv /\ CleanUp => Inv'
<1>. SUFFICES ASSUME Inv, NEW b \in Batch,
                     \/ \E i \in works[b] : CleanWork(b, i)
                     \/ \E e \in files[b] : CleanFile(b, e)
              PROVE  Inv'
  BY DEF CleanUp
<1>0. Typed
  BY DEF Inv
<1>1. ASSUME NEW i \in works[b], CleanWork(b, i) PROVE Inv'
  <2>1. /\ works' = [works EXCEPT ![b] = works[b] \ {i}]
        /\ swept' = [swept EXCEPT ![b] = swept[b] \cup {i}] /\ files' = files /\ i \in Item
        /\ at' = at /\ batch' = batch /\ item' = item /\ names' = names /\ used' = used
        /\ dirs' = dirs /\ crashed' = crashed /\ told' = told
    BY <1>0, <1>1 DEF CleanWork, Typed
  <2>2. /\ works' \in [Batch -> SUBSET Item] /\ swept' \in [Batch -> SUBSET Item]
        /\ works'[b] = works[b] \ {i} /\ swept'[b] = swept[b] \cup {i}
        /\ \A c \in Batch : c # b => works'[c] = works[c] /\ swept'[c] = swept[c]
    BY <1>0, <2>1 DEF Typed
  <2>3. Accounted(b)' = Accounted(b)
    BY <2>1, <2>2 DEF Accounted, Stored
  <2>4. Sweeping(b)
    BY <1>0, <2>1, <2>2, <2>3 DEF Sweeping, Typed
  <2>. QED  BY <2>4, SweepingInv
<1>2. ASSUME NEW e \in files[b], CleanFile(b, e) PROVE Inv'
  <2>1. /\ files' = [files EXCEPT ![b] = files[b] \ {e}] /\ works' = works
        /\ swept' = [swept EXCEPT ![b] = swept[b] \cup {e.item}] /\ e.item \in Item
        /\ at' = at /\ batch' = batch /\ item' = item /\ names' = names /\ used' = used
        /\ dirs' = dirs /\ crashed' = crashed /\ told' = told
    BY <1>0, <1>2 DEF CleanFile, Typed, Entry
  <2>2. /\ files' \in [Batch -> SUBSET Entry] /\ swept' \in [Batch -> SUBSET Item]
        /\ files'[b] = files[b] \ {e} /\ swept'[b] = swept[b] \cup {e.item}
        /\ \A c \in Batch : c # b => files'[c] = files[c] /\ swept'[c] = swept[c]
    BY <1>0, <2>1 DEF Typed
  <2>3. Accounted(b)' = Accounted(b)
    <3>1. Stored(b)' \cup {e.item} = Stored(b)
      BY <2>2 DEF Stored
    <3>. QED  BY <2>1, <2>2, <3>1 DEF Accounted
  <2>4. Sweeping(b)
    BY <1>0, <2>1, <2>2, <2>3 DEF Sweeping, Typed
  <2>. QED  BY <2>4, SweepingInv
<1>. QED  BY <1>1, <1>2

\* The process crashes: the batches stay as they are.
LEMMA CrashInv == Inv /\ Crash => Inv'
<1>. SUFFICES ASSUME Inv, Crash PROVE Inv'
  OBVIOUS
<1>1. /\ at' = [s \in Session |-> "out"] /\ batch' = [s \in Session |-> 0]
      /\ item' = [s \in Session |-> 0] /\ crashed' = TRUE
      /\ names' = names /\ used' = used /\ works' = works /\ files' = files /\ swept' = swept
      /\ dirs' = dirs /\ told' = told
  BY DEF Crash, diskVars
<1>2. Typed'
  BY <1>1, BundleAssumption DEF BundleAssumption, Inv, Typed, Places
<1>3. \A s \in Session : ~Busy(s)' /\ Working(s)'
  BY <1>1 DEF Busy, Working
<1>4. ASSUME NEW b \in Batch PROVE Kept(b)'
  <2>1. Kept(b) /\ Accounted(b)' = Accounted(b)
    BY <1>1 DEF Inv, Accounted, Stored
  <2>. QED  BY <1>1, <2>1 DEF Kept, Filed, Whole, Fresh, Tidy
<1>. QED  BY <1>2, <1>3, <1>4 DEF Inv, Apart

\* No step of the program breaks the invariant.
LEMMA StepInv == Inv /\ [Next]_vars => Inv'
<1>. SUFFICES ASSUME Inv, [Next]_vars PROVE Inv'
  OBVIOUS
<1>0. at \in [Session -> Places] /\ "idle" \in Places /\ "out" \in Places
  BY DEF Inv, Typed, Places
<1>1. ASSUME NEW s \in Session, SessionStep(s) PROVE Inv'
  <2>1. CASE Enter(s)
    BY <1>0, <2>1, QuietInv DEF Enter, ReaderAt, diskVars, Quiet
  <2>2. CASE Leave(s)
    BY <1>0, <2>2, QuietInv DEF Leave, ReaderAt, diskVars, Quiet
  <2>3. CASE Refuse(s)
    BY <1>0, <2>3, QuietInv DEF Refuse, vars, diskVars, Quiet
  <2>4. ASSUME NEW bytes \in Bytes, RateLimited(s, bytes) PROVE Inv'
    BY <1>0, <2>4, QuietInv DEF RateLimited, diskVars, Quiet
  <2>5. ASSUME NEW bytes \in Bytes, NEW pending \in Pending, AcceptBundle(s, pending, bytes)
        PROVE  Inv'
    BY <2>5, AcceptInv
  <2>. QED
    BY <1>1, <2>1, <2>2, <2>3, <2>4, <2>5, WriteItemInv, RenameItemInv, BundleFailsInv, ForwardInv
    DEF SessionStep
<1>2. CASE Tick
  BY <1>0, <1>2, QuietInv DEF Tick, diskVars, Quiet
<1>3. CASE UNCHANGED vars
  BY <1>0, <1>3, QuietInv DEF vars, diskVars, Quiet
<1>. QED  BY <1>1, <1>2, <1>3, CleanUpInv, CrashInv DEF Next

\* The program begins in the invariant.
LEMMA InitInv == Init => Inv
<1>. SUFFICES ASSUME Init PROVE Inv
  OBVIOUS
<1>1. Typed
  <2>1. 0 \in 0..MaxBatches /\ 0 \in 0..MaxItems
    BY BundleAssumption DEF BundleAssumption
  <2>. QED  BY <2>1 DEF Init, Typed, Places
<1>2. \A s \in Session : ~Busy(s) /\ Working(s)
  BY DEF Init, Busy, Working
<1>3. \A b \in Batch : Kept(b)
  BY DEF Init, Kept, Filed, Whole, Fresh, Tidy
<1>. QED  BY <1>1, <1>2, <1>3 DEF Inv, Apart

-----------------------------------------------------------------------------
(* Theorems                                                                 *)

\* The invariant holds in every reachable state.
THEOREM BundleInvariant == Spec => []Inv
<1>1. Init => Inv
  BY InitInv
<1>2. Inv /\ [Next]_vars => Inv'
  BY StepInv
<1>. QED  BY <1>1, <1>2, PTL DEF Spec

\* A bundle that the other clients are sent, or that is refused as it is recorded, has all
\* its items in files of their own, under their own names, except for what the sweep has
\* taken (persistFiles).
THEOREM BundlesAreStored == Spec => []BundleStored
<1>1. ASSUME Inv PROVE BundleStored
  <2>1. \A b \in Batch : Filed(b) /\ Whole(b)
    BY <1>1 DEF Inv, Kept
  <2>. QED  BY <2>1 DEF BundleStored, Filed, Whole, Accounted
<1>. QED  BY <1>1, BundleInvariant, PTL

\* A bundle that is refused before all of it is stored leaves nothing on disk
\* (persistFiles' failure paths).
THEOREM NothingIsHalfDone == Spec => []NothingHalfDone
<1>1. Inv => NothingHalfDone
  BY DEF Inv, Kept, Tidy, NothingHalfDone
<1>. QED  BY <1>1, BundleInvariant, PTL

=============================================================================
