--------------------------- MODULE ReceiverProofs ---------------------------
(***************************************************************************)
(* Theorems about the reception of files by the clients, for any transfers *)
(* and bundles, number of chunks and of files, seconds and faults.         *)
(***************************************************************************)
EXTENDS Receiver, FiniteSetTheorems, WellFoundedInduction, TLAPS

-----------------------------------------------------------------------------
(* The inductive invariant *)

\* a path that no transfer and no bundle takes twice
Numbered(path) == path[2] # Stamped

Sources ==
  /\ program \in {"cli", "gui"}
  /\ size \in [Transfer -> Nat]
  /\ digest \in [Transfer -> BOOLEAN]
  /\ relayed \in [Transfer -> Nat]
  /\ bundled \subseteq Bundle
  /\ second \in Nat

\* what was reported as saved is there, and came from the server
Kept ==
  /\ IsFiniteSet(DOMAIN files)
  /\ DOMAIN kept \subseteq DOMAIN files
  /\ \A p \in DOMAIN kept : kept[p] \in Transfer \cup Bundle

\* an open transfer has a file of its own, which nobody was told of
Owned ==
  /\ DOMAIN incoming \subseteq Transfer
  /\ \A t \in DOMAIN incoming :
       /\ incoming[t].path \in DOMAIN files
       /\ incoming[t].path \notin DOMAIN kept
       /\ Numbered(incoming[t].path)
  /\ \A t, u \in DOMAIN incoming : incoming[t].path = incoming[u].path => t = u

\* the first n chunks of a transfer
Part(t, n) == [k \in 1..n |-> <<t, k>>]

\* content has at most the chunks relayed so far, and if it has as many, it has them
Written(t, content, n) ==
  /\ content \in Seq({t} \X Nat)
  /\ Len(content) <= n
  /\ Len(content) = n => content = Part(t, n)

Filling ==
  \A t \in DOMAIN incoming :
    /\ relayed[t] >= 1
    /\ Written(t, files[incoming[t].path], relayed[t] - 1)

Inv == Sources /\ Kept /\ Owned /\ Filling /\ KeptWhole

-----------------------------------------------------------------------------
(* Free names *)

\* Every set of numbers has a least one.
LEMMA Least ==
  ASSUME NEW S \in SUBSET Nat, S # {}
  PROVE  \E n \in S : \A m \in S : n <= m
<1>. DEFINE R == OpToRel(<, Nat)
<1>1. IsWellFoundedOn(R, Nat)
  BY NatLessThanWellFounded
<1>2. R = {ss \in Nat \X Nat : ss[1] < ss[2]}
  BY DEF OpToRel
<1>. HIDE DEF R
<1>3. PICK x \in S : \A y \in S : ~(<<y, x>> \in R)
  BY <1>1, WFMin
<1>4. \A y \in S : ~(y < x)
  BY <1>2, <1>3
<1>5. \A y \in S : x <= y
  BY <1>4
<1>. QED  BY <1>5

\* What holds of 0, and of each number after one it holds of, has no first exception.
LEMMA NoException ==
  ASSUME NEW bad \in SUBSET Nat, 0 \notin bad, \A n \in Nat : n + 1 \in bad => n \in bad
  PROVE  bad = {}
<1>1. ASSUME bad # {} PROVE FALSE
  <2>1. PICK n \in bad : \A m \in bad : n <= m
    BY <1>1, Least
  <2>2. n - 1 \in Nat /\ (n - 1) + 1 = n
    BY <2>1
  <2>3. n - 1 \in bad
    BY <2>1, <2>2
  <2>. QED  BY <2>1, <2>3
<1>. QED  BY <1>1

\* There are more numbers than files, so that uniqueFilePath and makeFilePathUnique end,
\* with a path that no file has.
LEMMA UniquePathIsFree ==
  ASSUME NEW fs, IsFiniteSet(fs)
  PROVE  /\ UniquePath(fs) \notin fs /\ Numbered(UniquePath(fs))
         /\ second \in Int => UniquePath(fs) \in Int \X Int
<1>. DEFINE c == Cardinality(fs)
            free == {n \in 0..c : <<second, n>> \notin fs}
            paths == [n \in 0..c |-> <<second, n>>]
<1>1. c \in Nat
  BY FS_CardinalityType
<1>2. free # {}
  <2>1. SUFFICES ASSUME free = {} PROVE FALSE
    OBVIOUS
  <2>2. paths \in [0..c -> fs]
    BY <2>1
  <2>3. IsFiniteSet(0..c) /\ Cardinality(0..c) = c + 1
    BY <1>1, FS_Interval
  <2>4. Cardinality(fs) < Cardinality(0..c)
    BY <1>1, <2>3
  <2>5. PICK m, n \in 0..c : m # n /\ paths[m] = paths[n]
    <3>. HIDE DEF paths
    <3>. QED  BY <2>2, <2>3, <2>4, FS_PigeonHole
  <2>. QED  BY <2>5
<1>3. PICK n \in free : \A m \in free : n <= m
  <2>1. free \in SUBSET Nat
    <3>. HIDE DEF c
    <3>. QED  BY <1>1
  <2>. HIDE DEF free
  <2>. QED  BY <1>2, <2>1, Least
<1>4. <<second, n>> \notin fs /\ \A m \in 0..n - 1 : <<second, m>> \in fs
  <2>. HIDE DEF c
  <2>. QED  BY <1>1, <1>3
<1>5. PICK m \in 0..c : UniquePath(fs) = <<second, m>> /\ <<second, m>> \notin fs
  <2>. HIDE DEF c
  <2>1. n \in 0..c
    OBVIOUS
  <2>2. UniquePath(fs) =
          <<second, CHOOSE k \in 0..c :
             <<second, k>> \notin fs /\ \A m \in 0..k - 1 : <<second, m>> \in fs>>
    BY DEF UniquePath, c
  <2>. QED  BY <1>4, <2>1, <2>2
<1>6. m # Stamped
  BY <1>1, <1>5 DEF Stamped
<1>. QED  BY <1>1, <1>5, <1>6 DEF Numbered

\* The next file of a bundle takes no path that a file has, but for the name with the time.
LEMMA BundlePathIsFree ==
  ASSUME NEW fs, IsFiniteSet(fs)
  PROVE  BundlePath(fs) \notin fs \/ ~Numbered(BundlePath(fs))
BY UniquePathIsFree DEF BundlePath, Numbered

\* the paths of the first files of a bundle, one after the other
Chain(f, fs, opened, n) ==
  f = [k \in 0..n |->
         IF k = 0 THEN << >> ELSE Append(f[k - 1], BundlePath(fs \cup Opened(f[k - 1], opened)))]

\* They can be found for any number of files.
LEMMA ChainExists ==
  ASSUME NEW fs, NEW opened, NEW n \in Nat
  PROVE  \E f : Chain(f, fs, opened, n)
<1>. DEFINE bad == {k \in Nat : ~\E f : Chain(f, fs, opened, k)}
<1>1. 0 \notin bad
  <2>1. PICK f : f = [k \in 0..0 |-> << >>]
    OBVIOUS
  <2>2. Chain(f, fs, opened, 0)
    BY <2>1 DEF Chain
  <2>. QED  BY <2>2
<1>2. ASSUME NEW k \in Nat, k \notin bad PROVE k + 1 \notin bad
  <2>1. PICK f : Chain(f, fs, opened, k)
    BY <1>2
  <2>2. PICK next : next = Append(f[k], BundlePath(fs \cup Opened(f[k], opened)))
    OBVIOUS
  <2>3. PICK g : g = [j \in 0..(k + 1) |-> IF j = k + 1 THEN next ELSE f[j]]
    OBVIOUS
  <2>4. \A j \in 0..k : g[j] = f[j]
    BY <2>3
  <2>5. \A j \in 0..k : f[j] = IF j = 0 THEN << >>
                               ELSE Append(f[j - 1], BundlePath(fs \cup Opened(f[j - 1], opened)))
    BY <2>1 DEF Chain
  <2>6. ASSUME NEW j \in 0..(k + 1)
        PROVE  g[j] = IF j = 0 THEN << >>
                      ELSE Append(g[j - 1], BundlePath(fs \cup Opened(g[j - 1], opened)))
    <3>1. CASE j = k + 1
      <4>1. g[j] = next /\ g[j - 1] = f[k] /\ j # 0
        BY <2>3, <3>1
      <4>. QED  BY <2>2, <4>1
    <3>2. CASE j \in 1..k
      <4>1. g[j] = f[j] /\ g[j - 1] = f[j - 1] /\ j # 0 /\ j \in 0..k
        BY <2>4, <3>2
      <4>2. f[j] = Append(f[j - 1], BundlePath(fs \cup Opened(f[j - 1], opened)))
        BY <2>5, <4>1
      <4>. QED  BY <4>1, <4>2
    <3>3. CASE j = 0
      <4>1. f[0] = << >>
        BY <2>1 DEF Chain
      <4>2. g[0] = f[0]
        BY <2>4
      <4>. QED  BY <3>3, <4>1, <4>2
    <3>. QED  BY <3>1, <3>2, <3>3
  <2>7. Chain(g, fs, opened, k + 1)
    BY <2>3, <2>6 DEF Chain
  <2>. QED  BY <2>7
<1>3. bad = {}
  <2>. HIDE DEF bad
  <2>1. bad \in SUBSET Nat
    BY DEF bad
  <2>. QED  BY <1>1, <1>2, <2>1, NoException
<1>. QED  BY <1>3

\* paths that a bundle may take
Free(ps, fs) ==
  /\ ps \in Seq(Int \X Int)
  /\ IsFiniteSet(Range(ps))
  /\ \A p \in Range(ps) : p \notin fs \/ ~Numbered(p)

\* The paths of a bundle's files are not those of other files, but for the names with the
\* time (saveReceivedFiles, saveLegacyFiles).
LEMMA BundlePathsAreFree ==
  ASSUME NEW fs, IsFiniteSet(fs), NEW opened, second \in Int
  PROVE  Free(BundlePaths(fs, opened), fs)
<1>1. BundleFiles \in Nat
  BY ReceiverAssumption
<1>2. PICK f : Chain(f, fs, opened, BundleFiles) /\ BundlePaths(fs, opened) = f[BundleFiles]
  <2>1. \E f : Chain(f, fs, opened, BundleFiles)
    BY <1>1, ChainExists
  <2>2. BundlePaths(fs, opened) = (CHOOSE f : Chain(f, fs, opened, BundleFiles))[BundleFiles]
    BY DEF BundlePaths, Chain
  <2>. QED  BY <2>1, <2>2
<1>. DEFINE bad == {k \in Nat : k <= BundleFiles /\ ~Free(f[k], fs)}
<1>3. 0 \notin bad
  <2>1. f[0] = << >>
    BY <1>1, <1>2 DEF Chain
  <2>2. Range(<< >>) = {}
    BY DEF Range
  <2>3. Free(<< >>, fs)
    BY <2>2, FS_EmptySet DEF Free
  <2>. QED  BY <2>1, <2>3
<1>4. ASSUME NEW k \in Nat, k + 1 \in bad, k \notin bad PROVE FALSE
  <2>1. k + 1 \in 0..BundleFiles /\ k <= BundleFiles
    BY <1>1, <1>4
  <2>2. PICK ps : ps = f[k]
    OBVIOUS
  <2>3. Free(ps, fs)
    BY <1>4, <2>1, <2>2
  <2>4. PICK p : p = BundlePath(fs \cup Opened(ps, opened))
    OBVIOUS
  <2>5. f[k + 1] = Append(ps, p)
    <3>1. k + 1 # 0 /\ (k + 1) - 1 = k
      OBVIOUS
    <3>. QED  BY <1>2, <2>1, <2>2, <2>4, <3>1 DEF Chain
  <2>6. IsFiniteSet(fs \cup Opened(ps, opened))
    <3>1. Opened(ps, opened) \subseteq Range(ps)
      BY DEF Opened, Range
    <3>. QED  BY <2>3, <3>1, FS_Subset, FS_Union DEF Free
  <2>7. p \notin fs \/ ~Numbered(p)
    BY <2>4, <2>6, BundlePathIsFree
  <2>8. p \in Int \X Int
    <3>1. UniquePath(fs \cup Opened(ps, opened)) \in Int \X Int
      BY <2>6, UniquePathIsFree
    <3>. QED  BY <2>4, <3>1 DEF BundlePath, Stamped
  <2>9. Range(Append(ps, p)) = Range(ps) \cup {p}
    <3>1. /\ Len(ps) \in Nat /\ DOMAIN ps = 1..Len(ps)
          /\ DOMAIN Append(ps, p) = 1..(Len(ps) + 1)
          /\ \A i \in 1..Len(ps) : Append(ps, p)[i] = ps[i]
          /\ Append(ps, p)[Len(ps) + 1] = p
      BY <2>3, <2>8 DEF Free
    <3>2. 1..(Len(ps) + 1) = 1..Len(ps) \cup {Len(ps) + 1}
      BY <3>1
    <3>. QED  BY <3>1, <3>2 DEF Range
  <2>10. Free(Append(ps, p), fs)
    <3>1. Append(ps, p) \in Seq(Int \X Int)
      BY <2>3, <2>8 DEF Free
    <3>2. IsFiniteSet(Range(ps) \cup {p})
      BY <2>3, FS_AddElement DEF Free
    <3>. QED  BY <2>3, <2>7, <2>9, <3>1, <3>2 DEF Free
  <2>. QED  BY <1>4, <2>5, <2>10
<1>5. bad = {}
  <2>. HIDE DEF bad
  <2>1. bad \in SUBSET Nat
    BY DEF bad
  <2>. QED  BY <1>3, <1>4, <2>1, NoException
<1>. QED  BY <1>1, <1>2, <1>5

-----------------------------------------------------------------------------
(* What is in an open file *)

LEMMA EmptyIsWritten ==
  ASSUME NEW t
  PROVE  Written(t, << >>, 0)
<1>1. Part(t, 0) = << >>
  BY DEF Part
<1>. QED  BY <1>1 DEF Written

\* A chunk that was lost leaves fewer chunks than were relayed.
LEMMA LostIsWritten ==
  ASSUME NEW t, NEW content, NEW n \in Nat, Written(t, content, n)
  PROVE  Written(t, content, n + 1)
BY DEF Written

\* One that was not lost is the next of them (handleChunkTransfer does not look at seq).
LEMMA ChunkIsWritten ==
  ASSUME NEW t, NEW content, NEW n \in Nat, Written(t, content, n)
  PROVE  Written(t, Append(content, <<t, n + 1>>), n + 1)
<1>. DEFINE next == Append(content, <<t, n + 1>>)
<1>1. /\ content \in Seq({t} \X Nat) /\ Len(content) \in Nat /\ Len(content) <= n
      /\ DOMAIN content = 1..Len(content)
  BY DEF Written
<1>2. /\ next \in Seq({t} \X Nat) /\ Len(next) = Len(content) + 1
      /\ \A i \in 1..Len(content) : next[i] = content[i]
      /\ next[Len(content) + 1] = <<t, n + 1>>
      /\ next = [i \in 1..(Len(content) + 1) |-> next[i]]
  BY <1>1
<1>. HIDE DEF next
<1>3. ASSUME Len(next) = n + 1 PROVE next = Part(t, n + 1)
  <2>1. Len(content) = n /\ content = Part(t, n)
    <3>1. Len(content) = n
      BY <1>1, <1>2, <1>3
    <3>. QED  BY <3>1 DEF Written
  <2>2. \A i \in 1..n : content[i] = <<t, i>>
    BY <2>1 DEF Part
  <2>3. ASSUME NEW i \in 1..(n + 1) PROVE next[i] = <<t, i>>
    <3>1. CASE i \in 1..n
      BY <1>2, <2>1, <2>2, <3>1
    <3>2. CASE i = n + 1
      BY <1>2, <2>1, <3>2
    <3>. QED  BY <3>1, <3>2
  <2>. QED  BY <1>2, <2>1, <2>3 DEF Part
<1>4. Written(t, next, n + 1)
  BY <1>1, <1>2, <1>3 DEF Written
<1>. QED  BY <1>4 DEF next

\* A file with all its chunks is what was sent, and what is left of a file when closing it
\* loses the rest is all of it if it is as long.
LEMMA AsLongIsWhole ==
  ASSUME NEW t \in Transfer, size[t] \in Nat, NEW content, Written(t, content, size[t]),
         NEW n \in 0..Len(content), Len(SubSeq(content, 1, n)) = size[t]
  PROVE  SubSeq(content, 1, n) = Whole(t)
<1>1. content \in Seq({t} \X Nat) /\ Len(content) \in Nat /\ Len(content) <= size[t]
  BY DEF Written
<1>2. Len(SubSeq(content, 1, n)) = n
  BY <1>1
<1>3. n = Len(content) /\ n = size[t]
  BY <1>1, <1>2
<1>4. SubSeq(content, 1, n) = content
  <2>1. PICK final : final = SubSeq(content, 1, n)
    OBVIOUS
  <2>2. final \in Seq({t} \X Nat) /\ Len(final) = Len(content)
    <3>1. n \in Nat /\ n <= Len(content)
      BY <1>1
    <3>2. Len(final) = Len(content)
      BY <1>1, <1>3, <2>1, <3>1
    <3>3. PICK S : S = {t} \X Nat
      OBVIOUS
    <3>4. content \in Seq(S)
      BY <1>1, <3>3
    <3>5. final \in Seq(S)
      BY <2>1, <3>1, <3>4
    <3>. QED  BY <3>2, <3>3, <3>5
  <2>a. ASSUME NEW i \in 1..Len(content) PROVE final[i] = content[i]
    BY <1>1, <1>3, <2>1
  <2>3. /\ final = [i \in 1..Len(content) |-> final[i]]
        /\ content = [i \in 1..Len(content) |-> content[i]]
    BY <1>1, <2>2
  <2>. QED  BY <2>1, <2>a, <2>3
<1>. QED  BY <1>3, <1>4 DEF Written, Part, Whole

\* What is accepted at the end is what was sent: by its digest, or, as the Qt clients read
\* the file back, by its length.
LEMMA AcceptedIsWhole ==
  ASSUME Sources, NEW t \in Transfer, NEW content, Written(t, content, size[t]),
         NEW n \in 0..Len(content), Accepts(t, SubSeq(content, 1, n)),
         digest[t] \/ program = "gui"
  PROVE  SubSeq(content, 1, n) = Whole(t)
<1>1. size[t] \in Nat
  BY DEF Sources
<1>2. content \in Seq({t} \X Nat) /\ Len(content) \in Nat /\ Len(content) <= size[t]
  BY <1>1 DEF Written
<1>3. CASE digest[t]
  BY <1>3 DEF Accepts
<1>4. CASE program = "gui"
  <2>1. Len(SubSeq(content, 1, n)) = n
    BY <1>2
  <2>2. n = size[t]
    BY <1>1, <1>2, <1>4, <2>1 DEF Accepts
  <2>. QED  BY <1>1, <2>1, <2>2, AsLongIsWhole
<1>. QED  BY <1>3, <1>4

-----------------------------------------------------------------------------
(* What a step does to the files *)

\* what was reported as saved is neither removed nor written to
Untouched ==
  \A p \in DOMAIN kept :
    Numbered(p) => p \in DOMAIN files' /\ files'[p] = files[p] /\ kept'[p] = kept[p]

\* a transfer that is over leaves its file only if that was reported as saved
NoneLeft ==
  \A p \in OpenPaths \ OpenPaths' : p \in DOMAIN kept' \/ p \notin DOMAIN files'

Steady == UNCHANGED <<sources, bundled, second>>

\* What is kept stays whole when nothing is written to it.
LEMMA WholeStays ==
  ASSUME Inv, UNCHANGED sources,
         \A p \in DOMAIN kept' : kept'[p] \in Transfer =>
           p \in DOMAIN kept /\ kept'[p] = kept[p] /\ files'[p] = files[p]
  PROVE  KeptWhole'
<1>1. size' = size /\ digest' = digest /\ program' = program
  BY DEF sources
<1>2. SUFFICES ASSUME NEW p \in DOMAIN kept', kept'[p] \in Transfer,
                      digest[kept'[p]] \/ program = "gui"
               PROVE  files'[p] = [k \in 1..size[kept'[p]] |-> <<kept'[p], k>>]
  BY <1>1 DEF KeptWhole, Whole
<1>3. p \in DOMAIN kept /\ kept'[p] = kept[p] /\ files'[p] = files[p]
  BY <1>2
<1>4. files[p] = Whole(kept[p])
  BY <1>2, <1>3 DEF Inv, KeptWhole
<1>. QED  BY <1>3, <1>4 DEF Whole

\* The transfers that go on have the files they had, and as many chunks or fewer were lost.
LEMMA FillingStays ==
  ASSUME Inv, Sources', Owned', relayed' \in [Transfer -> Nat],
         NEW u \in DOMAIN incoming', u \in DOMAIN incoming,
         incoming'[u].path = incoming[u].path,
         files'[incoming[u].path] = files[incoming[u].path],
         relayed'[u] = relayed[u] \/ relayed'[u] = relayed[u] + 1
  PROVE  relayed'[u] >= 1 /\ Written(u, files'[incoming'[u].path], relayed'[u] - 1)
<1>1. /\ relayed[u] \in Nat /\ relayed[u] >= 1
      /\ Written(u, files[incoming[u].path], relayed[u] - 1)
  BY DEF Inv, Filling, Sources, Owned
<1>2. PICK n \in Nat : n = relayed[u] - 1
  BY <1>1
<1>3. PICK content : content = files[incoming[u].path]
  OBVIOUS
<1>4. Written(u, content, n) /\ Written(u, content, n + 1)
  BY <1>1, <1>2, <1>3, LostIsWritten
<1>5. relayed'[u] >= 1 /\ relayed'[u] - 1 \in {n, n + 1}
  BY <1>1, <1>2
<1>. QED  BY <1>3, <1>4, <1>5

\* Transfers that are given up take their files with them, and nothing else (discarding in
\* finalizeIncomingTransfer, close and the destructors).
LEMMA DiscardKeeps ==
  ASSUME Inv, NEW ts \in SUBSET DOMAIN incoming, Discard(ts), kept' = kept
  PROVE  /\ Kept' /\ Owned' /\ Untouched /\ NoneLeft
         /\ \A p \in DOMAIN kept : p \in DOMAIN files' /\ files'[p] = files[p]
         /\ DOMAIN incoming' = DOMAIN incoming \ ts
         /\ \A u \in DOMAIN incoming' : /\ incoming'[u] = incoming[u]
                                        /\ files'[incoming[u].path] = files[incoming[u].path]
<1>. DEFINE gone == {incoming[t].path : t \in ts}
<1>1. /\ DOMAIN incoming' = DOMAIN incoming \ ts
      /\ \A u \in DOMAIN incoming' : incoming'[u] = incoming[u]
  BY DEF Discard, Restrict
<1>2. /\ DOMAIN files' = DOMAIN files \ gone
      /\ \A p \in DOMAIN files' : files'[p] = files[p]
  BY DEF Discard, Restrict
<1>3. /\ IsFiniteSet(DOMAIN files) /\ DOMAIN kept \subseteq DOMAIN files
      /\ \A p \in DOMAIN kept : kept[p] \in Transfer \cup Bundle
  BY DEF Inv, Kept
<1>4. /\ DOMAIN incoming \subseteq Transfer
      /\ \A t \in DOMAIN incoming :
           /\ incoming[t].path \in DOMAIN files
           /\ incoming[t].path \notin DOMAIN kept
           /\ Numbered(incoming[t].path)
      /\ \A t, u \in DOMAIN incoming : incoming[t].path = incoming[u].path => t = u
  BY DEF Inv, Owned
<1>5. \A p \in DOMAIN kept : p \in DOMAIN files' /\ files'[p] = files[p]
  BY <1>2, <1>3, <1>4
<1>6. \A u \in DOMAIN incoming' :
        incoming[u].path \in DOMAIN files' /\ files'[incoming[u].path] = files[incoming[u].path]
  BY <1>1, <1>2, <1>4
<1>7. IsFiniteSet(DOMAIN files')
  BY <1>2, <1>3, FS_Subset
<1>8. Kept'
  BY <1>3, <1>5, <1>7 DEF Kept
<1>9. Owned'
  BY <1>1, <1>4, <1>6 DEF Owned
<1>10. Untouched
  BY <1>5 DEF Untouched
<1>11. NoneLeft
  <2>1. SUFFICES ASSUME NEW t \in DOMAIN incoming, incoming[t].path \notin OpenPaths'
                 PROVE  incoming[t].path \notin DOMAIN files'
    BY DEF NoneLeft, OpenPaths
  <2>2. t \in ts
    BY <1>1, <2>1 DEF OpenPaths
  <2>. QED  BY <1>2, <2>2
<1>. QED  BY <1>1, <1>5, <1>6, <1>8, <1>9, <1>10, <1>11

-----------------------------------------------------------------------------
(* The messages of a transfer *)

\* What every message of a transfer leaves alone.
LEMMA RelayedIs ==
  ASSUME Inv, NEW t \in Transfer, RelayTransfer(t)
  PROVE  /\ Sources' /\ UNCHANGED sources
         /\ relayed[t] \in Nat /\ relayed[t] < size[t] + 2 /\ size[t] \in Nat
         /\ relayed'[t] = relayed[t] + 1
         /\ \A u \in Transfer : u # t => relayed'[u] = relayed[u]
         /\ relayed' \in [Transfer -> Nat]
<1>1. /\ relayed' = [relayed EXCEPT ![t] = relayed[t] + 1]
      /\ relayed[t] < size[t] + 2
      /\ program' = program /\ size' = size /\ digest' = digest
      /\ bundled' = bundled /\ second' = second
  BY DEF RelayTransfer, sources
<1>2. Sources
  BY DEF Inv
<1>3. relayed' \in [Transfer -> Nat]
  BY <1>1, <1>2 DEF Sources
<1>4. Sources'
  BY <1>1, <1>2, <1>3 DEF Sources
<1>. QED  BY <1>1, <1>2, <1>3, <1>4 DEF Sources, sources

\* The invariant from its parts, when no transfer is new and one at most is written to.
LEMMA TransferKeeps ==
  ASSUME Inv, NEW t \in Transfer, RelayTransfer(t), Kept', Owned', kept' = kept,
         \A p \in DOMAIN kept : files'[p] = files[p],
         DOMAIN incoming' \subseteq DOMAIN incoming,
         \A u \in DOMAIN incoming' : incoming'[u].path = incoming[u].path,
         \A u \in DOMAIN incoming' : u # t => files'[incoming[u].path] = files[incoming[u].path],
         t \in DOMAIN incoming' => Written(t, files'[incoming[t].path], relayed'[t] - 1)
  PROVE  Inv'
<1>1. /\ Sources' /\ UNCHANGED sources
      /\ relayed[t] \in Nat /\ relayed'[t] = relayed[t] + 1
      /\ \A u \in Transfer : u # t => relayed'[u] = relayed[u]
      /\ relayed' \in [Transfer -> Nat]
  BY RelayedIs
<1>2. KeptWhole'
  BY <1>1, WholeStays
<1>3. ASSUME NEW u \in DOMAIN incoming'
      PROVE  relayed'[u] >= 1 /\ Written(u, files'[incoming'[u].path], relayed'[u] - 1)
  <2>1. u \in Transfer /\ u \in DOMAIN incoming
    BY DEF Owned
  <2>2. CASE u = t
    BY <1>1, <2>2
  <2>3. CASE u # t
    BY <1>1, <2>1, <2>3, FillingStays
  <2>. QED  BY <2>2, <2>3
<1>4. Filling'
  BY <1>3 DEF Filling
<1>. QED  BY <1>1, <1>2, <1>4 DEF Inv

\* A transfer begins with a file of its own (file_transfer_start).
LEMMA StartStep ==
  ASSUME Inv, NEW t \in Transfer, RelayTransfer(t), relayed[t] = 0, Start(t)
  PROVE  Inv' /\ Untouched /\ NoneLeft
<1>1. /\ Sources' /\ UNCHANGED sources
      /\ relayed'[t] = 1
      /\ \A u \in Transfer : u # t => relayed'[u] = relayed[u]
      /\ relayed' \in [Transfer -> Nat]
  BY RelayedIs
<1>2. t \notin DOMAIN incoming
  BY DEF Inv, Filling
<1>3. /\ IsFiniteSet(DOMAIN files) /\ DOMAIN kept \subseteq DOMAIN files
      /\ \A p \in DOMAIN kept : kept[p] \in Transfer \cup Bundle
      /\ DOMAIN incoming \subseteq Transfer
      /\ \A u \in DOMAIN incoming :
           /\ incoming[u].path \in DOMAIN files
           /\ incoming[u].path \notin DOMAIN kept
           /\ Numbered(incoming[u].path)
      /\ \A u, v \in DOMAIN incoming : incoming[u].path = incoming[v].path => u = v
  BY DEF Inv, Kept, Owned
<1>4. kept' = kept
  BY DEF Start
<1>5. CASE UNCHANGED <<files, incoming, kept>>
  <2>1. Kept' /\ Owned' /\ Untouched /\ NoneLeft
    BY <1>3, <1>5 DEF Kept, Owned, Untouched, NoneLeft, OpenPaths
  <2>2. Inv'
    BY <1>2, <1>3, <1>5, <2>1, TransferKeeps
  <2>. QED  BY <2>1, <2>2
<1>6. ASSUME NEW path, path = UniquePath(DOMAIN files), files' = With(files, path, << >>),
             incoming' = With(incoming, t, [path |-> path, written |-> 0, bad |-> FALSE])
      PROVE  Inv' /\ Untouched /\ NoneLeft
  <2>1. path \notin DOMAIN files /\ Numbered(path)
    BY <1>3, <1>6, UniquePathIsFree
  <2>2. /\ DOMAIN files' = DOMAIN files \cup {path} /\ files'[path] = << >>
        /\ \A p \in DOMAIN files : files'[p] = files[p]
    BY <1>6, <2>1 DEF With
  <2>3. /\ DOMAIN incoming' = DOMAIN incoming \cup {t} /\ incoming'[t].path = path
        /\ \A u \in DOMAIN incoming : incoming'[u] = incoming[u]
    BY <1>2, <1>6 DEF With
  <2>4. IsFiniteSet(DOMAIN files')
    BY <1>3, <2>2, FS_AddElement
  <2>5. Kept'
    BY <1>3, <1>4, <2>2, <2>4 DEF Kept
  <2>6. Owned'
    <3>1. DOMAIN incoming' \subseteq Transfer
      BY <1>3, <2>3
    <3>2. \A u \in DOMAIN incoming' : /\ incoming'[u].path \in DOMAIN files'
                                      /\ incoming'[u].path \notin DOMAIN kept'
                                      /\ Numbered(incoming'[u].path)
      BY <1>3, <1>4, <2>1, <2>2, <2>3
    <3>3. \A u, v \in DOMAIN incoming' : incoming'[u].path = incoming'[v].path => u = v
      BY <1>3, <2>1, <2>3
    <3>. QED  BY <3>1, <3>2, <3>3 DEF Owned
  <2>7. KeptWhole'
    BY <1>1, <1>3, <1>4, <2>2, WholeStays
  <2>8. Filling'
    <3>1. ASSUME NEW u \in DOMAIN incoming'
          PROVE  relayed'[u] >= 1 /\ Written(u, files'[incoming'[u].path], relayed'[u] - 1)
      <4>1. CASE u = t
        BY <1>1, <2>2, <2>3, <4>1, EmptyIsWritten
      <4>2. CASE u # t
        <5>1. u \in DOMAIN incoming /\ u \in Transfer
          BY <1>3, <2>3, <4>2
        <5>. QED  BY <1>1, <1>3, <2>2, <2>3, <2>6, <4>2, <5>1, FillingStays
      <4>. QED  BY <4>1, <4>2
    <3>. QED  BY <3>1 DEF Filling
  <2>9. Untouched /\ NoneLeft
    <3>1. \A p \in OpenPaths : p \in OpenPaths'
      BY <2>3 DEF OpenPaths
    <3>. QED  BY <1>3, <1>4, <2>2, <3>1 DEF Untouched, NoneLeft
  <2>. QED  BY <1>1, <2>5, <2>6, <2>7, <2>8, <2>9 DEF Inv
<1>7. PICK path : path = UniquePath(DOMAIN files)
  OBVIOUS
<1>8. \/ /\ files' = With(files, path, << >>)
         /\ incoming' = With(incoming, t, [path |-> path, written |-> 0, bad |-> FALSE])
      \/ UNCHANGED <<files, incoming, kept>>
  BY <1>7 DEF Start
<1>. QED  BY <1>5, <1>6, <1>7, <1>8

\* A message that finds nobody who takes it.
LEMMA LostStep ==
  ASSUME Inv, NEW t \in Transfer, RelayTransfer(t), UNCHANGED <<files, incoming, kept>>
  PROVE  Inv' /\ Untouched /\ NoneLeft
<1>1. Kept' /\ Owned' /\ Untouched /\ NoneLeft
  BY DEF Inv, Kept, Owned, Untouched, NoneLeft, OpenPaths
<1>2. ASSUME t \in DOMAIN incoming
      PROVE  Written(t, files'[incoming[t].path], relayed'[t] - 1)
  <2>1. relayed'[t] = relayed[t] + 1 /\ Sources' /\ relayed' \in [Transfer -> Nat]
    BY RelayedIs
  <2>. QED  BY <1>1, <1>2, <2>1, FillingStays
<1>3. Inv'
  BY <1>1, <1>2, TransferKeeps
<1>. QED  BY <1>1, <1>3

\* A chunk goes to the end of the file of its transfer, is lost, or ends the transfer
\* (file_transfer_chunk).
LEMMA ChunkStep ==
  ASSUME Inv, NEW t \in Transfer, RelayTransfer(t), t \in DOMAIN incoming,
         relayed[t] # 0, Chunk(t, relayed[t])
  PROVE  Inv' /\ Untouched /\ NoneLeft
<1>1. /\ Sources' /\ UNCHANGED sources
      /\ relayed[t] \in Nat /\ relayed'[t] = relayed[t] + 1
      /\ relayed' \in [Transfer -> Nat]
  BY RelayedIs
<1>2. /\ IsFiniteSet(DOMAIN files) /\ DOMAIN kept \subseteq DOMAIN files
      /\ \A p \in DOMAIN kept : kept[p] \in Transfer \cup Bundle
      /\ DOMAIN incoming \subseteq Transfer
      /\ \A u \in DOMAIN incoming :
           /\ incoming[u].path \in DOMAIN files
           /\ incoming[u].path \notin DOMAIN kept
           /\ Numbered(incoming[u].path)
      /\ \A u, v \in DOMAIN incoming : incoming[u].path = incoming[v].path => u = v
  BY DEF Inv, Kept, Owned
<1>3. kept' = kept
  BY DEF Chunk
<1>4. PICK path : path = incoming[t].path
  OBVIOUS
<1>5. PICK content : content = files[path]
  OBVIOUS
<1>6. PICK n \in Nat : n = relayed[t] - 1
  BY <1>1
<1>7. Written(t, content, n) /\ relayed'[t] - 1 = n + 1 /\ relayed[t] = n + 1
  BY <1>1, <1>4, <1>5, <1>6 DEF Inv, Filling
<1>8. CASE Discard({t})
  <2>1. /\ Kept' /\ Owned' /\ Untouched /\ NoneLeft
        /\ \A p \in DOMAIN kept : p \in DOMAIN files' /\ files'[p] = files[p]
        /\ DOMAIN incoming' = DOMAIN incoming \ {t}
        /\ \A u \in DOMAIN incoming' : /\ incoming'[u] = incoming[u]
                                       /\ files'[incoming[u].path] = files[incoming[u].path]
    BY <1>3, <1>8, DiscardKeeps
  <2>2. Inv'
    BY <1>3, <2>1, TransferKeeps
  <2>. QED  BY <2>1, <2>2
<1>9. ASSUME DOMAIN incoming' = DOMAIN incoming,
             \A u \in DOMAIN incoming : incoming'[u].path = incoming[u].path,
             DOMAIN files' = DOMAIN files,
             \A p \in DOMAIN files : p # path => files'[p] = files[p],
             Written(t, files'[path], n + 1)
      PROVE  Inv' /\ Untouched /\ NoneLeft
  <2>1. Kept'
    BY <1>2, <1>3, <1>9 DEF Kept
  <2>2. Owned'
    BY <1>2, <1>3, <1>9 DEF Owned
  <2>3. Untouched
    BY <1>2, <1>3, <1>4, <1>9 DEF Untouched
  <2>4. NoneLeft
    BY <1>9 DEF NoneLeft, OpenPaths
  <2>5. \A p \in DOMAIN kept : files'[p] = files[p]
    BY <1>2, <1>4, <1>9
  <2>6. \A u \in DOMAIN incoming' : u # t => files'[incoming[u].path] = files[incoming[u].path]
    BY <1>2, <1>4, <1>9
  <2>7. Inv'
    BY <1>3, <1>4, <1>7, <1>9, <2>1, <2>2, <2>5, <2>6, TransferKeeps
  <2>. QED  BY <2>3, <2>4, <2>7
<1>10. CASE /\ files' = [files EXCEPT ![path] = Append(@, <<t, relayed[t]>>)]
            /\ incoming' = [incoming EXCEPT ![t].written = @ + 1]
  <2>1. PICK next : next = Append(content, <<t, n + 1>>)
    OBVIOUS
  <2>2. Written(t, next, n + 1)
    BY <1>7, <2>1, ChunkIsWritten
  <2>3. files' = [files EXCEPT ![path] = next]
    BY <1>5, <1>7, <1>10, <2>1
  <2>4. /\ DOMAIN files' = DOMAIN files /\ files'[path] = next
        /\ \A p \in DOMAIN files : p # path => files'[p] = files[p]
    BY <1>2, <1>4, <2>3
  <2>5. /\ DOMAIN incoming' = DOMAIN incoming
        /\ \A u \in DOMAIN incoming : incoming'[u].path = incoming[u].path
    BY <1>10
  <2>. QED  BY <1>9, <2>2, <2>4, <2>5
<1>11. CASE /\ incoming' = [incoming EXCEPT ![t].written = @ + 1, ![t].bad = TRUE]
            /\ files' = files
  <2>1. Written(t, files'[path], n + 1)
    BY <1>5, <1>7, <1>11, LostIsWritten
  <2>2. /\ DOMAIN incoming' = DOMAIN incoming
        /\ \A u \in DOMAIN incoming : incoming'[u].path = incoming[u].path
    BY <1>11
  <2>. QED  BY <1>9, <1>11, <2>1, <2>2
<1>. QED  BY <1>4, <1>8, <1>10, <1>11 DEF Chunk

\* At the end a transfer's file is accepted and reported, or removed
\* (file_transfer_complete).
LEMMA CompleteStep ==
  ASSUME Inv, NEW t \in Transfer, RelayTransfer(t), t \in DOMAIN incoming,
         relayed[t] > size[t], Complete(t)
  PROVE  Inv' /\ Untouched /\ NoneLeft
<1>1. /\ Sources' /\ UNCHANGED sources
      /\ relayed[t] \in Nat /\ relayed[t] < size[t] + 2 /\ size[t] \in Nat
      /\ relayed'[t] = relayed[t] + 1
      /\ \A u \in Transfer : u # t => relayed'[u] = relayed[u]
      /\ relayed' \in [Transfer -> Nat]
  BY RelayedIs
<1>2. /\ IsFiniteSet(DOMAIN files) /\ DOMAIN kept \subseteq DOMAIN files
      /\ \A p \in DOMAIN kept : kept[p] \in Transfer \cup Bundle
      /\ DOMAIN incoming \subseteq Transfer
      /\ \A u \in DOMAIN incoming :
           /\ incoming[u].path \in DOMAIN files
           /\ incoming[u].path \notin DOMAIN kept
           /\ Numbered(incoming[u].path)
      /\ \A u, v \in DOMAIN incoming : incoming[u].path = incoming[v].path => u = v
  BY DEF Inv, Kept, Owned
<1>3. PICK path : path = incoming[t].path
  OBVIOUS
<1>4. PICK content : content = files[path]
  OBVIOUS
<1>5. Written(t, content, size[t])
  <2>1. relayed[t] - 1 = size[t]
    BY <1>1
  <2>. QED  BY <1>3, <1>4, <2>1 DEF Inv, Filling
<1>6. PICK n \in 0..Len(content) :
        LET final == SubSeq(content, 1, n) IN
        IF Accepts(t, final)
        THEN /\ files' = [files EXCEPT ![path] = final]
             /\ kept' = With(kept, path, t)
             /\ incoming' = Restrict(incoming, DOMAIN incoming \ {t})
        ELSE Discard({t}) /\ UNCHANGED kept
  BY <1>3, <1>4 DEF Complete
<1>7. PICK final : final = SubSeq(content, 1, n)
  OBVIOUS
<1>8. CASE Discard({t}) /\ UNCHANGED kept
  <2>1. /\ Kept' /\ Owned' /\ Untouched /\ NoneLeft
        /\ \A p \in DOMAIN kept : p \in DOMAIN files' /\ files'[p] = files[p]
        /\ DOMAIN incoming' = DOMAIN incoming \ {t}
        /\ \A u \in DOMAIN incoming' : /\ incoming'[u] = incoming[u]
                                       /\ files'[incoming[u].path] = files[incoming[u].path]
    BY <1>8, DiscardKeeps
  <2>2. Inv'
    BY <1>8, <2>1, TransferKeeps
  <2>. QED  BY <2>1, <2>2
<1>9. CASE /\ Accepts(t, final)
           /\ files' = [files EXCEPT ![path] = final]
           /\ kept' = With(kept, path, t)
           /\ incoming' = Restrict(incoming, DOMAIN incoming \ {t})
  <2>1. /\ DOMAIN files' = DOMAIN files /\ files'[path] = final
        /\ \A p \in DOMAIN files : p # path => files'[p] = files[p]
    BY <1>2, <1>3, <1>9
  <2>2. /\ DOMAIN kept' = DOMAIN kept \cup {path} /\ kept'[path] = t
        /\ \A p \in DOMAIN kept : p # path => kept'[p] = kept[p]
    BY <1>9 DEF With
  <2>3. /\ DOMAIN incoming' = DOMAIN incoming \ {t}
        /\ \A u \in DOMAIN incoming' : incoming'[u] = incoming[u]
    BY <1>9 DEF Restrict
  <2>4. Kept'
    BY <1>2, <1>3, <2>1, <2>2 DEF Kept
  <2>5. Owned'
    BY <1>2, <1>3, <2>1, <2>2, <2>3 DEF Owned
  <2>6. Untouched
    BY <1>2, <1>3, <2>1, <2>2 DEF Untouched
  <2>7. NoneLeft
    <3>1. SUFFICES ASSUME NEW u \in DOMAIN incoming, incoming[u].path \notin OpenPaths'
                   PROVE  incoming[u].path \in DOMAIN kept'
      BY DEF NoneLeft, OpenPaths
    <3>2. u = t
      BY <2>3, <3>1 DEF OpenPaths
    <3>. QED  BY <1>3, <2>2, <3>2
  <2>8. digest[t] \/ program = "gui" => final = Whole(t)
    BY <1>5, <1>7, <1>9, AcceptedIsWhole DEF Inv
  <2>9. KeptWhole'
    <3>1. SUFFICES ASSUME NEW p \in DOMAIN kept', kept'[p] \in Transfer,
                          digest[kept'[p]] \/ program = "gui"
                   PROVE  files'[p] = [k \in 1..size[kept'[p]] |-> <<kept'[p], k>>]
      BY <1>1 DEF KeptWhole, Whole, sources
    <3>2. CASE p = path
      BY <2>1, <2>2, <2>8, <3>1, <3>2 DEF Whole
    <3>3. CASE p # path
      <4>1. p \in DOMAIN kept /\ kept'[p] = kept[p] /\ files'[p] = files[p]
        BY <1>2, <2>1, <2>2, <3>3
      <4>2. files[p] = Whole(kept[p])
        BY <3>1, <4>1 DEF Inv, KeptWhole
      <4>. QED  BY <4>1, <4>2 DEF Whole
    <3>. QED  BY <3>2, <3>3
  <2>10. ASSUME NEW u \in DOMAIN incoming'
         PROVE  relayed'[u] >= 1 /\ Written(u, files'[incoming'[u].path], relayed'[u] - 1)
    <3>1. u \in DOMAIN incoming /\ u # t /\ u \in Transfer
      BY <1>2, <2>3
    <3>2. files'[incoming[u].path] = files[incoming[u].path]
      BY <1>2, <1>3, <2>1, <3>1
    <3>. QED  BY <1>1, <2>3, <2>5, <3>1, <3>2, FillingStays
  <2>11. Filling'
    BY <2>10 DEF Filling
  <2>. QED  BY <1>1, <2>4, <2>5, <2>6, <2>7, <2>9, <2>11 DEF Inv
<1>. QED  BY <1>6, <1>7, <1>8, <1>9

\* A file that cannot be read back stays, and nobody is told of it
\* (finalizeIncomingTransfer).
LEMMA CannotVerifyStep ==
  ASSUME Inv, NEW t \in Transfer, RelayTransfer(t), t \in DOMAIN incoming, CannotVerify(t)
  PROVE  Inv' /\ Untouched
<1>1. /\ DOMAIN incoming' = DOMAIN incoming \ {t}
      /\ \A u \in DOMAIN incoming' : incoming'[u] = incoming[u]
      /\ files' = files /\ kept' = kept
  BY DEF CannotVerify, Restrict
<1>2. Kept' /\ Owned' /\ Untouched
  BY <1>1 DEF Inv, Kept, Owned, Untouched
<1>3. Inv'
  BY <1>1, <1>2, TransferKeeps
<1>. QED  BY <1>2, <1>3

-----------------------------------------------------------------------------
(* The other steps *)

\* The files of a bundle take free paths, or names with the time, which no transfer has
\* (saveReceivedFiles, saveLegacyFiles).
LEMMA BundleStep ==
  ASSUME Inv, NEW b \in Bundle, RelayBundle(b)
  PROVE  Inv' /\ Untouched /\ NoneLeft
<1>1. /\ incoming' = incoming /\ UNCHANGED sources /\ relayed' = relayed
      /\ second' = second /\ bundled' = bundled \cup {b}
  BY DEF RelayBundle
<1>2. Sources'
  BY <1>1 DEF Inv, Sources, sources
<1>3. /\ IsFiniteSet(DOMAIN files) /\ DOMAIN kept \subseteq DOMAIN files
      /\ \A p \in DOMAIN kept : kept[p] \in Transfer \cup Bundle
      /\ DOMAIN incoming \subseteq Transfer
      /\ \A u \in DOMAIN incoming :
           /\ incoming[u].path \in DOMAIN files
           /\ incoming[u].path \notin DOMAIN kept
           /\ Numbered(incoming[u].path)
      /\ \A u, v \in DOMAIN incoming : incoming[u].path = incoming[v].path => u = v
  BY DEF Inv, Kept, Owned
<1>4. NoneLeft
  BY <1>1 DEF NoneLeft, OpenPaths
<1>5. CASE UNCHANGED <<files, kept>>
  <2>1. Kept' /\ Owned' /\ Untouched
    BY <1>1, <1>3, <1>5 DEF Kept, Owned, Untouched
  <2>2. KeptWhole'
    BY <1>1, <1>5, WholeStays
  <2>3. Filling'
    BY <1>1, <1>5 DEF Inv, Filling
  <2>. QED  BY <1>2, <1>4, <2>1, <2>2, <2>3 DEF Inv
<1>6. \E opened : \/ UNCHANGED <<files, kept>>
                  \/ LET ps == Opened(BundlePaths(DOMAIN files, opened), opened) IN
                     /\ DOMAIN files' = DOMAIN files \cup ps
                     /\ \A p \in DOMAIN files \ ps : files'[p] = files[p]
                     /\ DOMAIN kept' = DOMAIN kept \cup ps
                     /\ \A p \in DOMAIN kept' : kept'[p] = IF p \in ps THEN b ELSE kept[p]
  <2>1. CASE online
    <3>1. PICK opened \in SUBSET (1..BundleFiles) : \E short \in SUBSET opened :
            LET paths == BundlePaths(DOMAIN files, opened)
                there == Opened(paths, opened)
            IN /\ files' = [p \in DOMAIN files \cup there |->
                              IF p \notin there THEN files[p]
                              ELSE IF LastAt(p, paths, opened) \in short THEN << >>
                              ELSE <<Item(b, LastAt(p, paths, opened))>>]
               /\ kept' = [p \in DOMAIN kept \cup there |->
                             IF p \in there THEN b ELSE kept[p]]
      BY <2>1 DEF RelayBundle
    <3>. QED  BY <3>1
  <2>2. CASE ~online
    BY <2>2 DEF RelayBundle
  <2>. QED  BY <2>1, <2>2
<1>a. PICK opened : \/ UNCHANGED <<files, kept>>
                    \/ LET ps == Opened(BundlePaths(DOMAIN files, opened), opened) IN
                       /\ DOMAIN files' = DOMAIN files \cup ps
                       /\ \A p \in DOMAIN files \ ps : files'[p] = files[p]
                       /\ DOMAIN kept' = DOMAIN kept \cup ps
                       /\ \A p \in DOMAIN kept' : kept'[p] = IF p \in ps THEN b ELSE kept[p]
  BY <1>6
<1>b. PICK ps : ps = Opened(BundlePaths(DOMAIN files, opened), opened)
  OBVIOUS
<1>7. IsFiniteSet(ps) /\ \A p \in ps : p \notin DOMAIN files \/ ~Numbered(p)
  <2>1. second \in Int
    BY DEF Inv, Sources
  <2>2. PICK paths : paths = BundlePaths(DOMAIN files, opened)
    OBVIOUS
  <2>3. Free(paths, DOMAIN files)
    BY <1>3, <2>1, <2>2, BundlePathsAreFree
  <2>4. ps \subseteq Range(paths)
    BY <1>b, <2>2 DEF Opened, Range
  <2>. QED  BY <2>3, <2>4, FS_Subset DEF Free
<1>8. ASSUME DOMAIN files' = DOMAIN files \cup ps,
             \A p \in DOMAIN files \ ps : files'[p] = files[p],
             DOMAIN kept' = DOMAIN kept \cup ps,
             \A p \in DOMAIN kept' : kept'[p] = IF p \in ps THEN b ELSE kept[p]
      PROVE  Inv' /\ Untouched
  <2>1. IsFiniteSet(DOMAIN files')
    <3>1. IsFiniteSet(DOMAIN files \cup ps)
      BY <1>3, <1>7, FS_Union
    <3>. QED  BY <1>8, <3>1
  <2>2. Kept'
    BY <1>3, <1>8, <2>1 DEF Kept
  <2>3. \A u \in DOMAIN incoming :
          incoming[u].path \notin ps /\ files'[incoming[u].path] = files[incoming[u].path]
    BY <1>3, <1>7, <1>8
  <2>4. Owned'
    BY <1>1, <1>3, <1>8, <2>3 DEF Owned
  <2>5. Untouched
    BY <1>3, <1>7, <1>8 DEF Untouched
  <2>6. KeptWhole'
    <3>1. b \notin Transfer
      BY ReceiverAssumption
    <3>2. \A p \in DOMAIN kept' : kept'[p] \in Transfer =>
            p \in DOMAIN kept /\ kept'[p] = kept[p] /\ files'[p] = files[p]
      BY <1>3, <1>8, <3>1
    <3>. QED  BY <1>1, <3>2, WholeStays
  <2>7. Filling'
    BY <1>1, <2>3 DEF Inv, Filling
  <2>. QED  BY <1>2, <2>2, <2>4, <2>5, <2>6, <2>7 DEF Inv
<1>9. ASSUME ~UNCHANGED <<files, kept>> PROVE Inv' /\ Untouched
  <2>1. /\ DOMAIN files' = DOMAIN files \cup ps
        /\ \A p \in DOMAIN files \ ps : files'[p] = files[p]
        /\ DOMAIN kept' = DOMAIN kept \cup ps
        /\ \A p \in DOMAIN kept' : kept'[p] = IF p \in ps THEN b ELSE kept[p]
    BY <1>a, <1>b, <1>9
  <2>. QED  BY <1>8, <2>1
<1>. QED  BY <1>4, <1>5, <1>9

\* What all steps but the messages leave alone.
LEMMA OtherIs ==
  ASSUME Inv, UNCHANGED <<sources, relayed, bundled, kept>>, second' \in Nat, Kept', Owned',
         \A p \in DOMAIN kept : files'[p] = files[p],
         \A u \in DOMAIN incoming' : /\ u \in DOMAIN incoming /\ incoming'[u] = incoming[u]
                                     /\ files'[incoming[u].path] = files[incoming[u].path]
  PROVE  Inv'
<1>1. Sources'
  BY DEF Inv, Sources, sources
<1>2. KeptWhole'
  BY WholeStays DEF Inv, Kept
<1>3. Filling'
  BY DEF Inv, Filling
<1>. QED  BY <1>1, <1>2, <1>3 DEF Inv

\* The connection is lost, or the program ends in order (close, ~MainWindow).
LEMMA DisconnectStep ==
  ASSUME Inv, Disconnect \/ Quit
  PROVE  Inv' /\ Untouched /\ NoneLeft
<1>1. UNCHANGED <<sources, relayed, bundled, second, kept>>
  BY DEF Disconnect, Quit
<1>2. CASE Discard(DOMAIN incoming)
  <2>1. /\ Kept' /\ Owned' /\ Untouched /\ NoneLeft
        /\ \A p \in DOMAIN kept : p \in DOMAIN files' /\ files'[p] = files[p]
        /\ DOMAIN incoming' = {}
    BY <1>1, <1>2, DiscardKeeps
  <2>2. Inv'
    BY <1>1, <2>1, OtherIs DEF Inv, Sources
  <2>. QED  BY <2>1, <2>2
<1>3. CASE UNCHANGED <<files, incoming>>
  <2>1. Kept' /\ Owned' /\ Untouched /\ NoneLeft
    BY <1>1, <1>3 DEF Inv, Kept, Owned, Untouched, NoneLeft, OpenPaths
  <2>2. Inv'
    BY <1>1, <1>3, <2>1, OtherIs DEF Inv, Sources
  <2>. QED  BY <2>1, <2>2
<1>. QED  BY <1>2, <1>3 DEF Disconnect, Quit

\* The process is killed: the files of the open transfers stay.
LEMMA CrashStep ==
  ASSUME Inv, Crash
  PROVE  Inv' /\ Untouched
<1>1. /\ UNCHANGED <<sources, relayed, bundled, second, files, kept>>
      /\ DOMAIN incoming' = {}
  BY DEF Crash
<1>2. Kept' /\ Owned' /\ Untouched
  BY <1>1 DEF Inv, Kept, Owned, Untouched
<1>3. Inv'
  BY <1>1, <1>2, OtherIs DEF Inv, Sources
<1>. QED  BY <1>2, <1>3

\* The client is there again, or a second passes.
LEMMA QuietStep ==
  ASSUME Inv, Reconnect \/ Tick \/ UNCHANGED vars
  PROVE  Inv' /\ Untouched /\ NoneLeft
<1>1. UNCHANGED <<sources, relayed, bundled, files, incoming, kept>> /\ second' \in Nat
  BY DEF Reconnect, Tick, vars, Inv, Sources
<1>2. Kept' /\ Owned' /\ Untouched /\ NoneLeft
  BY <1>1 DEF Inv, Kept, Owned, Untouched, NoneLeft, OpenPaths
<1>3. Inv'
  BY <1>1, <1>2, OtherIs
<1>. QED  BY <1>2, <1>3

\* Every message of a transfer is one of these.
LEMMA TransferStep ==
  ASSUME Inv, NEW t \in Transfer, RelayTransfer(t)
  PROVE  Inv' /\ Untouched /\ (NoneLeft \/ CannotVerify(t))
<1>1. relayed[t] \in Nat /\ size[t] \in Nat
  BY RelayedIs
<1>2. CASE UNCHANGED <<files, incoming, kept>>
  BY <1>2, LostStep
<1>3. CASE relayed[t] = 0 /\ Start(t)
  BY <1>3, StartStep
<1>4. CASE t \in DOMAIN incoming /\ relayed[t] # 0 /\ Chunk(t, relayed[t])
  BY <1>4, ChunkStep
<1>5. CASE t \in DOMAIN incoming /\ relayed[t] > size[t] /\ Complete(t)
  BY <1>5, CompleteStep
<1>6. CASE t \in DOMAIN incoming /\ CannotVerify(t)
  BY <1>6, CannotVerifyStep
<1>. QED  BY <1>1, <1>2, <1>3, <1>4, <1>5, <1>6 DEF RelayTransfer

\* What every step keeps, and leaves behind.
LEMMA StepKeeps ==
  ASSUME Inv, [Next]_vars
  PROVE  /\ Inv' /\ Untouched
         /\ \/ NoneLeft
            \/ Crash
            \/ \E t \in Transfer : RelayTransfer(t) /\ CannotVerify(t)
<1>1. ASSUME NEW t \in Transfer, RelayTransfer(t)
      PROVE  Inv' /\ Untouched /\ (NoneLeft \/ CannotVerify(t))
  BY <1>1, TransferStep
<1>2. ASSUME NEW b \in Bundle, RelayBundle(b) PROVE Inv' /\ Untouched /\ NoneLeft
  BY <1>2, BundleStep
<1>3. CASE Disconnect \/ Quit
  BY <1>3, DisconnectStep
<1>4. CASE Crash
  BY <1>4, CrashStep
<1>5. CASE Reconnect \/ Tick \/ UNCHANGED vars
  BY <1>5, QuietStep
<1>. QED  BY <1>1, <1>2, <1>3, <1>4, <1>5 DEF Next

LEMMA InitInv == Init => Inv
<1>. SUFFICES ASSUME Init PROVE Inv
  OBVIOUS
<1>1. DOMAIN files = {} /\ DOMAIN incoming = {} /\ DOMAIN kept = {}
  BY DEF Init
<1>2. Sources
  <2>1. 0..MaxChunks \subseteq Nat
    OBVIOUS
  <2>. QED  BY <2>1 DEF Init, Sources
<1>3. Kept
  BY <1>1, FS_EmptySet DEF Kept
<1>. QED  BY <1>1, <1>2, <1>3 DEF Inv, Owned, Filling, KeptWhole

-----------------------------------------------------------------------------
LEMMA StepInv == Inv /\ [Next]_vars => Inv'
BY StepKeeps

\* Every open transfer has a file of its own, with the first of its chunks and no others,
\* and what was reported as saved is there.
THEOREM ReceiverInvariant == Spec => []Inv
BY InitInv, StepInv, PTL DEF Spec

\* A chunked file that was reported as saved is what the sender sent, whatever was lost on
\* the way or on the disk; without a digest only the Qt clients can promise it.
THEOREM KeptFilesAreWhole == Spec => []KeptWhole
<1>1. Inv => KeptWhole
  BY DEF Inv
<1>. QED  BY ReceiverInvariant, <1>1, PTL

\* What was reported as saved is not written to again, however many files of the same name
\* come within the same second, but for a name with the time.
THEOREM KeptFilesStay == Spec => NeverOverwritten
<1>1. Inv /\ [Next]_vars =>
        [\A p \in DOMAIN kept :
           p[2] # Stamped => p \in DOMAIN files' /\ files'[p] = files[p] /\ kept'[p] = kept[p]]_vars
  BY StepKeeps DEF Untouched, Numbered
<1>. QED  BY ReceiverInvariant, <1>1, PTL DEF Spec, NeverOverwritten

\* A transfer that is over leaves its file only if that was reported as saved, except for a
\* crash and for a file that cannot be read back.
THEOREM NoFileIsOrphaned == Spec => NoOrphans
<1>1. Inv /\ [Next]_vars =>
        [\A p \in OpenPaths \ OpenPaths' :
           \/ p \in DOMAIN kept'
           \/ p \notin DOMAIN files'
           \/ Crash
           \/ \E t \in Transfer : RelayTransfer(t) /\ CannotVerify(t)]_vars
  BY StepKeeps DEF NoneLeft
<1>. QED  BY ReceiverInvariant, <1>1, PTL DEF Spec, NoOrphans

=============================================================================
