--------------------------- MODULE AuthRateProofs ---------------------------
(***************************************************************************)
(* Theorems about the limit on failed authentications, for any number of   *)
(* sessions, addresses and accounts, any limit, cap and window.            *)
(***************************************************************************)
EXTENDS AuthRate, FiniteSetTheorems, TLAPS

-----------------------------------------------------------------------------
(* The inductive invariant                                                  *)

\* who has been asked for a password has an address and an account
Named == \A s \in Session : at[s] # "out" => from[s] \in Address /\ as[s] \in Account

\* the sessions whose wrong password for k was looked at, and is still to be recorded
Waiting(k) == {s \in Session : at[s] = "record" /\ allowed[s] /\ k \in Keys(s)}

Bound == MaxFailures + Cardinality(Session \ Owner) - 1

\* only a guess is looked at and recorded
Guessing == \A s \in Session : at[s] = "record" /\ allowed[s] => s \notin Owner

\* what is looked at is counted, and while the window is open, what is still to be counted
\* is within the bound
Accounted(k) ==
  /\ rates[k].failures < MaxCount => looked[k] <= rates[k].failures
  /\ rates[k].age < Window => looked[k] + Cardinality(Waiting(k)) <= Bound
  /\ looked[k] <= Bound

\* the table of failures, as long as it is what TypeOK says
Table(table) ==
  /\ IsFiniteSet(DOMAIN table) /\ DOMAIN table \subseteq Key
  /\ \A k \in DOMAIN table : table[k] \in Entry
  /\ Cardinality(DOMAIN table) <= MaxEntries

Typed == TypeOK /\ Table(rates) /\ Named /\ Guessing

Inv == Typed /\ \A k \in DOMAIN rates : Accounted(k)

-----------------------------------------------------------------------------
\* The limits as the provers take them, one by one.
LEMMA Limits ==
  /\ MaxFailures \in Nat /\ MaxFailures > 0 /\ MaxEntries \in Nat /\ Window \in Nat /\ Window > 0
  /\ MaxGuesses \in Nat /\ MaxCount \in Nat /\ MaxCount > MaxFailures
  /\ Owner \subseteq Session /\ IsFiniteSet(Session) /\ None \notin Address \cup Account
BY RateAssumption DEF RateAssumption

\* Pruning (authenticationAllowed) keeps what is left of the table as it is.
LEMMA PrunedTable ==
  ASSUME Table(rates)
  PROVE  /\ Table(Pruned) /\ DOMAIN Pruned \subseteq DOMAIN rates
         /\ \A k \in DOMAIN Pruned : Pruned[k] = rates[k]
<1>1. CASE Full(rates)
  <2>. DEFINE D == {k \in DOMAIN rates : rates[k].age < Window}
  <2>1. Pruned = [k \in D |-> rates[k]]
    BY <1>1 DEF Pruned
  <2>2. D \subseteq DOMAIN rates /\ DOMAIN Pruned = D /\ \A k \in D : Pruned[k] = rates[k]
    BY <2>1
  <2>3. IsFiniteSet(D) /\ Cardinality(D) <= Cardinality(DOMAIN rates)
    BY <2>2, FS_Subset DEF Table
  <2>4. Cardinality(D) \in Nat /\ Cardinality(DOMAIN rates) \in Nat
    BY <2>3, FS_CardinalityType DEF Table
  <2>5. Cardinality(D) <= MaxEntries
    BY <2>3, <2>4, Limits DEF Table
  <2>. HIDE DEF D
  <2>. QED  BY <2>2, <2>3, <2>5 DEF Table
<1>2. CASE ~Full(rates)
  BY <1>2 DEF Pruned
<1>. QED  BY <1>1, <1>2

\* A failure (recordAuthenticationFailure) enters a key that has room or is there already,
\* and touches no other.
LEMMA CountedTable ==
  ASSUME NEW table, Table(table), NEW k \in Key
  PROVE  /\ Table(Counted(table, k))
         /\ DOMAIN table \subseteq DOMAIN Counted(table, k)
         /\ DOMAIN Counted(table, k) \subseteq DOMAIN table \cup {k}
         /\ \A j \in DOMAIN table \ {k} : Counted(table, k)[j] = table[j]
         /\ k \in DOMAIN Counted(table, k) =>
              IF k \notin DOMAIN table \/ table[k].age >= Window
              THEN Counted(table, k)[k] = [failures |-> 1, age |-> 0]
              ELSE /\ Counted(table, k)[k].age = table[k].age
                   /\ Counted(table, k)[k].failures =
                        IF table[k].failures = MaxCount THEN MaxCount ELSE table[k].failures + 1
<1>1. CASE Full(table) /\ k \notin DOMAIN table
  BY <1>1 DEF Counted
<1>2. CASE ~(Full(table) /\ k \notin DOMAIN table)
  <2>. DEFINE T == Counted(table, k)
              E == IF k \notin DOMAIN table \/ table[k].age >= Window
                   THEN [failures |-> 1, age |-> 0]
                   ELSE [table[k] EXCEPT !.failures = IF @ = MaxCount THEN @ ELSE @ + 1]
  <2>1. T = [j \in DOMAIN table \cup {k} |-> IF j # k THEN table[j] ELSE E]
    BY <1>2 DEF Counted
  <2>2. E \in Entry
    <3>1. CASE k \notin DOMAIN table \/ table[k].age >= Window
      BY <3>1, Limits DEF Entry
    <3>2. CASE k \in DOMAIN table /\ ~(table[k].age >= Window)
      <4>1. table[k] \in Entry
        BY <3>2 DEF Table
      <4>. QED  BY <3>2, <4>1, Limits DEF Entry
    <3>. QED  BY <3>1, <3>2
  <2>3. DOMAIN T = DOMAIN table \cup {k} /\ T[k] = E /\ \A j \in DOMAIN table \ {k} : T[j] = table[j]
    BY <2>1
  <2>4. IsFiniteSet(DOMAIN T) /\ Cardinality(DOMAIN T) <= MaxEntries
    <3>1. Cardinality(DOMAIN table) \in Nat
      BY FS_CardinalityType DEF Table
    <3>2. CASE k \in DOMAIN table
      <4>1. DOMAIN T = DOMAIN table
        BY <2>3, <3>2
      <4>. QED  BY <4>1 DEF Table
    <3>3. CASE k \notin DOMAIN table
      <4>1. IsFiniteSet(DOMAIN T) /\ Cardinality(DOMAIN T) = Cardinality(DOMAIN table) + 1
        BY <2>3, <3>3, FS_AddElement DEF Table
      <4>2. ~(Cardinality(DOMAIN table) >= MaxEntries)
        BY <1>2, <3>3 DEF Full
      <4>. QED  BY <3>1, <4>1, <4>2, Limits
    <3>. QED  BY <3>2, <3>3
  <2>5. Table(T)
    <3>1. DOMAIN T \subseteq Key
      BY <2>3 DEF Table
    <3>2. \A j \in DOMAIN T : T[j] \in Entry
      BY <2>2, <2>3 DEF Table
    <3>. QED  BY <2>4, <3>1, <3>2 DEF Table
  <2>6. IF k \notin DOMAIN table \/ table[k].age >= Window
        THEN E = [failures |-> 1, age |-> 0]
        ELSE /\ E.age = table[k].age
             /\ E.failures = IF table[k].failures = MaxCount THEN MaxCount ELSE table[k].failures + 1
    <3>1. k \in DOMAIN table => table[k] \in Entry
      BY DEF Table
    <3>. QED  BY <3>1 DEF Entry
  <2>. HIDE DEF T, E
  <2>7. /\ Table(T) /\ DOMAIN table \subseteq DOMAIN T /\ DOMAIN T \subseteq DOMAIN table \cup {k}
        /\ \A j \in DOMAIN table \ {k} : T[j] = table[j]
        /\ k \in DOMAIN T =>
              IF k \notin DOMAIN table \/ table[k].age >= Window
              THEN T[k] = [failures |-> 1, age |-> 0]
              ELSE /\ T[k].age = table[k].age
                   /\ T[k].failures =
                        IF table[k].failures = MaxCount THEN MaxCount ELSE table[k].failures + 1
    BY <2>3, <2>5, <2>6
  <2>. QED  BY <2>7 DEF T
<1>. QED  BY <1>1, <1>2

\* At the start nobody is in and the table is empty.
LEMMA TypedInit == Init => Typed
<1>. SUFFICES ASSUME Init PROVE Typed
  OBVIOUS
<1>1. DOMAIN rates = {}
  BY DEF Init
<1>2. Table(rates)
  BY <1>1, FS_EmptySet, Limits DEF Table
<1>3. guesses \in 0..MaxGuesses
  BY Limits DEF Init
<1>4. TypeOK
  BY <1>2, <1>3 DEF Init, TypeOK, Table
<1>5. Named /\ Guessing
  BY DEF Init, Named, Guessing
<1>. QED  BY <1>2, <1>4, <1>5 DEF Typed

\* The two keys of a session that has named an account are keys of the table.
LEMMA KeysAreKeys ==
  ASSUME Typed, NEW s \in Session, at[s] # "out"
  PROVE  <<"ip", from[s]>> \in Key /\ <<"account", as[s]>> \in Key /\ Keys(s) \subseteq Key
<1>1. from[s] \in Address /\ as[s] \in Account
  BY DEF Typed, Named
<1>2. <<"ip", from[s]>> \in {"ip"} \X Address /\ <<"account", as[s]>> \in {"account"} \X Account
  BY <1>1
<1>. QED  BY <1>2 DEF Key, Keys

\* A session that is closed is out, and named no more.
LEMMA ClosedTyped ==
  ASSUME Typed, NEW s \in Session, Closed(s)
  PROVE  /\ at' \in [Session -> {"out", "check", "record", "in"}]
         /\ from' \in [Session -> Address \cup {None}] /\ as' \in [Session -> Account \cup {None}]
         /\ allowed' \in [Session -> BOOLEAN] /\ Named' /\ Guessing'
<1>. USE DEF Typed, TypeOK, Closed
<1>1. at'[s] = "out" /\ \A t \in Session \ {s} :
        at'[t] = at[t] /\ from'[t] = from[t] /\ as'[t] = as[t] /\ allowed'[t] = allowed[t]
  OBVIOUS
<1>2. Named' /\ Guessing'
  BY <1>1 DEF Named, Guessing
<1>3. at' \in [Session -> {"out", "check", "record", "in"}]
  OBVIOUS
<1>4. from' \in [Session -> Address \cup {None}] /\ as' \in [Session -> Account \cup {None}]
  OBVIOUS
<1>5. allowed' \in [Session -> BOOLEAN]
  OBVIOUS
<1>. QED  BY <1>2, <1>3, <1>4, <1>5

\* Both keys of a failure are counted, each for itself.
LEMMA RecordedTable ==
  ASSUME Typed, NEW s \in Session, Record(s)
  PROVE  /\ Table(rates') /\ DOMAIN rates' \subseteq DOMAIN rates \cup Keys(s)
         /\ DOMAIN rates \subseteq DOMAIN rates'
         /\ \A k \in DOMAIN rates \ Keys(s) : rates'[k] = rates[k]
         /\ \A k \in Keys(s) \cap DOMAIN rates' :
              IF k \notin DOMAIN rates \/ rates[k].age >= Window
              THEN rates'[k] = [failures |-> 1, age |-> 0]
              ELSE /\ rates'[k].age = rates[k].age
                   /\ rates'[k].failures =
                        IF rates[k].failures = MaxCount THEN MaxCount ELSE rates[k].failures + 1
<1>. DEFINE ip == <<"ip", from[s]>>
            account == <<"account", as[s]>>
            first == Counted(rates, ip)
<1>1. at[s] # "out" /\ rates' = Counted(first, account)
  BY DEF Record
<1>2. ip \in Key /\ account \in Key /\ ip # account /\ Keys(s) = {ip, account}
  BY <1>1, KeysAreKeys DEF Keys
<1>3. Table(rates)
  BY DEF Typed
<1>. HIDE DEF ip, account
<1>4. /\ Table(first) /\ DOMAIN rates \subseteq DOMAIN first
      /\ DOMAIN first \subseteq DOMAIN rates \cup {ip}
      /\ \A j \in DOMAIN rates \ {ip} : first[j] = rates[j]
      /\ ip \in DOMAIN first =>
              IF ip \notin DOMAIN rates \/ rates[ip].age >= Window
              THEN first[ip] = [failures |-> 1, age |-> 0]
              ELSE /\ first[ip].age = rates[ip].age
                   /\ first[ip].failures =
                        IF rates[ip].failures = MaxCount THEN MaxCount ELSE rates[ip].failures + 1
  BY <1>2, <1>3, CountedTable
<1>. HIDE DEF first
<1>5. /\ Table(rates') /\ DOMAIN first \subseteq DOMAIN rates'
      /\ DOMAIN rates' \subseteq DOMAIN first \cup {account}
      /\ \A j \in DOMAIN first \ {account} : rates'[j] = first[j]
      /\ account \in DOMAIN rates' =>
              IF account \notin DOMAIN first \/ first[account].age >= Window
              THEN rates'[account] = [failures |-> 1, age |-> 0]
              ELSE /\ rates'[account].age = first[account].age
                   /\ rates'[account].failures =
                        IF first[account].failures = MaxCount THEN MaxCount
                        ELSE first[account].failures + 1
  BY <1>1, <1>2, <1>4, CountedTable
<1>6. account \in DOMAIN first <=> account \in DOMAIN rates
  BY <1>2, <1>4
<1>7. account \in DOMAIN rates => first[account] = rates[account]
  BY <1>2, <1>4
<1>8. ip \in DOMAIN rates' => ip \in DOMAIN first /\ rates'[ip] = first[ip]
  BY <1>2, <1>5
<1>9. \A k \in DOMAIN rates \ {ip, account} : rates'[k] = rates[k]
  BY <1>4, <1>5
<1>10. DOMAIN rates \subseteq DOMAIN rates' /\ DOMAIN rates' \subseteq DOMAIN rates \cup {ip, account}
  BY <1>4, <1>5
<1>11. \A k \in {ip, account} \cap DOMAIN rates' :
              IF k \notin DOMAIN rates \/ rates[k].age >= Window
              THEN rates'[k] = [failures |-> 1, age |-> 0]
              ELSE /\ rates'[k].age = rates[k].age
                   /\ rates'[k].failures =
                        IF rates[k].failures = MaxCount THEN MaxCount ELSE rates[k].failures + 1
  <2>1. CASE ip \in DOMAIN rates' /\ account \in DOMAIN rates'
    BY <1>4, <1>5, <1>6, <1>7, <1>8, <2>1
  <2>2. CASE ip \in DOMAIN rates' /\ account \notin DOMAIN rates'
    BY <1>4, <1>8, <2>2
  <2>3. CASE ip \notin DOMAIN rates'
    BY <1>5, <1>6, <1>7, <2>3
  <2>. QED  BY <2>1, <2>2, <2>3
<1>. QED  BY <1>2, <1>5, <1>9, <1>10, <1>11

\* Time passes for every entry.
LEMMA TickedTable ==
  ASSUME Typed, Tick
  PROVE  /\ Table(rates') /\ DOMAIN rates' = DOMAIN rates
         /\ \A k \in DOMAIN rates :
              /\ rates'[k].failures = rates[k].failures
              /\ rates'[k].age < Window => rates[k].age < Window
<1>1. DOMAIN rates' = DOMAIN rates
  BY DEF Tick
<1>2. ASSUME NEW k \in DOMAIN rates
      PROVE  /\ rates'[k] \in Entry /\ rates'[k].failures = rates[k].failures
             /\ rates'[k].age < Window => rates[k].age < Window
  <2>1. rates[k] \in Entry
    BY DEF Typed, Table
  <2>2. rates'[k] = [rates[k] EXCEPT !.age = IF @ = Window THEN @ ELSE @ + 1]
    BY DEF Tick
  <2>3. rates'[k].failures = rates[k].failures
        /\ rates'[k].age = IF rates[k].age = Window THEN Window ELSE rates[k].age + 1
    BY <2>1, <2>2 DEF Entry
  <2>4. rates'[k] \in Entry
    BY <2>1, <2>2, Limits DEF Entry
  <2>. QED  BY <2>1, <2>3, <2>4, Limits DEF Entry
<1>. QED  BY <1>1, <1>2 DEF Typed, Table

\* Every step keeps the types, the table within its cap.
LEMMA TypedStep == Typed /\ [Next]_vars => Typed'
<1>. SUFFICES ASSUME Typed, [Next]_vars PROVE Typed'
  OBVIOUS
<1>1. ASSUME NEW s \in Session, NEW a \in Address, NEW c \in Account, Ask(s, a, c) PROVE Typed'
  <2>. USE <1>1 DEF Ask, Typed, TypeOK
  <2>1. at' \in [Session -> {"out", "check", "record", "in"}] /\ from' \in [Session -> Address \cup {None}]
        /\ as' \in [Session -> Account \cup {None}]
    OBVIOUS
  <2>2. guesses' \in 0..MaxGuesses
    BY Limits
  <2>3. at'[s] = "check" /\ from'[s] = a /\ as'[s] = c /\ \A t \in Session \ {s} :
          at'[t] = at[t] /\ from'[t] = from[t] /\ as'[t] = as[t] /\ allowed'[t] = allowed[t]
    OBVIOUS
  <2>4. Named' /\ Guessing'
    BY <2>3 DEF Named, Guessing
  <2>. QED  BY <2>1, <2>2, <2>4 DEF Table
<1>2. ASSUME NEW s \in Session, Check(s) PROVE Typed'
  <2>. USE <1>2 DEF Check
  <2>1. Table(rates')
    BY PrunedTable DEF Typed
  <2>2. at' \in [Session -> {"out", "check", "record", "in"}] /\ allowed' \in [Session -> BOOLEAN]
    BY DEF Typed, TypeOK, Allowed
  <2>3. TypeOK'
    BY <2>1, <2>2 DEF Typed, TypeOK, Table
  <2>4. at[s] = "check" /\ (allowed'[s] /\ at'[s] = "record" => s \notin Owner)
        /\ \A t \in Session \ {s} : at'[t] = at[t] /\ allowed'[t] = allowed[t]
    BY DEF Typed, TypeOK
  <2>5. Named'
    BY <2>4 DEF Typed, Named
  <2>6. Guessing'
    BY <2>4 DEF Typed, Guessing
  <2>. QED  BY <2>1, <2>3, <2>5, <2>6 DEF Typed
<1>3. ASSUME NEW s \in Session, Record(s) PROVE Typed'
  <2>1. Closed(s) /\ UNCHANGED guesses
    BY <1>3 DEF Record
  <2>2. Table(rates')
    BY <1>3, RecordedTable
  <2>3. looked' \in [Key -> Nat]
    <3>1. \A k \in Key : looked[k] \in Nat
      BY DEF Typed, TypeOK
    <3>. QED  BY <1>3, <3>1 DEF Record
  <2>. QED  BY <2>1, <2>2, <2>3, ClosedTyped DEF Typed, TypeOK, Table
<1>4. ASSUME NEW s \in Session, Leave(s) PROVE Typed'
  <2>1. Closed(s) /\ UNCHANGED <<rates, guesses, looked>>
    BY <1>4 DEF Leave
  <2>. QED  BY <2>1, ClosedTyped DEF Typed, TypeOK, Table
<1>5. CASE Tick
  <2>1. Table(rates') /\ UNCHANGED <<at, from, as, allowed, guesses, looked>>
    BY <1>5, TickedTable DEF Tick
  <2>. QED  BY <2>1 DEF Typed, TypeOK, Table, Named, Guessing
<1>6. CASE UNCHANGED vars
  BY <1>6 DEF vars, Typed, TypeOK, Table, Named, Guessing
<1>. QED
  BY <1>1, <1>2, <1>3, <1>4, <1>5, <1>6 DEF Next, Step

-----------------------------------------------------------------------------
(* The bound on guesses                                                     *)

\* No more sessions wait than there are that have to guess.
LEMMA WaitingBounded ==
  ASSUME Typed, NEW k
  PROVE  /\ IsFiniteSet(Waiting(k)) /\ Cardinality(Waiting(k)) \in Nat
         /\ IsFiniteSet(Session \ Owner) /\ Cardinality(Session \ Owner) \in Nat
         /\ Cardinality(Waiting(k)) <= Cardinality(Session \ Owner)
<1>1. IsFiniteSet(Session \ Owner)
  BY Limits, FS_Subset
<1>2. Waiting(k) \in SUBSET (Session \ Owner)
  BY DEF Waiting, Typed, Guessing
<1>3. IsFiniteSet(Waiting(k)) /\ Cardinality(Waiting(k)) <= Cardinality(Session \ Owner)
  BY <1>1, <1>2, FS_Subset
<1>. QED  BY <1>1, <1>3, FS_CardinalityType

\* The same of the next state.
LEMMA WaitingBoundedAfter ==
  ASSUME Typed', NEW k
  PROVE  /\ IsFiniteSet(Waiting(k)') /\ Cardinality(Waiting(k)') \in Nat
         /\ Cardinality(Waiting(k)') <= Cardinality(Session \ Owner)
<1>1. IsFiniteSet(Session \ Owner)
  BY Limits, FS_Subset
<1>2. Waiting(k)' \in SUBSET (Session \ Owner)
  BY DEF Waiting, Typed, Guessing
<1>3. IsFiniteSet(Waiting(k)') /\ Cardinality(Waiting(k)') <= Cardinality(Session \ Owner)
  BY <1>1, <1>2, FS_Subset
<1>. QED  BY <1>3, FS_CardinalityType

\* Nothing is lost on the way from the check to the record: a step in which nobody comes to
\* wait, and the entry keeps its count and does not become younger, keeps the account.
LEMMA UndisturbedAccount ==
  ASSUME Typed, Typed', NEW k \in DOMAIN rates, k \in DOMAIN rates', Accounted(k),
         rates'[k].failures = rates[k].failures,
         rates'[k].age < Window => rates[k].age < Window,
         looked'[k] = looked[k], Waiting(k)' \subseteq Waiting(k)
  PROVE  Accounted(k)'
<1>1. Cardinality(Waiting(k)') <= Cardinality(Waiting(k))
  BY WaitingBounded, FS_Subset
<1>2. Cardinality(Waiting(k)') \in Nat /\ Cardinality(Waiting(k)) \in Nat
      /\ Cardinality(Session \ Owner) \in Nat
  BY WaitingBounded, WaitingBoundedAfter
<1>3. looked[k] \in Nat /\ Bound \in Int
  BY <1>2, Limits DEF Typed, TypeOK, Bound
<1>4. Bound' = Bound
  BY DEF Bound
<1>. QED
  BY <1>1, <1>2, <1>3, <1>4 DEF Accounted

\* A recorded failure takes its session from those who wait to those looked at.
LEMMA RecordedAccount ==
  ASSUME Inv, Typed', NEW s \in Session, Record(s), NEW k \in DOMAIN rates'
  PROVE  Accounted(k)'
<1>0. Typed /\ at[s] = "record" /\ Closed(s) /\ k \in Key
  BY DEF Inv, Record, Typed, Table
<1>1. at'[s] = "out" /\ \A t \in Session \ {s} :
        at'[t] = at[t] /\ from'[t] = from[t] /\ as'[t] = as[t] /\ allowed'[t] = allowed[t]
  BY <1>0 DEF Closed, Typed, TypeOK
<1>2. Waiting(k)' = Waiting(k) \ {s}
  BY <1>1 DEF Waiting, Keys
<1>3. /\ IsFiniteSet(Waiting(k)) /\ Cardinality(Waiting(k)) \in Nat
      /\ Cardinality(Session \ Owner) \in Nat
      /\ Cardinality(Waiting(k)) <= Cardinality(Session \ Owner)
  BY <1>0, WaitingBounded
<1>4. Cardinality(Waiting(k)') \in Nat /\ Cardinality(Waiting(k)') =
        IF s \in Waiting(k) THEN Cardinality(Waiting(k)) - 1 ELSE Cardinality(Waiting(k))
  BY <1>2, <1>3, FS_RemoveElement, WaitingBoundedAfter
<1>5. looked[k] \in Nat /\ Bound' = Bound /\ allowed[s] \in BOOLEAN
  BY <1>0 DEF Typed, TypeOK, Bound
<1>6. CASE k \notin Keys(s)
  <2>1. k \in DOMAIN rates /\ rates'[k] = rates[k]
    BY <1>0, <1>6, RecordedTable
  <2>2. looked'[k] = looked[k]
    BY <1>0, <1>6 DEF Record
  <2>. QED  BY <1>0, <1>2, <2>1, <2>2, UndisturbedAccount DEF Inv
<1>7. CASE k \in Keys(s)
  <2>1. s \in Waiting(k) <=> allowed[s]
    BY <1>0, <1>7 DEF Waiting
  <2>2. CASE k \notin DOMAIN rates \/ rates[k].age >= Window
    <3>1. rates'[k] = [failures |-> 1, age |-> 0]
      BY <1>0, <1>7, <2>2, RecordedTable
    <3>2. looked'[k] = IF allowed[s] THEN 1 ELSE 0
      BY <1>0, <1>5, <1>7, <2>2 DEF Record
    <3>3. looked'[k] + Cardinality(Waiting(k)') <= Bound /\ looked'[k] <= Bound
      <4>1. CASE allowed[s]
        BY <1>3, <1>4, <2>1, <3>2, <4>1, Limits DEF Bound
      <4>2. CASE ~allowed[s]
        BY <1>3, <1>4, <2>1, <3>2, <4>2, Limits DEF Bound
      <4>. QED  BY <1>5, <4>1, <4>2
    <3>4. looked'[k] <= 1
      BY <3>2
    <3>. QED  BY <1>5, <3>1, <3>3, <3>4 DEF Accounted
  <2>3. CASE k \in DOMAIN rates /\ ~(rates[k].age >= Window)
    <3>1. /\ rates'[k].age = rates[k].age
          /\ rates'[k].failures =
               IF rates[k].failures = MaxCount THEN MaxCount ELSE rates[k].failures + 1
      BY <1>0, <1>7, <2>3, RecordedTable
    <3>2. looked'[k] = looked[k] + (IF allowed[s] THEN 1 ELSE 0)
      BY <1>0, <1>7, <2>3 DEF Record
    <3>3. Accounted(k) /\ rates[k].failures \in 0..MaxCount /\ rates[k].age \in 0..Window
      BY <1>0, <2>3 DEF Inv, Typed, Table, Entry
    <3>4. looked[k] + Cardinality(Waiting(k)) <= Bound
      BY <2>3, <3>3, Limits DEF Accounted
    <3>5. looked'[k] + Cardinality(Waiting(k)') <= Bound /\ looked'[k] <= Bound
      <4>. Bound \in Int
        BY <1>3, Limits DEF Bound
      <4>1. CASE allowed[s]
        BY <1>3, <1>4, <1>5, <2>1, <3>2, <3>4, <4>1
      <4>2. CASE ~allowed[s]
        BY <1>3, <1>4, <1>5, <2>1, <3>2, <3>4, <4>2
      <4>. QED  BY <1>5, <4>1, <4>2
    <3>6. rates'[k].failures < MaxCount => looked'[k] <= rates'[k].failures
      BY <1>5, <3>1, <3>2, <3>3, Limits DEF Accounted
    <3>. QED  BY <1>5, <3>5, <3>6 DEF Accounted
  <2>. QED  BY <2>2, <2>3
<1>. QED  BY <1>6, <1>7

\* Every step keeps the account of every key in the table.
LEMMA InvStep == Inv /\ [Next]_vars => Inv'
<1>. SUFFICES ASSUME Inv, [Next]_vars PROVE Inv'
  OBVIOUS
<1>0. Typed /\ Typed'
  BY TypedStep DEF Inv
<1>1. ASSUME NEW s \in Session, NEW a \in Address, NEW c \in Account, Ask(s, a, c),
             NEW k \in DOMAIN rates'
      PROVE  Accounted(k)'
  <2>1. UNCHANGED <<rates, looked>> /\ k \in DOMAIN rates
    BY <1>1 DEF Ask
  <2>2. at'[s] = "check" /\ \A t \in Session \ {s} :
          at'[t] = at[t] /\ from'[t] = from[t] /\ as'[t] = as[t] /\ allowed'[t] = allowed[t]
    BY <1>0, <1>1 DEF Ask, Typed, TypeOK
  <2>3. Waiting(k)' \subseteq Waiting(k)
    BY <2>2 DEF Waiting, Keys
  <2>4. Accounted(k)
    BY <2>1 DEF Inv
  <2>. QED  BY <1>0, <2>1, <2>3, <2>4, UndisturbedAccount
<1>2. ASSUME NEW s \in Session, Check(s), NEW k \in DOMAIN rates' PROVE Accounted(k)'
  <2>1. rates' = Pruned /\ UNCHANGED <<from, as, looked>>
    BY <1>2 DEF Check
  <2>2. k \in DOMAIN rates /\ rates'[k] = rates[k]
    BY <1>0, <2>1, PrunedTable DEF Typed
  <2>3. Accounted(k)
    BY <2>2 DEF Inv
  <2>4. \A t \in Session \ {s} : at'[t] = at[t] /\ allowed'[t] = allowed[t]
    BY <1>0, <1>2 DEF Check, Typed, TypeOK
  <2>5. CASE Allowed(rates', s) /\ k \in Keys(s)
    <3>1. rates[k].age < Window => rates[k].failures < MaxFailures
      <4>1. BelowLimit(rates', k)
        BY <2>5 DEF Allowed
      <4>2. rates[k] \in Entry
        BY <1>0, <2>2 DEF Typed, Table
      <4>. QED  BY <2>2, <4>1, <4>2, Limits DEF BelowLimit, Entry
    <3>2. rates[k].failures \in Nat
      BY <1>0, <2>2 DEF Typed, Table, Entry
    <3>3. rates[k].age < Window => looked[k] <= MaxFailures - 1
      <4>1. looked[k] \in Nat
        BY <1>0, <2>2 DEF Typed, TypeOK
      <4>. QED  BY <2>3, <3>1, <3>2, <4>1, Limits DEF Accounted
    <3>4. /\ Cardinality(Waiting(k)') \in Nat /\ Cardinality(Session \ Owner) \in Nat
          /\ Cardinality(Waiting(k)') <= Cardinality(Session \ Owner)
      BY <1>0, WaitingBounded, WaitingBoundedAfter
    <3>5. looked'[k] = looked[k] /\ looked[k] \in Nat /\ Bound' = Bound
      BY <1>0, <2>1, <2>2 DEF Typed, TypeOK, Bound
    <3>6. rates[k].age < Window => looked'[k] + Cardinality(Waiting(k)') <= Bound
      BY <3>3, <3>4, <3>5, Limits DEF Bound
    <3>. QED  BY <2>2, <2>3, <3>5, <3>6 DEF Accounted
  <2>6. CASE ~(Allowed(rates', s) /\ k \in Keys(s))
    <3>1. allowed'[s] => Allowed(rates', s)
      BY <1>0, <1>2, <2>1 DEF Check, Typed, TypeOK
    <3>2. Waiting(k)' \subseteq Waiting(k)
      BY <2>1, <2>4, <2>6, <3>1 DEF Waiting, Keys
    <3>. QED  BY <1>0, <2>1, <2>2, <2>3, <3>2, UndisturbedAccount
  <2>. QED  BY <2>5, <2>6
<1>3. ASSUME NEW s \in Session, Record(s), NEW k \in DOMAIN rates' PROVE Accounted(k)'
  <2>. QED  BY <1>0, <1>3, RecordedAccount DEF Inv
<1>4. ASSUME NEW s \in Session, Leave(s), NEW k \in DOMAIN rates' PROVE Accounted(k)'
  <2>1. UNCHANGED <<rates, looked>> /\ k \in DOMAIN rates /\ Closed(s)
    BY <1>4 DEF Leave
  <2>2. at'[s] = "out" /\ \A t \in Session \ {s} :
          at'[t] = at[t] /\ from'[t] = from[t] /\ as'[t] = as[t] /\ allowed'[t] = allowed[t]
    BY <1>0, <2>1 DEF Closed, Typed, TypeOK
  <2>3. Waiting(k)' \subseteq Waiting(k)
    BY <2>2 DEF Waiting, Keys
  <2>4. Accounted(k)
    BY <2>1 DEF Inv
  <2>. QED  BY <1>0, <2>1, <2>3, <2>4, UndisturbedAccount
<1>5. ASSUME Tick, NEW k \in DOMAIN rates' PROVE Accounted(k)'
  <2>1. k \in DOMAIN rates /\ rates'[k].failures = rates[k].failures
        /\ (rates'[k].age < Window => rates[k].age < Window)
    BY <1>0, <1>5, TickedTable
  <2>2. looked' = looked /\ Waiting(k)' = Waiting(k)
    BY <1>5 DEF Tick, Waiting, Keys
  <2>3. Accounted(k)
    BY <2>1 DEF Inv
  <2>. QED  BY <1>0, <2>1, <2>2, <2>3, UndisturbedAccount
<1>6. CASE UNCHANGED vars
  BY <1>0, <1>6 DEF vars, Inv, Accounted, Waiting, Keys, Bound
<1>7. \A k \in DOMAIN rates' : Accounted(k)'
  BY <1>1, <1>2, <1>3, <1>4, <1>5, <1>6 DEF Next, Step, Inv
<1>. QED  BY <1>0, <1>7 DEF Inv

-----------------------------------------------------------------------------
\* At the start there is nothing to account for.
LEMMA InitInv == Init => Inv
BY TypedInit DEF Init, Inv

\* The table of failed authentications keeps to its cap, and everything its type.
THEOREM RateTypes == Spec => []TypeOK
<1>1. Typed => TypeOK
  BY DEF Typed
<1>. QED  BY <1>1, TypedInit, TypedStep, PTL DEF Spec

\* The invariant of the accounting, on which the bound on guesses rests.
THEOREM RateInvariant == Spec => []Inv
BY InitInv, InvStep, PTL DEF Spec

\* However the checks and the records of different sessions interleave, the passwords
\* looked at for one key in one window exceed the limit by fewer than the sessions that
\* guess (authenticationAllowed, recordAuthenticationFailure).
THEOREM GuessesAreBounded == Spec => []GuessesBounded
<1>1. Inv => GuessesBounded
  BY DEF Inv, Accounted, Bound, GuessesBounded
<1>. QED  BY <1>1, RateInvariant, PTL

=============================================================================
