------------------------------ MODULE AuthRate ------------------------------
(***************************************************************************)
(* The limit on failed authentications (authenticateClient,                *)
(* authenticationAllowed and recordAuthenticationFailure in                *)
(* server_common/tcpserver.cpp).  The check and the record each take       *)
(* authenticationRateMutex_, but the password is compared and the reply    *)
(* sent between them, while other sessions do the same.                    *)
(***************************************************************************)
EXTENDS Integers, FiniteSets

CONSTANTS
  Session,
  Owner,          \* the sessions that know the password
  Address, Account,
  None,           \* of a session that has named no account yet
  MaxFailures,    \* kMaxAuthenticationFailuresPerMinute
  MaxEntries,     \* kMaxAuthenticationRateEntries
  Window,         \* one minute, in ticks
  MaxGuesses,     \* bound: the wrong passwords tried
  MaxCount        \* bound: where the failure count saturates

ASSUME RateAssumption ==
  /\ IsFiniteSet(Session)
  /\ Owner \subseteq Session
  /\ None \notin Address \cup Account
  /\ MaxFailures \in Nat \ {0}
  /\ MaxEntries \in Nat
  /\ Window \in Nat \ {0}
  /\ MaxGuesses \in Nat
  /\ MaxCount \in Nat /\ MaxCount > MaxFailures

VARIABLES
  rates,      \* authenticationRates_: a function on the keys it holds
  at,         \* where the session's reader is: "out", "check", "record", "in"
  from, as,   \* its peer address, and the account it names
  allowed,    \* whether its password was looked at
  guesses,    \* the wrong passwords tried so far
  looked      \* looked[k]: wrong passwords for k looked at since k's window opened

vars == <<rates, at, from, as, allowed, guesses, looked>>

\* "ip:" and "account:" keep the two kinds of keys apart
Key == ({"ip"} \X Address) \cup ({"account"} \X Account)
Keys(s) == {<<"ip", from[s]>>, <<"account", as[s]>>}

Entry == [failures : 0..MaxCount, age : 0..Window]   \* age Window is Window or more

-----------------------------------------------------------------------------
Full(table) == Cardinality(DOMAIN table) >= MaxEntries

\* a full table is first rid of the windows that are over
Pruned ==
  IF Full(rates)
  THEN [k \in {k \in DOMAIN rates : rates[k].age < Window} |-> rates[k]]
  ELSE rates

BelowLimit(table, k) ==
  \/ k \notin DOMAIN table
  \/ table[k].age >= Window
  \/ table[k].failures < MaxFailures

Allowed_AccountOnly(table, s) ==
  ~Full(table) /\ BelowLimit(table, <<"account", as[s]>>)
Allowed(table, s) == ~Full(table) /\ \A k \in Keys(s) : BelowLimit(table, k)

\* a frame with type auth; who does not own the account guesses
Ask(s, a, c) ==
  /\ at[s] = "out"
  /\ s \in Owner \/ guesses < MaxGuesses
  /\ guesses' = IF s \in Owner THEN guesses ELSE guesses + 1
  /\ at' = [at EXCEPT ![s] = "check"]
  /\ from' = [from EXCEPT ![s] = a]
  /\ as' = [as EXCEPT ![s] = c]
  /\ UNCHANGED <<rates, allowed, looked>>

\* authenticationAllowed, the comparison, and the reply
Check(s) ==
  LET ok == Allowed(Pruned, s) IN
  /\ at[s] = "check"
  /\ rates' = Pruned
  /\ allowed' = [allowed EXCEPT ![s] = ok]
  /\ at' = [at EXCEPT ![s] = IF ok /\ s \in Owner THEN "in" ELSE "record"]
  /\ UNCHANGED <<from, as, guesses, looked>>

\* plausible slip: the cap is not looked at
Counted_Unbounded(table, k) ==
  [j \in DOMAIN table \cup {k} |->
    IF j # k THEN table[j]
    ELSE IF k \notin DOMAIN table \/ table[k].age >= Window
         THEN [failures |-> 1, age |-> 0]
         ELSE [table[k] EXCEPT !.failures = IF @ = MaxCount THEN @ ELSE @ + 1]]

\* one increment of recordAuthenticationFailure; a full table takes no new key
Counted(table, k) ==
  IF Full(table) /\ k \notin DOMAIN table
  THEN table
  ELSE [j \in DOMAIN table \cup {k} |->
         IF j # k THEN table[j]
         ELSE IF k \notin DOMAIN table \/ table[k].age >= Window
              THEN [failures |-> 1, age |-> 0]
              ELSE [table[k] EXCEPT !.failures = IF @ = MaxCount THEN @ ELSE @ + 1]]

\* the session is closed; its client may come back from another address
Closed(s) ==
  /\ at' = [at EXCEPT ![s] = "out"]
  /\ from' = [from EXCEPT ![s] = None]
  /\ as' = [as EXCEPT ![s] = None]
  /\ allowed' = [allowed EXCEPT ![s] = FALSE]

Record(s) ==
  LET ip == <<"ip", from[s]>>
      account == <<"account", as[s]>>
      after == Counted(Counted(rates, ip), account)
      opened(k) == k \notin DOMAIN rates \/ rates[k].age >= Window
  IN
  /\ at[s] = "record"
  /\ rates' = after
  /\ looked' = [k \in Key |->
       IF k \in Keys(s)
       THEN (IF opened(k) THEN 0 ELSE looked[k]) + (IF allowed[s] THEN 1 ELSE 0)
       ELSE looked[k]]
  /\ Closed(s)
  /\ UNCHANGED guesses

Tick ==
  /\ rates' = [k \in DOMAIN rates |-> [rates[k] EXCEPT !.age = IF @ = Window THEN @ ELSE @ + 1]]
  /\ UNCHANGED <<at, from, as, allowed, guesses, looked>>

\* an authenticated session ends
Leave(s) ==
  /\ at[s] = "in"
  /\ Closed(s)
  /\ UNCHANGED <<rates, guesses, looked>>

Init ==
  /\ rates = [k \in {} |-> [failures |-> 0, age |-> 0]]
  /\ at = [s \in Session |-> "out"]
  /\ from = [s \in Session |-> None]
  /\ as = [s \in Session |-> None]
  /\ allowed = [s \in Session |-> FALSE]
  /\ guesses = 0
  /\ looked = [k \in Key |-> 0]

Step(s) == (\E a \in Address, c \in Account : Ask(s, a, c)) \/ Check(s) \/ Record(s)

Next == Tick \/ \E s \in Session : Step(s) \/ Leave(s)

Spec == Init /\ [][Next]_vars

-----------------------------------------------------------------------------
\* The table holds no more entries than its cap, whichever keys fail (the cap is tested
\* for each of the two keys of a failure), and the variables have the code's types.
TypeOK ==
  /\ DOMAIN rates \subseteq Key
  /\ \A k \in DOMAIN rates : rates[k] \in Entry
  /\ Cardinality(DOMAIN rates) <= MaxEntries
  /\ at \in [Session -> {"out", "check", "record", "in"}]
  /\ from \in [Session -> Address \cup {None}]
  /\ as \in [Session -> Account \cup {None}]
  /\ allowed \in [Session -> BOOLEAN]
  /\ guesses \in 0..MaxGuesses
  /\ looked \in [Key -> Nat]

\* In one window, the wrong passwords that are looked at for an address or an account
\* exceed the limit by no more than the other sessions that passed the check together
\* (the check and the record are two critical sections).
GuessesBounded == \A k \in DOMAIN rates :
  looked[k] <= MaxFailures + Cardinality(Session \ Owner) - 1

=============================================================================
