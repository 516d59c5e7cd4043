------------------------------- MODULE PubSub -------------------------------
(***************************************************************************)
(* What the server promises about accepted events, whatever its threads    *)
(* and queues do: a session that has joined receives the events every      *)
(* other session publishes from then on, each sender's in the order they   *)
(* were published, none twice and none left out, until the server drops    *)
(* it.  Events of different senders are not ordered.                        *)
(***************************************************************************)
EXTENDS Integers

CONSTANT Session

VARIABLES
  published,  \* the number of events a session has published
  joined,     \* the sessions that have subscribed
  dropped,    \* the sessions that receive nothing more
  received    \* received[r][s]: the last of s's events r need not wait for

vars == <<published, joined, dropped, received>>

Init ==
  /\ published = [s \in Session |-> 0]
  /\ joined = {}
  /\ dropped = {}
  /\ received = [r \in Session |-> [s \in Session |-> 0]]

Publish(s) ==
  /\ s \in joined
  /\ published' = [published EXCEPT ![s] = @ + 1]
  /\ UNCHANGED <<joined, dropped, received>>

Join(r) ==
  /\ r \notin joined
  /\ joined' = joined \cup {r}
  /\ received' = [received EXCEPT ![r] = published]
  /\ UNCHANGED <<published, dropped>>

Receive(r, s) ==
  /\ r # s
  /\ r \in joined \ dropped
  /\ received[r][s] < published[s]
  /\ received' = [received EXCEPT ![r][s] = @ + 1]
  /\ UNCHANGED <<published, joined, dropped>>

\* the slow, the failed and the leaving; a session may go before it has joined
Drop(r) ==
  /\ r \notin dropped
  /\ dropped' = dropped \cup {r}
  /\ UNCHANGED <<published, joined, received>>

Next ==
  \/ \E s \in Session : Publish(s) \/ Join(s) \/ Drop(s)
  \/ \E r, s \in Session : Receive(r, s)

\* whoever is not dropped receives all it waits for
Fairness == \A r, s \in Session : WF_vars(Receive(r, s))

Spec == Init /\ [][Next]_vars
FairSpec == Spec /\ Fairness

=============================================================================
