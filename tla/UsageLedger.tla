----------------------------- MODULE UsageLedger -----------------------------
(***************************************************************************)
(* What svc-aerial-billing promises about usage events: each one is booked  *)
(* in one indivisible step, as a row and as its amount in the rollup of its *)
(* account and month, and only a booked event is ever acknowledged.         *)
(* Billing implements it with transactions that overlap, wait for each      *)
(* other and are cut short.                                                 *)
(***************************************************************************)
EXTENDS Integers

CONSTANTS
  Keys,      \* an account and a month
  Amounts,   \* what an event can report
  Totals,    \* the totals a rollup can hold
  Ids        \* what usage_events.id can be

VARIABLES
  rollup,    \* the total of each account and month
  events,    \* the events booked
  accepted   \* the ids of the events answered "accepted"

vars == <<rollup, events, accepted>>

Init ==
  /\ rollup = [k \in Keys |-> 0]
  /\ events = {}
  /\ accepted = {}

\* Event e is booked; its sender may never get the answer.
Book(e) ==
  /\ \A d \in events : d.id # e.id
  /\ rollup[e.key] + e.amount \in Totals
  /\ rollup' = [rollup EXCEPT ![e.key] = rollup[e.key] + e.amount]
  /\ events' = events \cup {e}
  /\ accepted' \in {accepted, accepted \cup {e.id}}

Next == \E e \in [id : Ids, key : Keys, amount : Amounts] : Book(e)

Spec == Init /\ [][Next]_vars
=============================================================================
