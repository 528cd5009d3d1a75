------------------------------- MODULE Billing -------------------------------
(***************************************************************************)
(* svc-aerial-billing: usage events and their monthly rollups.              *)
(*                                                                          *)
(* Ingest runs one READ COMMITTED transaction: it inserts the raw event,    *)
(* adds its amount to the rollup of its account and month, and commits.     *)
(* The upsert locks the rollup row until the transaction ends; every early  *)
(* return leaves the transaction to the deferred Rollback.  MyMonth reads   *)
(* the clock twice, for the year and for the month, and then the rollup.    *)
(*                                                                          *)
(* An amount stands for the four INTEGER columns of an event.  A key        *)
(* without a rollup row counts 0, which is what MyMonth answers for it.     *)
(***************************************************************************)
EXTENDS Integers, FiniteSetsExt

CONSTANTS
  Workers,         \* Ingest requests the service can be serving at a time
  Readers,         \* MyMonth requests it can be serving at a time
  Accounts,        \* org_id and user_id (the zero UUID when there is none)
  Amounts,         \* what an event can report
  IntMax,          \* the largest INTEGER of the database
  MonthsPerYear,
  LastMonth,       \* the clock stops there (a bound)
  MaxEvents,       \* ids the sequence of usage_events can draw (a bound)
  Faults           \* what may go wrong, see Fails, Commit and Restart

ASSUME ConstantsAssumption ==
  /\ Amounts \subseteq Int
  /\ IntMax \in Nat
  /\ MonthsPerYear \in Nat \ {0}
  /\ LastMonth \in Nat
  /\ MaxEvents \in Nat
  /\ Faults \subseteq {"lost", "unacked", "crash"}

Months == 0..LastMonth          \* counted from January of the first year
Keys == Accounts \X Months
Integer == (0 - IntMax - 1)..IntMax
Ids == 1..MaxEvents
Event == [id : Ids, key : Keys, amount : Amounts]

VARIABLES
  rollup,     \* billing.usage_rollups
  events,     \* billing.usage_events: the committed rows
  seq,        \* the last id drawn
  tx,         \* the transaction of each worker
  read,       \* what each reader is doing
  now,        \* the month the clock shows
  accepted    \* history: the ids of the events answered 202

vars == <<rollup, events, seq, tx, read, now, accepted>>

-----------------------------------------------------------------------------
(* Transactions.                                                            *)

\* `total' is the value the upsert wrote, which nobody else sees yet.
Tx == [at : {"upsert", "commit", "abort"}, locks : BOOLEAN,
       event : Event, total : Integer]
NoTx == [at |-> "idle"]

Idle(w) == tx[w].at = "idle"
Locks(w, k) == ~Idle(w) /\ tx[w].locks /\ tx[w].event.key = k

\* Begin and the INSERT of the raw event, with an id of the sequence.  Its
\* month is the one its time shows in its own zone; an event without a time is
\* given the current one.  An amount the column cannot hold fails the INSERT.
Ingest(w) ==
  /\ Idle(w)
  /\ seq < MaxEvents
  /\ seq' = seq + 1
  /\ \E k \in Keys, n \in Amounts :
       tx' = [tx EXCEPT ![w] =
               [at |-> IF n \in Integer THEN "upsert" ELSE "abort",
                locks |-> FALSE,
                event |-> [id |-> seq + 1, key |-> k, amount |-> n],
                total |-> 0]]
  /\ UNCHANGED <<rollup, events, read, now, accepted>>

\* Faulty variant: the rollup is read without a lock and written back.
Upsert_ReadsAhead(w) ==
  /\ tx[w].at = "upsert"
  /\ LET total == rollup[tx[w].event.key] + tx[w].event.amount IN
     tx' = [tx EXCEPT ![w].at = IF total \in Integer THEN "commit" ELSE "abort",
                      ![w].total = IF total \in Integer THEN total ELSE 0]
  /\ UNCHANGED <<rollup, events, seq, read, now, accepted>>

\* Faulty variant: the answer is sent before the commit.
Upsert_Answers(w) ==
  /\ tx[w].at = "upsert"
  /\ ~\E v \in Workers : Locks(v, tx[w].event.key)
  /\ LET total == rollup[tx[w].event.key] + tx[w].event.amount IN
     /\ tx' = [tx EXCEPT ![w].at = IF total \in Integer THEN "commit" ELSE "abort",
                         ![w].locks = TRUE,
                         ![w].total = IF total \in Integer THEN total ELSE 0]
     /\ accepted' = IF total \in Integer
                    THEN accepted \cup {tx[w].event.id} ELSE accepted
  /\ UNCHANGED <<rollup, events, seq, read, now>>

\* Faulty variant: the total is written whatever its size.
Upsert_Unchecked(w) ==
  /\ tx[w].at = "upsert"
  /\ ~\E v \in Workers : Locks(v, tx[w].event.key)
  /\ tx' = [tx EXCEPT ![w].at = "commit", ![w].locks = TRUE,
                      ![w].total = rollup[tx[w].event.key] + tx[w].event.amount]
  /\ UNCHANGED <<rollup, events, seq, read, now, accepted>>

\* The upsert of the rollup.  It waits for the transaction that has the row,
\* then adds to the committed total.  A total out of range fails it; the lock
\* stays with the transaction all the same.
Upsert(w) ==
  /\ tx[w].at = "upsert"
  /\ ~\E v \in Workers : Locks(v, tx[w].event.key)
  /\ LET total == rollup[tx[w].event.key] + tx[w].event.amount IN
     tx' = [tx EXCEPT ![w].at = IF total \in Integer THEN "commit" ELSE "abort",
                      ![w].locks = TRUE,
                      ![w].total = IF total \in Integer THEN total ELSE 0]
  /\ UNCHANGED <<rollup, events, seq, read, now, accepted>>

\* Commit: the event and the rollup become visible together.  The answer of
\* the database may be lost, and then the sender is told that it failed.
Commit(w) ==
  /\ tx[w].at = "commit"
  /\ events' = events \cup {tx[w].event}
  /\ rollup' = [rollup EXCEPT ![tx[w].event.key] = tx[w].total]
  /\ \/ accepted' = accepted \cup {tx[w].event.id}
     \/ "unacked" \in Faults /\ UNCHANGED accepted
  /\ tx' = [tx EXCEPT ![w] = NoTx]
  /\ UNCHANGED <<seq, read, now>>

\* A statement fails without effect: its connection breaks, or the request is
\* cancelled.
Fails(w) ==
  /\ "lost" \in Faults
  /\ tx[w].at \in {"upsert", "commit"}
  /\ tx' = [tx EXCEPT ![w].at = "abort"]
  /\ UNCHANGED <<rollup, events, seq, read, now, accepted>>

\* Faulty variant: only a transaction that wrote its rollup is rolled back.
Rollback_Leaks(w) ==
  /\ tx[w].at = "abort"
  /\ tx[w].total # 0
  /\ tx' = [tx EXCEPT ![w] = NoTx]
  /\ UNCHANGED <<rollup, events, seq, read, now, accepted>>

\* The deferred Rollback, after which the handler answers the error.
Rollback(w) ==
  /\ tx[w].at = "abort"
  /\ tx' = [tx EXCEPT ![w] = NoTx]
  /\ UNCHANGED <<rollup, events, seq, read, now, accepted>>

-----------------------------------------------------------------------------
(* MyMonth.                                                                 *)

\* `since' (history) is the month in which the call began; `answer' is what
\* the last call returned.
Read == [at : {"idle", "month", "query"}, account : Accounts, year : Nat,
         month : Months, since : Months, answer : Integer]
NoRead == [at |-> "idle"]

\* The first time.Now() of the month's first day is asked for its year.
ReadYear(r) ==
  /\ read[r].at = "idle"
  /\ \E a \in Accounts :
       read' = [read EXCEPT ![r] =
         [at |-> "month", account |-> a, year |-> now \div MonthsPerYear,
          month |-> 0, since |-> now, answer |-> 0]]
  /\ UNCHANGED <<rollup, events, seq, tx, now, accepted>>

\* The second one for its month.
ReadMonth(r) ==
  /\ read[r].at = "month"
  /\ read' = [read EXCEPT ![r].at = "query",
        ![r].month = (read[r].year * MonthsPerYear) + (now % MonthsPerYear)]
  /\ UNCHANGED <<rollup, events, seq, tx, now, accepted>>

\* Faulty variant: an error of the query reads as no usage.
Query_MasksErrors(r) ==
  /\ read[r].at = "query"
  /\ \/ read' = [read EXCEPT ![r].at = "idle",
                   ![r].answer = rollup[<<read[r].account, read[r].month>>]]
     \/ read' = [read EXCEPT ![r].at = "idle", ![r].answer = 0]
  /\ UNCHANGED <<rollup, events, seq, tx, now, accepted>>

\* The SELECT, and the answer; no row is an answer of 0.
Query(r) ==
  /\ read[r].at = "query"
  /\ read' = [read EXCEPT ![r].at = "idle",
                ![r].answer = rollup[<<read[r].account, read[r].month>>]]
  /\ UNCHANGED <<rollup, events, seq, tx, now, accepted>>

\* The query fails and MyMonth returns the error.
QueryFails(r) ==
  /\ "lost" \in Faults
  /\ read[r].at = "query"
  /\ read' = [read EXCEPT ![r] = NoRead]
  /\ UNCHANGED <<rollup, events, seq, tx, now, accepted>>

-----------------------------------------------------------------------------
(* The environment.                                                         *)

\* The service or the database dies with its transactions.
Restart ==
  /\ "crash" \in Faults
  /\ tx' = [w \in Workers |-> NoTx]
  /\ read' = [r \in Readers |-> NoRead]
  /\ UNCHANGED <<rollup, events, seq, now, accepted>>

Tick ==
  /\ now < LastMonth
  /\ now' = now + 1
  /\ UNCHANGED <<rollup, events, seq, tx, read, accepted>>

-----------------------------------------------------------------------------

Init ==
  /\ rollup = [k \in Keys |-> 0]
  /\ events = {} /\ seq = 0
  /\ tx = [w \in Workers |-> NoTx]
  /\ read = [r \in Readers |-> NoRead]
  /\ now = 0
  /\ accepted = {}

Step(w) == Upsert(w) \/ Commit(w) \/ Rollback(w)

Next ==
  \/ \E w \in Workers : Ingest(w) \/ Step(w) \/ Fails(w)
  \/ \E r \in Readers : ReadYear(r) \/ ReadMonth(r) \/ Query(r) \/ QueryFails(r)
  \/ Restart
  \/ Tick

Spec == Init /\ [][Next]_vars

\* The database answers every statement, and grants a row lock in the order in
\* which it was asked for, so a statement that keeps becoming enabled is run.
FairSpec == Spec /\ \A w \in Workers : SF_vars(Step(w))

-----------------------------------------------------------------------------
(* Properties.                                                              *)

\* The values every variable ranges over; a rollup stays an INTEGER.
TypeOK ==
  /\ rollup \in [Keys -> Integer]
  /\ events \subseteq Event
  /\ seq \in 0..MaxEvents
  /\ tx \in [Workers -> Tx \cup {NoTx}]
  /\ read \in [Readers -> Read \cup {NoRead}]
  /\ now \in Months
  /\ accepted \subseteq Ids

\* The total of the amounts of a set of events.
TotalOf(S) == MapThenSumSet(LAMBDA e : e.amount, S)

Billed(k) == TotalOf({e \in events : e.key = k})

\* An event answered 202 is in the table: no answer runs ahead of its commit.
AcceptedIsBilled == \A id \in accepted : \E e \in events : e.id = id

\* An answer of MyMonth is what was billed for one month, never an error or a
\* half-written total in disguise; and the month was current during the call,
\* unless a year turned between the two looks at the clock: then the call asks
\* for a month of the year that ends.
ReportIsTrue ==
  [][\A r \in Readers :
       read[r].at = "query" /\ read'[r].at = "idle" /\ read'[r] # NoRead =>
         LET m == read[r].month IN
         /\ read'[r].answer = Billed(<<read[r].account, m>>)
         /\ \/ m \in read[r].since .. now
            \/ read[r].since \div MonthsPerYear # now \div MonthsPerYear]_vars

\* No request waits for ever: the row locks cannot form a cycle, and no error
\* path keeps one.
IngestEnds == \A w \in Workers : ~Idle(w) ~> Idle(w)

\* Overlapping transactions do what one indivisible booking at a time would.
Ledger == INSTANCE UsageLedger WITH Totals <- Integer
ImplementsLedger == Ledger!Spec

-----------------------------------------------------------------------------
(* The inductive invariant behind the safety properties and ReportIsTrue.   *)

\* A transaction that is ready to commit has the lock of its rollup and has
\* added its event to the total that is still the committed one.
CommitIsCurrent ==
  \A w \in Workers : tx[w].at = "commit" =>
    /\ tx[w].locks
    /\ tx[w].total = rollup[tx[w].event.key] + tx[w].event.amount

\* A rollup row is locked by one transaction.
LocksExclude ==
  \A v, w \in Workers, k \in Keys : Locks(v, k) /\ Locks(w, k) => v = w

\* The ids in use have been drawn, each for one event.
IdsAreFresh ==
  /\ \A e \in events : e.id <= seq
  /\ \A w \in Workers : ~Idle(w) =>
       /\ tx[w].event.id <= seq
       /\ \A e \in events : e.id # tx[w].event.id
       /\ \A v \in Workers : ~Idle(v) /\ tx[v].event.id = tx[w].event.id => v = w

\* A reader between its two looks at the clock holds the year of the first; after
\* them, a month that was current, unless a year has turned.
ReadersFit ==
  \A r \in Readers :
    /\ read[r].at = "month" =>
         read[r].year = read[r].since \div MonthsPerYear /\ read[r].since <= now
    /\ read[r].at = "query" =>
         \/ read[r].month \in read[r].since .. now
         \/ read[r].since \div MonthsPerYear < now \div MonthsPerYear

\* A rollup is the sum of the committed events of its account and month.
RollupsAddUp == IsFiniteSet(events) /\ \A k \in Keys : rollup[k] = Billed(k)

IInv ==
  /\ TypeOK
  /\ CommitIsCurrent
  /\ LocksExclude
  /\ IdsAreFresh
  /\ AcceptedIsBilled
  /\ ReadersFit
  /\ RollupsAddUp

=============================================================================
