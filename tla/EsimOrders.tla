----------------------------- MODULE EsimOrders -----------------------------
(***************************************************************************)
(* svc-aerial-esim: an eSIM is an order at a provider and a row of          *)
(* esim.esims.  The provider is the Mock, which keeps its orders in the     *)
(* memory of the process, or Airalo, an external service whose orders       *)
(* outlive the process and which has no cancellation.                       *)
(*                                                                          *)
(* Each call of the provider and each SQL statement is one step; requests   *)
(* are served concurrently and nothing orders two requests on one eSIM.     *)
(***************************************************************************)
EXTENDS Naturals

CONSTANTS
  Workers,    \* requests the service can be serving at the same time
  Ids,        \* row ids Postgres can draw (bounds the table)
  Refs,       \* order references the provider can draw (bounds the orders)
  Orgs,
  None,       \* no id, reference or organisation
  Providers,  \* the providers the service may be configured with
  Cap,        \* data allowance of a package
  Tick,       \* what the mock adds to the usage at every query: a tenth of it
  Faults      \* what may go wrong, see PlaceOrder, Fails and Restart

ASSUME ConstantsAssumption ==
  /\ None \notin Ids \cup Refs \cup Orgs
  /\ Providers \subseteq {"mock", "airalo"}
  /\ Cap \in Nat /\ Tick \in Nat
  /\ Faults \subseteq {"lost", "unacked", "crash"}

VARIABLES
  row,     \* esim.esims
  order,   \* what the provider knows of each reference
  call,    \* what each worker is doing
  upset,   \* history: what happened to each order besides whole requests, one
           \* after the other
  provider \* the one configured

vars == <<row, order, call, upset, provider>>

-----------------------------------------------------------------------------

Row == [status : {"none", "ordered", "active", "cancelled"},
        org : Orgs \cup {None}, ref : Refs \cup {None}, usage : 0 .. Cap]

NoRow == [status |-> "none", org |-> None, ref |-> None, usage |-> 0]

Stored == {i \in Ids : row[i].status # "none"}

\* A closed order is unknown to the provider: usage queries of it fail.  `used'
\* of a closed order is what was used when it was closed.
Order == [state : {"none", "open", "closed"}, org : Orgs \cup {None},
          used : 0 .. Cap]

NoOrder == [state |-> "none", org |-> None, used |-> 0]

Placed == {r \in Refs : order[r].state # "none"}

Call == [at : {"idle", "insert", "query", "update", "activate", "close",
               "cancel"},
         id : Ids \cup {None}, org : Orgs \cup {None}, ref : Refs \cup {None},
         usage : 0 .. Cap]

NoCall == [at |-> "idle", id |-> None, org |-> None, ref |-> None, usage |-> 0]

Idle(w) == call[w].at = "idle"
On(w, r) == ~Idle(w) /\ call[w].ref = r

Upsets == {"overlap", "cut", "restart", "revived"}

\* The end of worker w's request.
End(w) == call' = [call EXCEPT ![w] = NoCall]

Note(r, what) == upset' = [upset EXCEPT ![r] = @ \cup {what}]

-----------------------------------------------------------------------------
(* Order.                                                                   *)

\* What the provider records of an order of organisation o.
Issued(o) == [state |-> "open", org |-> o, used |-> 0]

\* Airalo's answer may not arrive within the client's 15 s, or carry no eSIM.
AnswerLost == provider = "airalo" /\ "unacked" \in Faults

\* Order: the package is in the catalog and the provider issues an eSIM under a
\* new reference.  Without its answer the request ends with ErrProvider.
PlaceOrder(w) ==
  /\ Idle(w)
  /\ \E o \in Orgs, r \in Refs \ Placed :
       /\ order' = [order EXCEPT ![r] = Issued(o)]
       /\ \/ /\ call' = [call EXCEPT ![w] = [at |-> "insert", id |-> None, org |-> o,
                                            ref |-> r, usage |-> 0]]
             /\ UNCHANGED upset
          \/ /\ AnswerLost
             /\ Note(r, "cut")
             /\ UNCHANGED call
  /\ UNCHANGED <<row, provider>>

\* Faulty variant: a failed INSERT is retried although its answer was only lost.
CreateESIM_Retries(w) ==
  /\ call[w].at = "insert"
  /\ \E i \in Ids \ Stored :
       row' = [row EXCEPT ![i] = [status |-> "ordered", org |-> call[w].org,
                                  ref |-> call[w].ref, usage |-> 0]]
  /\ End(w) \/ ("unacked" \in Faults /\ UNCHANGED call)
  /\ UNCHANGED <<order, upset, provider>>

\* CreateESIM: the INSERT.  Whether its answer arrives makes no difference, the
\* row is found with ListByOrg.
CreateESIM(w) ==
  /\ call[w].at = "insert"
  /\ \E i \in Ids \ Stored :
       row' = [row EXCEPT ![i] = [status |-> "ordered", org |-> call[w].org,
                                  ref |-> call[w].ref, usage |-> 0]]
  /\ End(w)
  /\ UNCHANGED <<order, upset, provider>>

-----------------------------------------------------------------------------
(* RefreshUsage, MarkActivated and Cancel of an existing eSIM.              *)

\* ownedByOrg: what a request of org o gets to work on.
Owned(o) == {i \in Stored : row[i].org = o}

\* A request on a stored eSIM: ownedByOrg reads the row, and `at' is the call
\* it makes next.
Begin(w, at) ==
  /\ Idle(w)
  /\ \E o \in Orgs : \E i \in Owned(o) :
       LET r == row[i].ref IN
       /\ call' = [call EXCEPT ![w] = [at |-> at, id |-> i, org |-> o, ref |-> r,
                                       usage |-> 0]]
       /\ IF \E v \in Workers : On(v, r) THEN Note(r, "overlap")
                                         ELSE UNCHANGED upset
  /\ UNCHANGED <<row, order, provider>>

\* Faulty variants: the usage passes the allowance, or starts again there.
Grown_Uncapped(n) == n + Tick
Grown_Wraps(n) == IF n + Tick > Cap THEN 0 ELSE n + Tick

\* Mock.UsageMB: the usage grows by a tenth of the allowance, up to it.
Grown(n) == IF n + Tick > Cap THEN Cap ELSE n + Tick

\* The mock's usage grows with every query; Airalo's is what the user consumed.
UsageOf(r) == IF provider = "mock" THEN Grown(order[r].used) ELSE order[r].used

\* The query of RefreshUsage.  The mock does not know a closed order:
\* ErrProvider.
UsageMB(w) ==
  LET r == call[w].ref
      n == UsageOf(r)
  IN
  /\ call[w].at = "query"
  /\ IF order[r].state = "open"
     THEN /\ order' = [order EXCEPT ![r].used = n]
          /\ call' = [call EXCEPT ![w].at = "update", ![w].usage = n]
     ELSE End(w) /\ UNCHANGED order
  /\ UNCHANGED <<row, upset, provider>>

\* Faulty variant: only eSIMs reported as active are updated.
UpdateUsage_ActiveOnly(w) ==
  /\ call[w].at = "update"
  /\ row' = IF row[call[w].id].status = "active"
            THEN [row EXCEPT ![call[w].id].usage = call[w].usage] ELSE row
  /\ End(w)
  /\ UNCHANGED <<order, upset, provider>>

\* UpdateUsage: one statement, of the usage the provider answered before.
UpdateUsage(w) ==
  /\ call[w].at = "update"
  /\ row' = [row EXCEPT ![call[w].id].usage = call[w].usage]
  /\ End(w)
  /\ UNCHANGED <<order, upset, provider>>

\* Faulty variant: Cancel sets the status first and calls the provider after.
Close_Last(w) ==
  /\ call[w].at = "close"
  /\ row' = [row EXCEPT ![call[w].id].status = "cancelled"]
  /\ call' = [call EXCEPT ![w].at = "cancel"]
  /\ UNCHANGED <<order, upset, provider>>

\* The provider's Cancel: the mock forgets the order, Airalo's is a no-op.  Its
\* error is not looked at.
Close(w) ==
  /\ call[w].at = "close"
  /\ order' = IF provider = "mock"
              THEN [order EXCEPT ![call[w].ref].state = "closed"] ELSE order
  /\ call' = [call EXCEPT ![w].at = "cancel"]
  /\ UNCHANGED <<row, upset, provider>>

\* SetStatus: one statement, whatever the status is by then; also a cancelled
\* eSIM is made active.
SetStatus(w) ==
  LET c == call[w] IN
  /\ c.at \in {"activate", "cancel"}
  /\ row' = [row EXCEPT ![c.id].status =
               IF c.at = "activate" THEN "active" ELSE "cancelled"]
  /\ IF c.at = "activate" /\ row[c.id].status = "cancelled"
     THEN Note(c.ref, "revived") ELSE UNCHANGED upset
  /\ End(w)
  /\ UNCHANGED <<order, provider>>

-----------------------------------------------------------------------------
(* Failures and the environment.                                            *)

\* A request that ends here leaves an effect behind that its next step, which
\* does not happen, would have followed up.
HalfDone(w) == call[w].at \in {"insert", "update", "cancel"}

\* The next call fails without effect, and the handler returns its error.  The
\* provider's Cancel does not count: neither can fail.
Fails(w) ==
  /\ "lost" \in Faults
  /\ ~Idle(w) /\ call[w].at # "close"
  /\ IF HalfDone(w) THEN Note(call[w].ref, "cut") ELSE UNCHANGED upset
  /\ End(w)
  /\ UNCHANGED <<row, order, provider>>

\* The process dies with its requests and the mock's memory.
Restart ==
  /\ "crash" \in Faults
  /\ call' = [w \in Workers |-> NoCall]
  /\ order' = [r \in Refs |->
                 IF provider = "mock" /\ order[r].state = "open"
                 THEN [order[r] EXCEPT !.state = "closed"] ELSE order[r]]
  /\ upset' = [r \in Refs |->
                 upset[r]
                 \cup (IF provider = "mock" /\ order[r].state = "open"
                       THEN {"restart"} ELSE {})
                 \cup (IF \E w \in Workers : On(w, r) /\ HalfDone(w)
                       THEN {"cut"} ELSE {})]
  /\ UNCHANGED <<row, provider>>

\* An Airalo customer uses data, whatever the row says.
Consume(r) ==
  /\ provider = "airalo"
  /\ order[r].state = "open" /\ order[r].used < Cap
  /\ order' = [order EXCEPT ![r].used = @ + 1]
  /\ UNCHANGED <<row, call, upset, provider>>

-----------------------------------------------------------------------------

Init ==
  /\ row = [i \in Ids |-> NoRow]
  /\ order = [r \in Refs |-> NoOrder]
  /\ call = [w \in Workers |-> NoCall]
  /\ upset = [r \in Refs |-> {}]
  /\ provider \in Providers

RefreshUsage(w) == Begin(w, "query") \/ UsageMB(w) \/ UpdateUsage(w)

Next ==
  \/ \E w \in Workers :
       \/ PlaceOrder(w) \/ CreateESIM(w)
       \/ RefreshUsage(w)
       \/ Begin(w, "activate") \/ Begin(w, "close") \/ Close(w) \/ SetStatus(w)
       \/ Fails(w)
  \/ \E r \in Refs : Consume(r)
  \/ Restart

Spec == Init /\ [][Next]_vars

-----------------------------------------------------------------------------
(* Properties.                                                              *)

\* The values every variable ranges over; no usage passes the allowance.
TypeOK ==
  /\ row \in [Ids -> Row]
  /\ order \in [Refs -> Order]
  /\ call \in [Workers -> Call]
  /\ upset \in [Refs -> SUBSET Upsets]
  /\ provider \in Providers

\* An order is stored once, for the organisation it was placed for: two eSIMs
\* never share a usage counter or a cancellation.
OneRowPerOrder ==
  /\ \A i, j \in Stored : row[i].ref = row[j].ref => i = j
  /\ \A i \in Stored : /\ row[i].ref \in Placed
                       /\ row[i].org = order[row[i].ref].org

\* An order the provider issued is stored, or about to be, unless the request
\* for it was cut short, which its caller was told with an error.
OrdersAreKept ==
  \A r \in Placed :
    \/ \E i \in Stored : row[i].ref = r
    \/ \E w \in Workers : On(w, r) /\ call[w].at = "insert"
    \/ "cut" \in upset[r]

\* What the provider issued and will be paid for has one row, its owner's.
OrdersAreBooked == OneRowPerOrder /\ OrdersAreKept

\* No eSIM shows more usage than its own order had, in any interleaving of
\* refreshes, cancellations and crashes.
UsageIsMetered ==
  \A i \in Stored : row[i].usage <= order[row[i].ref].used

\* With the mock, whose usage grows in queries only, an eSIM shows the latest
\* usage whenever no request works on it, unless requests on it overlapped or
\* one was cut short.
IsLatest(i) ==
  LET r == row[i].ref IN
  \/ upset[r] \cap {"overlap", "cut"} # {}
  \/ \E w \in Workers : On(w, r) /\ call[w].at = "update"
  \/ row[i].usage = order[r].used

LatestUsage == provider = "mock" => \A i \in Stored : IsLatest(i)

\* The usage shown is the provider's, of the eSIM's own order.
UsageIsTrue == UsageIsMetered /\ LatestUsage

\* The usage shown never falls, unless requests on the eSIM overlapped.
UsageNeverFalls ==
  [][\A i \in Stored : "overlap" \notin upset'[row[i].ref]
                         => row'[i].usage >= row[i].usage]_vars

\* An eSIM is shown cancelled only after the mock dropped its order, whatever
\* failed or overlapped.
CancelledIsClosed ==
  provider = "mock" =>
    \A i \in Stored : row[i].status = "cancelled" => order[row[i].ref].state = "closed"

\* An eSIM shown as ordered or active has its order, except between the two
\* steps of a Cancel, after a Cancel cut short, after a restart dropped the
\* mock's orders, after overlapping requests, and when it was activated after
\* having been cancelled.
IsOpen(i) ==
  LET r == row[i].ref IN
  \/ row[i].status = "cancelled"
  \/ upset[r] # {}
  \/ order[r].state = "open"
  \/ \E w \in Workers : On(w, r) /\ call[w].at = "cancel"

LiveIsOpen == \A i \in Stored : IsOpen(i)

\* The status shown of an eSIM is that of its order.
StatusIsTrue == CancelledIsClosed /\ LiveIsOpen

-----------------------------------------------------------------------------
(* The inductive invariant behind these properties.                         *)

\* A request works on a stored eSIM and its order; the request that places an
\* order has it to itself, still unused.  Cancel closes the order before the row says so, and
\* a usage on its way to a row came from its order.
CallFits(w) ==
  LET c == call[w] IN
  /\ c.ref \in Placed
  /\ c.at = "insert" =>
       /\ c.org = order[c.ref].org
       /\ order[c.ref].state = "open"
       /\ provider = "mock" => order[c.ref].used = 0
       /\ \A i \in Stored : row[i].ref # c.ref
       /\ \A v \in Workers : On(v, c.ref) => v = w
  /\ c.at # "insert" => c.id \in Stored /\ row[c.id].ref = c.ref
  /\ c.at = "cancel" /\ provider = "mock" => order[c.ref].state = "closed"
  /\ c.usage <= order[c.ref].used

CallsFit == \A w \in Workers : ~Idle(w) => CallFits(w)

\* An eSIM whose requests did not overlap has one request at a time, and the
\* usage that request is about to store is not older than the one shown.
AloneKnows ==
  \A w \in Workers :
    LET r == call[w].ref IN
    ~Idle(w) /\ "overlap" \notin upset[r] =>
      /\ \A v \in Workers : On(v, r) => v = w
      /\ call[w].at = "update" =>
           /\ row[call[w].id].usage <= call[w].usage
           /\ provider = "mock" => call[w].usage = order[r].used

IInv ==
  /\ TypeOK
  /\ OneRowPerOrder
  /\ CallsFit
  /\ AloneKnows
  /\ OrdersAreKept
  /\ UsageIsMetered
  /\ LatestUsage
  /\ CancelledIsClosed
  /\ LiveIsOpen
=============================================================================
