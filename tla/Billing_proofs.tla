---------------------------- MODULE Billing_proofs ----------------------------
(***************************************************************************)
(* Proofs about Billing, for every set of workers, readers, accounts and    *)
(* amounts, every range of INTEGER, every bound and combination of faults:  *)
(* overlapping transactions implement the indivisible bookings of           *)
(* UsageLedger.                                                             *)
(***************************************************************************)
EXTENDS Billing, FiniteSetTheorems, WellFoundedInduction, TLAPS

-----------------------------------------------------------------------------
(* The sum of a finite set of amounts.                                      *)

Pick(s) == CHOOSE x \in s : TRUE

IsFold(g, S) ==
  g = [s \in SUBSET S |-> IF s = {} THEN 0
                          ELSE Pick(s).amount + g[s \ {Pick(s)}]]

LEMMA TotalIsFold ==
  ASSUME NEW S
  PROVE  TotalOf(S) = (CHOOSE g : IsFold(g, S))[S]
BY DEF TotalOf, MapThenSumSet, MapThenFoldSet, IsFold, Pick

\* Of a non-empty set of subsets of a finite set, one has no other one in it.
LEMMA SmallestSubset ==
  ASSUME NEW S, IsFiniteSet(S), NEW B, B \subseteq SUBSET S, B # {}
  PROVE  \E T \in B : \A U \in B : U \subseteq T => U = T
<1>1. IsWellFoundedOn(StrictSubsetOrdering(S), FiniteSubsetsOf(S))
  BY FS_StrictSubsetOrderingWellFounded
<1>2. B \subseteq FiniteSubsetsOf(S)
  BY FS_Subset DEF FiniteSubsetsOf
<1>3. PICK T \in B : \A U \in B : ~(<<U, T>> \in StrictSubsetOrdering(S))
  BY <1>1, <1>2, WFMin
<1>. QED
  BY <1>3 DEF StrictSubsetOrdering

\* The body of the sum is one function.
LEMMA FoldUnique ==
  ASSUME NEW S, IsFiniteSet(S), NEW g, NEW h, IsFold(g, S), IsFold(h, S)
  PROVE  g = h
<1>. DEFINE B == {s \in SUBSET S : g[s] # h[s]}
<1>1. SUFFICES B = {}
  BY DEF IsFold
<1>2. SUFFICES ASSUME B # {} PROVE FALSE
  OBVIOUS
<1>3. PICK T \in B : \A U \in B : U \subseteq T => U = T
  <2>1. B \subseteq SUBSET S
    OBVIOUS
  <2>. HIDE DEF B
  <2>. QED
    BY <1>2, <2>1, SmallestSubset
<1>4. T \in SUBSET S /\ g[T] # h[T]
  OBVIOUS
<1>5. T # {}
  BY <1>4 DEF IsFold
<1>6. Pick(T) \in T
  BY <1>5 DEF Pick
<1>7. T \ {Pick(T)} \in SUBSET S /\ T \ {Pick(T)} \notin B
  BY <1>3, <1>4, <1>6
<1>8. g[T \ {Pick(T)}] = h[T \ {Pick(T)}]
  BY <1>7
<1>9. g[T] = Pick(T).amount + g[T \ {Pick(T)}]
  BY <1>4, <1>5 DEF IsFold
<1>10. h[T] = Pick(T).amount + h[T \ {Pick(T)}]
  BY <1>4, <1>5 DEF IsFold
<1>. QED
  BY <1>4, <1>8, <1>9, <1>10

\* What the fold of one more member is.
SumStep(s) ==
  TotalOf(s) = IF s = {} THEN 0 ELSE Pick(s).amount + TotalOf(s \ {Pick(s)})

LEMMA TotalRecursion ==
  ASSUME NEW S, IsFiniteSet(S)
  PROVE  SumStep(S)
<1>. DEFINE B == {s \in SUBSET S : ~SumStep(s)}
<1>1. SUFFICES ASSUME S \in B PROVE FALSE
  OBVIOUS
<1>2. PICK T \in B : \A U \in B : U \subseteq T => U = T
  <2>1. B \subseteq SUBSET S
    OBVIOUS
  <2>. HIDE DEF B
  <2>. QED
    BY <1>1, <2>1, SmallestSubset
<1>3. T \in SUBSET S /\ ~SumStep(T) /\ IsFiniteSet(T)
  BY FS_Subset
<1>4. \A s \in SUBSET T : s # T => SumStep(s)
  BY <1>2, <1>3
<1>. DEFINE g == [s \in SUBSET T |-> IF s = T
                    THEN IF T = {} THEN 0
                         ELSE Pick(T).amount + TotalOf(T \ {Pick(T)})
                    ELSE TotalOf(s)]
<1>5. IsFold(g, T)
  <2>1. ASSUME NEW s \in SUBSET T
        PROVE  g[s] = IF s = {} THEN 0 ELSE Pick(s).amount + g[s \ {Pick(s)}]
    <3>1. s # {} => s \ {Pick(s)} \in SUBSET T /\ s \ {Pick(s)} # T
      BY DEF Pick
    <3>2. CASE s = T
      BY <3>1, <3>2
    <3>3. CASE s # T
      BY <3>1, <3>3, <1>4 DEF SumStep
    <3>. QED
      BY <3>2, <3>3
  <2>. QED
    BY <2>1 DEF IsFold
<1>6. TotalOf(T) = g[T]
  <2>. DEFINE h == CHOOSE f : IsFold(f, T)
  <2>1. IsFold(h, T)
    BY <1>5
  <2>2. h = g
    BY <1>3, <1>5, <2>1, FoldUnique
  <2>. QED
    BY <2>2, TotalIsFold
<1>. QED
  BY <1>3, <1>6 DEF SumStep

\* The total of events with integer amounts is an integer.
LEMMA TotalInt ==
  ASSUME NEW S, IsFiniteSet(S), \A e \in S : e.amount \in Int
  PROVE  TotalOf(S) \in Int
<1>. DEFINE B == {s \in SUBSET S : TotalOf(s) \notin Int}
<1>1. SUFFICES ASSUME S \in B PROVE FALSE
  OBVIOUS
<1>2. PICK T \in B : \A U \in B : U \subseteq T => U = T
  <2>1. B \subseteq SUBSET S
    OBVIOUS
  <2>. HIDE DEF B
  <2>. QED
    BY <1>1, <2>1, SmallestSubset
<1>3. T \in SUBSET S /\ TotalOf(T) \notin Int /\ SumStep(T)
  BY FS_Subset, TotalRecursion
<1>4. T # {} /\ Pick(T) \in T
  BY <1>3 DEF SumStep, Pick
<1>5. TotalOf(T \ {Pick(T)}) \in Int
  BY <1>2, <1>3, <1>4
<1>. QED
  BY <1>3, <1>4, <1>5 DEF SumStep

\* The order in which the amounts are added does not matter.
LEMMA TotalOfOther ==
  ASSUME NEW S, IsFiniteSet(S), \A e \in S : e.amount \in Int, NEW x \in S
  PROVE  TotalOf(S) = x.amount + TotalOf(S \ {x})
<1>. DEFINE Adds(s) == \A y \in s : TotalOf(s) = y.amount + TotalOf(s \ {y})
            B == {s \in SUBSET S : ~Adds(s)}
<1>1. SUFFICES ASSUME S \in B PROVE FALSE
  OBVIOUS
<1>2. PICK T \in B : \A U \in B : U \subseteq T => U = T
  <2>1. B \subseteq SUBSET S
    OBVIOUS
  <2>. HIDE DEF B
  <2>. QED
    BY <1>1, <2>1, SmallestSubset
<1>3. T \in SUBSET S /\ SumStep(T) /\ \A s \in SUBSET T : TotalOf(s) \in Int
  BY FS_Subset, TotalRecursion, TotalInt
<1>4. PICK y \in T : TotalOf(T) # y.amount + TotalOf(T \ {y})
  BY <1>2
<1>. DEFINE p == Pick(T)
<1>5. p \in T /\ TotalOf(T) = p.amount + TotalOf(T \ {p}) /\ p # y
  BY <1>3, <1>4 DEF SumStep, Pick
<1>6. Adds(T \ {p}) /\ Adds(T \ {y})
  BY <1>2, <1>3, <1>5
<1>7. /\ TotalOf(T \ {p}) = y.amount + TotalOf((T \ {p}) \ {y})
      /\ TotalOf(T \ {y}) = p.amount + TotalOf((T \ {y}) \ {p})
  BY <1>5, <1>6
<1>8. (T \ {p}) \ {y} = (T \ {y}) \ {p}
  OBVIOUS
<1>9. TotalOf(T \ {y}) = p.amount + TotalOf((T \ {p}) \ {y})
  BY <1>7, <1>8
<1>10. p.amount \in Int /\ y.amount \in Int /\ TotalOf((T \ {p}) \ {y}) \in Int
  BY <1>3, <1>5
<1>. HIDE DEF p
<1>. QED
  BY <1>4, <1>5, <1>7, <1>9, <1>10

\* One more event adds its amount.
LEMMA TotalAdds ==
  ASSUME NEW S, IsFiniteSet(S), \A e \in S : e.amount \in Int,
         NEW x, x \notin S, x.amount \in Int
  PROVE  TotalOf(S \cup {x}) = TotalOf(S) + x.amount
<1>1. IsFiniteSet(S \cup {x}) /\ (S \cup {x}) \ {x} = S
  BY FS_AddElement
<1>2. TotalOf(S \cup {x}) = x.amount + TotalOf((S \cup {x}) \ {x})
  BY <1>1, TotalOfOther
<1>3. TotalOf(S \cup {x}) = x.amount + TotalOf(S)
  BY <1>1, <1>2
<1>4. TotalOf(S) \in Int
  BY TotalInt
<1>. QED
  BY <1>3, <1>4

\* What is billed is such a sum, now and after a step.
LEMMA BilledIsTotal ==
  ASSUME NEW k
  PROVE  /\ Billed(k) = TotalOf({e \in events : e.key = k})
         /\ Billed(k)' = TotalOf({e \in events' : e.key = k})
BY DEF Billed

\* A step that leaves the tables alone leaves them in agreement.
LEMMA TablesKept ==
  ASSUME RollupsAddUp, rollup' = rollup, events' = events
  PROVE  RollupsAddUp'
BY BilledIsTotal DEF RollupsAddUp

-----------------------------------------------------------------------------
(* The inductive invariant.                                                 *)

\* The empty tables satisfy the invariant.
LEMMA InitIInv == Init => IInv
<1>. SUFFICES ASSUME Init PROVE IInv
  OBVIOUS
<1>1. /\ TypeOK /\ CommitIsCurrent /\ LocksExclude /\ IdsAreFresh
      /\ AcceptedIsBilled /\ ReadersFit
  BY ConstantsAssumption
     DEF Init, TypeOK, Integer, Months, NoTx, NoRead, Idle, Locks,
         CommitIsCurrent, LocksExclude, IdsAreFresh, AcceptedIsBilled, ReadersFit
<1>2. RollupsAddUp
  <2>1. IsFiniteSet({}) /\ SumStep({})
    BY FS_EmptySet, TotalRecursion
  <2>2. \A k \in Keys : {e \in events : e.key = k} = {}
    BY DEF Init
  <2>. QED
    BY <2>1, <2>2, BilledIsTotal DEF Init, RollupsAddUp, SumStep
<1>. QED
  BY <1>1, <1>2 DEF IInv

\* A step that leaves the tables and the transactions alone, and only changes
\* a reader or the clock, keeps the invariant.
LEMMA ReaderStep ==
  ASSUME IInv, UNCHANGED <<rollup, events, seq, tx, accepted>>,
         read' \in [Readers -> Read \cup {NoRead}], now' \in Months, ReadersFit'
  PROVE  IInv'
BY TablesKept
   DEF IInv, TypeOK, Idle, Locks, CommitIsCurrent, LocksExclude, IdsAreFresh,
       AcceptedIsBilled

\* A new transaction has drawn a new id and holds no lock.
LEMMA IngestStep ==
  ASSUME IInv, NEW w \in Workers, Ingest(w)
  PROVE  IInv'
<1>1. PICK k \in Keys, n \in Amounts :
        tx' = [tx EXCEPT ![w] =
                [at |-> IF n \in Integer THEN "upsert" ELSE "abort",
                 locks |-> FALSE,
                 event |-> [id |-> seq + 1, key |-> k, amount |-> n],
                 total |-> 0]]
  BY DEF Ingest
<1>2. seq' = seq + 1 /\ seq' \in 0..MaxEvents /\ seq' \in Ids /\ seq \in Nat
  BY ConstantsAssumption DEF Ingest, IInv, TypeOK, Ids
<1>3. tx'[w] \in Tx
  BY <1>1, <1>2, ConstantsAssumption DEF IInv, TypeOK, Tx, Event, Integer
<1>4. TypeOK'
  BY <1>1, <1>2, <1>3 DEF Ingest, IInv, TypeOK
<1>5. /\ ~Idle(w)' /\ tx'[w].event.id = seq + 1
      /\ tx'[w].at # "commit" /\ ~tx'[w].locks
  BY <1>1 DEF IInv, TypeOK, Idle
<1>6. \A v \in Workers \ {w} : tx'[v] = tx[v]
  BY <1>1 DEF IInv, TypeOK
<1>7. CommitIsCurrent' /\ LocksExclude'
  BY <1>5, <1>6 DEF Ingest, IInv, CommitIsCurrent, LocksExclude, Locks, Idle
<1>8. IdsAreFresh'
  <2>1. \A e \in events : e.id \in Int /\ e.id <= seq
    BY DEF IInv, TypeOK, IdsAreFresh, Event, Ids
  <2>2. \A v \in Workers : ~Idle(v) => tx[v].event.id \in Int /\ tx[v].event.id <= seq
    BY DEF IInv, TypeOK, IdsAreFresh, Idle, NoTx, Tx, Event, Ids
  <2>. QED
    BY <1>2, <1>5, <1>6, <2>1, <2>2 DEF Ingest, IInv, IdsAreFresh, Idle
<1>9. AcceptedIsBilled' /\ ReadersFit' /\ RollupsAddUp'
  BY TablesKept DEF Ingest, IInv, AcceptedIsBilled, ReadersFit
<1>. QED
  BY <1>4, <1>7, <1>8, <1>9 DEF IInv

\* The upsert gets a lock nobody else has, and adds to the committed total.
LEMMA UpsertStep ==
  ASSUME IInv, NEW w \in Workers, Upsert(w)
  PROVE  IInv'
<1>0. rollup' = rollup /\ events' = events /\ seq' = seq
  BY DEF Upsert
<1>1. /\ tx[w] \in Tx /\ tx[w].event.key \in Keys /\ ~Idle(w)
      /\ 0 \in Integer
  BY ConstantsAssumption DEF Upsert, IInv, TypeOK, Idle, NoTx, Tx, Event, Integer
<1>2. PICK a \in {"commit", "abort"}, n \in Integer :
        /\ tx' = [tx EXCEPT ![w].at = a, ![w].locks = TRUE, ![w].total = n]
        /\ a = "commit" => n = rollup[tx[w].event.key] + tx[w].event.amount
  BY <1>1 DEF Upsert
<1>3. tx'[w] = [tx[w] EXCEPT !.at = a, !.locks = TRUE, !.total = n]
  BY <1>2 DEF IInv, TypeOK
<1>4. /\ tx'[w].at = a /\ tx'[w].locks /\ tx'[w].event = tx[w].event
      /\ tx'[w].total = n /\ tx'[w] \in Tx
  BY <1>1, <1>3 DEF Tx
<1>5. \A v \in Workers \ {w} : tx'[v] = tx[v]
  BY <1>2 DEF IInv, TypeOK
<1>6. TypeOK'
  BY <1>2, <1>4 DEF Upsert, IInv, TypeOK
<1>7. CommitIsCurrent'
  BY <1>0, <1>2, <1>4, <1>5 DEF IInv, CommitIsCurrent
<1>8. LocksExclude'
  <2>1. \A v \in Workers : ~Locks(v, tx[w].event.key)
    BY DEF Upsert
  <2>. QED
    BY <1>4, <1>5, <2>1 DEF IInv, LocksExclude, Locks, Idle
<1>9. \A v \in Workers : Idle(v)' <=> Idle(v)
  BY <1>1, <1>4, <1>5 DEF Idle
<1>10. \A v \in Workers : tx'[v].event = tx[v].event
  BY <1>4, <1>5
<1>11. IdsAreFresh'
  BY <1>0, <1>9, <1>10 DEF IInv, IdsAreFresh
<1>12. AcceptedIsBilled' /\ ReadersFit' /\ RollupsAddUp'
  BY TablesKept DEF Upsert, IInv, AcceptedIsBilled, ReadersFit
<1>. QED
  BY <1>6, <1>7, <1>8, <1>11, <1>12 DEF IInv

\* A commit touches one rollup, whose lock kept every other transaction away.
LEMMA CommitStep ==
  ASSUME IInv, NEW w \in Workers, Commit(w)
  PROVE  IInv'
<1>1. /\ tx[w] \in Tx /\ tx[w].event \in Event /\ tx[w].event.key \in Keys
      /\ tx[w].total \in Integer /\ ~Idle(w) /\ tx[w].locks
  BY DEF Commit, IInv, TypeOK, Idle, NoTx, Tx, Event, CommitIsCurrent
<1>2. tx'[w] = NoTx /\ \A v \in Workers \ {w} : tx'[v] = tx[v]
  BY DEF Commit, IInv, TypeOK
<1>3. Idle(w)'
  BY <1>2 DEF Idle, NoTx
<1>4. TypeOK'
  BY <1>1, <1>2 DEF Commit, IInv, TypeOK, Event
<1>5. CommitIsCurrent'
  <2>1. SUFFICES ASSUME NEW v \in Workers, tx'[v].at = "commit"
                 PROVE  /\ tx'[v].locks
                        /\ tx'[v].total = rollup'[tx'[v].event.key]
                                            + tx'[v].event.amount
    BY DEF CommitIsCurrent
  <2>2. v # w /\ tx'[v] = tx[v] /\ tx[v].at = "commit"
    BY <1>2, <1>3, <2>1 DEF Idle
  <2>3. tx[v] \in Tx /\ tx[v].event.key \in Keys /\ tx[v].locks
    BY <2>2 DEF IInv, TypeOK, NoTx, Tx, Event, CommitIsCurrent
  <2>4. tx[v].event.key # tx[w].event.key
    BY <1>1, <2>2, <2>3 DEF IInv, LocksExclude, Locks, Idle
  <2>5. rollup'[tx[v].event.key] = rollup[tx[v].event.key]
    BY <2>3, <2>4 DEF Commit, IInv, TypeOK
  <2>. QED
    BY <2>2, <2>5 DEF IInv, CommitIsCurrent
<1>6. LocksExclude'
  BY <1>2, <1>3 DEF IInv, LocksExclude, Locks, Idle
<1>7. IdsAreFresh'
  BY <1>1, <1>2, <1>3 DEF Commit, IInv, IdsAreFresh, Idle
<1>8. AcceptedIsBilled' /\ ReadersFit'
  BY DEF Commit, IInv, AcceptedIsBilled, ReadersFit
<1>9. RollupsAddUp'
  <2>. DEFINE e == tx[w].event
              Of(k) == {d \in events : d.key = k}
  <2>1. /\ e \in Event /\ e \notin events /\ e.amount \in Int
        /\ IsFiniteSet(events) /\ \A d \in events : d.amount \in Int
    BY <1>1, ConstantsAssumption
       DEF IInv, IdsAreFresh, RollupsAddUp, TypeOK, Event
  <2>2. /\ events' = events \cup {e}
        /\ rollup' = [rollup EXCEPT ![e.key] = tx[w].total]
        /\ tx[w].total = rollup[e.key] + e.amount
    BY DEF Commit, IInv, CommitIsCurrent
  <2>3. IsFiniteSet(events')
    BY <2>1, <2>2, FS_AddElement
  <2>4. ASSUME NEW k \in Keys
        PROVE  rollup'[k] = TotalOf({d \in events' : d.key = k})
    <3>1. rollup[k] = TotalOf(Of(k)) /\ IsFiniteSet(Of(k))
      BY <2>1, BilledIsTotal, FS_Subset DEF IInv, RollupsAddUp
    <3>2. CASE k # e.key
      <4>1. {d \in events' : d.key = k} = Of(k)
        BY <2>2, <3>2
      <4>. QED
        BY <2>2, <3>1, <3>2, <4>1 DEF IInv, TypeOK
    <3>3. CASE k = e.key
      <4>1. {d \in events' : d.key = k} = Of(k) \cup {e}
        BY <2>2, <3>3
      <4>2. TotalOf(Of(k) \cup {e}) = TotalOf(Of(k)) + e.amount
        BY <2>1, <3>1, TotalAdds
      <4>. QED
        BY <2>2, <3>1, <3>3, <4>1, <4>2 DEF IInv, TypeOK
    <3>. QED
      BY <3>2, <3>3
  <2>. QED
    BY <2>3, <2>4, BilledIsTotal DEF RollupsAddUp
<1>. QED
  BY <1>4, <1>5, <1>6, <1>7, <1>8, <1>9 DEF IInv

\* A statement that fails leaves its transaction to be rolled back.
LEMMA FailsStep ==
  ASSUME IInv, NEW w \in Workers, Fails(w)
  PROVE  IInv'
<1>1. tx[w] \in Tx /\ ~Idle(w)
  BY DEF Fails, IInv, TypeOK, Idle, NoTx
<1>2. /\ tx'[w].at = "abort" /\ tx'[w].event = tx[w].event
      /\ tx'[w].locks = tx[w].locks /\ tx'[w] \in Tx
      /\ \A v \in Workers \ {w} : tx'[v] = tx[v]
  BY <1>1 DEF Fails, IInv, TypeOK, Tx
<1>3. TypeOK'
  BY <1>2 DEF Fails, IInv, TypeOK
<1>4. RollupsAddUp'
  BY TablesKept DEF Fails, IInv
<1>. QED
  BY <1>1, <1>2, <1>3, <1>4
     DEF Fails, IInv, CommitIsCurrent, LocksExclude, Locks, IdsAreFresh,
         AcceptedIsBilled, ReadersFit, Idle

\* A rollback, or a crash, only takes transactions away.
LEMMA DropStep ==
  ASSUME IInv, UNCHANGED <<rollup, events, seq, now, accepted>>,
         read' \in [Readers -> Read \cup {NoRead}], ReadersFit',
         tx' \in [Workers -> Tx \cup {NoTx}],
         \A v \in Workers : tx'[v] = tx[v] \/ tx'[v] = NoTx
  PROVE  IInv'
<1>1. \A v \in Workers : tx'[v] = tx[v] \/ tx'[v].at = "idle"
  BY DEF NoTx
<1>2. RollupsAddUp'
  BY TablesKept DEF IInv
<1>. QED
  BY <1>1, <1>2
     DEF IInv, TypeOK, CommitIsCurrent, LocksExclude, Locks, IdsAreFresh,
         AcceptedIsBilled, Idle

\* A year number never falls.
LEMMA YearsPass ==
  ASSUME NEW m \in Nat \ {0}, NEW s \in Nat, NEW n \in Nat, s <= n
  PROVE  s \div m <= n \div m
OBVIOUS

\* The month put together from two looks at the clock is not in the future.
LEMMA TornMonth ==
  ASSUME NEW m \in Nat \ {0}, NEW s \in Nat, NEW n \in Nat, s <= n
  PROVE  (s \div m) * m + (n % m) \in 0..n
<1>1. s = m * (s \div m) + (s % m) /\ n = m * (n \div m) + (n % m)
  OBVIOUS
<1>2. s \div m \in Nat /\ n \div m \in Nat /\ n % m \in 0..(m - 1)
  OBVIOUS
<1>3. s \div m <= n \div m
  OBVIOUS
<1>4. m * (s \div m) <= m * (n \div m)
  BY <1>2, <1>3
<1>. QED
  BY <1>1, <1>2, <1>4

\* It is the current one unless a year has turned between them.
LEMMA TimelyMonth ==
  ASSUME NEW m \in Nat \ {0}, NEW s \in Nat, NEW n \in Nat, s <= n
  PROVE  \/ (s \div m) * m + (n % m) \in s..n
         \/ s \div m < n \div m
<1>1. n = m * (n \div m) + (n % m)
  OBVIOUS
<1>2. s \div m <= n \div m /\ s \div m \in Int /\ n \div m \in Int
  BY YearsPass
<1>3. CASE s \div m = n \div m
  BY <1>1, <1>3
<1>. QED
  BY <1>2, <1>3

\* Every step of a reader keeps the invariant.
LEMMA ReadStep ==
  ASSUME IInv, NEW r \in Readers,
         ReadYear(r) \/ ReadMonth(r) \/ Query(r) \/ QueryFails(r)
  PROVE  IInv'
<1>1. now \in Months /\ now \in Nat /\ read \in [Readers -> Read \cup {NoRead}]
  BY ConstantsAssumption DEF IInv, TypeOK, Months
<1>2. CASE ReadYear(r)
  <2>1. PICK a \in Accounts :
          read' = [read EXCEPT ![r] =
            [at |-> "month", account |-> a, year |-> now \div MonthsPerYear,
             month |-> 0, since |-> now, answer |-> 0]]
    BY <1>2 DEF ReadYear
  <2>2. now \div MonthsPerYear \in Nat /\ 0 \in Months /\ 0 \in Integer
    BY <1>1, ConstantsAssumption DEF Months, Integer
  <2>3. read' \in [Readers -> Read \cup {NoRead}]
    BY <1>1, <2>1, <2>2 DEF Read
  <2>4. ReadersFit'
    BY <1>1, <1>2, <2>1 DEF ReadYear, IInv, ReadersFit
  <2>. QED
    BY <1>1, <1>2, <2>3, <2>4, ReaderStep DEF ReadYear
<1>3. CASE ReadMonth(r)
  <2>1. /\ read[r] \in Read /\ read[r].since \in Nat /\ read[r].since <= now
        /\ read[r].year = read[r].since \div MonthsPerYear
    BY <1>1, <1>3, ConstantsAssumption
       DEF ReadMonth, Read, NoRead, IInv, ReadersFit, Months
  <2>2. ((read[r].since \div MonthsPerYear) * MonthsPerYear)
          + (now % MonthsPerYear) \in 0..now
    BY <1>1, <2>1, TornMonth, ConstantsAssumption
  <2>3. (read[r].year * MonthsPerYear) + (now % MonthsPerYear) \in Months
    BY <1>1, <2>1, <2>2, ConstantsAssumption DEF Months
  <2>4. read' \in [Readers -> Read \cup {NoRead}]
    BY <1>1, <1>3, <2>1, <2>3 DEF ReadMonth, Read
  <2>5. ReadersFit'
    <3>. DEFINE m == (read[r].year * MonthsPerYear) + (now % MonthsPerYear)
    <3>1. \/ m \in read[r].since .. now
          \/ read[r].since \div MonthsPerYear < now \div MonthsPerYear
      BY <1>1, <2>1, TimelyMonth, ConstantsAssumption
    <3>2. /\ read'[r].at = "query" /\ read'[r].month = m
          /\ read'[r].since = read[r].since /\ now' = now
          /\ \A q \in Readers \ {r} : read'[q] = read[q]
      BY <1>1, <1>3, <2>1 DEF ReadMonth, Read
    <3>. HIDE DEF m
    <3>. QED
      BY <3>1, <3>2 DEF IInv, ReadersFit
  <2>. QED
    BY <1>1, <1>3, <2>4, <2>5, ReaderStep DEF ReadMonth
<1>4. CASE Query(r)
  <2>1. read[r] \in Read /\ <<read[r].account, read[r].month>> \in Keys
    BY <1>1, <1>4 DEF Query, Read, NoRead, Keys
  <2>2. rollup[<<read[r].account, read[r].month>>] \in Integer
    BY <2>1 DEF IInv, TypeOK
  <2>3. read' \in [Readers -> Read \cup {NoRead}]
    BY <1>1, <1>4, <2>1, <2>2 DEF Query, Read
  <2>4. ReadersFit'
    BY <1>1, <1>4 DEF Query, IInv, ReadersFit
  <2>. QED
    BY <1>1, <1>4, <2>3, <2>4, ReaderStep DEF Query
<1>5. CASE QueryFails(r)
  <2>1. read' \in [Readers -> Read \cup {NoRead}] /\ ReadersFit'
    BY <1>1, <1>5 DEF QueryFails, NoRead, IInv, ReadersFit
  <2>. QED
    BY <1>1, <1>5, <2>1, ReaderStep DEF QueryFails
<1>. QED
  BY <1>2, <1>3, <1>4, <1>5

\* Every step keeps the invariant.
LEMMA NextIInv == IInv /\ [Next]_vars => IInv'
<1>. SUFFICES ASSUME IInv, [Next]_vars PROVE IInv'
  OBVIOUS
<1>1. ASSUME NEW w \in Workers, Rollback(w) PROVE IInv'
  <2>1. /\ tx' \in [Workers -> Tx \cup {NoTx}]
        /\ \A v \in Workers : tx'[v] = tx[v] \/ tx'[v] = NoTx
    BY <1>1 DEF Rollback, IInv, TypeOK
  <2>2. read' \in [Readers -> Read \cup {NoRead}] /\ ReadersFit'
    BY <1>1 DEF Rollback, IInv, TypeOK, ReadersFit
  <2>. QED
    BY <1>1, <2>1, <2>2, DropStep DEF Rollback
<1>2. CASE Restart
  <2>1. /\ tx' \in [Workers -> Tx \cup {NoTx}]
        /\ \A v \in Workers : tx'[v] = NoTx
        /\ read' \in [Readers -> Read \cup {NoRead}]
        /\ \A r \in Readers : read'[r].at = "idle"
    BY <1>2 DEF Restart, NoRead
  <2>2. ReadersFit'
    BY <2>1 DEF ReadersFit
  <2>. QED
    BY <1>2, <2>1, <2>2, DropStep DEF Restart
<1>3. CASE Tick
  <2>1. now' \in Months /\ now \in Nat /\ now' = now + 1
    BY <1>3, ConstantsAssumption DEF Tick, IInv, TypeOK, Months
  <2>2. \A r \in Readers : read[r].at \in {"month", "query"} =>
          read[r].since \in Nat /\ read[r].month \in Nat
    BY ConstantsAssumption DEF IInv, TypeOK, Read, NoRead, Months
  <2>3. /\ now \div MonthsPerYear \in Int /\ now' \div MonthsPerYear \in Int
        /\ now \div MonthsPerYear <= now' \div MonthsPerYear
    BY <2>1, YearsPass, ConstantsAssumption
  <2>4. \A r \in Readers : read[r].at \in {"month", "query"} =>
          read[r].since \div MonthsPerYear \in Int
    BY <2>2, ConstantsAssumption
  <2>5. ReadersFit'
    BY <1>3, <2>1, <2>2, <2>3, <2>4 DEF Tick, IInv, ReadersFit
  <2>. QED
    BY <1>3, <2>1, <2>5, ReaderStep DEF Tick, IInv, TypeOK
<1>4. CASE UNCHANGED vars
  BY <1>4, ReaderStep DEF vars, IInv, TypeOK, ReadersFit
<1>. QED
  BY <1>1, <1>2, <1>3, <1>4, IngestStep, UpsertStep, CommitStep, FailsStep, ReadStep
     DEF Next, Step

\* The inductive invariant holds at every moment.
THEOREM Invariant == Spec => []IInv
BY InitIInv, NextIInv, PTL DEF Spec

\* Every variable keeps its type; in particular no total leaves the range of
\* the database's INTEGER, and no report asks for a month to come.
THEOREM TypeCorrect == Spec => []TypeOK
<1>1. IInv => TypeOK
  BY DEF IInv
<1>. QED
  BY Invariant, <1>1, PTL

\* Ingest answers 202 only for an event that is in the table.
THEOREM AcceptedEventsAreBilled == Spec => []AcceptedIsBilled
<1>1. IInv => AcceptedIsBilled
  BY DEF IInv
<1>. QED
  BY Invariant, <1>1, PTL

-----------------------------------------------------------------------------
(* The reports.                                                             *)

\* An answer is read from the rollup, which is the sum of the events.
LEMMA QueryReports ==
  ASSUME IInv, NEW r \in Readers, Query(r)
  PROVE  /\ read'[r].answer = Billed(<<read[r].account, read[r].month>>)
         /\ \/ read[r].month \in read[r].since .. now
            \/ read[r].since \div MonthsPerYear # now \div MonthsPerYear
<1>1. /\ read[r] \in Read /\ <<read[r].account, read[r].month>> \in Keys
      /\ read[r].since \in Nat /\ now \in Nat
  BY ConstantsAssumption DEF Query, IInv, TypeOK, Read, NoRead, Keys, Months
<1>2. read'[r].answer = rollup[<<read[r].account, read[r].month>>]
  BY <1>1 DEF Query, IInv, TypeOK, Read
<1>3. rollup[<<read[r].account, read[r].month>>] =
        Billed(<<read[r].account, read[r].month>>)
  BY <1>1 DEF IInv, RollupsAddUp
<1>4. /\ read[r].since \div MonthsPerYear \in Int
      /\ now \div MonthsPerYear \in Int
  BY <1>1, ConstantsAssumption
<1>5. \/ read[r].month \in read[r].since .. now
      \/ read[r].since \div MonthsPerYear < now \div MonthsPerYear
  BY DEF Query, IInv, ReadersFit
<1>. QED
  BY <1>2, <1>3, <1>4, <1>5

\* Only the SELECT ends a call with an answer.
LEMMA OnlyQueryAnswers ==
  ASSUME IInv, [Next]_vars, NEW r \in Readers,
         read[r].at = "query", read'[r].at = "idle", read'[r] # NoRead
  PROVE  Query(r)
<1>1. ASSUME NEW w \in Workers,
             Ingest(w) \/ Upsert(w) \/ Commit(w) \/ Rollback(w) \/ Fails(w)
      PROVE  FALSE
  BY <1>1 DEF Ingest, Upsert, Commit, Rollback, Fails
<1>2. ASSUME NEW q \in Readers, ReadYear(q) \/ ReadMonth(q) PROVE FALSE
  <2>1. PICK v : read' = [read EXCEPT ![q] = v] /\ (q = r => v.at # "idle")
    <3>1. CASE ReadYear(q)
      BY <3>1 DEF ReadYear
    <3>2. CASE ReadMonth(q)
      <4>1. read[q] \in Read
        BY <3>2 DEF ReadMonth, IInv, TypeOK, NoRead
      <4>. QED
        BY <3>2, <4>1 DEF ReadMonth, Read
    <3>. QED
      BY <1>2, <3>1, <3>2
  <2>. QED
    BY <2>1 DEF IInv, TypeOK
<1>3. ASSUME NEW q \in Readers, Query(q) PROVE q = r
  BY <1>3 DEF Query, IInv, TypeOK
<1>4. ASSUME NEW q \in Readers, QueryFails(q) PROVE FALSE
  BY <1>4 DEF QueryFails, IInv, TypeOK
<1>5. ~(Restart \/ Tick \/ UNCHANGED vars)
  BY DEF Restart, Tick, vars
<1>. QED
  BY <1>1, <1>2, <1>3, <1>4, <1>5 DEF Next, Step

\* A report answers the sum of the booked events of one month, which was current
\* during the call unless a year turned in the middle of it.
THEOREM ReportsAreTrue == Spec => ReportIsTrue
<1>1. IInv /\ [Next]_vars =>
        [\A r \in Readers :
           read[r].at = "query" /\ read'[r].at = "idle" /\ read'[r] # NoRead =>
             LET m == read[r].month IN
             /\ read'[r].answer = Billed(<<read[r].account, m>>)
             /\ \/ m \in read[r].since .. now
                \/ read[r].since \div MonthsPerYear # now \div MonthsPerYear]_vars
  BY QueryReports, OnlyQueryAnswers
<1>. QED
  BY <1>1, Invariant, PTL DEF Spec, ReportIsTrue

-----------------------------------------------------------------------------
(* The implementation of UsageLedger.                                       *)

\* A commit is one booking, and no other step touches the ledger.
LEMMA LedgerStep == IInv /\ [Next]_vars => [Ledger!Next]_(Ledger!vars)
<1>. SUFFICES ASSUME IInv, [Next]_vars PROVE [Ledger!Next]_(Ledger!vars)
  OBVIOUS
<1>1. ASSUME NEW w \in Workers, Commit(w)
      PROVE  Ledger!Book(tx[w].event) /\ tx[w].event \in Event
  <2>1. /\ tx[w] \in Tx /\ tx[w].event \in Event /\ ~Idle(w)
        /\ tx[w].total \in Integer
        /\ tx[w].total = rollup[tx[w].event.key] + tx[w].event.amount
    BY <1>1 DEF Commit, IInv, TypeOK, Idle, NoTx, Tx, CommitIsCurrent
  <2>2. \A e \in events : e.id # tx[w].event.id
    BY <2>1 DEF IInv, IdsAreFresh
  <2>. QED
    BY <1>1, <2>1, <2>2 DEF Commit, Ledger!Book
<1>2. ASSUME NEW w \in Workers, Ingest(w) \/ Upsert(w) \/ Rollback(w) \/ Fails(w)
      PROVE  UNCHANGED Ledger!vars
  BY <1>2 DEF Ingest, Upsert, Rollback, Fails, Ledger!vars
<1>3. ASSUME NEW r \in Readers,
             ReadYear(r) \/ ReadMonth(r) \/ Query(r) \/ QueryFails(r)
      PROVE  UNCHANGED Ledger!vars
  BY <1>3 DEF ReadYear, ReadMonth, Query, QueryFails, Ledger!vars
<1>4. CASE Restart \/ Tick \/ UNCHANGED vars
  BY <1>4 DEF Restart, Tick, vars, Ledger!vars
<1>. QED
  BY <1>1, <1>2, <1>3, <1>4 DEF Next, Step, Ledger!Next, Event

\* Transactions that overlap, wait and fail do what bookings one at a time
\* would: Ingest implements UsageLedger.
THEOREM Implementation == Spec => ImplementsLedger
<1>1. Init => Ledger!Init
  BY DEF Init, Ledger!Init
<1>. QED
  BY <1>1, LedgerStep, Invariant, PTL DEF Spec, ImplementsLedger, Ledger!Spec
=============================================================================
