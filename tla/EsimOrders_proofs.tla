------------------------- MODULE EsimOrders_proofs --------------------------
(***************************************************************************)
(* Theorems about EsimOrders, for every value of its constants and for      *)
(* either provider.  IInv is inductive; one lemma per action shows that the  *)
(* action keeps it, with one step for each part of IInv.                     *)
(***************************************************************************)
EXTENDS EsimOrders, TLAPS

\* The INSERT stores an order that no row has and no other request works on.
LEMMA CreateStep ==
  ASSUME IInv, NEW w \in Workers, CreateESIM(w)
  PROVE  IInv'
<1>0. provider' = provider
  BY DEF CreateESIM
<1> USE <1>0
<1>1. TypeOK'
  BY SMT, ConstantsAssumption
  DEF IInv, TypeOK, Row, Call, NoCall, End, CreateESIM
<1>2. OneRowPerOrder'
  BY SMT
  DEF IInv, Stored, Placed, Idle, OneRowPerOrder, CallsFit, CallFits,
      CreateESIM
<1>3. CallsFit'
  BY SMT
  DEF IInv, TypeOK, NoCall, Stored, Placed, Idle, On, End, CallsFit, CallFits,
      CreateESIM
<1>4. AloneKnows'
  BY SMT DEF IInv, TypeOK, Call, NoCall, Idle, On, End, AloneKnows, CreateESIM
<1>5. OrdersAreKept'
  BY SMT
  DEF IInv, TypeOK, Stored, Placed, Idle, On, End, OrdersAreKept, CreateESIM
<1>6. UsageIsMetered'
  BY SMT
  DEF IInv, TypeOK, Order, Stored, Placed, Idle, CallsFit, CallFits,
      UsageIsMetered, CreateESIM
<1>7. LatestUsage'
  <2>1. PICK j \in Ids \ Stored :
             row' = [row EXCEPT ![j] = [status |-> "ordered", org |-> call[w].org,
                                        ref |-> call[w].ref, usage |-> 0]]
    BY DEF CreateESIM
  <2>2. Stored' = Stored \cup {j}
    BY SMTT(30), ConstantsAssumption, <2>1 DEF IInv, TypeOK, Stored
  <2>3. row'[j] = [status |-> "ordered", org |-> call[w].org,
                  ref |-> call[w].ref, usage |-> 0]
    BY <2>1 DEF IInv, TypeOK
  <2>4. provider = "mock" => IsLatest(j)'
    BY SMT, <2>3 DEF IInv, Idle, CallsFit, CallFits, IsLatest, CreateESIM
  <2>5. ASSUME NEW i \in Stored, provider = "mock"
        PROVE  IsLatest(i)'
    <3>1. row'[i] = row[i]
      BY <2>1 DEF IInv, TypeOK, Stored
    <3>2. IsLatest(i)
      BY <2>5 DEF IInv, LatestUsage
    <3> QED
      BY SMT, <2>5, <3>1, <3>2 DEF Idle, On, End, IsLatest, CreateESIM
  <2> QED
    BY <2>2, <2>4, <2>5 DEF LatestUsage
<1>8. CancelledIsClosed'
  BY SMT DEF IInv, Stored, CancelledIsClosed, CreateESIM
<1>9. LiveIsOpen'
  <2>1. PICK j \in Ids \ Stored :
             row' = [row EXCEPT ![j] = [status |-> "ordered", org |-> call[w].org,
                                        ref |-> call[w].ref, usage |-> 0]]
    BY DEF CreateESIM
  <2>2. Stored' = Stored \cup {j}
    BY SMTT(30), ConstantsAssumption, <2>1 DEF IInv, TypeOK, Stored
  <2>3. row'[j] = [status |-> "ordered", org |-> call[w].org,
                  ref |-> call[w].ref, usage |-> 0]
    BY <2>1 DEF IInv, TypeOK
  <2>4. IsOpen(j)'
    BY SMT, <2>3 DEF IInv, Idle, CallsFit, CallFits, IsOpen, CreateESIM
  <2>5. ASSUME NEW i \in Stored
        PROVE  IsOpen(i)'
    <3>1. row'[i] = row[i]
      BY <2>1 DEF IInv, TypeOK, Stored
    <3>2. IsOpen(i)
      BY <2>5 DEF IInv, LiveIsOpen
    <3> QED
      BY SMT, <2>5, <3>1, <3>2 DEF Idle, On, End, IsOpen, CreateESIM
  <2> QED
    BY <2>2, <2>4, <2>5 DEF LiveIsOpen
<1> QED
  BY <1>1, <1>2, <1>3, <1>4, <1>5, <1>6, <1>7, <1>8, <1>9 DEF IInv

\* A request that starts changes no row and no order; if another one works on
\* the eSIM, both are noted as overlapping.
LEMMA BeginStep ==
  ASSUME IInv, NEW w \in Workers, NEW at \in {"query", "activate", "close"}, Begin(w, at)
  PROVE  IInv'
<1>0. provider' = provider
  BY DEF Begin
<1> USE <1>0
<1>1. TypeOK'
  BY SMT, ConstantsAssumption
  DEF IInv, TypeOK, Call, Stored, Placed, Note, Upsets, OneRowPerOrder, Begin,
      Owned
<1>2. OneRowPerOrder'
  BY SMT DEF IInv, Stored, Placed, OneRowPerOrder, Begin
<1>3. CallsFit'
  BY SMT
  DEF IInv, TypeOK, Order, Stored, Placed, Idle, On, OneRowPerOrder, CallsFit,
      CallFits, Begin, Owned
<1>4. AloneKnows'
  BY SMT
  DEF IInv, TypeOK, Placed, Idle, On, Note, CallsFit, CallFits, AloneKnows,
      Begin
<1>5. OrdersAreKept'
  BY SMT DEF IInv, TypeOK, Stored, Placed, Idle, On, Note, OrdersAreKept, Begin
<1>6. UsageIsMetered'
  BY SMT DEF IInv, Stored, UsageIsMetered, Begin
<1>7. LatestUsage'
  BY SMT
  DEF IInv, TypeOK, Stored, Placed, Idle, On, Note, OneRowPerOrder, LatestUsage,
      IsLatest, Begin
<1>8. CancelledIsClosed'
  BY SMT DEF IInv, Stored, CancelledIsClosed, Begin
<1>9. LiveIsOpen'
  <2>1. Stored' = Stored
    BY SMTT(30) DEF IInv, TypeOK, Row, Stored, Begin
  <2> SUFFICES ASSUME NEW i \in Stored PROVE IsOpen(i)'
    BY <2>1 DEF LiveIsOpen
  <2>2. IsOpen(i)
    BY DEF IInv, LiveIsOpen
  <2>3. CASE row[i].status = "cancelled"
    BY SMT, <2>3 DEF IsOpen, Begin
  <2>4. CASE upset[row[i].ref] # {}
    BY SMT, <2>4 DEF IInv, TypeOK, Placed, Note, OneRowPerOrder, IsOpen, Begin
  <2>5. CASE order[row[i].ref].state = "open"
    BY SMT, <2>5 DEF IsOpen, Begin
  <2>6. ASSUME NEW v \in Workers, On(v, row[i].ref), call[v].at = "cancel"
        PROVE  IsOpen(i)'
    BY SMT, <2>6 DEF Idle, On, IsOpen, Begin
  <2> QED
    BY <2>2, <2>3, <2>4, <2>5, <2>6 DEF IsOpen
<1> QED
  BY <1>1, <1>2, <1>3, <1>4, <1>5, <1>6, <1>7, <1>8, <1>9 DEF IInv

\* The usage stored is between the one shown and the one the order has.
LEMMA UpdateStep ==
  ASSUME IInv, NEW w \in Workers, UpdateUsage(w)
  PROVE  IInv'
<1>0. provider' = provider
  BY DEF UpdateUsage
<1> USE <1>0
<1>1. TypeOK'
  BY SMT, ConstantsAssumption
  DEF IInv, TypeOK, Row, Call, NoCall, Stored, Idle, End, CallsFit, CallFits,
      UpdateUsage
<1>2. OneRowPerOrder'
  BY SMT DEF IInv, Stored, Placed, OneRowPerOrder, UpdateUsage
<1>3. CallsFit'
  BY SMT
  DEF IInv, NoCall, Stored, Placed, Idle, On, End, CallsFit, CallFits,
      UpdateUsage
<1>4. AloneKnows'
  BY SMT
  DEF IInv, TypeOK, NoCall, Idle, On, End, CallsFit, CallFits, AloneKnows,
      UpdateUsage
<1>5. OrdersAreKept'
  BY SMT DEF IInv, Stored, Placed, Idle, On, End, OrdersAreKept, UpdateUsage
<1>6. UsageIsMetered'
  BY SMT DEF IInv, Stored, Idle, CallsFit, CallFits, UsageIsMetered, UpdateUsage
<1>7. LatestUsage'
  <2>1. Stored' = Stored
    BY SMTT(30) DEF IInv, TypeOK, Row, Stored, UpdateUsage
  <2> SUFFICES ASSUME provider = "mock", NEW i \in Stored PROVE IsLatest(i)'
    BY <2>1 DEF LatestUsage
  <2>2. IsLatest(i)
    BY DEF IInv, LatestUsage
  <2>3. CASE upset[row[i].ref] \cap {"overlap", "cut"} # {}
    BY SMT, <2>3 DEF IsLatest, UpdateUsage
  <2>4. CASE row[i].usage = order[row[i].ref].used
    BY SMT, <2>4
    DEF IInv, Idle, CallsFit, CallFits, AloneKnows, IsLatest, UpdateUsage
  <2>5. ASSUME NEW v \in Workers, On(v, row[i].ref), call[v].at = "update"
        PROVE  IsLatest(i)'
    BY SMT, <2>5
    DEF IInv, TypeOK, Stored, Idle, On, End, OneRowPerOrder, CallsFit, CallFits,
        AloneKnows, IsLatest, UpdateUsage
  <2> QED
    BY <2>2, <2>3, <2>4, <2>5 DEF IsLatest
<1>8. CancelledIsClosed'
  BY SMT DEF IInv, Stored, CancelledIsClosed, UpdateUsage
<1>9. LiveIsOpen'
  <2>1. Stored' = Stored
    BY SMTT(30) DEF IInv, TypeOK, Row, Stored, UpdateUsage
  <2> SUFFICES ASSUME NEW i \in Stored PROVE IsOpen(i)'
    BY <2>1 DEF LiveIsOpen
  <2>2. IsOpen(i)
    BY DEF IInv, LiveIsOpen
  <2>3. CASE row[i].status = "cancelled"
    BY SMT, <2>3 DEF IsOpen, UpdateUsage
  <2>4. CASE upset[row[i].ref] # {}
    BY SMT, <2>4 DEF IsOpen, UpdateUsage
  <2>5. CASE order[row[i].ref].state = "open"
    BY SMT, <2>5 DEF IsOpen, UpdateUsage
  <2>6. ASSUME NEW v \in Workers, On(v, row[i].ref), call[v].at = "cancel"
        PROVE  IsOpen(i)'
    BY SMT, <2>6 DEF Idle, On, End, IsOpen, UpdateUsage
  <2> QED
    BY <2>2, <2>3, <2>4, <2>5, <2>6 DEF IsOpen
<1> QED
  BY <1>1, <1>2, <1>3, <1>4, <1>5, <1>6, <1>7, <1>8, <1>9 DEF IInv

\* A request that ends early leaves rows and orders alone, and is noted as cut
\* when it had already changed something.
LEMMA DropStep ==
  ASSUME IInv, NEW w \in Workers, ~Idle(w), End(w), UNCHANGED <<row, order, provider>>,
         IF HalfDone(w) THEN Note(call[w].ref, "cut") ELSE UNCHANGED upset
  PROVE  IInv'
<1>1. TypeOK'
  BY SMT, ConstantsAssumption DEF IInv, TypeOK, Call, NoCall, Note, End, Upsets
<1>2. OneRowPerOrder'
  BY SMT DEF IInv, Stored, Placed, OneRowPerOrder
<1>3. CallsFit'
  BY SMT DEF IInv, NoCall, Stored, Placed, Idle, On, End, CallsFit, CallFits
<1>4. AloneKnows'
  BY SMT
  DEF IInv, TypeOK, NoCall, Placed, Idle, On, Note, End, CallsFit, CallFits,
      AloneKnows
<1>5. OrdersAreKept'
  BY SMT
  DEF IInv, TypeOK, Stored, Placed, Idle, On, Note, End, OrdersAreKept,
      HalfDone
<1>6. UsageIsMetered'
  BY SMT DEF IInv, Stored, UsageIsMetered
<1>7. LatestUsage'
  <2>1. Stored' = Stored
    BY SMTT(30) DEF IInv, TypeOK, Row, Stored, HalfDone
  <2> SUFFICES ASSUME provider = "mock", NEW i \in Stored PROVE IsLatest(i)'
    BY <2>1 DEF LatestUsage
  <2>2. IsLatest(i)
    BY DEF IInv, LatestUsage
  <2>3. CASE upset[row[i].ref] \cap {"overlap", "cut"} # {}
    BY SMT, <2>3 DEF IInv, TypeOK, Placed, Note, OneRowPerOrder, IsLatest
  <2>4. CASE row[i].usage = order[row[i].ref].used
    BY SMT, <2>4 DEF IsLatest
  <2>5. ASSUME NEW v \in Workers, On(v, row[i].ref), call[v].at = "update"
        PROVE  IsLatest(i)'
    <3>1. CASE v = w
      <4>1. upset' = [upset EXCEPT ![row[i].ref] = @ \cup {"cut"}]
        BY <2>5, <3>1 DEF HalfDone, Note, On
      <4>2. row' = row /\ row[i].ref \in Refs
        BY SMTT(30), ConstantsAssumption DEF IInv, OneRowPerOrder, Placed
      <4>3. "cut" \in upset'[row[i].ref]
        BY <4>1, <4>2 DEF IInv, TypeOK
      <4> QED
        BY <4>2, <4>3 DEF IsLatest
    <3>2. CASE v # w
      BY SMT, <2>5, <3>2 DEF Idle, On, End, IsLatest
    <3> QED
      BY <3>1, <3>2
  <2> QED
    BY <2>2, <2>3, <2>4, <2>5 DEF IsLatest
<1>8. CancelledIsClosed'
  BY SMT DEF IInv, Stored, CancelledIsClosed
<1>9. LiveIsOpen'
  <2>1. Stored' = Stored
    BY SMTT(30) DEF IInv, TypeOK, Row, Stored, HalfDone
  <2> SUFFICES ASSUME NEW i \in Stored PROVE IsOpen(i)'
    BY <2>1 DEF LiveIsOpen
  <2>2. IsOpen(i)
    BY DEF IInv, LiveIsOpen
  <2>3. CASE row[i].status = "cancelled"
    BY SMT, <2>3 DEF IsOpen
  <2>4. CASE upset[row[i].ref] # {}
    BY SMT, <2>4 DEF IInv, TypeOK, Placed, Note, OneRowPerOrder, IsOpen
  <2>5. CASE order[row[i].ref].state = "open"
    BY SMT, <2>5 DEF IsOpen
  <2>6. ASSUME NEW v \in Workers, On(v, row[i].ref), call[v].at = "cancel"
        PROVE  IsOpen(i)'
    BY SMT, <2>6
    DEF IInv, TypeOK, Stored, Placed, Idle, On, Note, End, CallsFit, CallFits,
        OrdersAreKept, IsOpen, HalfDone
  <2> QED
    BY <2>2, <2>3, <2>4, <2>5, <2>6 DEF IsOpen
<1> QED
  BY <1>1, <1>2, <1>3, <1>4, <1>5, <1>6, <1>7, <1>8, <1>9 DEF IInv

\* A restart ends all requests and closes the mock's orders, and notes both.
LEMMA RestartStep ==
  ASSUME IInv, Restart
  PROVE  IInv'
<1>0. provider' = provider
  BY DEF Restart
<1> USE <1>0
<1>1. TypeOK'
  BY SMT, ConstantsAssumption
  DEF IInv, TypeOK, Order, Call, NoCall, Placed, Upsets, OneRowPerOrder,
      Restart
<1>2. OneRowPerOrder'
  BY SMT DEF IInv, Stored, Placed, OneRowPerOrder, Restart
<1>3. CallsFit'
  BY SMT DEF NoCall, Idle, CallsFit, Restart
<1>4. AloneKnows'
  BY SMT DEF NoCall, Idle, AloneKnows, Restart
<1>5. OrdersAreKept'
  BY SMT DEF IInv, Stored, Placed, OrdersAreKept, Restart, HalfDone
<1>6. UsageIsMetered'
  BY SMT DEF IInv, Stored, Placed, OneRowPerOrder, UsageIsMetered, Restart
<1>7. LatestUsage'
  <2>1. Stored' = Stored
    BY SMTT(30) DEF IInv, TypeOK, Row, Stored, Restart
  <2> SUFFICES ASSUME provider = "mock", NEW i \in Stored PROVE IsLatest(i)'
    BY <2>1 DEF LatestUsage
  <2>2. IsLatest(i)
    BY DEF IInv, LatestUsage
  <2>3. CASE upset[row[i].ref] \cap {"overlap", "cut"} # {}
    BY SMT, <2>3 DEF IInv, Placed, OneRowPerOrder, IsLatest, Restart
  <2>4. CASE row[i].usage = order[row[i].ref].used
    BY SMT, <2>4 DEF IInv, Placed, OneRowPerOrder, IsLatest, Restart
  <2>5. ASSUME NEW v \in Workers, On(v, row[i].ref), call[v].at = "update"
        PROVE  IsLatest(i)'
    BY SMTT(30), ConstantsAssumption, <2>5
    DEF IInv, TypeOK, Row, Order, Call, NoCall, Stored, Placed, Idle, On, Note,
        End, Upsets, OneRowPerOrder, CallsFit, CallFits, AloneKnows,
        OrdersAreKept, UsageIsMetered, LatestUsage, CancelledIsClosed,
        LiveIsOpen, IsLatest, IsOpen, Restart, HalfDone
  <2> QED
    BY <2>2, <2>3, <2>4, <2>5 DEF IsLatest
<1>8. CancelledIsClosed'
  BY SMT DEF IInv, Stored, Placed, OneRowPerOrder, CancelledIsClosed, Restart
<1>9. LiveIsOpen'
  <2>1. Stored' = Stored
    BY SMTT(30) DEF IInv, TypeOK, Row, Stored, Restart
  <2> SUFFICES ASSUME NEW i \in Stored PROVE IsOpen(i)'
    BY <2>1 DEF LiveIsOpen
  <2>2. IsOpen(i)
    BY DEF IInv, LiveIsOpen
  <2>3. CASE row[i].status = "cancelled"
    BY SMT, <2>3 DEF IsOpen, Restart
  <2>4. CASE upset[row[i].ref] # {}
    BY SMT, <2>4 DEF IInv, Placed, OneRowPerOrder, IsOpen, Restart
  <2>5. CASE order[row[i].ref].state = "open"
    <3>1. CASE provider = "mock"
      <4>1. row' = row /\ row[i].ref \in Refs
        BY SMTT(30), ConstantsAssumption
        DEF IInv, OneRowPerOrder, Placed, Restart
      <4>2. "restart" \in upset'[row[i].ref]
        BY <2>5, <3>1, <4>1 DEF Restart
      <4> QED
        BY <4>1, <4>2 DEF IsOpen
    <3>2. CASE provider # "mock"
      BY SMT, <2>5, <3>2 DEF IInv, TypeOK, IsOpen, Restart
    <3> QED
      BY <3>1, <3>2
  <2>6. ASSUME NEW v \in Workers, On(v, row[i].ref), call[v].at = "cancel"
        PROVE  IsOpen(i)'
    BY SMT, <2>6
    DEF IInv, Placed, On, CallsFit, CallFits, OrdersAreKept, LatestUsage,
        IsLatest, IsOpen, Restart, HalfDone
  <2> QED
    BY <2>2, <2>3, <2>4, <2>5, <2>6 DEF IsOpen
<1> QED
  BY <1>1, <1>2, <1>3, <1>4, <1>5, <1>6, <1>7, <1>8, <1>9 DEF IInv

\* A new order has a new reference, so no row and no request has it.
LEMMA PlaceStep ==
  ASSUME IInv, NEW w \in Workers, PlaceOrder(w)
  PROVE  IInv'
<1>0. provider' = provider
  BY DEF PlaceOrder
<1> USE <1>0
<1>1. TypeOK'
  BY SMTT(30), ConstantsAssumption
  DEF IInv, TypeOK, Row, Order, Call, NoCall, Stored, Placed, Idle, On, Note,
      End, Upsets, OneRowPerOrder, CallsFit, CallFits, AloneKnows,
      OrdersAreKept, UsageIsMetered, LatestUsage, CancelledIsClosed,
      LiveIsOpen, IsLatest, IsOpen, PlaceOrder, Issued, AnswerLost, NoOrder
<1>2. OneRowPerOrder'
  BY SMT DEF IInv, Stored, Placed, OneRowPerOrder, PlaceOrder
<1>3. CallsFit'
  BY SMTT(30), ConstantsAssumption
  DEF IInv, TypeOK, Row, Order, Call, NoCall, Stored, Placed, Idle, On, Note,
      End, Upsets, OneRowPerOrder, CallsFit, CallFits, AloneKnows,
      OrdersAreKept, UsageIsMetered, LatestUsage, CancelledIsClosed,
      LiveIsOpen, IsLatest, IsOpen, PlaceOrder, Issued, AnswerLost, NoOrder
<1>4. AloneKnows'
  BY SMT
  DEF IInv, TypeOK, Placed, Idle, On, Note, CallsFit, CallFits, AloneKnows,
      PlaceOrder
<1>5. OrdersAreKept'
  <2>1. PICK o \in Orgs, r \in Refs \ Placed :
             /\ order' = [order EXCEPT ![r] = Issued(o)]
             /\ \/ /\ call' = [call EXCEPT ![w] = [at |-> "insert", id |-> None,
                                                  org |-> o, ref |-> r, usage |-> 0]]
                   /\ UNCHANGED upset
                \/ Note(r, "cut") /\ UNCHANGED call
    BY DEF PlaceOrder
  <2>2. row' = row /\ Stored' = Stored /\ Idle(w)
    BY DEF PlaceOrder, Stored
  <2>3. Placed' \subseteq Placed \cup {r}
    BY <2>1 DEF IInv, TypeOK, Placed
  <2>4. \/ On(w, r)' /\ call'[w].at = "insert"
        \/ "cut" \in upset'[r]
    BY <2>1 DEF IInv, TypeOK, Note, On, Idle
  <2>5. ASSUME NEW s \in Placed
        PROVE  \/ \E i \in Stored : row[i].ref = s
               \/ \E v \in Workers : On(v, s)' /\ call'[v].at = "insert"
               \/ "cut" \in upset'[s]
    <3>1. "cut" \in upset[s] => "cut" \in upset'[s]
      BY <2>1 DEF IInv, TypeOK, Note, Placed
    <3>2. \A v \in Workers : On(v, s) => call'[v] = call[v]
      BY <2>1, <2>2 DEF IInv, TypeOK, On
    <3> QED
      BY <2>5, <3>1, <3>2 DEF IInv, OrdersAreKept, On, Idle
  <2> QED
    BY <2>2, <2>3, <2>4, <2>5 DEF OrdersAreKept
<1>6. UsageIsMetered'
  BY SMT DEF IInv, Stored, OneRowPerOrder, UsageIsMetered, PlaceOrder
<1>7. LatestUsage'
  <2>1. Stored' = Stored
    BY SMTT(30) DEF IInv, TypeOK, Row, Stored, PlaceOrder
  <2> SUFFICES ASSUME provider = "mock", NEW i \in Stored PROVE IsLatest(i)'
    BY <2>1 DEF LatestUsage
  <2>2. IsLatest(i)
    BY DEF IInv, LatestUsage
  <2>3. CASE upset[row[i].ref] \cap {"overlap", "cut"} # {}
    BY SMT, <2>3 DEF IsLatest, PlaceOrder, AnswerLost
  <2>4. CASE row[i].usage = order[row[i].ref].used
    BY SMT, <2>4 DEF IInv, OneRowPerOrder, IsLatest, PlaceOrder
  <2>5. ASSUME NEW v \in Workers, On(v, row[i].ref), call[v].at = "update"
        PROVE  IsLatest(i)'
    BY SMT, <2>5 DEF IInv, TypeOK, Idle, On, IsLatest, PlaceOrder
  <2> QED
    BY <2>2, <2>3, <2>4, <2>5 DEF IsLatest
<1>8. CancelledIsClosed'
  BY SMT DEF IInv, Stored, Placed, CancelledIsClosed, PlaceOrder
<1>9. LiveIsOpen'
  <2>1. Stored' = Stored
    BY SMTT(30) DEF IInv, TypeOK, Row, Stored, PlaceOrder
  <2> SUFFICES ASSUME NEW i \in Stored PROVE IsOpen(i)'
    BY <2>1 DEF LiveIsOpen
  <2>2. IsOpen(i)
    BY DEF IInv, LiveIsOpen
  <2>3. CASE row[i].status = "cancelled"
    BY SMT, <2>3 DEF IsOpen, PlaceOrder
  <2>4. CASE upset[row[i].ref] # {}
    BY SMT, <2>4
    DEF IInv, TypeOK, Placed, Note, OneRowPerOrder, IsOpen, PlaceOrder
  <2>5. CASE order[row[i].ref].state = "open"
    BY SMT, <2>5 DEF IsOpen, PlaceOrder, Issued
  <2>6. ASSUME NEW v \in Workers, On(v, row[i].ref), call[v].at = "cancel"
        PROVE  IsOpen(i)'
    BY SMTT(30), ConstantsAssumption, <2>6
    DEF IInv, TypeOK, Row, Order, Call, NoCall, Stored, Placed, Idle, On, Note,
        End, Upsets, OneRowPerOrder, CallsFit, CallFits, AloneKnows,
        OrdersAreKept, UsageIsMetered, LatestUsage, CancelledIsClosed,
        LiveIsOpen, IsLatest, IsOpen, PlaceOrder, Issued, AnswerLost, NoOrder
  <2> QED
    BY <2>2, <2>3, <2>4, <2>5, <2>6 DEF IsOpen
<1> QED
  BY <1>1, <1>2, <1>3, <1>4, <1>5, <1>6, <1>7, <1>8, <1>9 DEF IInv

\* Cancel closes the order of its own eSIM and no other.
LEMMA CloseStep ==
  ASSUME IInv, NEW w \in Workers, Close(w)
  PROVE  IInv'
<1>0. provider' = provider
  BY DEF Close
<1> USE <1>0
<1>1. TypeOK'
  <2>1. call[w] \in Call /\ call[w].ref \in Refs
    BY SMT DEF IInv, TypeOK, Placed, Idle, CallsFit, CallFits, Close
  <2>2. order' \in [Refs -> Order]
    BY SMTT(30), ConstantsAssumption, <2>1 DEF IInv, TypeOK, Order, Close
  <2>3. call' \in [Workers -> Call]
    BY SMTT(30), ConstantsAssumption, <2>1 DEF IInv, TypeOK, Call, Close
  <2> QED
    BY <2>2, <2>3 DEF IInv, TypeOK, Close
<1>2. OneRowPerOrder'
  BY SMT DEF IInv, Stored, Placed, OneRowPerOrder, Close
<1>3. CallsFit'
  BY SMT DEF IInv, TypeOK, Stored, Placed, Idle, On, CallsFit, CallFits, Close
<1>4. AloneKnows'
  BY SMT DEF IInv, Idle, On, AloneKnows, Close
<1>5. OrdersAreKept'
  BY SMT
  DEF IInv, Stored, Placed, Idle, On, CallsFit, CallFits, OrdersAreKept, Close
<1>6. UsageIsMetered'
  BY SMT DEF IInv, Stored, UsageIsMetered, Close
<1>7. LatestUsage'
  BY SMT DEF IInv, Stored, Idle, On, LatestUsage, IsLatest, Close
<1>8. CancelledIsClosed'
  BY SMT DEF IInv, Stored, CancelledIsClosed, Close
<1>9. LiveIsOpen'
  <2>1. Stored' = Stored
    BY SMTT(30) DEF IInv, TypeOK, Row, Stored, Close
  <2> SUFFICES ASSUME NEW i \in Stored PROVE IsOpen(i)'
    BY <2>1 DEF LiveIsOpen
  <2>2. IsOpen(i)
    BY DEF IInv, LiveIsOpen
  <2>3. CASE row[i].status = "cancelled"
    BY SMT, <2>3 DEF IsOpen, Close
  <2>4. CASE upset[row[i].ref] # {}
    BY SMT, <2>4 DEF IsOpen, Close
  <2>5. CASE order[row[i].ref].state = "open"
    BY SMT, <2>5 DEF IInv, TypeOK, Idle, On, IsOpen, Close
  <2>6. ASSUME NEW v \in Workers, On(v, row[i].ref), call[v].at = "cancel"
        PROVE  IsOpen(i)'
    BY SMT, <2>6 DEF Idle, On, IsOpen, Close
  <2> QED
    BY <2>2, <2>3, <2>4, <2>5, <2>6 DEF IsOpen
<1> QED
  BY <1>1, <1>2, <1>3, <1>4, <1>5, <1>6, <1>7, <1>8, <1>9 DEF IInv

\* What the status update of MarkActivated and Cancel changes.
LEMMA StatusFacts ==
  ASSUME IInv, NEW w \in Workers, SetStatus(w)
  PROVE  /\ call[w].id \in Stored /\ row[call[w].id].ref = call[w].ref
         /\ row' \in [Ids -> Row]
         /\ \A i \in Ids : /\ i # call[w].id => row'[i] = row[i]
                           /\ row'[i].ref = row[i].ref
                           /\ row'[i].org = row[i].org
                           /\ row'[i].usage = row[i].usage
         /\ row'[call[w].id].status =
              IF call[w].at = "activate" THEN "active" ELSE "cancelled"
         /\ Stored' = Stored
<1>1. call[w].id \in Stored /\ row[call[w].id].ref = call[w].ref
  BY DEF IInv, CallsFit, CallFits, SetStatus, Idle
<1> DEFINE st == IF call[w].at = "activate" THEN "active" ELSE "cancelled"
<1>2. row' = [row EXCEPT ![call[w].id].status = st]
  BY DEF SetStatus
<1>3. call[w].id \in Ids
  BY <1>1 DEF Stored
<1> HIDE DEF st
<1>4. \A i \in Ids : i # call[w].id => row'[i] = row[i]
  BY <1>2, <1>3 DEF IInv, TypeOK
<1>5. row'[call[w].id] = [row[call[w].id] EXCEPT !.status = st]
  BY <1>2, <1>3 DEF IInv, TypeOK
<1>6. st \in {"active", "cancelled"}
  BY DEF st
<1>7. row[call[w].id] \in Row
  BY <1>3 DEF IInv, TypeOK
<1>8. row'[call[w].id] \in Row /\ row'[call[w].id].status = st
  BY <1>5, <1>6, <1>7 DEF Row
<1>9. /\ row'[call[w].id].ref = row[call[w].id].ref
      /\ row'[call[w].id].org = row[call[w].id].org
      /\ row'[call[w].id].usage = row[call[w].id].usage
  BY <1>5, <1>7 DEF Row
<1>10. row' \in [Ids -> Row]
  BY <1>2, <1>4, <1>8 DEF IInv, TypeOK
<1>11. Stored' = Stored
  BY <1>1, <1>4, <1>6, <1>8 DEF Stored
<1> QED
  BY <1>1, <1>4, <1>8, <1>9, <1>10, <1>11 DEF st

\* A status is set to cancelled only after the order was closed, and a revived
\* eSIM is noted.
LEMMA StatusStep ==
  ASSUME IInv, NEW w \in Workers, SetStatus(w)
  PROVE  IInv'
<1>0. provider' = provider
  BY DEF SetStatus
<1> USE <1>0
<1>1. TypeOK'
  BY SMT, ConstantsAssumption
  DEF IInv, TypeOK, Row, Order, Call, NoCall, Stored, Idle, On, Note, End,
      Upsets, OneRowPerOrder, CallsFit, CallFits, OrdersAreKept,
      CancelledIsClosed, LiveIsOpen, SetStatus
<1>2. OneRowPerOrder'
  BY SMT
  DEF IInv, Stored, Placed, Idle, OneRowPerOrder, CallsFit, CallFits, SetStatus
<1>3. CallsFit'
  BY SMT
  DEF IInv, NoCall, Stored, Placed, Idle, On, End, CallsFit, CallFits,
      SetStatus
<1>4. AloneKnows'
  BY SMT
  DEF IInv, TypeOK, NoCall, Placed, Idle, On, Note, End, CallsFit, CallFits,
      AloneKnows, SetStatus
<1>5. OrdersAreKept'
  BY SMT
  DEF IInv, TypeOK, Stored, Placed, Idle, On, Note, End, OrdersAreKept,
      SetStatus
<1>6. UsageIsMetered'
  BY SMT DEF IInv, Stored, Idle, CallsFit, CallFits, UsageIsMetered, SetStatus
<1>7. LatestUsage'
  <2> SUFFICES ASSUME provider = "mock", NEW i \in Stored PROVE IsLatest(i)'
    BY StatusFacts DEF LatestUsage
  <2>1. IsLatest(i) /\ row'[i].ref = row[i].ref /\ row'[i].usage = row[i].usage
    BY StatusFacts DEF IInv, LatestUsage, Stored
  <2>2. order' = order /\ row[i].ref \in Refs
    BY DEF IInv, OneRowPerOrder, Placed, SetStatus
  <2>3. upset[row[i].ref] \subseteq upset'[row[i].ref]
    BY <2>2 DEF IInv, TypeOK, Note, SetStatus
  <2>4. ASSUME NEW v \in Workers, On(v, row[i].ref), call[v].at = "update"
        PROVE  On(v, row[i].ref)' /\ call'[v].at = "update"
    BY <2>1, <2>4 DEF IInv, TypeOK, On, Idle, End, SetStatus
  <2> QED
    BY <2>1, <2>2, <2>3, <2>4 DEF IsLatest
<1>8. CancelledIsClosed'
  BY SMT
  DEF IInv, Stored, Idle, CallsFit, CallFits, CancelledIsClosed, SetStatus
<1>9. LiveIsOpen'
  <2>1. Stored' = Stored
    BY StatusFacts
  <2> SUFFICES ASSUME NEW i \in Stored PROVE IsOpen(i)'
    BY <2>1 DEF LiveIsOpen
  <2>2. IsOpen(i)
    BY DEF IInv, LiveIsOpen
  <2>3. CASE row[i].status = "cancelled"
    <3>1. CASE i # call[w].id
      BY SMT, <2>3, <3>1, StatusFacts DEF IsOpen, SetStatus
    <3>2. CASE i = call[w].id /\ call[w].at = "cancel"
      BY <3>2, StatusFacts DEF IsOpen
    <3>3. CASE i = call[w].id /\ call[w].at = "activate"
      <4>1. row[i].ref = call[w].ref /\ row[i].ref \in Refs
        BY <3>3, StatusFacts DEF IInv, OneRowPerOrder, Placed
      <4>2. Note(call[w].ref, "revived")
        BY <2>3, <3>3 DEF SetStatus
      <4>3. "revived" \in upset'[row[i].ref]
        BY <4>1, <4>2 DEF IInv, TypeOK, Note
      <4> QED
        BY <4>3, <3>3, StatusFacts DEF IsOpen, Stored
    <3> QED
      BY <3>1, <3>2, <3>3 DEF SetStatus
  <2>4. CASE upset[row[i].ref] # {}
    BY SMT, <2>4
    DEF IInv, TypeOK, Placed, Note, OneRowPerOrder, IsOpen, SetStatus
  <2>5. CASE order[row[i].ref].state = "open"
    BY SMT, <2>5 DEF IsOpen, SetStatus
  <2>6. ASSUME NEW v \in Workers, On(v, row[i].ref), call[v].at = "cancel"
        PROVE  IsOpen(i)'
    BY SMT, <2>6
    DEF IInv, TypeOK, Stored, Idle, On, End, OneRowPerOrder, CallsFit, CallFits,
        IsOpen, SetStatus
  <2> QED
    BY <2>2, <2>3, <2>4, <2>5, <2>6 DEF IsOpen
<1> QED
  BY <1>1, <1>2, <1>3, <1>4, <1>5, <1>6, <1>7, <1>8, <1>9 DEF IInv

\* The usage of an Airalo order grows by itself and stays above its row's.
LEMMA ConsumeStep ==
  ASSUME IInv, NEW r \in Refs, Consume(r)
  PROVE  IInv'
<1>0. provider' = provider
  BY DEF Consume
<1> USE <1>0
<1>1. TypeOK'
  BY SMT, ConstantsAssumption DEF IInv, TypeOK, Order, Consume
<1>2. OneRowPerOrder'
  BY SMT DEF IInv, Stored, Placed, OneRowPerOrder, Consume
<1>3. CallsFit'
  BY SMT
  DEF IInv, TypeOK, Order, Call, Stored, Placed, Idle, On, CallsFit, CallFits,
      Consume
<1>4. AloneKnows'
  BY SMT DEF IInv, Idle, On, AloneKnows, Consume
<1>5. OrdersAreKept'
  BY SMT DEF IInv, Stored, Placed, Idle, On, OrdersAreKept, Consume
<1>6. UsageIsMetered'
  BY SMT DEF IInv, TypeOK, Row, Order, Stored, UsageIsMetered, Consume
<1>7. LatestUsage'
  BY SMT DEF LatestUsage, Consume
<1>8. CancelledIsClosed'
  BY SMT DEF CancelledIsClosed, Consume
<1>9. LiveIsOpen'
  <2>1. Stored' = Stored
    BY SMTT(30) DEF IInv, TypeOK, Row, Stored, Consume
  <2> SUFFICES ASSUME NEW i \in Stored PROVE IsOpen(i)'
    BY <2>1 DEF LiveIsOpen
  <2>2. IsOpen(i)
    BY DEF IInv, LiveIsOpen
  <2>3. CASE row[i].status = "cancelled"
    BY SMT, <2>3 DEF IsOpen, Consume
  <2>4. CASE upset[row[i].ref] # {}
    BY SMT, <2>4 DEF IsOpen, Consume
  <2>5. CASE order[row[i].ref].state = "open"
    BY SMT, <2>5 DEF IsOpen, Consume
  <2>6. ASSUME NEW v \in Workers, On(v, row[i].ref), call[v].at = "cancel"
        PROVE  IsOpen(i)'
    BY SMT, <2>6 DEF Idle, On, IsOpen, Consume
  <2> QED
    BY <2>2, <2>3, <2>4, <2>5, <2>6 DEF IsOpen
<1> QED
  BY <1>1, <1>2, <1>3, <1>4, <1>5, <1>6, <1>7, <1>8, <1>9 DEF IInv

\* What a usage query answers and changes at the provider.
LEMMA QueryFacts ==
  ASSUME IInv, NEW w \in Workers, UsageMB(w), order[call[w].ref].state = "open"
  PROVE  LET r == call[w].ref  n == UsageOf(r) IN
         /\ r \in Refs /\ n \in 0 .. Cap /\ order[r].used <= n
         /\ provider # "mock" => n = order[r].used
         /\ order' = [order EXCEPT ![r].used = n]
         /\ order' \in [Refs -> Order]
         /\ \A s \in Refs : s # r => order'[s] = order[s]
         /\ order'[r].used = n /\ order'[r].state = "open" /\ order'[r].org = order[r].org
         /\ Placed' = Placed
         /\ call'[w] = [call[w] EXCEPT !.at = "update", !.usage = n]
         /\ call' \in [Workers -> Call]
         /\ \A v \in Workers : v # w => call'[v] = call[v]
         /\ row' = row /\ upset' = upset
         /\ Stored' = Stored
<1> DEFINE r == call[w].ref
           n == UsageOf(r)
<1>1. r \in Refs /\ call[w] \in Call
  BY DEF IInv, TypeOK, CallsFit, CallFits, UsageMB, Idle, Placed
<1>2. order[r] \in Order
  BY <1>1 DEF IInv, TypeOK
<1>3. n \in 0 .. Cap /\ order[r].used <= n /\ (provider # "mock" => n = order[r].used)
  BY SMT, <1>2, ConstantsAssumption DEF UsageOf, Grown, Order
<1>4. /\ order' = [order EXCEPT ![r].used = n]
      /\ call' = [call EXCEPT ![w].at = "update", ![w].usage = n]
      /\ row' = row /\ upset' = upset
  BY DEF UsageMB
<1> HIDE DEF n
<1>5. order'[r] = [order[r] EXCEPT !.used = n] /\ \A s \in Refs : s # r => order'[s] = order[s]
  BY <1>1, <1>4 DEF IInv, TypeOK
<1>6. /\ order'[r] \in Order /\ order'[r].used = n
      /\ order'[r].state = "open" /\ order'[r].org = order[r].org
  BY <1>2, <1>3, <1>5 DEF Order
<1>7. order' \in [Refs -> Order]
  BY <1>4, <1>5, <1>6 DEF IInv, TypeOK
<1>8. Placed' = Placed
  BY <1>5, <1>6 DEF Placed
<1>9. call'[w] = [call[w] EXCEPT !.at = "update", !.usage = n]
  BY <1>4 DEF IInv, TypeOK
<1>10. \A v \in Workers : v # w => call'[v] = call[v]
  BY <1>4 DEF IInv, TypeOK
<1>11. call'[w] \in Call
  BY <1>1, <1>3, <1>9 DEF Call
<1>12. call' \in [Workers -> Call]
  BY <1>4, <1>10, <1>11 DEF IInv, TypeOK
<1>13. Stored' = Stored
  BY <1>4 DEF Stored
<1> QED
  BY <1>1, <1>3, <1>4, <1>5, <1>6, <1>7, <1>8, <1>9, <1>10, <1>12, <1>13 DEF n

\* A query's answer is the usage its order has from then on.
LEMMA QueryStep ==
  ASSUME IInv, NEW w \in Workers, UsageMB(w)
  PROVE  IInv'
<1>0. provider' = provider
  BY DEF UsageMB
<1> USE <1>0
<1> DEFINE r == call[w].ref
           n == UsageOf(r)
<1>1. CASE order[r].state = "open"
  <2>0. /\ r \in Refs /\ n \in 0 .. Cap /\ order[r].used <= n
        /\ provider # "mock" => n = order[r].used
        /\ order' \in [Refs -> Order]
        /\ \A s \in Refs : s # r => order'[s] = order[s]
        /\ order'[r].used = n /\ order'[r].state = "open" /\ order'[r].org = order[r].org
        /\ Placed' = Placed
        /\ call'[w] = [call[w] EXCEPT !.at = "update", !.usage = n]
        /\ call' \in [Workers -> Call]
        /\ \A v \in Workers : v # w => call'[v] = call[v]
        /\ row' = row /\ upset' = upset
        /\ Stored' = Stored
    BY QueryFacts, <1>1
  <2> USE <2>0, <1>1
  <2> HIDE DEF n
  <2>1. TypeOK'
    BY DEF IInv, TypeOK
  <2>2. call[w] \in Call /\ call[w].at = "query"
    BY DEF IInv, TypeOK, UsageMB
  <2>3. /\ call'[w].ref = r /\ call'[w].id = call[w].id /\ call'[w].org = call[w].org
        /\ call'[w].at = "update" /\ call'[w].usage = n
    BY <2>2 DEF Call
  <2>4. OneRowPerOrder'
    BY SMT, <2>2 DEF IInv, OneRowPerOrder, Placed, Stored
  <2>5. \A v \in Workers, s \in Refs : On(v, s)' <=> On(v, s)
    BY <2>2, <2>3 DEF On, Idle
  <2>6. On(w, r) /\ CallFits(w)
    BY <2>2 DEF IInv, CallsFit, On, Idle
  <2>7. CallsFit'
    <3> SUFFICES ASSUME NEW v \in Workers, ~Idle(v)' PROVE CallFits(v)'
      BY DEF CallsFit
    <3>1. CASE v = w
      <4>1. n <= n
        BY SMT, ConstantsAssumption
      <4>2. row' = row /\ Placed' = Placed /\ Stored' = Stored
        OBVIOUS
      <4> QED
        BY <2>2, <2>3, <2>6, <3>1, <4>1, <4>2 DEF CallFits
    <3>2. CASE v # w
      <4>1. call'[v] = call[v] /\ CallFits(v) /\ call[v] \in Call
        BY <3>2 DEF IInv, TypeOK, CallsFit, Idle
      <4>2. call[v].at = "insert" => call[v].ref # r
        BY <2>6, <3>2, <4>1 DEF CallFits
      <4>3. call[v].ref \in Refs /\ order'[call[v].ref].used >= order[call[v].ref].used
        BY SMTT(30), <4>1, ConstantsAssumption
        DEF IInv, TypeOK, Order, CallFits, Placed
      <4>4. call[v].usage <= order'[call[v].ref].used
        BY SMTT(30), <4>1, <4>3, ConstantsAssumption
        DEF IInv, TypeOK, Order, Call, CallFits
      <4> QED
        BY SMTT(30), <2>5, <4>1, <4>2, <4>3, <4>4 DEF CallFits
    <3> QED
      BY <3>1, <3>2
  <2>8. AloneKnows'
    <3> SUFFICES ASSUME NEW v \in Workers, ~Idle(v)', "overlap" \notin upset[call'[v].ref]
                 PROVE  /\ \A u \in Workers : On(u, call[v].ref)' => u = v
                        /\ call'[v].at = "update" =>
                             /\ row[call'[v].id].usage <= call'[v].usage
                             /\ provider = "mock" => call'[v].usage = order'[call'[v].ref].used
                        /\ call'[v].ref = call[v].ref
      BY DEF AloneKnows
    <3>1. CASE v = w
      <4>1. row[call[w].id].usage <= order[r].used
        BY <2>2, <2>6 DEF IInv, UsageIsMetered, CallFits
      <4>2. row[call[w].id].usage \in Nat /\ order[r].used \in Nat /\ n \in Nat
        BY SMT, <2>2, <2>6, ConstantsAssumption
        DEF IInv, TypeOK, Row, Order, CallFits, Stored
      <4>3. \A u \in Workers : On(u, r) => u = w
        BY <2>3, <2>6, <3>1 DEF IInv, AloneKnows, On
      <4>4. row[call[w].id].usage <= n
        BY SMT, <4>1, <4>2
      <4>5. \A u \in Workers : On(u, call[v].ref)' => u = v
        BY <2>3, <2>5, <3>1, <4>3
      <4> QED
        BY <2>3, <3>1, <4>4, <4>5
    <3>2. CASE v # w
      <4>1. call'[v] = call[v] /\ ~Idle(v)
        BY <3>2 DEF Idle
      <4>2. /\ \A u \in Workers : On(u, call[v].ref) => u = v
            /\ call[v].at = "update" =>
                 /\ row[call[v].id].usage <= call[v].usage
                 /\ provider = "mock" => call[v].usage = order[call[v].ref].used
        BY <4>1 DEF IInv, AloneKnows
      <4>3. call[v].ref \in Refs /\ call[v].ref # r
        BY <2>6, <3>2, <4>1, <4>2 DEF IInv, CallsFit, CallFits, Placed
      <4> QED
        BY <2>5, <4>1, <4>2, <4>3
    <3> QED
      BY <3>1, <3>2
  <2>9. OrdersAreKept'
    BY SMTT(30), <2>2, <2>3, <2>5
    DEF IInv, TypeOK, OrdersAreKept, On, Idle, Placed
  <2>10. UsageIsMetered'
    BY SMTT(30), <2>2
    DEF IInv, TypeOK, UsageIsMetered, OneRowPerOrder, Order, Row, Stored,
        Placed
  <2>11. LatestUsage'
    <3> SUFFICES ASSUME provider = "mock", NEW i \in Stored PROVE IsLatest(i)'
      BY DEF LatestUsage
    <3>1. CASE row[i].ref = r
      BY <2>3, <2>5, <2>6, <3>1 DEF IsLatest
    <3>2. CASE row[i].ref # r
      <4>1. row[i].ref \in Refs /\ IsLatest(i)
        BY DEF IInv, OneRowPerOrder, Placed, LatestUsage
      <4>2. \A v \in Workers : On(v, row[i].ref) => v # w
        BY <3>2 DEF On
      <4> QED
        BY <2>5, <3>2, <4>1, <4>2 DEF IsLatest
    <3> QED
      BY <3>1, <3>2
  <2>12. CancelledIsClosed'
    BY SMTT(30), <2>2
    DEF IInv, TypeOK, CancelledIsClosed, OneRowPerOrder, Order, Row, Stored,
        Placed
  <2>13. LiveIsOpen'
    BY SMTT(30), <2>2, <2>3, <2>5
    DEF IInv, TypeOK, LiveIsOpen, IsOpen, OneRowPerOrder, Order, Row, On, Idle,
        Stored, Placed
  <2> QED
    BY <2>1, <2>4, <2>7, <2>8, <2>9, <2>10, <2>11, <2>12, <2>13 DEF IInv
<1>2. CASE order[r].state # "open"
  <2>1. End(w) /\ UNCHANGED <<row, order, upset, provider>>
    BY <1>2 DEF UsageMB
  <2>2. ~Idle(w) /\ ~HalfDone(w)
    BY DEF UsageMB, Idle, HalfDone
  <2> QED
    BY <2>1, <2>2, DropStep
<1> QED
  BY <1>1, <1>2

\* The invariant holds at the beginning.
LEMMA InitIInv == Init => IInv
<1> SUFFICES ASSUME Init PROVE IInv
  OBVIOUS
<1>1. TypeOK
  BY SMT, ConstantsAssumption
  DEF Init, TypeOK, Row, NoRow, Order, NoOrder, Call, NoCall, Upsets
<1>2. Stored = {} /\ Placed = {} /\ \A w \in Workers : Idle(w)
  BY DEF Init, Stored, NoRow, Placed, NoOrder, Idle, NoCall
<1> QED
  BY <1>1, <1>2
  DEF IInv, OneRowPerOrder, CallsFit, AloneKnows, OrdersAreKept, UsageIsMetered,
      LatestUsage, CancelledIsClosed, LiveIsOpen

\* A step that changes nothing keeps the invariant.
LEMMA StutterStep == IInv /\ UNCHANGED vars => IInv'
BY DEF IInv, vars, TypeOK, OneRowPerOrder, CallsFit, CallFits, AloneKnows,
       OrdersAreKept, UsageIsMetered, LatestUsage, IsLatest, CancelledIsClosed,
       LiveIsOpen, IsOpen, Stored, Placed, Idle, On

\* Every step keeps the invariant.
LEMMA NextIInv == IInv /\ [Next]_vars => IInv'
<1> SUFFICES ASSUME IInv, [Next]_vars PROVE IInv'
  OBVIOUS
<1>1. ASSUME NEW w \in Workers, Fails(w) PROVE IInv'
  BY <1>1, DropStep DEF Fails
<1>2. CASE UNCHANGED vars
  BY <1>2, StutterStep
<1> QED
  BY <1>1, <1>2, PlaceStep, CreateStep, BeginStep, QueryStep, UpdateStep,
     CloseStep, StatusStep, RestartStep, ConsumeStep DEF Next, RefreshUsage

\* The inductive invariant of EsimOrders holds, for both providers, every
\* number of requests, eSIMs and organisations and every set of faults.
THEOREM Invariant == Spec => []IInv
BY InitIInv, NextIInv, PTL DEF Spec

\* Every variable keeps its type, and no usage passes the allowance.
THEOREM TypeCorrect == Spec => []TypeOK
<1>1. IInv => TypeOK
  BY DEF IInv
<1> QED
  BY Invariant, <1>1, PTL

\* Every order is stored once, for the organisation it was placed for, and is
\* lost only with an error to its caller.
THEOREM OrdersAreNotLost == Spec => []OrdersAreBooked
<1>1. IInv => OrdersAreBooked
  BY DEF IInv, OrdersAreBooked
<1> QED
  BY Invariant, <1>1, PTL

\* No eSIM shows more usage than its order had and, with the mock, a usage that
\* is out of date is explained by requests that overlapped or were cut short.
THEOREM UsageIsNotInflated == Spec => []UsageIsTrue
<1>1. IInv => UsageIsTrue
  BY DEF IInv, UsageIsTrue
<1> QED
  BY Invariant, <1>1, PTL

\* With the mock, an eSIM shown cancelled has no order any more; one shown alive
\* without an order is explained by what happened to it.
THEOREM StatusesAreExplained == Spec => []StatusIsTrue
<1>1. IInv => StatusIsTrue
  BY DEF IInv, StatusIsTrue
<1> QED
  BY Invariant, <1>1, PTL

\* The usage shown of an eSIM never falls while its requests come one by one.
THEOREM UsageGrows == Spec => UsageNeverFalls
<1> DEFINE Grows == \A i \in Stored : "overlap" \notin upset'[row[i].ref]
                                      => row'[i].usage >= row[i].usage
<1>1. IInv /\ [Next]_vars => [Grows]_vars
  <2> SUFFICES ASSUME IInv, Next, NEW i \in Stored,
                      "overlap" \notin upset'[row[i].ref]
               PROVE  row'[i].usage >= row[i].usage
    OBVIOUS
  <2>1. row[i].usage \in Nat /\ row[i].usage >= row[i].usage /\ row[i].ref \in Refs
    BY SMT, ConstantsAssumption
    DEF IInv, TypeOK, Row, Stored, OneRowPerOrder, Placed
  <2>2. CASE row'[i] = row[i]
    BY <2>1, <2>2
  <2>3. ASSUME NEW w \in Workers, CreateESIM(w) PROVE row'[i] = row[i]
    BY <2>3 DEF IInv, TypeOK, CreateESIM, Stored
  <2>4. ASSUME NEW w \in Workers, UpdateUsage(w)
        PROVE  row'[i].usage >= row[i].usage
    <3>1. CASE i # call[w].id
      BY <2>1, <2>4, <3>1 DEF IInv, TypeOK, UpdateUsage, Stored
    <3>2. CASE i = call[w].id
      <4>1. ~Idle(w) /\ call[w].ref = row[i].ref /\ upset' = upset
        BY <2>4, <3>2 DEF IInv, CallsFit, CallFits, UpdateUsage, Idle
      <4>2. row[i].usage <= call[w].usage
        BY <2>4, <3>2, <4>1 DEF IInv, AloneKnows, UpdateUsage
      <4>3. row'[i].usage = call[w].usage /\ call[w].usage \in Nat
        BY SMT, <2>4, <3>2, ConstantsAssumption
        DEF IInv, TypeOK, UpdateUsage, Row, Call, Stored
      <4> QED
        BY SMT, <2>1, <4>2, <4>3
    <3> QED
      BY <3>1, <3>2
  <2>5. ASSUME NEW w \in Workers, SetStatus(w)
        PROVE  row'[i].usage >= row[i].usage
    BY <2>1, <2>5, StatusFacts DEF Stored
  <2> QED
    BY <2>2, <2>3, <2>4, <2>5
    DEF Next, PlaceOrder, RefreshUsage, Begin, UsageMB, Close, Fails, Consume, Restart
<1> QED
  BY <1>1, Invariant, PTL DEF Spec, UsageNeverFalls, Grows
=============================================================================
