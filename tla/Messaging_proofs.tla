-------------------------- MODULE Messaging_proofs ---------------------------
(***************************************************************************)
(* Proofs about Messaging, for any number of senders, viewers, users and     *)
(* messages, any inbox limit and every set of faults.                        *)
(***************************************************************************)
EXTENDS Messaging, SequenceTheorems, TLAPS

\* What the invariant says of one viewer.
Copy(v) ==
  LET s == subject[conn[v].user]  n == conn[v].since  g == Len(got[v])
      x == conn[v].unread  p == Len(pending[v]) IN
  /\ n + g + x + p <= Len(s)
  /\ \A k \in 1 .. g : got[v][k] = s[n + k]
  /\ \A k \in 1 .. p : pending[v][k] = s[n + g + x + k]
  /\ conn[v].here => x = 0
  /\ conn[v].at = "live" => n + g + x + p = Len(s)
  /\ conn[v].at # "live" => p = 0 /\ ~page[v].polled
  /\ conn[v].at = "opening" => g = 0 /\ x = 0

Told(v) ==
  conn[v].at = "live" /\ conn[v].here /\ page[v].polled =>
    \A i \in To(conn[v].user) :
      \/ i \in page[v].seen \cup page[v].crowded \cup failed \cup late
      \/ \E w \in Senders : sending[w] = i
      \/ \E k \in 1 .. Len(got[v]) : got[v][k] = i
      \/ \E k \in 1 .. Len(pending[v]) : pending[v][k] = i

LEMMA ByViewer ==
  /\ Copies <=> \A v \in Viewers : Copy(v)
  /\ NothingMissed <=> \A v \in Viewers : Told(v)
BY DEF Copies, Copy, NothingMissed, Told

\* A viewer nothing happens to keeps what is said of it.
LEMMA SameViewer ==
  ASSUME NEW v \in Viewers, Copy(v),
         conn'[v] = conn[v], got'[v] = got[v], pending'[v] = pending[v],
         page'[v] = page[v], subject' = subject
  PROVE  Copy(v)'
BY DEF Copy

LEMMA Numbers ==
  ASSUME TypeOK
  PROVE  /\ Len(log) \in Nat
         /\ \A u \in Users : subject[u] \in Seq(Ids) /\ Len(subject[u]) \in Nat
         /\ \A v \in Viewers : /\ conn[v].user \in Users /\ conn[v].since \in Nat
                               /\ conn[v].unread \in Nat /\ conn[v].unread <= Buffered
                               /\ got[v] \in Seq(Ids) /\ Len(got[v]) \in Nat
                               /\ pending[v] \in Seq(Ids) /\ Len(pending[v]) \in Nat
         /\ \A i \in 1 .. Len(log) : /\ log[i].to \in Users /\ log[i].from \in Senders
                                     /\ i \in Ids /\ i \in To(log[i].to)
<1>1. /\ log \in Seq(Message) /\ Len(log) \in Nat
      /\ Len(log) <= MaxMessages /\ MaxMessages \in Nat
  BY ConstantsAssumption DEF TypeOK
<1>2. ASSUME NEW i \in 1 .. Len(log)
      PROVE  /\ log[i].to \in Users /\ log[i].from \in Senders
             /\ i \in Ids /\ i \in To(log[i].to)
  <2>1. log[i] \in Message
    BY <1>1, ElementOfSeq
  <2>2. i \in Ids
    BY <1>1 DEF Ids
  <2>. QED
    BY <2>1, <2>2 DEF Message, To
<1>3. \A u \in Users : subject[u] \in Seq(Ids) /\ Len(subject[u]) \in Nat
  BY DEF TypeOK
<1>4. \A v \in Viewers : /\ conn[v].user \in Users /\ conn[v].since \in Nat
                         /\ conn[v].unread \in Nat /\ conn[v].unread <= Buffered
                         /\ got[v] \in Seq(Ids) /\ Len(got[v]) \in Nat
                         /\ pending[v] \in Seq(Ids) /\ Len(pending[v]) \in Nat
  BY ConstantsAssumption DEF TypeOK, Conn
<1>. QED
  BY <1>1, <1>2, <1>3, <1>4

\* Where the elements of two pieces of a sequence of length l are.
LEMMA Within ==
  ASSUME NEW n \in Nat, NEW g \in Nat, NEW x \in Nat, NEW p \in Nat, NEW l \in Nat,
         n + g + x + p <= l
  PROVE  /\ \A k \in 1 .. g : n + k \in 1 .. l
         /\ \A k \in 1 .. p : n + g + x + k \in 1 .. l
         /\ n + g + x + p <= l + 1 /\ n + g + x + (p + 1) <= l + 1
         /\ n + g + x + p = l => n + g + x + (p + 1) = l + 1
         /\ \A k \in 1 .. p + 1 : k \in 1 .. p \/ k = p + 1
OBVIOUS

LEMMA OneMore ==
  ASSUME NEW l \in Nat
  PROVE  \A k \in 1 .. l + 1 : k # l + 1 => k \in 1 .. l
OBVIOUS

-----------------------------------------------------------------------------
(* Writes.                                                                  *)

\* A message carried by its subject and by the consumers of it keeps the
\* copies.
LEMMA CarryKeeps ==
  ASSUME TypeOK, StoredFirst, Copies, NEW i \in 1 .. Len(log), Carry(i),
         UNCHANGED <<log, conn, got, page>>
  PROVE  /\ subject' \in [Users -> Seq(Ids)] /\ pending' \in [Viewers -> Seq(Ids)]
         /\ \A u \in Users : \A k \in 1 .. Len(subject'[u]) : subject'[u][k] \in To(u)'
         /\ \A v \in Viewers : Copy(v)'
<1>. DEFINE r == log[i].to
<1>1. r \in Users /\ i \in Ids /\ i \in To(r)
  BY Numbers
<1>2. /\ subject' = [subject EXCEPT ![r] = Append(@, i)]
      /\ \A v \in Viewers : pending'[v] =
           IF conn[v].at = "live" /\ conn[v].user = r THEN Append(pending[v], i)
                                                      ELSE pending[v]
      /\ pending' = [v \in Viewers |-> pending'[v]]
  BY DEF Carry
<1>3. /\ subject'[r] = Append(subject[r], i) /\ subject'[r] \in Seq(Ids)
      /\ Len(subject'[r]) = Len(subject[r]) + 1
      /\ \A k \in 1 .. Len(subject[r]) : subject'[r][k] = subject[r][k]
      /\ subject'[r][Len(subject[r]) + 1] = i
      /\ \A u \in Users : u # r => subject'[u] = subject[u]
  BY <1>1, <1>2, AppendProperties DEF TypeOK
<1>4. subject' \in [Users -> Seq(Ids)]
  BY <1>2, <1>3 DEF TypeOK
<1>5. \A v \in Viewers : pending'[v] \in Seq(Ids)
  <2>1. \A v \in Viewers : Append(pending[v], i) \in Seq(Ids)
    BY <1>1, Numbers, AppendProperties
  <2>. QED
    BY <1>2, <2>1, Numbers
<1>6. ASSUME NEW u \in Users, NEW k \in 1 .. Len(subject'[u])
      PROVE  subject'[u][k] \in To(u)'
  <2>1. \A j \in 1 .. Len(subject[u]) : subject[u][j] \in To(u)'
    BY DEF StoredFirst, To
  <2>2. i \in To(r)'
    BY <1>1 DEF To
  <2>3. CASE u = r /\ k = Len(subject[r]) + 1
    BY <1>3, <2>2, <2>3
  <2>4. CASE ~(u = r /\ k = Len(subject[r]) + 1)
    <3>1. CASE u = r
      <4>1. k \in 1 .. Len(subject[r])
        BY <1>1, <1>3, <2>4, <3>1, Numbers, OneMore
      <4>. QED
        BY <1>3, <2>1, <3>1, <4>1
    <3>2. CASE u # r
      BY <1>3, <2>1, <3>2
    <3>. QED
      BY <3>1, <3>2
  <2>. QED
    BY <2>3, <2>4
<1>7. ASSUME NEW v \in Viewers PROVE Copy(v)'
  <2>. DEFINE n == conn[v].since
              g == Len(got[v])
              x == conn[v].unread
              p == Len(pending[v])
  <2>1. Copy(v) /\ conn[v].user \in Users /\ n \in Nat /\ g \in Nat /\ x \in Nat /\ p \in Nat
        /\ pending[v] \in Seq(Ids) /\ Len(subject[r]) \in Nat
    BY <1>1, ByViewer, Numbers
  <2>2. CASE conn[v].user # r
    <3>1. subject'[conn[v].user] = subject[conn[v].user] /\ pending'[v] = pending[v]
      BY <1>2, <1>3, <2>1, <2>2
    <3>. QED
      BY <2>1, <3>1 DEF Copy
  <2>3. CASE conn[v].user = r
    <3>1. /\ n + g + x + p <= Len(subject[r])
          /\ \A k \in 1 .. g : got[v][k] = subject[r][n + k]
          /\ \A k \in 1 .. p : pending[v][k] = subject[r][n + g + x + k]
      BY <2>1, <2>3 DEF Copy
    <3>. DEFINE l == Len(subject[r])
    <3>. HIDE DEF r
    <3>6. l \in Nat /\ n + g + x + p <= l
      BY <2>1, <3>1
    <3>2. /\ \A k \in 1 .. g : n + k \in 1 .. l
          /\ \A k \in 1 .. p : n + g + x + k \in 1 .. l
          /\ n + g + x + p <= l + 1
          /\ n + g + x + p = l => n + g + x + (p + 1) = l + 1
          /\ \A k \in 1 .. p + 1 : k \in 1 .. p \/ k = p + 1
      <4>. HIDE DEF n, g, x, p, l
      <4>. QED
        BY <2>1, <3>6, Within
    <3>3. /\ \A k \in 1 .. g : got[v][k] = subject'[r][n + k]
          /\ \A k \in 1 .. p : pending[v][k] = subject'[r][n + g + x + k]
      BY <1>3, <3>1, <3>2
    <3>7. conn'[v] = conn[v] /\ got'[v] = got[v] /\ (conn[v].here => x = 0)
      BY <2>1 DEF Copy
    <3>4. CASE conn[v].at # "live"
      <4>1. pending'[v] = pending[v]
        BY <1>2, <3>4
      <4>2. n + g + x + p <= Len(subject'[r])
        BY <1>3, <3>2
      <4>. QED
        BY <2>1, <2>3, <3>3, <3>4, <4>1, <4>2 DEF Copy
    <3>5. CASE conn[v].at = "live"
      <4>1. /\ pending'[v] = Append(pending[v], i) /\ Len(pending'[v]) = p + 1
            /\ \A k \in 1 .. p : pending'[v][k] = pending[v][k]
            /\ pending'[v][p + 1] = i
        BY <1>1, <1>2, <2>1, <2>3, <3>5, AppendProperties
      <4>2. n + g + x + p = l
        BY <2>1, <2>3, <3>5 DEF Copy
      <4>3. n + g + x + (p + 1) = Len(subject'[r])
        BY <1>3, <3>2, <4>2
      <4>4. pending'[v][p + 1] = subject'[r][n + g + x + (p + 1)]
        BY <1>3, <3>2, <4>1, <4>2
      <4>5. \A k \in 1 .. p + 1 : pending'[v][k] = subject'[r][n + g + x + k]
        BY <3>2, <3>3, <4>1, <4>4
      <4>. QED
        BY <2>3, <3>3, <3>5, <3>7, <4>1, <4>3, <4>5 DEF Copy
    <3>. QED
      BY <3>4, <3>5
  <2>. QED
    BY <2>2, <2>3
<1>. QED
  BY <1>2, <1>4, <1>5, <1>6, <1>7

\* Carrying a message keeps whatever else was on its way to a viewer.
LEMMA CarryTells ==
  ASSUME TypeOK, NothingMissed, NEW i \in 1 .. Len(log), Carry(i),
         UNCHANGED <<log, conn, got, page, failed, late>>,
         \A w \in Senders : sending[w] # i => sending'[w] = sending[w]
  PROVE  NothingMissed'
<1>. SUFFICES ASSUME NEW v \in Viewers, conn[v].at = "live", conn[v].here,
                     page[v].polled, NEW j \in To(conn[v].user)
              PROVE  \/ j \in page[v].seen \cup page[v].crowded \cup failed \cup late
                     \/ \E w \in Senders : sending'[w] = j
                     \/ \E k \in 1 .. Len(got[v]) : got[v][k] = j
                     \/ \E k \in 1 .. Len(pending'[v]) : pending'[v][k] = j
  BY DEF NothingMissed, To
<1>1. i \in Ids /\ pending[v] \in Seq(Ids) /\ Len(pending[v]) \in Nat
  BY Numbers
<1>2. pending'[v] = IF conn[v].user = log[i].to THEN Append(pending[v], i)
                                                ELSE pending[v]
  BY DEF Carry
<1>3. \A k \in 1 .. Len(pending[v]) :
        k \in 1 .. Len(pending'[v]) /\ pending'[v][k] = pending[v][k]
  BY <1>1, <1>2, AppendProperties
<1>4. CASE j = i
  <2>1. Len(pending'[v]) = Len(pending[v]) + 1
        /\ pending'[v][Len(pending[v]) + 1] = i
    BY <1>1, <1>2, <1>4, AppendProperties DEF To
  <2>. QED
    BY <1>1, <1>4, <2>1
<1>5. CASE j # i
  <2>1. \/ j \in page[v].seen \cup page[v].crowded \cup failed \cup late
        \/ \E w \in Senders : sending[w] = j
        \/ \E k \in 1 .. Len(got[v]) : got[v][k] = j
        \/ \E k \in 1 .. Len(pending[v]) : pending[v][k] = j
    BY DEF NothingMissed
  <2>. QED
    BY <1>3, <1>5, <2>1
<1>. QED
  BY <1>4, <1>5

-----------------------------------------------------------------------------
(* The senders' steps.                                                      *)

LEMMA StoreStep ==
  ASSUME IInv, NEW w \in Senders, NEW u \in Users, Store(w, u)
  PROVE  IInv'
<1>. DEFINE n == Len(log) + 1
            m == [from |-> w, to |-> u]
<1>1. UNCHANGED <<subject, late, conn, pending, got, page>> /\ Len(log) \in Nat
      /\ n <= MaxMessages /\ log' = Append(log, m) /\ sending[w] = 0
      /\ n \in Ids /\ m \in Message
  BY Numbers, ConstantsAssumption DEF Store, IInv, TypeOK, Ids, Message
<1>2. /\ log' \in Seq(Message) /\ Len(log') = n /\ log'[n] = m
      /\ \A i \in 1 .. Len(log) : log'[i] = log[i]
  BY <1>1, AppendProperties DEF IInv, TypeOK
<1>3. \/ sending' = [sending EXCEPT ![w] = n] /\ failed' = failed
      \/ failed' = failed \cup {n} /\ sending' = sending
  BY DEF Store
<1>4. TypeOK'
  BY <1>1, <1>2, <1>3 DEF IInv, TypeOK
<1>5. \A t \in Users : \A i \in To(t)' : i \in To(t) \/ i = n
  BY <1>1, <1>2 DEF To
<1>6. \A t \in Users : To(t) \subseteq To(t)'
  BY <1>1, <1>2 DEF To
<1>7. \A x \in Senders : sending'[x] = sending[x] \/ (x = w /\ sending'[x] = n)
  BY <1>3 DEF IInv, TypeOK
<1>8. StoredFirst'
  BY <1>1, <1>2, <1>6, <1>7 DEF IInv, StoredFirst
<1>9. Copies'
  BY <1>1, ByViewer, SameViewer, Zenon DEF IInv, Copies
<1>10. CarriedInOrder'
  <2>. SUFFICES ASSUME NEW t \in Users, NEW k \in 1 .. Len(subject[t]),
                       subject[t][k] \notin late
                PROVE  /\ \A x \in Senders :
                            sending'[x] # 0 /\ log'[subject[t][k]].from = x
                              => subject[t][k] < sending'[x]
                       /\ \A j \in 1 .. k - 1 :
                            subject[t][j] \notin late /\
                            log'[subject[t][j]].from = log'[subject[t][k]].from
                              => subject[t][j] < subject[t][k]
    BY <1>1 DEF CarriedInOrder
  <2>1. \A j \in 1 .. Len(subject[t]) : subject[t][j] \in 1 .. Len(log)
    BY DEF IInv, StoredFirst, To
  <2>2. \A j \in 1 .. k - 1 : j \in 1 .. Len(subject[t])
    BY Numbers DEF IInv
  <2>3. \A j \in 1 .. Len(subject[t]) : log'[subject[t][j]] = log[subject[t][j]]
    BY <1>2, <2>1
  <2>4. subject[t][k] < n
    BY <1>1, <2>1
  <2>5. \A x \in Senders : sending[x] # 0 /\ log[subject[t][k]].from = x
                              => subject[t][k] < sending[x]
    BY DEF IInv, CarriedInOrder
  <2>6. \A j \in 1 .. k - 1 :
          subject[t][j] \notin late /\
          log[subject[t][j]].from = log[subject[t][k]].from
            => subject[t][j] < subject[t][k]
    BY DEF IInv, CarriedInOrder
  <2>7. \A x \in Senders : sending'[x] # 0 /\ log'[subject[t][k]].from = x
                              => subject[t][k] < sending'[x]
    BY <1>7, <2>3, <2>4, <2>5
  <2>8. \A j \in 1 .. k - 1 :
          subject[t][j] \notin late /\
          log'[subject[t][j]].from = log'[subject[t][k]].from
            => subject[t][j] < subject[t][k]
    BY <2>2, <2>3, <2>6
  <2>. QED
    BY <2>7, <2>8
<1>11. NothingMissed'
  <2>. SUFFICES ASSUME NEW v \in Viewers, conn[v].at = "live", conn[v].here,
                       page[v].polled, NEW i \in To(conn[v].user)'
                PROVE  \/ i \in page[v].seen \cup page[v].crowded \cup failed' \cup late
                       \/ \E x \in Senders : sending'[x] = i
                       \/ \E k \in 1 .. Len(got[v]) : got[v][k] = i
                       \/ \E k \in 1 .. Len(pending[v]) : pending[v][k] = i
    <3>1. UNCHANGED <<late, conn, pending, got, page>>
      BY <1>1
    <3>. QED
      BY <3>1, Zenon DEF NothingMissed
  <2>1. CASE i = n
    BY <1>3, <2>1 DEF IInv, TypeOK
  <2>2. CASE i \in To(conn[v].user)
    <3>1. \A x \in Senders : sending[x] = i => sending'[x] = i
      BY <1>1, <1>7, <2>2 DEF To
    <3>2. failed \subseteq failed'
      BY <1>3
    <3>. QED
      BY <2>2, <3>1, <3>2 DEF IInv, NothingMissed
  <2>3. conn[v].user \in Users
    BY Numbers DEF IInv
  <2>4. i \in To(conn[v].user) \/ i = n
    BY <1>1, <1>5, <2>3
  <2>. QED
    BY <2>1, <2>2, <2>4
<1>. QED
  BY <1>4, <1>8, <1>9, <1>10, <1>11 DEF IInv

LEMMA PublishStep ==
  ASSUME IInv, NEW w \in Senders, Publish(w)
  PROVE  IInv'
<1>. DEFINE i == sending[w]
<1>1. /\ i \in 1 .. Len(log) /\ log[i].from = w /\ Carry(i)
      /\ UNCHANGED <<log, failed, late, conn, got, page>>
      /\ sending' = [sending EXCEPT ![w] = 0]
  BY DEF Publish, IInv, StoredFirst
<1>. HIDE DEF i
<1>2. /\ subject' \in [Users -> Seq(Ids)] /\ pending' \in [Viewers -> Seq(Ids)]
      /\ \A u \in Users : \A k \in 1 .. Len(subject'[u]) : subject'[u][k] \in To(u)'
      /\ \A v \in Viewers : Copy(v)'
  BY <1>1, CarryKeeps DEF IInv
<1>3. \A x \in Senders : sending'[x] = IF x = w THEN 0 ELSE sending[x]
  BY <1>1 DEF IInv, TypeOK
<1>4. TypeOK'
  BY <1>1, <1>2 DEF IInv, TypeOK
<1>5. StoredFirst'
  BY <1>1, <1>2, <1>3 DEF IInv, StoredFirst
<1>6. Copies'
  BY <1>2 DEF Copies, Copy
<1>7. CarriedInOrder'
  <2>. DEFINE r == log[i].to
  <2>1. /\ r \in Users /\ i \in Ids /\ Len(subject[r]) \in Nat
        /\ subject[r] \in Seq(Ids)
    BY <1>1, Numbers DEF IInv, TypeOK, Ids
  <2>2. /\ Len(subject'[r]) = Len(subject[r]) + 1
        /\ \A k \in 1 .. Len(subject[r]) : subject'[r][k] = subject[r][k]
        /\ subject'[r][Len(subject[r]) + 1] = i
        /\ \A u \in Users : u # r => subject'[u] = subject[u]
    BY <1>1, <2>1, AppendProperties DEF Carry, IInv, TypeOK
  <2>3. \A k \in 1 .. Len(subject[r]) :
          subject[r][k] \notin late /\ log[subject[r][k]].from = w => subject[r][k] < i
    <3>1. sending[w] = i /\ i # 0
      BY <1>1, Numbers DEF i, IInv
    <3>. HIDE DEF r
    <3>. QED
      BY <2>1, <3>1 DEF IInv, CarriedInOrder
  <2>. HIDE DEF r
  <2>4. ASSUME NEW u \in Users, NEW k \in 1 .. Len(subject'[u]),
               subject'[u][k] \notin late
        PROVE  /\ \A x \in Senders :
                    sending'[x] # 0 /\ log[subject'[u][k]].from = x
                      => subject'[u][k] < sending'[x]
               /\ \A j \in 1 .. k - 1 :
                    subject'[u][j] \notin late /\
                    log[subject'[u][j]].from = log[subject'[u][k]].from
                      => subject'[u][j] < subject'[u][k]
    <3>1. CASE u = r /\ k = Len(subject[r]) + 1
      <4>1. subject'[u][k] = i /\ log[i].from = w
        BY <1>1, <2>2, <3>1
      <4>2. \A j \in 1 .. k - 1 : j \in 1 .. Len(subject[r])
        BY <2>1, <3>1
      <4>3. \A j \in 1 .. k - 1 : subject'[u][j] = subject[r][j]
        BY <2>2, <3>1, <4>2
      <4>4. \A x \in Senders : log[i].from = x => sending'[x] = 0
        BY <1>1, <1>3
      <4>. QED
        BY <2>3, <4>1, <4>2, <4>3, <4>4
    <3>2. CASE ~(u = r /\ k = Len(subject[r]) + 1)
      <4>1. k \in 1 .. Len(subject[u]) /\ Len(subject[u]) \in Nat
        BY <2>1, <2>2, <3>2, Numbers DEF IInv
      <4>2. \A j \in 1 .. k : subject'[u][j] = subject[u][j]
        BY <2>2, <4>1
      <4>3. /\ \A x \in Senders : sending[x] # 0 /\ log[subject[u][k]].from = x
                                  => subject[u][k] < sending[x]
            /\ \A j \in 1 .. k - 1 :
                 subject[u][j] \notin late /\
                 log[subject[u][j]].from = log[subject[u][k]].from
                   => subject[u][j] < subject[u][k]
        BY <2>4, <4>1, <4>2 DEF IInv, CarriedInOrder
      <4>4. k \in 1 .. k /\ \A j \in 1 .. k - 1 : j \in 1 .. k
        BY <4>1
      <4>. QED
        BY <1>3, <4>2, <4>3, <4>4
    <3>. QED
      BY <3>1, <3>2
  <2>. QED
    BY <1>1, <2>4 DEF CarriedInOrder
<1>8. NothingMissed'
  <2>1. \A x \in Senders : sending[x] # i => sending'[x] = sending[x]
    BY <1>3 DEF i
  <2>. QED
    BY <1>1, <2>1, CarryTells DEF IInv
<1>. QED
  BY <1>4, <1>5, <1>6, <1>7, <1>8 DEF IInv

LEMMA ArriveStep ==
  ASSUME IInv, NEW i \in Ids, Arrive(i)
  PROVE  IInv'
<1>1. /\ i \in 1 .. Len(log) /\ i \in late /\ Carry(i)
      /\ UNCHANGED <<log, sending, failed, late, conn, got, page>>
  BY DEF Arrive, IInv, StoredFirst
<1>2. /\ subject' \in [Users -> Seq(Ids)] /\ pending' \in [Viewers -> Seq(Ids)]
      /\ \A u \in Users : \A k \in 1 .. Len(subject'[u]) : subject'[u][k] \in To(u)'
      /\ \A v \in Viewers : Copy(v)'
  BY <1>1, CarryKeeps DEF IInv
<1>3. TypeOK' /\ StoredFirst' /\ Copies'
  BY <1>1, <1>2 DEF IInv, TypeOK, StoredFirst, Copies, Copy
<1>4. CarriedInOrder'
  <2>. DEFINE r == log[i].to
  <2>1. /\ r \in Users /\ Len(subject[r]) \in Nat /\ subject[r] \in Seq(Ids)
    BY <1>1, Numbers DEF IInv, TypeOK
  <2>2. /\ Len(subject'[r]) = Len(subject[r]) + 1
        /\ \A k \in 1 .. Len(subject[r]) : subject'[r][k] = subject[r][k]
        /\ subject'[r][Len(subject[r]) + 1] = i
        /\ \A u \in Users : u # r => subject'[u] = subject[u]
    BY <1>1, <2>1, AppendProperties DEF Carry, IInv, TypeOK
  <2>. HIDE DEF r
  <2>3. ASSUME NEW u \in Users, NEW k \in 1 .. Len(subject'[u]),
               subject'[u][k] \notin late
        PROVE  /\ k \in 1 .. Len(subject[u])
               /\ \A j \in 1 .. k : subject'[u][j] = subject[u][j]
    <3>1. CASE u = r
      <4>1. k \in 1 .. Len(subject[r]) \/ k = Len(subject[r]) + 1
        BY <2>1, <2>2, <3>1
      <4>2. k # Len(subject[r]) + 1
        BY <1>1, <2>2, <2>3, <3>1
      <4>3. \A j \in 1 .. k : j \in 1 .. Len(subject[r])
        BY <2>1, <4>1, <4>2
      <4>. QED
        BY <2>2, <3>1, <4>1, <4>2, <4>3
    <3>2. CASE u # r
      BY <2>2, <3>2
    <3>. QED
      BY <3>1, <3>2
  <2>4. ASSUME NEW u \in Users, NEW k \in 1 .. Len(subject'[u]),
               subject'[u][k] \notin late
        PROVE  /\ \A x \in Senders :
                    sending[x] # 0 /\ log[subject'[u][k]].from = x
                      => subject'[u][k] < sending[x]
               /\ \A j \in 1 .. k - 1 :
                    subject'[u][j] \notin late /\
                    log[subject'[u][j]].from = log[subject'[u][k]].from
                      => subject'[u][j] < subject'[u][k]
    <3>1. k \in 1 .. Len(subject[u]) /\ \A j \in 1 .. k : subject'[u][j] = subject[u][j]
      BY <2>3, <2>4
    <3>2. k \in 1 .. k /\ \A j \in 1 .. k - 1 : j \in 1 .. k
      BY <3>1
    <3>3. /\ \A x \in Senders : sending[x] # 0 /\ log[subject[u][k]].from = x
                                => subject[u][k] < sending[x]
          /\ \A j \in 1 .. k - 1 :
               subject[u][j] \notin late /\
               log[subject[u][j]].from = log[subject[u][k]].from
                 => subject[u][j] < subject[u][k]
      BY <2>4, <3>1, <3>2 DEF IInv, CarriedInOrder
    <3>. QED
      BY <3>1, <3>2, <3>3
  <2>. QED
    BY <1>1, <2>4 DEF CarriedInOrder
<1>5. NothingMissed'
  BY <1>1, CarryTells DEF IInv
<1>. QED
  BY <1>3, <1>4, <1>5 DEF IInv

\* A publish that is given up: PublishFails, or the end of the process.
LEMMA GivenUp ==
  ASSUME IInv, NEW S \in SUBSET Senders,
         UNCHANGED <<log, subject>>,
         sending' = [w \in Senders |-> IF w \in S THEN 0 ELSE sending[w]],
         failed \subseteq failed' /\ failed' \subseteq Ids,
         late \subseteq late' /\ late' \subseteq 1 .. Len(log),
         \A w \in S : sending[w] \in failed' \cup late' \cup {0}
  PROVE  /\ sending' \in [Senders -> {0} \cup Ids] /\ late' \subseteq Ids
         /\ StoredFirst' /\ CarriedInOrder'
         /\ \A v \in Viewers :
              UNCHANGED <<conn[v], got[v], pending[v], page[v]>> => Told(v)'
<1>1. sending' \in [Senders -> {0} \cup Ids] /\ late' \subseteq Ids
  BY Numbers DEF IInv, TypeOK, Ids
<1>2. StoredFirst'
  BY DEF IInv, StoredFirst, To
<1>3. CarriedInOrder'
  BY Numbers DEF IInv, CarriedInOrder
<1>4. ASSUME NEW v \in Viewers, UNCHANGED <<conn[v], got[v], pending[v], page[v]>>
      PROVE  Told(v)'
  <2>. SUFFICES ASSUME conn[v].at = "live", conn[v].here, page[v].polled,
                       NEW i \in To(conn[v].user)
                PROVE  \/ i \in page[v].seen \cup page[v].crowded \cup failed' \cup late'
                       \/ \E w \in Senders : sending'[w] = i
                       \/ \E k \in 1 .. Len(got[v]) : got[v][k] = i
                       \/ \E k \in 1 .. Len(pending[v]) : pending[v][k] = i
    BY <1>4 DEF Told, To
  <2>1. \A w \in Senders : sending[w] = i => sending'[w] = i \/ i \in failed' \cup late'
    BY DEF To
  <2>2. \/ i \in page[v].seen \cup page[v].crowded \cup failed \cup late
        \/ \E w \in Senders : sending[w] = i
        \/ \E k \in 1 .. Len(got[v]) : got[v][k] = i
        \/ \E k \in 1 .. Len(pending[v]) : pending[v][k] = i
    BY DEF IInv, NothingMissed
  <2>3. CASE \E w \in Senders : sending[w] = i
    BY <2>1, <2>3
  <2>4. CASE i \in page[v].seen \cup page[v].crowded \cup failed \cup late
    BY <2>4
  <2>. QED
    BY <2>2, <2>3, <2>4
<1>. QED
  BY <1>1, <1>2, <1>3, <1>4

LEMMA PublishFailsStep ==
  ASSUME IInv, NEW w \in Senders, PublishFails(w)
  PROVE  IInv'
<1>1. /\ sending[w] \in 1 .. Len(log) /\ sending[w] \in Ids
      /\ UNCHANGED <<log, subject, conn, pending, got, page>>
      /\ sending' = [x \in Senders |-> IF x \in {w} THEN 0 ELSE sending[x]]
  BY Numbers DEF PublishFails, IInv, StoredFirst, TypeOK, Ids
<1>2. /\ failed \subseteq failed' /\ failed' \subseteq Ids
      /\ late \subseteq late' /\ late' \subseteq 1 .. Len(log)
      /\ sending[w] \in failed' \cup late'
  BY <1>1 DEF PublishFails, IInv, TypeOK, StoredFirst
<1>3. /\ sending' \in [Senders -> {0} \cup Ids] /\ late' \subseteq Ids
      /\ StoredFirst' /\ CarriedInOrder'
      /\ \A v \in Viewers :
           UNCHANGED <<conn[v], got[v], pending[v], page[v]>> => Told(v)'
  <2>1. {w} \in SUBSET Senders /\ \A x \in {w} : sending[x] \in failed' \cup late' \cup {0}
    BY <1>2
  <2>. QED
    BY <1>1, <1>2, <2>1, GivenUp
<1>4. Copies' /\ NothingMissed'
  BY <1>1, <1>3, ByViewer DEF IInv, Copies, NothingMissed, Told
<1>. QED
  BY <1>1, <1>2, <1>3, <1>4 DEF IInv, TypeOK

-----------------------------------------------------------------------------
(* The viewers' steps.                                                      *)

\* A step of one viewer.
LEMMA OneViewer ==
  ASSUME IInv, NEW v \in Viewers,
         UNCHANGED <<log, subject, sending, failed, late>>,
         conn' \in [Viewers -> Conn], pending' \in [Viewers -> Seq(Ids)],
         got' \in [Viewers -> Seq(Ids)], page' \in [Viewers -> Page],
         \A x \in Viewers \ {v} :
           UNCHANGED <<conn[x], got[x], pending[x], page[x]>>,
         Copy(v)', Told(v)'
  PROVE  IInv'
<1>1. TypeOK' /\ StoredFirst' /\ CarriedInOrder'
  BY DEF IInv, TypeOK, StoredFirst, CarriedInOrder, To
<1>2. \A x \in Viewers : Copy(x) /\ Told(x)
  BY ByViewer DEF IInv
<1>3. \A x \in Viewers : Copy(x)'
  BY <1>2, SameViewer
<1>4. ASSUME NEW x \in Viewers, x # v PROVE Told(x)'
  <2>1. /\ To(conn[x].user)' = To(conn[x].user) /\ conn'[x] = conn[x]
        /\ got'[x] = got[x] /\ pending'[x] = pending[x] /\ page'[x] = page[x]
    BY <1>4 DEF To
  <2>2. UNCHANGED <<sending, failed, late>>
    OBVIOUS
  <2>3. To(conn[x].user)' = To(conn'[x].user)
    BY <2>1 DEF To
  <2>4. Told(x)
    BY <1>2
  <2>. SUFFICES ASSUME conn'[x].at = "live", conn'[x].here, page'[x].polled,
                       NEW i \in To(conn[x].user)
                PROVE  \/ i \in page'[x].seen \cup page'[x].crowded \cup failed' \cup late'
                       \/ \E w \in Senders : sending'[w] = i
                       \/ \E k \in 1 .. Len(got'[x]) : got'[x][k] = i
                       \/ \E k \in 1 .. Len(pending'[x]) : pending'[x][k] = i
    BY <2>1 DEF Told
  <2>5. \/ i \in page[x].seen \cup page[x].crowded \cup failed \cup late
        \/ \E w \in Senders : sending[w] = i
        \/ \E k \in 1 .. Len(got[x]) : got[x][k] = i
        \/ \E k \in 1 .. Len(pending[x]) : pending[x][k] = i
    BY <2>1, <2>4 DEF Told
  <2>. QED
    BY <2>1, <2>2, <2>5
<1>5. \A x \in Viewers : Told(x)'
  BY <1>4
<1>6. Copies'
  BY <1>3 DEF Copies, Copy
<1>7. NothingMissed'
  BY <1>5 DEF NothingMissed, Told
<1>. QED
  BY <1>1, <1>6, <1>7 DEF IInv

LEMMA OpenStep ==
  ASSUME IInv, NEW v \in Viewers, Open(v)
  PROVE  IInv'
<1>1. PICK u \in Users :
        conn' = [conn EXCEPT ![v] = [at |-> "opening", user |-> u,
                                     since |-> Len(subject[u]), here |-> TRUE,
                                     unread |-> 0]]
  BY DEF Open
<1>2. /\ conn[v].at = "closed" /\ got' = [got EXCEPT ![v] = <<>>]
      /\ UNCHANGED <<log, subject, sending, failed, late, pending, page>>
  BY DEF Open
<1>3. TypeOK /\ Len(subject[u]) \in Nat /\ Copy(v)
  BY Numbers, ByViewer DEF IInv
<1>4. conn' \in [Viewers -> Conn] /\ got' \in [Viewers -> Seq(Ids)]
  BY <1>1, <1>2, <1>3, EmptySeq, ConstantsAssumption DEF TypeOK, Conn
<1>5. /\ conn'[v].at = "opening" /\ conn'[v].unread = 0 /\ conn'[v].user = u /\ conn'[v].since = Len(subject[u])
      /\ Len(got'[v]) = 0 /\ Len(pending[v]) = 0 /\ ~page[v].polled
  BY <1>1, <1>2, <1>3, EmptySeq DEF TypeOK, Copy
<1>6. Copy(v)'
  <2>1. subject' = subject /\ pending' = pending /\ page' = page
    BY <1>2
  <2>2. Len(subject[u]) + 0 + 0 + 0 = Len(subject[u]) /\ Len(subject[u]) <= Len(subject[u])
    BY <1>3
  <2>3. 1 .. 0 = {}
    OBVIOUS
  <2>4. conn'[v].at # "live"
    BY <1>5
  <2>. QED
    BY <1>5, <2>1, <2>2, <2>3, <2>4 DEF Copy
<1>7. Told(v)'
  BY <1>5 DEF Told
<1>8. \A x \in Viewers \ {v} : UNCHANGED <<conn[x], got[x], pending[x], page[x]>>
  BY <1>1, <1>2, <1>3 DEF TypeOK
<1>. QED
  BY <1>2, <1>3, <1>4, <1>6, <1>7, <1>8, OneViewer DEF TypeOK

LEMMA SubscribeStep ==
  ASSUME IInv, NEW v \in Viewers, Subscribe(v)
  PROVE  IInv'
<1>. DEFINE u == conn[v].user
<1>1. /\ conn[v].at = "opening"
      /\ conn' = [conn EXCEPT ![v].at = "live", ![v].since = Len(subject[u])]
      /\ UNCHANGED <<log, subject, sending, failed, late, pending, got, page>>
  BY DEF Subscribe
<1>2. TypeOK /\ Len(subject[u]) \in Nat /\ u \in Users /\ Copy(v)
  BY Numbers, ByViewer DEF IInv
<1>3. /\ conn' \in [Viewers -> Conn]
      /\ conn'[v].at = "live" /\ conn'[v].user = u /\ conn'[v].since = Len(subject[u])
      /\ conn'[v].unread = conn[v].unread
  BY <1>1, <1>2 DEF TypeOK, Conn
<1>4. Len(got[v]) = 0 /\ conn[v].unread = 0 /\ Len(pending[v]) = 0 /\ ~page[v].polled
  BY <1>1, <1>2 DEF Copy
<1>5. Copy(v)'
  BY <1>1, <1>2, <1>3, <1>4 DEF Copy
<1>6. Told(v)'
  BY <1>1, <1>4 DEF Told
<1>7. \A x \in Viewers \ {v} : UNCHANGED <<conn[x], got[x], pending[x], page[x]>>
  BY <1>1, <1>2 DEF TypeOK
<1>. QED
  BY <1>1, <1>2, <1>3, <1>5, <1>6, <1>7, OneViewer DEF TypeOK

\* The handler of a viewer ends.
LEMMA CloseStep ==
  ASSUME IInv, NEW v \in Viewers, Close(v),
         UNCHANGED <<log, subject, sending, failed, late, got>>
  PROVE  IInv'
<1>1. TypeOK /\ Copy(v)
  BY ByViewer DEF IInv
<1>2. /\ conn' \in [Viewers -> Conn] /\ pending' \in [Viewers -> Seq(Ids)]
      /\ page' \in [Viewers -> Page]
  <2>. DEFINE c == [conn[v] EXCEPT !.at = "closed", !.here = FALSE, !.unread = 0]
  <2>1. conn[v] \in Conn /\ 0 \in 0 .. Buffered
    BY <1>1, ConstantsAssumption DEF TypeOK
  <2>2. c \in Conn
    BY <2>1, Zenon DEF Conn
  <2>3. conn' = [conn EXCEPT ![v] = c]
    BY <1>1 DEF Close, TypeOK
  <2>. HIDE DEF c
  <2>. QED
    BY <1>1, <2>2, <2>3, EmptySeq DEF Close, TypeOK, Page, NoPage
<1>3. /\ conn'[v].at = "closed" /\ conn'[v].unread = 0 /\ conn'[v].user = conn[v].user
      /\ conn'[v].since = conn[v].since
      /\ Len(pending'[v]) = 0 /\ ~page'[v].polled
  BY <1>1, EmptySeq DEF Close, TypeOK, Conn, NoPage
<1>4. Copy(v)'
  <2>. DEFINE n == conn[v].since
              g == Len(got[v])
              x == conn[v].unread
              p == Len(pending[v])
              l == Len(subject[conn[v].user])
  <2>1. /\ n \in Nat /\ g \in Nat /\ x \in Nat /\ p \in Nat /\ l \in Nat
        /\ n + g + x + p <= l /\ \A k \in 1 .. g : got[v][k] = subject[conn[v].user][n + k]
    BY <1>1, Numbers DEF Copy
  <2>2. n + g + 0 + 0 <= l
    <3>. HIDE DEF n, g, x, p, l
    <3>. QED
      BY <2>1
  <2>. QED
    BY <1>3, <2>1, <2>2 DEF Copy
<1>5. Told(v)'
  BY <1>3 DEF Told
<1>6. \A x \in Viewers \ {v} : UNCHANGED <<conn[x], got[x], pending[x], page[x]>>
  BY <1>1 DEF Close, TypeOK
<1>. QED
  BY <1>1, <1>2, <1>4, <1>5, <1>6, OneViewer DEF TypeOK

LEMMA PushStep ==
  ASSUME IInv, NEW v \in Viewers, Push(v)
  PROVE  IInv'
<1>1. CASE Close(v) /\ UNCHANGED got
  BY <1>1, CloseStep DEF Push
<1>2. CASE /\ got' = [got EXCEPT ![v] = Append(@, Head(pending[v]))]
           /\ pending' = [pending EXCEPT ![v] = Tail(@)]
           /\ UNCHANGED <<conn, page>> /\ conn[v].here
  <2>. DEFINE s == subject[conn[v].user]
              n == conn[v].since
              g == Len(got[v])
              p == Len(pending[v])
              l == Len(s)
              h == Head(pending[v])
  <2>1. /\ TypeOK /\ Copy(v) /\ Told(v) /\ conn[v].at = "live" /\ pending[v] # <<>>
        /\ UNCHANGED <<log, subject, sending, failed, late>>
    BY ByViewer DEF IInv, Push
  <2>2. /\ n \in Nat /\ g \in Nat /\ p \in Nat /\ p # 0 /\ l \in Nat
        /\ got[v] \in Seq(Ids) /\ pending[v] \in Seq(Ids)
    BY <2>1, Numbers, EmptySeq
  <2>3. /\ h = pending[v][1] /\ h \in Ids
        /\ Tail(pending[v]) \in Seq(Ids) /\ Len(Tail(pending[v])) = p - 1
        /\ \A k \in 1 .. Len(Tail(pending[v])) : Tail(pending[v])[k] = pending[v][k + 1]
    BY <2>1, <2>2, HeadTailProperties
  <2>4. /\ Append(got[v], h) \in Seq(Ids) /\ Len(Append(got[v], h)) = g + 1
        /\ \A k \in 1 .. g : Append(got[v], h)[k] = got[v][k]
        /\ Append(got[v], h)[g + 1] = h
    BY <2>2, <2>3, AppendProperties
  <2>5. /\ got'[v] = Append(got[v], h) /\ pending'[v] = Tail(pending[v])
        /\ got' \in [Viewers -> Seq(Ids)] /\ pending' \in [Viewers -> Seq(Ids)]
        /\ \A x \in Viewers \ {v} : UNCHANGED <<conn[x], got[x], pending[x], page[x]>>
    BY <1>2, <2>1, <2>3, <2>4 DEF TypeOK
  <2>6. /\ conn[v].unread = 0 /\ n + g + 0 + p = l
        /\ \A k \in 1 .. g : got[v][k] = s[n + k]
        /\ \A k \in 1 .. p : pending[v][k] = s[n + g + 0 + k]
    BY <1>2, <2>1 DEF Copy
  <2>7. /\ n + (g + 1) + 0 + (p - 1) = l
        /\ \A k \in 1 .. g + 1 : k \in 1 .. g \/ k = g + 1
        /\ \A k \in 1 .. p - 1 : k + 1 \in 1 .. p
        /\ \A k \in 1 .. p - 1 : n + g + 0 + (k + 1) = n + (g + 1) + 0 + k
        /\ 1 \in 1 .. p /\ n + g + 0 + 1 = n + (g + 1)
    <3>. HIDE DEF n, g, p, l
    <3>. QED
      BY <2>2, <2>6
  <2>8. \A k \in 1 .. g + 1 : got'[v][k] = s[n + k]
    <3>1. \A k \in 1 .. g : got'[v][k] = s[n + k]
      BY <2>4, <2>5, <2>6
    <3>2. got'[v][g + 1] = s[n + (g + 1)]
      <4>1. pending[v][1] = s[n + g + 0 + 1]
        BY <2>6, <2>7
      <4>. QED
        BY <2>3, <2>4, <2>5, <2>7, <4>1
    <3>. HIDE DEF s, n, g
    <3>. QED
      BY <2>7, <3>1, <3>2
  <2>9. \A k \in 1 .. p - 1 : pending'[v][k] = s[n + (g + 1) + 0 + k]
    BY <2>3, <2>5, <2>6, <2>7
  <2>10. Copy(v)'
    BY <1>2, <2>1, <2>3, <2>4, <2>5, <2>6, <2>7, <2>8, <2>9 DEF Copy
  <2>11. Told(v)'
    <3>1. \A k \in 1 .. g : k \in 1 .. Len(got'[v]) /\ got'[v][k] = got[v][k]
      BY <2>2, <2>4, <2>5
    <3>2. \A k \in 1 .. p : k = 1 \/ (k - 1 \in 1 .. p - 1 /\ (k - 1) + 1 = k)
      BY <2>2
    <3>3. \A k \in 1 .. p :
            \/ \E j \in 1 .. Len(got'[v]) : got'[v][j] = pending[v][k]
            \/ \E j \in 1 .. Len(pending'[v]) : pending'[v][j] = pending[v][k]
      <4>. SUFFICES ASSUME NEW k \in 1 .. p
                    PROVE  \/ \E j \in 1 .. Len(got'[v]) : got'[v][j] = pending[v][k]
                           \/ \E j \in 1 .. Len(pending'[v]) : pending'[v][j] = pending[v][k]
        OBVIOUS
      <4>1. CASE k = 1
        <5>1. g + 1 \in 1 .. Len(got'[v]) /\ got'[v][g + 1] = pending[v][1]
          BY <2>2, <2>3, <2>4, <2>5
        <5>. QED
          BY <4>1, <5>1
      <4>2. CASE k # 1
        <5>1. /\ k - 1 \in 1 .. Len(pending'[v]) /\ (k - 1) + 1 = k
              /\ pending'[v][k - 1] = pending[v][(k - 1) + 1]
          BY <2>3, <2>5, <3>2, <4>2
        <5>. QED
          BY <5>1
      <4>. QED
        BY <4>1, <4>2
    <3>4. To(conn[v].user)' = To(conn[v].user) /\ conn' = conn /\ page' = page
      BY <1>2, <2>1 DEF To
    <3>5. UNCHANGED <<sending, failed, late>>
      BY <2>1
    <3>. HIDE DEF s, n, l, h
    <3>6. SUFFICES ASSUME conn[v].at = "live", conn[v].here, page[v].polled,
                       NEW i \in To(conn[v].user)
          PROVE  \/ i \in page[v].seen \cup page[v].crowded \cup failed \cup late
                 \/ \E w \in Senders : sending[w] = i
                 \/ \E j \in 1 .. Len(got'[v]) : got'[v][j] = i
                 \/ \E j \in 1 .. Len(pending'[v]) : pending'[v][j] = i
      BY <3>4, <3>5 DEF Told
    <3>7. \/ i \in page[v].seen \cup page[v].crowded \cup failed \cup late
          \/ \E w \in Senders : sending[w] = i
          \/ \E k \in 1 .. g : got[v][k] = i
          \/ \E k \in 1 .. p : pending[v][k] = i
      BY <2>1, <3>6 DEF Told
    <3>8. CASE \E k \in 1 .. g : got[v][k] = i
      BY <3>1, <3>8
    <3>9. CASE \E k \in 1 .. p : pending[v][k] = i
      BY <3>3, <3>9
    <3>. QED
      BY <3>7, <3>8, <3>9
  <2>. QED
    BY <1>2, <2>1, <2>5, <2>10, <2>11, OneViewer DEF TypeOK
<1>3. CASE /\ ~conn[v].here /\ conn[v].unread < Buffered
           /\ conn' = [conn EXCEPT ![v].unread = @ + 1]
           /\ pending' = [pending EXCEPT ![v] = Tail(@)]
           /\ UNCHANGED <<got, page>>
  <2>. DEFINE s == subject[conn[v].user]
              n == conn[v].since
              g == Len(got[v])
              x == conn[v].unread
              p == Len(pending[v])
              l == Len(s)
  <2>1. /\ TypeOK /\ Copy(v) /\ conn[v].at = "live" /\ pending[v] # <<>>
        /\ UNCHANGED <<log, subject, sending, failed, late>>
    BY ByViewer DEF IInv, Push
  <2>2. /\ n \in Nat /\ g \in Nat /\ x \in Nat /\ p \in Nat /\ p # 0 /\ l \in Nat
        /\ x + 1 \in 0 .. Buffered /\ pending[v] \in Seq(Ids) /\ conn[v] \in Conn
    BY <1>3, <2>1, Numbers, EmptySeq, ConstantsAssumption DEF TypeOK
  <2>3. /\ Tail(pending[v]) \in Seq(Ids) /\ Len(Tail(pending[v])) = p - 1
        /\ \A k \in 1 .. Len(Tail(pending[v])) : Tail(pending[v])[k] = pending[v][k + 1]
    BY <2>1, <2>2, HeadTailProperties
  <2>4. /\ conn' \in [Viewers -> Conn] /\ pending' \in [Viewers -> Seq(Ids)]
        /\ conn'[v].at = "live" /\ conn'[v].user = conn[v].user
        /\ conn'[v].since = n /\ conn'[v].unread = x + 1 /\ ~conn'[v].here
        /\ pending'[v] = Tail(pending[v]) /\ got' = got
        /\ \A y \in Viewers \ {v} : UNCHANGED <<conn[y], got[y], pending[y], page[y]>>
    BY <1>3, <2>1, <2>2, <2>3 DEF TypeOK, Conn
  <2>5. /\ n + g + x + p = l
        /\ \A k \in 1 .. g : got[v][k] = s[n + k]
        /\ \A k \in 1 .. p : pending[v][k] = s[n + g + x + k]
    BY <2>1 DEF Copy
  <2>6. /\ n + g + (x + 1) + (p - 1) = l /\ l <= l
        /\ \A k \in 1 .. p - 1 : k + 1 \in 1 .. p
        /\ \A k \in 1 .. p - 1 : n + g + x + (k + 1) = n + g + (x + 1) + k
    <3>. HIDE DEF n, g, x, p, l
    <3>. QED
      BY <2>2, <2>5
  <2>7. \A k \in 1 .. p - 1 : pending'[v][k] = s[n + g + (x + 1) + k]
    BY <2>3, <2>4, <2>5, <2>6
  <2>8. Copy(v)'
    BY <2>1, <2>3, <2>4, <2>5, <2>6, <2>7 DEF Copy
  <2>9. Told(v)'
    BY <2>4 DEF Told
  <2>. QED
    BY <1>3, <2>1, <2>4, <2>8, <2>9, OneViewer DEF TypeOK
<1>. QED
  BY <1>1, <1>2, <1>3 DEF Push

LEMMA LeaveStep ==
  ASSUME IInv, NEW v \in Viewers, Leave(v)
  PROVE  IInv'
<1>1. /\ conn' = [conn EXCEPT ![v].here = FALSE] /\ TypeOK /\ Copy(v) /\ Told(v)
      /\ UNCHANGED <<log, subject, sending, failed, late, pending, got, page>>
  BY ByViewer DEF Leave, IInv
<1>2. /\ conn' \in [Viewers -> Conn]
      /\ conn'[v].at = conn[v].at /\ conn'[v].user = conn[v].user
      /\ conn'[v].since = conn[v].since /\ conn'[v].unread = conn[v].unread
      /\ conn'[v].here = FALSE
  BY <1>1 DEF TypeOK, Conn
<1>3. Copy(v)' /\ Told(v)'
  BY <1>1, <1>2 DEF Copy, Told, To
<1>4. \A x \in Viewers \ {v} : UNCHANGED <<conn[x], got[x], pending[x], page[x]>>
  BY <1>1 DEF TypeOK
<1>. QED
  BY <1>1, <1>2, <1>3, <1>4, OneViewer DEF TypeOK

LEMMA InboxStep ==
  ASSUME IInv, NEW v \in Viewers, Inbox(v)
  PROVE  IInv'
<1>. DEFINE u == conn[v].user
            out == {i \in To(u) : ~(Cardinality(Newer(i, u)) < Limit)}
            crowded == IF page[v].polled \/ conn[v].at # "live" THEN page[v].crowded
                                                                 ELSE out
<1>1. /\ TypeOK /\ Copy(v) /\ Told(v)
      /\ UNCHANGED <<log, subject, sending, failed, late, conn, pending, got>>
      /\ page' = [page EXCEPT ![v] = [polled  |-> page[v].polled \/ conn[v].at = "live",
                                      seen    |-> page[v].seen \cup Newest(u),
                                      crowded |-> crowded]]
  BY ByViewer DEF Inbox, IInv
<1>2. To(u) \subseteq Ids /\ Newest(u) \subseteq Ids /\ out \subseteq Ids
  BY <1>1, Numbers DEF To, Newest
<1>3. page[v] \in Page /\ page[v].polled \in BOOLEAN
  BY <1>1 DEF TypeOK, Page
<1>4. /\ page'[v].polled = (page[v].polled \/ conn[v].at = "live")
      /\ page'[v].seen = page[v].seen \cup Newest(u)
      /\ page'[v].crowded = crowded
  BY <1>1 DEF TypeOK
<1>5. crowded \subseteq Ids
  BY <1>2, <1>3 DEF Page
<1>6. page' \in [Viewers -> Page]
  BY <1>1, <1>2, <1>3, <1>5 DEF TypeOK, Page
<1>7. Copy(v)'
  BY <1>1, <1>4 DEF Copy
<1>8. Told(v)'
  <2>1. CASE page[v].polled
    <3>1. page'[v].crowded = page[v].crowded
      BY <1>4, <2>1
    <3>. QED
      BY <1>1, <1>4, <2>1, <3>1 DEF Told, To
  <2>2. CASE ~page[v].polled /\ conn[v].at = "live"
    <3>1. \A i \in To(u) : i \in Newest(u) \/ i \in out
      BY DEF Newest
    <3>2. page'[v].crowded = out
      BY <1>4, <2>2
    <3>3. To(u)' = To(u) /\ conn' = conn
      BY <1>1 DEF To
    <3>. QED
      BY <1>4, <3>1, <3>2, <3>3 DEF Told
  <2>3. CASE conn[v].at # "live"
    BY <1>1, <2>3 DEF Told
  <2>. QED
    BY <2>1, <2>2, <2>3
<1>9. \A x \in Viewers \ {v} : UNCHANGED <<conn[x], got[x], pending[x], page[x]>>
  BY <1>1 DEF TypeOK
<1>. QED
  BY <1>1, <1>6, <1>7, <1>8, <1>9, OneViewer DEF TypeOK

-----------------------------------------------------------------------------

LEMMA RestartStep ==
  ASSUME IInv, Restart
  PROVE  IInv'
<1>1. /\ UNCHANGED <<log, subject, late, got>>
      /\ sending' = [w \in Senders |-> IF w \in Senders THEN 0 ELSE sending[w]]
      /\ failed' = failed \cup ({sending[w] : w \in Senders} \ {0})
      /\ \A v \in Viewers : /\ conn'[v] = [conn[v] EXCEPT !.at = "closed",
                                         !.here = FALSE, !.unread = 0]
                            /\ pending'[v] = <<>> /\ page'[v] = NoPage
      /\ conn' = [v \in Viewers |-> conn'[v]]
      /\ pending' = [v \in Viewers |-> <<>>] /\ page' = [v \in Viewers |-> NoPage]
  BY DEF Restart
<1>2. /\ TypeOK /\ failed' \subseteq Ids /\ failed \subseteq failed'
      /\ late' = late /\ late \subseteq 1 .. Len(log)
      /\ \A w \in Senders : sending[w] \in failed' \cup {0}
  <2>1. failed' = failed \cup ({sending[w] : w \in Senders} \ {0}) /\ late' = late
    BY <1>1
  <2>. QED
    BY <2>1 DEF IInv, TypeOK, StoredFirst
<1>3. /\ sending' \in [Senders -> {0} \cup Ids] /\ StoredFirst' /\ CarriedInOrder'
  <2>1. Senders \in SUBSET Senders
    OBVIOUS
  <2>. QED
    BY <1>1, <1>2, <2>1, GivenUp
<1>4. \A v \in Viewers : /\ conn'[v] \in Conn /\ conn'[v].at = "closed" /\ conn'[v].unread = 0
                         /\ conn'[v].user = conn[v].user
                         /\ conn'[v].since = conn[v].since
                         /\ Len(pending'[v]) = 0 /\ ~page'[v].polled
  <2>. SUFFICES ASSUME NEW v \in Viewers
                PROVE  /\ conn'[v] \in Conn /\ conn'[v].at = "closed" /\ conn'[v].unread = 0
                       /\ conn'[v].user = conn[v].user
                       /\ conn'[v].since = conn[v].since
                       /\ Len(pending'[v]) = 0 /\ ~page'[v].polled
    OBVIOUS
  <2>1. conn[v] \in Conn /\ conn'[v] = [conn[v] EXCEPT !.at = "closed",
                                         !.here = FALSE, !.unread = 0]
    BY <1>1, <1>2 DEF TypeOK
  <2>2. pending'[v] = <<>> /\ page'[v].polled = FALSE
    BY <1>1 DEF NoPage
  <2>3. 0 \in 0 .. Buffered
    BY ConstantsAssumption
  <2>4. conn'[v] \in Conn
    BY <2>1, <2>3, Zenon DEF Conn
  <2>. QED
    BY <2>1, <2>2, <2>4, EmptySeq DEF Conn
<1>5. TypeOK'
  BY <1>1, <1>2, <1>3, <1>4, EmptySeq DEF TypeOK, Page, NoPage
<1>6. ASSUME NEW v \in Viewers PROVE Copy(v)' /\ Told(v)'
  <2>. DEFINE n == conn[v].since
              g == Len(got[v])
              x == conn[v].unread
              p == Len(pending[v])
              l == Len(subject[conn[v].user])
  <2>1. /\ n \in Nat /\ g \in Nat /\ x \in Nat /\ p \in Nat /\ l \in Nat
        /\ n + g + x + p <= l /\ \A k \in 1 .. g : got[v][k] = subject[conn[v].user][n + k]
    BY <1>2, ByViewer, Numbers DEF IInv, Copy
  <2>2. n + g + 0 + 0 <= l
    <3>. HIDE DEF n, g, x, p, l
    <3>. QED
      BY <2>1
  <2>3. Copy(v)'
    <3>1. /\ conn'[v].at = "closed" /\ conn'[v].unread = 0
          /\ conn'[v].user = conn[v].user /\ conn'[v].since = conn[v].since
          /\ Len(pending'[v]) = 0 /\ ~page'[v].polled
          /\ got' = got /\ subject' = subject
      BY <1>1, <1>4
    <3>. QED
      BY <2>1, <2>2, <3>1 DEF Copy
  <2>4. Told(v)'
    BY <1>4 DEF Told
  <2>. QED
    BY <2>3, <2>4
<1>7. Copies'
  BY <1>6 DEF Copies, Copy
<1>8. NothingMissed'
  BY <1>6 DEF NothingMissed, Told
<1>. QED
  BY <1>3, <1>5, <1>7, <1>8 DEF IInv

LEMMA InvInit == Init => IInv
<1>. SUFFICES ASSUME Init PROVE IInv
  OBVIOUS
<1>1. PICK t \in Users : conn = [v \in Viewers |->
        [at |-> "closed", user |-> t, since |-> 0, here |-> FALSE, unread |-> 0]]
  BY DEF Init
<1>2. /\ log = <<>> /\ subject = [u \in Users |-> <<>>]
      /\ sending = [w \in Senders |-> 0] /\ failed = {} /\ late = {}
      /\ pending = [v \in Viewers |-> <<>>] /\ got = [v \in Viewers |-> <<>>]
      /\ page = [v \in Viewers |-> NoPage]
  BY DEF Init
<1>3. Len(log) = 0 /\ \A u \in Users : Len(subject[u]) = 0
  BY <1>2, EmptySeq
<1>4. TypeOK
  <2>1. log \in Seq(Message) /\ Len(log) <= MaxMessages
    BY <1>2, <1>3, EmptySeq, ConstantsAssumption
  <2>2. /\ subject \in [Users -> Seq(Ids)] /\ pending \in [Viewers -> Seq(Ids)]
        /\ got \in [Viewers -> Seq(Ids)]
    BY <1>2, EmptySeq
  <2>3. conn \in [Viewers -> Conn] /\ page \in [Viewers -> Page]
    BY <1>1, <1>2, ConstantsAssumption DEF Conn, Page, NoPage
  <2>. QED
    BY <1>2, <2>1, <2>2, <2>3 DEF TypeOK
<1>5. StoredFirst /\ CarriedInOrder
  BY <1>2, <1>3 DEF StoredFirst, CarriedInOrder
<1>6. ASSUME NEW v \in Viewers PROVE Copy(v) /\ Told(v)
  <2>1. /\ conn[v].at = "closed" /\ conn[v].user \in Users /\ conn[v].since = 0
        /\ conn[v].unread = 0
        /\ Len(got[v]) = 0 /\ Len(pending[v]) = 0 /\ ~page[v].polled
    BY <1>1, <1>2, EmptySeq DEF NoPage
  <2>. QED
    BY <1>3, <2>1 DEF Copy, Told
<1>. QED
  BY <1>4, <1>5, <1>6, ByViewer DEF IInv

LEMMA InvStep == IInv /\ [Next]_vars => IInv'
<1>. SUFFICES ASSUME IInv, [Next]_vars PROVE IInv'
  OBVIOUS
<1>1. ASSUME NEW w \in Senders, NEW u \in Users, Store(w, u) PROVE IInv'
  BY <1>1, StoreStep
<1>2. ASSUME NEW w \in Senders, Publish(w) PROVE IInv'
  BY <1>2, PublishStep
<1>3. ASSUME NEW w \in Senders, PublishFails(w) PROVE IInv'
  BY <1>3, PublishFailsStep
<1>4. ASSUME NEW i \in Ids, Arrive(i) PROVE IInv'
  BY <1>4, ArriveStep
<1>5. ASSUME NEW v \in Viewers, Open(v) PROVE IInv'
  BY <1>5, OpenStep
<1>6. ASSUME NEW v \in Viewers, Subscribe(v) PROVE IInv'
  BY <1>6, SubscribeStep
<1>7. ASSUME NEW v \in Viewers, SubscribeFails(v) PROVE IInv'
  BY <1>7, CloseStep DEF SubscribeFails
<1>8. ASSUME NEW v \in Viewers, Push(v) PROVE IInv'
  BY <1>8, PushStep
<1>9. ASSUME NEW v \in Viewers, Leave(v) PROVE IInv'
  BY <1>9, LeaveStep
<1>10. ASSUME NEW v \in Viewers, Inbox(v) PROVE IInv'
  BY <1>10, InboxStep
<1>11. CASE Restart
  BY <1>11, RestartStep
<1>12. CASE UNCHANGED vars
  BY <1>12 DEF vars, IInv, TypeOK, StoredFirst, Copies, CarriedInOrder, NothingMissed, To
<1>. QED
  BY <1>1, <1>2, <1>3, <1>4, <1>5, <1>6, <1>7, <1>8, <1>9, <1>10, <1>11, <1>12 DEF Next

\* The invariant holds in every state of every behaviour.
THEOREM Invariant == Spec => []IInv
<1>1. Init => IInv
  BY InvInit
<1>2. IInv /\ [Next]_vars => IInv'
  BY InvStep
<1>. QED
  BY <1>1, <1>2, PTL DEF Spec

-----------------------------------------------------------------------------
(* The properties of the run.                                               *)

\* Every variable keeps its type.
THEOREM TypeCorrect == Spec => []TypeOK
<1>1. IInv => TypeOK
  BY DEF IInv
<1>. QED
  BY <1>1, Invariant, PTL

\* The inbox closes the window before the consumer exists: whoever reads it
\* once the stream is live misses only what NothingMissed excepts.
THEOREM NothingIsMissed == Spec => []NothingMissed
<1>1. IInv => NothingMissed
  BY DEF IInv
<1>. QED
  BY <1>1, Invariant, PTL

\* What a viewer received and what waits for it are one piece of the subject, at
\* every moment; a stream that was left or cut off is the beginning of one.
THEOREM StreamsHaveNoGaps == Spec => []NoGaps
<1>1. ASSUME IInv PROVE NoGaps
  <2>. SUFFICES ASSUME NEW v \in Viewers
       PROVE  LET u == conn[v].user
                  all == IF conn[v].here THEN got[v] \o pending[v] ELSE got[v] IN
              /\ conn[v].since + Len(all) <= Len(subject[u])
              /\ \A k \in 1 .. Len(all) : /\ all[k] = subject[u][conn[v].since + k]
                                          /\ log[all[k]].to = u
              /\ conn[v].at = "live" /\ conn[v].here =>
                   conn[v].since + Len(all) = Len(subject[u])
    BY DEF NoGaps
  <2>. DEFINE u == conn[v].user
              all == IF conn[v].here THEN got[v] \o pending[v] ELSE got[v]
              n == conn[v].since
              g == Len(got[v])
              x == conn[v].unread
              p == Len(pending[v])
              q == IF conn[v].here THEN p ELSE 0
              l == Len(subject[u])
  <2>1. /\ Copy(v) /\ u \in Users /\ n \in Nat /\ g \in Nat /\ x \in Nat
        /\ p \in Nat /\ l \in Nat
        /\ got[v] \in Seq(Ids) /\ pending[v] \in Seq(Ids)
    BY <1>1, ByViewer, Numbers DEF IInv
  <2>2. /\ Len(all) = g + q
        /\ \A k \in 1 .. g + q : all[k] = IF k <= g THEN got[v][k] ELSE pending[v][k - g]
    <3>1. CASE conn[v].here
      BY <2>1, <3>1, ConcatProperties
    <3>2. CASE ~conn[v].here
      BY <2>1, <3>2
    <3>. QED
      BY <3>1, <3>2
  <2>3. /\ n + g + x + p <= l
        /\ \A k \in 1 .. g : got[v][k] = subject[u][n + k]
        /\ \A k \in 1 .. p : pending[v][k] = subject[u][n + g + x + k]
        /\ conn[v].here => x = 0
        /\ conn[v].at = "live" => n + g + x + p = l
    BY <2>1 DEF Copy
  <2>4. /\ n + (g + q) <= l /\ q \in 0 .. p
        /\ conn[v].at = "live" /\ conn[v].here => n + (g + q) = l
        /\ \A k \in 1 .. g + q : n + k \in 1 .. l
        /\ \A k \in 1 .. g + q : IF k <= g THEN k \in 1 .. g
                                 ELSE k - g \in 1 .. p /\ n + g + x + (k - g) = n + k
    <3>1. q \in 0 .. p /\ (q # 0 => x = 0) /\ (conn[v].here => q = p)
      BY <2>1, <2>3
    <3>. HIDE DEF n, g, x, p, q, l
    <3>. QED
      BY <2>1, <2>3, <3>1
  <2>5. \A k \in 1 .. l : log[subject[u][k]].to = u
    BY <1>1, <2>1 DEF IInv, StoredFirst, To
  <2>6. \A k \in 1 .. g + q : all[k] = subject[u][n + k]
    <3>. HIDE DEF all, q
    <3>. QED
      BY <2>2, <2>3, <2>4
  <2>7. \A k \in 1 .. g + q : log[all[k]].to = u
    <3>. HIDE DEF all, q
    <3>. QED
      BY <2>4, <2>5, <2>6
  <2>. HIDE DEF q
  <2>. QED
    BY <2>2, <2>4, <2>6, <2>7
<1>. QED
  BY <1>1, Invariant, PTL

\* A sender's messages reach each viewer in the order of its Sends, unless a
\* publish timed out.
THEOREM SendersKeepOrder == Spec => []SenderOrder
<1>1. ASSUME IInv PROVE SenderOrder
  <2>. SUFFICES ASSUME NEW v \in Viewers,
                       NEW j \in 1 .. Len(got[v]), NEW k \in 1 .. Len(got[v]), j < k,
                       log[got[v][j]].from = log[got[v][k]].from,
                       {got[v][j], got[v][k]} \cap late = {}
                PROVE  got[v][j] < got[v][k]
    BY DEF SenderOrder
  <2>. DEFINE u == conn[v].user
              n == conn[v].since
              g == Len(got[v])
              x == conn[v].unread
              p == Len(pending[v])
              l == Len(subject[u])
  <2>1. /\ Copy(v) /\ u \in Users /\ n \in Nat /\ g \in Nat /\ x \in Nat
        /\ p \in Nat /\ l \in Nat
    BY <1>1, ByViewer, Numbers DEF IInv
  <2>2. /\ n + g + x + p <= l
        /\ got[v][j] = subject[u][n + j] /\ got[v][k] = subject[u][n + k]
    BY <2>1 DEF Copy
  <2>3. n + k \in 1 .. l /\ n + j \in 1 .. (n + k) - 1
    <3>. HIDE DEF n, x, p, l
    <3>. QED
      BY <2>1, <2>2
  <2>. QED
    BY <1>1, <2>1, <2>2, <2>3 DEF IInv, CarriedInOrder
<1>. QED
  BY <1>1, Invariant, PTL
=============================================================================
