------------------------ MODULE Subscriptions_proofs -------------------------
(***************************************************************************)
(* Proofs about Subscriptions and the migrations under it, for any number of *)
(* migration files, statements, pods, requests, tenants, users and plans.    *)
(***************************************************************************)
EXTENDS Subscriptions, TLAPS

MigrationInv == MigrationTypeOK /\ RecordedInOrder /\ JobsFollow

\* A pod that is down, or starts, or goes on with the next file, keeps a type
\* and claims nothing that is not so.
LEMMA PodsTyped ==
  /\ Down \in Job
  /\ [at |-> "lookup", file |-> 1, part |-> 1] \in Job
  /\ \A f \in Files : After(f) \in Job
BY MigrationsAssumption DEF Down, Job, After, Files

LEMMA AfterFollows ==
  ASSUME NEW f \in Files
  PROVE  /\ After(f).at \in {"lookup", "done"} /\ After(f).part = 1
         /\ After(f).at = "lookup" => After(f).file = f + 1
BY DEF After

\* A step that moves one pod keeps the types and what the other pods know,
\* when nothing is taken away from the database.
LEMMA PodMoves ==
  ASSUME MigrationInv, NEW j \in Jobs, NEW p \in Job, Goto(j, p),
         recorded \subseteq recorded', recorded' \subseteq Files,
         applied' \in [Files -> Nat],
         \A f \in Files : applied[f] <= applied'[f] /\ applied'[f] <= Parts[f],
         LET f == p.file  k == p.part IN
           /\ p.at \in {"lookup", "apply", "record"} => 1 .. f - 1 \subseteq recorded'
           /\ p.at = "lookup" => k = 1
           /\ p.at = "apply" => k \in 1 .. Parts[f] /\ applied'[f] >= k - 1
           /\ p.at = "record" => applied'[f] = Parts[f]
  PROVE  MigrationTypeOK' /\ JobsFollow'
<1>1. job' \in [Jobs -> Job] /\ job'[j] = p
      /\ \A i \in Jobs : i # j => job'[i] = job[i]
  BY DEF Goto, MigrationInv, MigrationTypeOK
<1>2. MigrationTypeOK'
  BY <1>1, MigrationsAssumption DEF MigrationTypeOK
<1>3. ASSUME NEW i \in Jobs, i # j
      PROVE  LET f == job'[i].file  k == job'[i].part IN
        /\ job'[i].at \in {"lookup", "apply", "record"} => 1 .. f - 1 \subseteq recorded'
        /\ job'[i].at = "lookup" => k = 1
        /\ job'[i].at = "apply" => k \in 1 .. Parts[f] /\ applied'[f] >= k - 1
        /\ job'[i].at = "record" => applied'[f] = Parts[f]
  <2>. DEFINE f == job[i].file
              k == job[i].part
  <2>1. f \in Files /\ k \in Nat /\ Parts[f] \in Nat /\ applied[f] \in Nat
        /\ applied'[f] \in Nat /\ applied[f] <= applied'[f] /\ applied'[f] <= Parts[f]
    BY MigrationsAssumption DEF MigrationInv, MigrationTypeOK, Job
  <2>2. /\ job[i].at \in {"lookup", "apply", "record"} => 1 .. f - 1 \subseteq recorded
        /\ job[i].at = "lookup" => k = 1
        /\ job[i].at = "apply" => k \in 1 .. Parts[f] /\ applied[f] >= k - 1
        /\ job[i].at = "record" => applied[f] = Parts[f]
    BY DEF MigrationInv, JobsFollow
  <2>. QED
    BY <1>1, <1>3, <2>1, <2>2
<1>4. JobsFollow'
  BY <1>1, <1>3 DEF JobsFollow
<1>. QED
  BY <1>2, <1>4

\* Then moves the pod on or takes it down.
LEMMA ThenMoves ==
  ASSUME NEW j \in Jobs, NEW p \in Job, Then(j, p)
  PROVE  Goto(j, p) \/ Goto(j, Down)
BY DEF Then

-----------------------------------------------------------------------------
(* One lemma per step of the script.                                        *)

\* Steps that only move the pod, and not into a file.
LEMMA QuietStep ==
  ASSUME MigrationInv, NEW j \in Jobs, NEW b \in BOOLEAN,
         Start(j) \/ Reapply(j) \/ Lookup(j) \/ Refused(j, b) \/ Dies(j)
  PROVE  MigrationInv'
<1>. DEFINE f == job[j].file
<1>1. UNCHANGED <<applied, recorded>>
  BY DEF Start, Reapply, Lookup, Refused, Dies
<1>2. RecordedInOrder'
  BY <1>1 DEF MigrationInv, RecordedInOrder
<1>3. f \in Files /\ job[j] \in Job
  BY DEF MigrationInv, MigrationTypeOK, Job
<1>4. /\ applied \in [Files -> Nat] /\ recorded \subseteq Files
      /\ \A g \in Files : applied[g] <= Parts[g]
  BY <1>1, MigrationsAssumption DEF MigrationInv, MigrationTypeOK
<1>5. CASE Goto(j, Down)
  BY <1>1, <1>4, <1>5, PodsTyped, PodMoves, <1>2 DEF MigrationInv, Down
<1>6. CASE Start(j)
  <2>1. 1 .. 1 - 1 = {}
    OBVIOUS
  <2>. QED
    BY <1>1, <1>2, <1>4, <1>6, <2>1, PodsTyped, PodMoves DEF MigrationInv, Start
<1>7. CASE job[j].at = "lookup" /\ f \in recorded /\ Goto(j, After(f))
  <2>1. After(f) \in Job
    BY <1>3, PodsTyped
  <2>2. After(f).at = "lookup" => 1 .. After(f).file - 1 \subseteq recorded
    <3>1. 1 .. f - 1 \subseteq recorded
      BY <1>7 DEF MigrationInv, JobsFollow
    <3>. QED
      BY <1>3, <1>7, <3>1, AfterFollows DEF Files
  <2>. QED
    BY <1>1, <1>2, <1>3, <1>4, <1>7, <2>1, <2>2, AfterFollows, PodMoves
    DEF MigrationInv
<1>8. CASE job[j].at = "lookup" /\ Goto(j, [job[j] EXCEPT !.at = "apply"])
  <2>. DEFINE p == [job[j] EXCEPT !.at = "apply"]
  <2>1. p \in Job /\ p.at = "apply" /\ p.file = f /\ p.part = job[j].part
    BY <1>3 DEF Job
  <2>2. job[j].part = 1 /\ 1 .. f - 1 \subseteq recorded
    BY <1>8 DEF MigrationInv, JobsFollow
  <2>3. 1 \in 1 .. Parts[f] /\ applied[f] >= 1 - 1
    BY <1>3, <1>4, MigrationsAssumption
  <2>4. Goto(j, p)
    BY <1>8
  <2>. HIDE DEF p
  <2>5. MigrationTypeOK' /\ JobsFollow'
    BY <1>1, <1>3, <1>4, <2>1, <2>2, <2>3, <2>4, PodMoves
  <2>. QED
    BY <1>2, <2>5 DEF MigrationInv
<1>. QED
  BY <1>5, <1>6, <1>7, <1>8 DEF Start, Reapply, Lookup, Refused, Dies

LEMMA ApplyStep ==
  ASSUME MigrationInv, NEW j \in Jobs, NEW b \in BOOLEAN, Apply(j, b)
  PROVE  MigrationInv'
<1>. DEFINE f == job[j].file
            k == job[j].part
            p == IF k < Parts[f] THEN [job[j] EXCEPT !.part = k + 1]
                                 ELSE [job[j] EXCEPT !.at = "record"]
<1>1. /\ f \in Files /\ job[j] \in Job /\ k \in 1 .. Parts[f]
      /\ applied[f] >= k - 1 /\ 1 .. f - 1 \subseteq recorded
      /\ Parts[f] \in Nat
  BY MigrationsAssumption
  DEF Apply, MigrationInv, MigrationTypeOK, JobsFollow, Job
<1>2. recorded' = recorded
      /\ applied' = IF applied[f] < k THEN [applied EXCEPT ![f] = k] ELSE applied
  BY DEF Apply
<1>3. applied \in [Files -> Nat] /\ recorded \subseteq Files
      /\ \A g \in Files : applied[g] <= Parts[g]
  BY MigrationsAssumption DEF MigrationInv, MigrationTypeOK
<1>4. /\ applied' \in [Files -> Nat]
      /\ \A g \in Files : applied[g] <= applied'[g] /\ applied'[g] <= Parts[g]
      /\ applied'[f] >= k
      /\ \A g \in Files : g # f => applied'[g] = applied[g]
  BY <1>1, <1>2, <1>3, MigrationsAssumption
<1>5. RecordedInOrder'
  <2>1. \A g \in recorded' : applied'[g] = Parts[g]
    BY <1>2, <1>3, <1>4, MigrationsAssumption DEF MigrationInv, RecordedInOrder
  <2>2. \A g \in Files : applied'[g] > 0 => 1 .. g - 1 \subseteq recorded'
    BY <1>1, <1>2, <1>4 DEF MigrationInv, RecordedInOrder
  <2>. QED
    BY <2>1, <2>2 DEF RecordedInOrder
<1>6. /\ p \in Job /\ p.file = f /\ p.at \in {"apply", "record"}
      /\ p.at = "apply" => p.part = k + 1 /\ k < Parts[f]
      /\ p.at = "record" => k = Parts[f]
  BY <1>1 DEF Apply, Job
<1>7. Goto(j, p) \/ Goto(j, Down)
  BY <1>6, ThenMoves DEF Apply
<1>. HIDE DEF p
<1>8. CASE Goto(j, p)
  <2>1. p.at = "apply" => p.part \in 1 .. Parts[f] /\ applied'[f] >= p.part - 1
    BY <1>1, <1>4, <1>6
  <2>2. p.at = "record" => applied'[f] = Parts[f]
    BY <1>1, <1>4, <1>6
  <2>. QED
    BY <1>1, <1>2, <1>3, <1>4, <1>5, <1>6, <1>8, <2>1, <2>2, PodMoves
    DEF MigrationInv
<1>9. CASE Goto(j, Down)
  BY <1>2, <1>3, <1>4, <1>5, <1>9, PodsTyped, PodMoves DEF MigrationInv, Down
<1>. QED
  BY <1>7, <1>8, <1>9

LEMMA RecordStep ==
  ASSUME MigrationInv, NEW j \in Jobs, Record(j)
  PROVE  MigrationInv'
<1>. DEFINE f == job[j].file
<1>1. /\ f \in Files /\ applied[f] = Parts[f] /\ 1 .. f - 1 \subseteq recorded
  BY DEF Record, MigrationInv, MigrationTypeOK, JobsFollow, Job
<1>2. /\ applied \in [Files -> Nat] /\ recorded \subseteq Files
      /\ \A g \in Files : applied[g] <= Parts[g]
      /\ applied' = applied
  BY MigrationsAssumption DEF Record, MigrationInv, MigrationTypeOK
<1>3. recorded \subseteq recorded' /\ recorded' \subseteq recorded \cup {f}
  BY DEF Record
<1>4. RecordedInOrder'
  BY <1>1, <1>2, <1>3 DEF MigrationInv, RecordedInOrder
<1>5. After(f) \in Job
  BY <1>1, PodsTyped
<1>6. Goto(j, Down) \/ (f \in recorded' /\ Goto(j, After(f)))
  BY <1>5, ThenMoves DEF Record
<1>7. CASE Goto(j, Down)
  BY <1>1, <1>2, <1>3, <1>4, <1>7, PodsTyped, PodMoves DEF MigrationInv, Down
<1>8. CASE f \in recorded' /\ Goto(j, After(f))
  <2>1. After(f).at = "lookup" => 1 .. After(f).file - 1 \subseteq recorded'
    BY <1>1, <1>3, <1>8, AfterFollows DEF Files
  <2>. QED
    BY <1>1, <1>2, <1>3, <1>4, <1>5, <1>8, <2>1, AfterFollows, PodMoves
    DEF MigrationInv
<1>. QED
  BY <1>6, <1>7, <1>8

\* Every step of a pod keeps the migrations in order.
LEMMA MigrationKept ==
  ASSUME MigrationInv, NEW j \in Jobs, NEW b \in BOOLEAN, MigrationStep(j, b)
  PROVE  MigrationInv'
BY QuietStep, ApplyStep, RecordStep DEF MigrationStep, Runs

-----------------------------------------------------------------------------
(* The subscriptions.                                                       *)

LEMMA InvInit == Init => IInv
<1>. SUFFICES ASSUME Init PROVE IInv
  OBVIOUS
<1>1. MigrationTypeOK /\ RecordedInOrder /\ JobsFollow
  BY PodsTyped, MigrationsAssumption
  DEF Init, MigrationInit, MigrationTypeOK, RecordedInOrder, JobsFollow, Down
<1>2. NoRow \in Row /\ NoCall \in Call
  BY DEF NoRow, Row, NoCall, Call
<1>3. ~Indexed
  BY SubscriptionsAssumption DEF Init, MigrationInit, Indexed
<1>. QED
  BY <1>1, <1>2, <1>3 DEF Init, IInv, TypeOK, IndexExcludes

\* The index is made only when it is admitted, and rows that meet it are not
\* inserted.
LEMMA InvStep == IInv /\ [Next]_vars => IInv'
<1>. SUFFICES ASSUME IInv, [Next]_vars PROVE IInv'
  OBVIOUS
<1>0. NoCall \in Call /\ MigrationInv
  BY DEF NoCall, Call, MigrationInv, IInv, TypeOK
<1>1. ASSUME NEW j \in Jobs, Migrate(j) PROVE IInv'
  <2>1. MigrationInv'
    BY <1>0, <1>1, MigrationKept DEF Migrate, Admitted
  <2>2. UNCHANGED <<sub, call>>
    BY <1>1 DEF Migrate
  <2>3. Distinct' <=> Distinct
    BY <2>2 DEF Distinct, Live, Same
  <2>4. Indexed' => Indexed \/ Distinct
    <3>. SUFFICES ASSUME Indexed', ~Indexed PROVE Distinct
      OBVIOUS
    <3>1. applied' # applied
      BY DEF Indexed
    <3>2. Apply(j, Admitted(j))
      BY <1>1, <3>1 DEF Migrate, MigrationStep, Runs, Start, Reapply, Lookup,
                        Record, Refused, Dies
    <3>3. /\ applied \in [Files -> Nat] /\ job[j].part \in Nat
          /\ job[j].file \in Files
      BY MigrationsAssumption DEF IInv, TypeOK, MigrationTypeOK, Job
    <3>4. job[j].file = IndexFile
      BY <3>2, <3>3, SubscriptionsAssumption DEF Apply, Indexed
    <3>5. applied[IndexFile] = 0 /\ job[j].part = 1
      BY <3>2, <3>3, <3>4, SubscriptionsAssumption, MigrationsAssumption
      DEF Apply, Indexed, IInv, JobsFollow
    <3>. QED
      BY <3>2, <3>4, <3>5 DEF Apply, Admitted
  <2>. QED
    BY <2>1, <2>2, <2>3, <2>4
    DEF IInv, TypeOK, MigrationInv, IndexExcludes
<1>2. ASSUME NEW w \in Workers, NEW u \in Users, NEW p \in Plans, Create(w, u, p)
      PROVE  IInv'
  <2>1. PICK o \in Orgs :
          call' = [call EXCEPT ![w] = [at |-> "insert", org |-> o, user |-> u,
                                       plan |-> p]]
    BY <1>2 DEF Create
  <2>2. call' \in [Workers -> Call]
    BY <2>1 DEF IInv, TypeOK, Call
  <2>. QED
    BY <1>2, <2>2 DEF Create, IInv, TypeOK, MigrationTypeOK, RecordedInOrder,
                      JobsFollow, IndexExcludes, Indexed, Distinct, Live, Same
<1>3. ASSUME NEW w \in Workers, Insert(w) PROVE IInv'
  <2>. DEFINE r == [org |-> call[w].org, user |-> call[w].user,
                    plan |-> call[w].plan, status |-> "active"]
  <2>1. PICK s \in Free : sub' = [sub EXCEPT ![s] = r]
    BY <1>3 DEF Insert
  <2>2. r \in Row /\ s \in Subs
    BY DEF IInv, TypeOK, Call, Row, Free
  <2>. HIDE DEF r
  <2>3. sub' \in [Subs -> Row] /\ call' \in [Workers -> Call] /\ sub'[s] = r
        /\ \A t \in Subs : t # s => sub'[t] = sub[t]
    BY <1>0, <1>3, <2>1, <2>2 DEF Insert, IInv, TypeOK
  <2>4. UNCHANGED <<applied, recorded, job>> /\ (Indexed' <=> Indexed)
    BY <1>3 DEF Insert, Indexed
  <2>5. IndexExcludes'
    <3>. SUFFICES ASSUME Indexed PROVE Distinct'
      BY <2>4 DEF IndexExcludes
    <3>1. Distinct /\ ~Holds(call[w].user, call[w].plan)
      BY <1>3 DEF IInv, IndexExcludes, Insert, Clash
    <3>2. r.user = call[w].user /\ r.plan = call[w].plan
      BY DEF r
    <3>3. \A t \in Live' : t = s \/ t \in Live
      BY <2>3 DEF Live
    <3>. QED
      BY <2>3, <3>1, <3>2, <3>3 DEF Distinct, Same, Holds, Live
  <2>. QED
    BY <2>3, <2>4, <2>5
    DEF IInv, TypeOK, MigrationTypeOK, RecordedInOrder, JobsFollow
<1>4. ASSUME NEW w \in Workers, InsertConflict(w) \/ Fails(w) PROVE IInv'
  BY <1>0, <1>4 DEF InsertConflict, Fails, IInv, TypeOK, MigrationTypeOK,
     RecordedInOrder, JobsFollow, IndexExcludes, Indexed, Distinct, Live, Same
<1>5. ASSUME NEW s \in Subs, NEW o \in Orgs, Cancel(s, o) PROVE IInv'
  <2>1. UNCHANGED <<applied, recorded, job, call>> /\ s \in Subs
        /\ sub' = [sub EXCEPT ![s].status = "cancelled"]
    BY <1>5 DEF Cancel
  <2>2. sub[s] \in Row
    BY DEF IInv, TypeOK
  <2>3. [sub[s] EXCEPT !.status = "cancelled"] \in Row
    BY <2>2 DEF Row
  <2>4. /\ sub' \in [Subs -> Row]
        /\ sub'[s].status = "cancelled"
        /\ \A t \in Subs : t # s => sub'[t] = sub[t]
    BY <2>1, <2>2, <2>3 DEF IInv, TypeOK, Row
  <2>5. Distinct => Distinct'
    <3>1. \A t \in Live' : t \in Live /\ sub'[t] = sub[t]
      BY <2>4 DEF Live
    <3>. QED
      BY <3>1 DEF Distinct, Same
  <2>. QED
    BY <2>1, <2>4, <2>5
    DEF IInv, TypeOK, MigrationTypeOK, RecordedInOrder, JobsFollow,
        IndexExcludes, Indexed
<1>6. CASE UNCHANGED vars
  BY <1>6 DEF vars, IInv, TypeOK, MigrationTypeOK, RecordedInOrder, JobsFollow,
     IndexExcludes, Indexed, Distinct, Live, Same
<1>. QED
  BY <1>1, <1>2, <1>3, <1>4, <1>5, <1>6 DEF Next

\* The inductive invariant holds in every reachable state.
THEOREM Invariant == Spec => []IInv
  BY InvInit, InvStep, PTL DEF Spec

\* Type correctness, for any number of files, pods, requests and rows.
THEOREM TypeCorrect == Spec => []TypeOK
<1>1. IInv => TypeOK
  BY DEF IInv
<1>. QED
  BY Invariant, <1>1, PTL

\* Migrations are applied and recorded in order, whatever is cut off, misread
\* or run twice.
THEOREM MigrationsInOrder == Spec => []RecordedInOrder
<1>1. IInv => RecordedInOrder
  BY DEF IInv
<1>. QED
  BY Invariant, <1>1, PTL

\* A recorded index file means one live subscription per user and plan.
THEOREM SubscriptionsAreUnique == Spec => []OneLivePerPlan
<1>1. IInv => OneLivePerPlan
  <2>. SUFFICES ASSUME IInv, IndexFile \in recorded PROVE Distinct
    BY DEF OneLivePerPlan
  <2>1. applied[IndexFile] = Parts[IndexFile] /\ Parts[IndexFile] > 0
    BY SubscriptionsAssumption, MigrationsAssumption DEF IInv, RecordedInOrder
  <2>. QED
    BY <2>1 DEF IInv, IndexExcludes, Indexed
<1>. QED
  BY Invariant, <1>1, PTL
=============================================================================
