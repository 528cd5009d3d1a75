------------------------ MODULE SimLifecycle_proofs -------------------------
(***************************************************************************)
(* Proofs about SimLifecycle, for every set of workers, SIM ids, tenants,   *)
(* chosen and seeded IMSIs, and every combination of faults.                *)
(***************************************************************************)
EXTENDS SimLifecycle, FiniteSetTheorems, TLAPS

\* The type invariant, together with the one fact it needs to be inductive:
\* the table never holds infinitely many rows, so their count is a number.
TypeInv == TypeOK /\ IsFiniteSet(Rows)

-----------------------------------------------------------------------------
(* What the writes to the two stores do.                                    *)

\* An INSERT makes exactly one row.
LEMMA InsertAddsRow ==
  ASSUME TypeOK, NEW s \in Sims \ Rows, NEW r \in Row, r.status # "none",
         sim' = [sim EXCEPT ![s] = r]
  PROVE  /\ sim' \in [Sims -> Row]
         /\ Rows' = Rows \cup {s}
         /\ sim'[s] = r
         /\ \A t \in Sims : t # s => sim'[t] = sim[t]
BY DEF TypeOK, Rows

\* The row Create inserts is a row of the table.
LEMMA NewRowTyped ==
  ASSUME TypeOK, NEW w \in Workers
  PROVE  [org |-> call[w].org, imsi |-> call[w].imsi,
          status |-> "active", provisioned |-> FALSE] \in Row
BY DEF TypeOK, Row, Call, Cut

\* An UPDATE of a status changes that status and nothing else.
LEMMA StatusWrite ==
  ASSUME TypeOK, NEW s \in Rows, NEW x \in {"active"} \cup Cut,
         sim' = [sim EXCEPT ![s].status = x]
  PROVE  /\ sim' \in [Sims -> Row]
         /\ Rows' = Rows
         /\ sim'[s].status = x
         /\ \A t \in Sims : /\ sim'[t].imsi = sim[t].imsi
                            /\ sim'[t].org = sim[t].org
                            /\ t # s => sim'[t] = sim[t]
<1>1. s \in Sims /\ sim[s] \in Row
  BY DEF TypeOK, Rows
<1>2. sim'[s] = [sim[s] EXCEPT !.status = x]
  BY <1>1 DEF TypeOK
<1>3. \A t \in Sims : t # s => sim'[t] = sim[t]
  BY DEF TypeOK
<1>4. sim'[s] \in Row /\ sim'[s].status = x /\ sim'[s].imsi = sim[s].imsi
      /\ sim'[s].org = sim[s].org
  BY <1>1, <1>2 DEF Row, Cut
<1>5. sim' \in [Sims -> Row]
  BY <1>3, <1>4 DEF TypeOK
<1>6. x # "none"
  BY DEF Cut
<1>. QED
  BY <1>1, <1>3, <1>4, <1>5, <1>6 DEF Rows

\* MarkProvisioned changes no status, IMSI or owner.
LEMMA ProvisionedWrite ==
  ASSUME TypeOK, NEW s \in Rows,
         sim' = [sim EXCEPT ![s].provisioned = TRUE]
  PROVE  /\ sim' \in [Sims -> Row]
         /\ Rows' = Rows
         /\ \A t \in Sims : /\ sim'[t].imsi = sim[t].imsi
                            /\ sim'[t].org = sim[t].org
                            /\ sim'[t].status = sim[t].status
                            /\ t # s => sim'[t] = sim[t]
<1>1. s \in Sims /\ sim[s] \in Row
  BY DEF TypeOK, Rows
<1>2. sim'[s] = [sim[s] EXCEPT !.provisioned = TRUE]
  BY <1>1 DEF TypeOK
<1>3. \A t \in Sims : t # s => sim'[t] = sim[t]
  BY DEF TypeOK
<1>4. sim'[s].status = sim[s].status
      /\ sim'[s].imsi = sim[s].imsi /\ sim'[s].org = sim[s].org
  BY <1>1, <1>2 DEF Row
<1>5. sim'[s] \in Row
  BY <1>1, <1>2, Zenon DEF Row
<1>6. sim' \in [Sims -> Row]
  BY <1>3, <1>5 DEF TypeOK
<1>. QED
  BY <1>1, <1>3, <1>4, <1>6 DEF Rows

\* An Upsert makes its SIM attachable and touches no other row's IMSI.
LEMMA PutServesLine ==
  ASSUME TypeOK, UniqueImsi, NEW s \in Rows,
         core' = Put(sim[s].imsi, s), sim' = sim
  PROVE  /\ Attachable(s)'
         /\ \A t \in Rows : t # s => (Attachable(t)' <=> Attachable(t))
BY DEF Put, Attachable, UniqueImsi, Rows

\* A Delete cuts its SIM off and touches no other row's IMSI.
LEMMA RemoveCutsLine ==
  ASSUME TypeOK, UniqueImsi, NEW s \in Rows,
         core' = Remove(sim[s].imsi), sim' = sim
  PROVE  /\ ~Attachable(s)'
         /\ \A t \in Rows : t # s => (Attachable(t)' <=> Attachable(t))
BY DEF Remove, Attachable, UniqueImsi, Rows

\* The seed job touches only the IMSIs it seeds.
LEMMA SeedKeepsLines ==
  ASSUME TypeOK, NEW i \in SeedImsis, core' = Put(i, SeedKey), sim' = sim
  PROVE  \A t \in Rows : sim[t].imsi # i => (Attachable(t)' <=> Attachable(t))
BY DEF Put, Attachable, Rows

-----------------------------------------------------------------------------
(* Type correctness.                                                        *)

\* After the last write of a request or after its failure, no call is left.
LEMMA CallsTyped ==
  ASSUME TypeOK, NEW w \in Workers, NEW c \in Call
  PROVE  /\ [call EXCEPT ![w] = c] \in [Workers -> Call]
         /\ NoCall \in Call
BY DEF TypeOK, Call, NoCall

LEMMA TypeInit == Init => TypeInv
<1>. SUFFICES ASSUME Init PROVE TypeInv
  OBVIOUS
<1>1. NoRow \in Row /\ NoCall \in Call
  BY DEF NoRow, Row, NoCall, Call
<1>2. TypeOK
  BY <1>1, ConstantsAssumption DEF Init, TypeOK
<1>3. Rows = {}
  BY DEF Init, Rows, NoRow
<1>. QED
  BY <1>2, <1>3, FS_EmptySet DEF TypeInv

LEMMA TypeStep == TypeInv /\ CallsFit /\ [Next]_vars => TypeInv'
<1>. SUFFICES ASSUME TypeOK, IsFiniteSet(Rows), CallsFit, [Next]_vars
              PROVE  TypeOK' /\ IsFiniteSet(Rows)'
  BY DEF TypeInv
<1>0. NoCall \in Call
  BY DEF NoCall, Call
<1>1. ASSUME NEW w \in Workers, Create(w)
      PROVE  TypeOK' /\ IsFiniteSet(Rows)'
  <2>1. NextMSIN \in Nat
    BY FS_CardinalityType DEF NextMSIN
  <2>2. PICK o \in Orgs, i \in Explicit \cup {NextMSIN} :
          call' = [call EXCEPT ![w] = [at |-> "insert", op |-> "create", org |-> o,
                                       sim |-> None, imsi |-> i, alone |-> TRUE]]
    BY <1>1 DEF Create
  <2>3. [at |-> "insert", op |-> "create", org |-> o, sim |-> None, imsi |-> i,
         alone |-> TRUE] \in Call
    BY <2>1, ConstantsAssumption DEF Call
  <2>4. call' \in [Workers -> Call]
    BY <2>2, <2>3 DEF TypeOK
  <2>. QED
    BY <1>1, <2>4 DEF Create, TypeOK, Rows
<1>2. ASSUME NEW w \in Workers, Begin(w)
      PROVE  TypeOK' /\ IsFiniteSet(Rows)'
  <2>1. PICK o \in Orgs, s \in Rows, op \in Ops \ {"create"}, first \in {"status", "upsert", "delete"} :
          /\ call' = [v \in Workers |->
               IF v = w THEN [at |-> first, op |-> op, org |-> o, sim |-> s,
                              imsi |-> sim[s].imsi,
                              alone |-> {u \in Workers : On(u, s)} = {}]
               ELSE IF v \in {u \in Workers : On(u, s)}
                    THEN [call[v] EXCEPT !.alone = FALSE]
               ELSE call[v]]
          /\ settled' = settled \ {s}
    BY <1>2 DEF Begin
  <2>2. sim[s].imsi \in Nat /\ s \in Sims
    BY DEF TypeOK, Row, Rows
  <2>3. \A b \in BOOLEAN :
          [at |-> first, op |-> op, org |-> o, sim |-> s,
           imsi |-> sim[s].imsi, alone |-> b] \in Call
    BY <2>2, ConstantsAssumption DEF Call
  <2>4. \A v \in Workers : [call[v] EXCEPT !.alone = FALSE] \in Call
    BY Zenon DEF TypeOK, Call
  <2>5. call' \in [Workers -> Call]
    BY <2>1, <2>3, <2>4 DEF TypeOK
  <2>. QED
    BY <1>2, <2>1, <2>5 DEF Begin, TypeOK, Rows
<1>3. ASSUME NEW w \in Workers, Insert(w)
      PROVE  TypeOK' /\ IsFiniteSet(Rows)'
  <2>. DEFINE r == [org |-> call[w].org, imsi |-> call[w].imsi,
                    status |-> "active", provisioned |-> FALSE]
  <2>1. PICK s \in Sims \ Rows :
          /\ sim' = [sim EXCEPT ![s] = r]
          /\ After(w, IF hook THEN [call[w] EXCEPT !.at = "upsert", !.sim = s]
                              ELSE NoCall)
    BY <1>3 DEF Insert
  <2>2. r \in Row /\ r.status # "none"
    BY NewRowTyped
  <2>. HIDE DEF r
  <2>3. sim' \in [Sims -> Row] /\ Rows' = Rows \cup {s}
    BY <2>1, <2>2, InsertAddsRow
  <2>4. [call[w] EXCEPT !.at = "upsert", !.sim = s] \in Call
    BY DEF TypeOK, Call
  <2>5. call' \in [Workers -> Call]
    BY <1>0, <2>1, <2>4 DEF After, TypeOK
  <2>6. IsFiniteSet(Rows)'
    BY <2>3, FS_AddElement
  <2>. QED
    BY <1>3, <2>3, <2>5, <2>6 DEF Insert, TypeOK
<1>4. ASSUME NEW w \in Workers, InsertConflict(w) \/ Fails(w)
      PROVE  TypeOK' /\ IsFiniteSet(Rows)'
  BY <1>0, <1>4 DEF InsertConflict, Fails, TypeOK, Rows
<1>5. ASSUME NEW w \in Workers, Upsert(w)
      PROVE  TypeOK' /\ IsFiniteSet(Rows)'
  <2>1. call[w].sim \in Sims /\ call[w].imsi \in Nat
    BY <1>5 DEF Upsert, CallsFit, TypeOK, Call, Rows
  <2>2. Put(call[w].imsi, call[w].sim) \subseteq Doc
    BY <2>1 DEF TypeOK, Put, Doc
  <2>3. \A a \in {"mark", "status"} : [call[w] EXCEPT !.at = a] \in Call
    BY DEF TypeOK, Call
  <2>4. call' \in [Workers -> Call]
    BY <1>0, <1>5, <2>3 DEF Upsert, After, TypeOK
  <2>. QED
    BY <1>5, <2>2, <2>4 DEF Upsert, TypeOK, Rows
<1>6. ASSUME NEW w \in Workers, Delete(w)
      PROVE  TypeOK' /\ IsFiniteSet(Rows)'
  <2>1. [call[w] EXCEPT !.at = "status"] \in Call
    BY DEF TypeOK, Call
  <2>2. call' \in [Workers -> Call]
    BY <1>0, <1>6, <2>1 DEF Delete, After, TypeOK
  <2>. QED
    BY <1>6, <2>2 DEF Delete, Remove, TypeOK, Rows
<1>7. ASSUME NEW w \in Workers, MarkProvisioned(w)
      PROVE  TypeOK' /\ IsFiniteSet(Rows)'
  <2>1. call[w].sim \in Rows
    BY <1>7 DEF MarkProvisioned, CallsFit
  <2>2. sim' \in [Sims -> Row] /\ Rows' = Rows
    BY <1>7, <2>1, ProvisionedWrite DEF MarkProvisioned
  <2>. QED
    BY <1>0, <1>7, <2>1, <2>2 DEF MarkProvisioned, Finish, TypeOK, Rows
<1>8. ASSUME NEW w \in Workers, UpdateStatus(w)
      PROVE  TypeOK' /\ IsFiniteSet(Rows)'
  <2>1. call[w].sim \in Rows /\ call[w].op \in {"suspend", "resume", "terminate"}
    BY <1>8 DEF UpdateStatus, CallsFit
  <2>2. Outcome(call[w].op) \in {"active"} \cup Cut
    BY <2>1 DEF Outcome, Cut
  <2>3. sim' \in [Sims -> Row] /\ Rows' = Rows
    BY <1>8, <2>1, <2>2, StatusWrite DEF UpdateStatus
  <2>. QED
    BY <1>0, <1>8, <2>1, <2>3 DEF UpdateStatus, Finish, TypeOK, Rows
<1>9. ASSUME Restart
      PROVE  TypeOK' /\ IsFiniteSet(Rows)'
  BY <1>0, <1>9, ConstantsAssumption DEF Restart, TypeOK, Rows
<1>10. ASSUME NEW i \in SeedImsis, SeedUE(i)
       PROVE  TypeOK' /\ IsFiniteSet(Rows)'
  BY <1>10, ConstantsAssumption DEF SeedUE, Put, Doc, TypeOK, Rows
<1>11. CASE UNCHANGED vars
  BY <1>11 DEF vars, TypeOK, Rows
<1>. QED
  BY <1>1, <1>2, <1>3, <1>4, <1>5, <1>6, <1>7, <1>8, <1>9, <1>10, <1>11
  DEF Next, Step

-----------------------------------------------------------------------------
(* The invariant is inductive.  One lemma per action; the conjuncts the      *)
(* action can disturb are its steps.                                        *)

\* The conjuncts beside the types.
Core == /\ settled \subseteq Rows
        /\ CallsFit
        /\ UniqueImsi
        /\ CoreHoldsOwnKeys
        /\ AloneIsAlone
        /\ AloneKnows
        /\ SettledLinesAgree

LEMMA CreateStep ==
  ASSUME IInv, NEW w \in Workers, Create(w)
  PROVE  Core'
<1>1. PICK o \in Orgs, i \in Explicit \cup {NextMSIN} :
        call' = [call EXCEPT ![w] = [at |-> "insert", op |-> "create", org |-> o,
                                     sim |-> None, imsi |-> i, alone |-> TRUE]]
  BY DEF Create
<1>2. UNCHANGED <<sim, core, hook, settled>>
  BY DEF Create
<1>3. /\ call'[w].at = "insert" /\ call'[w].op = "create"
      /\ call'[w].org \in Orgs /\ call'[w].sim = None
      /\ \A v \in Workers : v # w => call'[v] = call[v]
  BY <1>1 DEF IInv, TypeOK
<1>4. \A v \in Workers, s \in Sims : On(v, s)' <=> v # w /\ On(v, s)
  BY <1>1, <1>3, ConstantsAssumption DEF IInv, TypeOK, On, Idle, Create
<1>5. CallsFit'
  BY <1>2, <1>3 DEF IInv, CallsFit, Rows
<1>6. AloneIsAlone'
  BY <1>3, <1>4 DEF IInv, AloneIsAlone
<1>7. AloneKnows'
  BY <1>2, <1>3, <1>4 DEF IInv, AloneKnows, Rows, Attachable
<1>8. SettledLinesAgree'
  BY <1>2, <1>4 DEF IInv, TypeOK, SettledLinesAgree, Attachable
<1>. QED
  BY <1>2, <1>5, <1>6, <1>7, <1>8
  DEF IInv, Core, UniqueImsi, CoreHoldsOwnKeys, Rows

\* Steps that only drop calls: InsertConflict, Fails and Restart.
LEMMA DropStep ==
  ASSUME IInv, UNCHANGED <<sim, core, settled>>,
         \A v \in Workers : \/ call'[v] = call[v] /\ hook' = hook
                            \/ call'[v] = NoCall
  PROVE  Core'
<1>1. \A v \in Workers : Idle(v)' \/ (call'[v] = call[v] /\ hook' = hook)
  BY DEF Idle, NoCall
<1>2. \A v \in Workers, s \in Sims : On(v, s)' => On(v, s) /\ call'[v] = call[v]
  BY <1>1 DEF On, Idle
<1>3. CallsFit'
  BY DEF IInv, CallsFit, NoCall, Rows
<1>4. AloneIsAlone'
  BY <1>2 DEF IInv, AloneIsAlone
<1>5. \A s \in Rows' : s \in Rows /\ (Attachable(s)' <=> Attachable(s))
  BY DEF Rows, Attachable
<1>6. AloneKnows'
  <2>. SUFFICES ASSUME NEW v \in Workers, NEW s \in Rows, On(v, s)',
                       call'[v].alone, hook', sim[s].imsi \notin SeedImsis
                PROVE  /\ call'[v].at = "upsert" /\ call'[v].op = "create"
                            => sim[s].status = "active"
                       /\ call'[v].at = "mark"
                            => sim[s].status = "active" /\ Attachable(s)
                       /\ call'[v].at = "status"
                            => (call'[v].op = "resume" <=> Attachable(s))
    BY <1>5 DEF AloneKnows, Rows
  <2>1. call'[v] = call[v] /\ hook /\ On(v, s)
    BY <1>1, <1>2 DEF Rows, On
  <2>. QED
    BY <2>1 DEF IInv, AloneKnows
<1>7. SettledLinesAgree'
  BY <1>2 DEF IInv, TypeOK, SettledLinesAgree, Attachable
<1>. QED
  BY <1>3, <1>4, <1>6, <1>7
  DEF IInv, Core, UniqueImsi, CoreHoldsOwnKeys, Rows

LEMMA InsertStep ==
  ASSUME IInv, NEW w \in Workers, Insert(w)
  PROVE  Core'
<1>. DEFINE r == [org |-> call[w].org, imsi |-> call[w].imsi,
                  status |-> "active", provisioned |-> FALSE]
<1>1. PICK s \in Sims \ Rows :
        /\ sim' = [sim EXCEPT ![s] = r]
        /\ After(w, IF hook THEN [call[w] EXCEPT !.at = "upsert", !.sim = s]
                            ELSE NoCall)
  BY DEF Insert
<1>2. UNCHANGED <<core, hook, settled>> /\ call[w].at = "insert"
      /\ call[w].imsi \notin Taken
  BY DEF Insert
<1>3. r \in Row /\ r.status = "active" /\ r.imsi = call[w].imsi
      /\ r.org = call[w].org
  BY NewRowTyped DEF IInv
<1>. HIDE DEF r
<1>4. /\ Rows' = Rows \cup {s} /\ sim'[s] = r
      /\ \A t \in Sims : t # s => sim'[t] = sim[t]
  BY <1>1, <1>3, InsertAddsRow DEF IInv
<1>5. /\ \A v \in Workers : v # w => call'[v] = call[v]
      /\ \/ call'[w] = NoCall
         \/ /\ hook /\ call'[w].at = "upsert" /\ call'[w].sim = s
            /\ call'[w].op = call[w].op /\ call'[w].org = call[w].org
            /\ call'[w].imsi = call[w].imsi
  <2>. DEFINE c == [call[w] EXCEPT !.at = "upsert", !.sim = s]
  <2>1. call \in [Workers -> Call] /\ call[w] \in Call
    BY DEF IInv, TypeOK
  <2>2. /\ c.at = "upsert" /\ c.sim = s /\ c.op = call[w].op
        /\ c.org = call[w].org /\ c.imsi = call[w].imsi
    BY <2>1 DEF Call
  <2>3. \/ hook /\ call' = [call EXCEPT ![w] = c]
        \/ call' = [call EXCEPT ![w] = NoCall]
    BY <1>1 DEF After
  <2>. HIDE DEF c
  <2>. QED
    BY <2>1, <2>2, <2>3
<1>6. \A v \in Workers : ~On(v, s)
  BY <1>1, <1>2, ConstantsAssumption DEF IInv, CallsFit, On, Idle, TypeOK, Call
<1>7. \A v \in Workers, t \in Sims : On(v, t)' =>
        \/ v # w /\ t # s /\ On(v, t)
        \/ v = w /\ t = s /\ call'[w].at = "upsert"
  BY <1>5, <1>6 DEF On, Idle, NoCall
<1>8. \A t \in Rows : t # s /\ t \in Sims /\ (Attachable(t)' <=> Attachable(t))
                      /\ sim'[t] = sim[t]
  BY <1>2, <1>4 DEF Attachable, Rows
<1>9. CallsFit'
  <2>1. call[w].op = "create"
    BY <1>2 DEF IInv, CallsFit
  <2>. QED
    BY <1>2, <1>3, <1>4, <1>5, <1>8, <2>1 DEF IInv, CallsFit, NoCall
<1>10. UniqueImsi'
  BY <1>2, <1>3, <1>4, <1>8 DEF IInv, UniqueImsi, Taken
<1>11. CoreHoldsOwnKeys'
  BY <1>2, <1>4, <1>8 DEF IInv, CoreHoldsOwnKeys
<1>12. AloneIsAlone'
  BY <1>5, <1>7 DEF IInv, AloneIsAlone
<1>13. AloneKnows'
  BY <1>2, <1>3, <1>4, <1>5, <1>7, <1>8 DEF IInv, AloneKnows
<1>14. SettledLinesAgree'
  BY <1>2, <1>7, <1>8 DEF IInv, SettledLinesAgree
<1>. QED
  BY <1>2, <1>4, <1>9, <1>10, <1>11, <1>12, <1>13, <1>14 DEF IInv, Core

LEMMA BeginStep ==
  ASSUME IInv, NEW w \in Workers, Begin(w)
  PROVE  Core'
<1>1. PICK o \in Orgs, s \in Rows, op \in Ops \ {"create"} :
        LET others == {v \in Workers : On(v, s)}
            first  == IF ~hook THEN "status"
                      ELSE IF op = "resume" THEN "upsert" ELSE "delete"
        IN  /\ Owned(s, o)
            /\ call' = [v \in Workers |->
                 IF v = w THEN [at |-> first, op |-> op, org |-> o, sim |-> s,
                                imsi |-> sim[s].imsi, alone |-> others = {}]
                 ELSE IF v \in others THEN [call[v] EXCEPT !.alone = FALSE]
                 ELSE call[v]]
            /\ settled' = settled \ {s}
  BY DEF Begin
<1>2. UNCHANGED <<sim, core, hook>> /\ Idle(w) /\ s \in Sims
  BY DEF Begin, Rows
<1>3. /\ call'[w].op = op /\ call'[w].org = sim[s].org /\ call'[w].sim = s
      /\ call'[w].imsi = sim[s].imsi
      /\ call'[w].alone <=> \A v \in Workers : ~On(v, s)
      /\ call'[w].at = IF ~hook THEN "status"
                       ELSE IF op = "resume" THEN "upsert" ELSE "delete"
  BY <1>1 DEF Owned
<1>4. op \in {"suspend", "resume", "terminate"}
  BY ConstantsAssumption
<1>5. \A v \in Workers : v # w =>
        /\ call'[v].at = call[v].at /\ call'[v].op = call[v].op
        /\ call'[v].org = call[v].org /\ call'[v].sim = call[v].sim
        /\ call'[v].imsi = call[v].imsi
        /\ call'[v].alone => call[v].alone /\ ~On(v, s)
  <2>. SUFFICES ASSUME NEW v \in Workers, v # w
                PROVE  /\ call'[v].at = call[v].at /\ call'[v].op = call[v].op
                       /\ call'[v].org = call[v].org /\ call'[v].sim = call[v].sim
                       /\ call'[v].imsi = call[v].imsi
                       /\ call'[v].alone => call[v].alone /\ ~On(v, s)
    OBVIOUS
  <2>1. call[v] \in Call
    BY DEF IInv, TypeOK
  <2>2. CASE On(v, s)
    <3>1. call'[v] = [call[v] EXCEPT !.alone = FALSE]
      BY <1>1, <2>2
    <3>. QED
      BY <2>1, <3>1 DEF Call
  <2>3. CASE ~On(v, s)
    BY <1>1, <2>3
  <2>. QED
    BY <2>2, <2>3
<1>6. \A v \in Workers, t \in Sims :
        On(v, t)' <=> IF v = w THEN t = s ELSE On(v, t)
  BY <1>2, <1>3, <1>5 DEF On, Idle
<1>7. CallsFit'
  BY <1>2, <1>3, <1>4, <1>5 DEF IInv, CallsFit, Rows
<1>8. AloneIsAlone'
  BY <1>3, <1>5, <1>6 DEF IInv, AloneIsAlone
<1>9. AloneKnows'
  BY <1>2, <1>3, <1>4, <1>5, <1>6 DEF IInv, AloneKnows, Attachable, Rows
<1>10. SettledLinesAgree'
  BY <1>1, <1>2, <1>6 DEF IInv, TypeOK, SettledLinesAgree, Attachable
<1>. QED
  BY <1>1, <1>2, <1>7, <1>8, <1>9, <1>10
  DEF IInv, Core, UniqueImsi, CoreHoldsOwnKeys, Rows

\* A store call that took effect: the worker's call goes on or is dropped, and
\* every other call is as it was.
LEMMA AfterMoves ==
  ASSUME TypeOK, NEW w \in Workers,
         NEW a \in {"mark", "status"}, After(w, [call[w] EXCEPT !.at = a])
  PROVE  /\ \A v \in Workers : v # w => call'[v] = call[v]
         /\ \/ call'[w] = NoCall
            \/ /\ call'[w].at = a /\ call'[w].op = call[w].op
               /\ call'[w].org = call[w].org /\ call'[w].sim = call[w].sim
               /\ call'[w].imsi = call[w].imsi /\ call'[w].alone = call[w].alone
<1>. DEFINE c == [call[w] EXCEPT !.at = a]
<1>1. call[w] \in Call
  BY DEF TypeOK
<1>2. /\ c.at = a /\ c.op = call[w].op /\ c.org = call[w].org
      /\ c.sim = call[w].sim /\ c.imsi = call[w].imsi /\ c.alone = call[w].alone
  BY <1>1, Zenon DEF Call
<1>3. \/ call' = [call EXCEPT ![w] = c]
      \/ call' = [call EXCEPT ![w] = NoCall]
  BY DEF After
<1>. HIDE DEF c
<1>. QED
  BY <1>2, <1>3 DEF TypeOK

LEMMA UpsertStep ==
  ASSUME IInv, NEW w \in Workers, Upsert(w)
  PROVE  Core'
<1>. DEFINE a == IF call[w].op = "create" THEN "mark" ELSE "status"
<1>1. PICK s \in Rows :
        /\ s \in Sims /\ call[w].sim = s /\ call[w].imsi = sim[s].imsi
        /\ call[w].org = sim[s].org /\ call[w].op \in {"create", "resume"}
        /\ call[w].at = "upsert" /\ On(w, s)
  BY DEF Upsert, IInv, CallsFit, Rows, On, Idle
<1>2. UNCHANGED <<sim, hook, settled>> /\ core' = Put(sim[s].imsi, s)
  BY <1>1 DEF Upsert
<1>3. /\ \A v \in Workers : v # w => call'[v] = call[v]
      /\ \/ call'[w] = NoCall
         \/ /\ call'[w].at = a /\ call'[w].op = call[w].op
            /\ call'[w].org = call[w].org /\ call'[w].sim = s
            /\ call'[w].imsi = call[w].imsi /\ call'[w].alone = call[w].alone
  BY <1>1, AfterMoves DEF Upsert, IInv
<1>4. Attachable(s)' /\ \A t \in Rows : t # s => (Attachable(t)' <=> Attachable(t))
  BY <1>1, <1>2, PutServesLine DEF IInv
<1>5. \A v \in Workers, t \in Sims : On(v, t)' =>
        On(v, t) /\ (v = w => call'[w].at = a /\ call'[w].op = call[w].op)
  BY <1>1, <1>3 DEF On, Idle, NoCall
<1>6. CallsFit'
  BY <1>1, <1>2, <1>3 DEF IInv, CallsFit, NoCall, Rows
<1>7. CoreHoldsOwnKeys'
  BY <1>1, <1>2 DEF IInv, CoreHoldsOwnKeys, Put, Rows
<1>8. AloneIsAlone'
  BY <1>3, <1>5 DEF IInv, AloneIsAlone, NoCall
<1>9. AloneKnows'
  <2>. SUFFICES ASSUME NEW v \in Workers, NEW t \in Rows, On(v, t)',
                       call'[v].alone, hook, sim[t].imsi \notin SeedImsis
                PROVE  /\ call'[v].at = "upsert" /\ call'[v].op = "create"
                            => sim[t].status = "active"
                       /\ call'[v].at = "mark"
                            => sim[t].status = "active" /\ Attachable(t)'
                       /\ call'[v].at = "status"
                            => (call'[v].op = "resume" <=> Attachable(t)')
    BY <1>2 DEF AloneKnows, Rows
  <2>1. t \in Sims /\ On(v, t) /\ call[v].alone
    BY <1>3, <1>5 DEF Rows, NoCall
  <2>2. CASE v = w
    <3>1. t = s
      BY <1>1, <2>1, <2>2 DEF On
    <3>2. call[w].op = "create" => sim[s].status = "active"
      BY <1>1, <2>1, <2>2, <3>1 DEF IInv, AloneKnows
    <3>. QED
      BY <1>1, <1>4, <1>5, <2>2, <3>1, <3>2
  <2>3. CASE v # w
    <3>1. t # s
      BY <1>1, <2>1, <2>3 DEF IInv, AloneIsAlone
    <3>. QED
      BY <1>3, <1>4, <2>1, <2>3, <3>1 DEF IInv, AloneKnows
  <2>. QED
    BY <2>2, <2>3
<1>10. SettledLinesAgree'
  <2>1. s \notin settled
    BY <1>1 DEF IInv, SettledLinesAgree
  <2>. QED
    BY <1>2, <1>4, <1>5, <2>1 DEF IInv, TypeOK, SettledLinesAgree
<1>. QED
  BY <1>2, <1>6, <1>7, <1>8, <1>9, <1>10 DEF IInv, Core, UniqueImsi, Rows

LEMMA DeleteStep ==
  ASSUME IInv, NEW w \in Workers, Delete(w)
  PROVE  Core'
<1>1. PICK s \in Rows :
        /\ s \in Sims /\ call[w].sim = s /\ call[w].imsi = sim[s].imsi
        /\ call[w].org = sim[s].org /\ call[w].op \in {"suspend", "terminate"}
        /\ call[w].at = "delete" /\ On(w, s)
  BY DEF Delete, IInv, CallsFit, Rows, On, Idle
<1>2. UNCHANGED <<sim, hook, settled>> /\ core' = Remove(sim[s].imsi)
  BY <1>1 DEF Delete
<1>3. /\ \A v \in Workers : v # w => call'[v] = call[v]
      /\ \/ call'[w] = NoCall
         \/ /\ call'[w].at = "status" /\ call'[w].op = call[w].op
            /\ call'[w].org = call[w].org /\ call'[w].sim = s
            /\ call'[w].imsi = call[w].imsi /\ call'[w].alone = call[w].alone
  BY <1>1, AfterMoves DEF Delete, IInv
<1>4. ~Attachable(s)' /\ \A t \in Rows : t # s => (Attachable(t)' <=> Attachable(t))
  BY <1>1, <1>2, RemoveCutsLine DEF IInv
<1>5. \A v \in Workers, t \in Sims : On(v, t)' =>
        On(v, t) /\ (v = w => call'[w].at = "status" /\ call'[w].op = call[w].op)
  BY <1>1, <1>3 DEF On, Idle, NoCall
<1>6. CallsFit'
  BY <1>1, <1>2, <1>3 DEF IInv, CallsFit, NoCall, Rows
<1>7. CoreHoldsOwnKeys'
  BY <1>2 DEF IInv, CoreHoldsOwnKeys, Remove, Rows
<1>8. AloneIsAlone'
  BY <1>3, <1>5 DEF IInv, AloneIsAlone, NoCall
<1>9. AloneKnows'
  <2>. SUFFICES ASSUME NEW v \in Workers, NEW t \in Rows, On(v, t)',
                       call'[v].alone, hook, sim[t].imsi \notin SeedImsis
                PROVE  /\ call'[v].at = "upsert" /\ call'[v].op = "create"
                            => sim[t].status = "active"
                       /\ call'[v].at = "mark"
                            => sim[t].status = "active" /\ Attachable(t)'
                       /\ call'[v].at = "status"
                            => (call'[v].op = "resume" <=> Attachable(t)')
    BY <1>2 DEF AloneKnows, Rows
  <2>1. t \in Sims /\ On(v, t) /\ call[v].alone
    BY <1>3, <1>5 DEF Rows, NoCall
  <2>2. CASE v = w
    BY <1>1, <1>4, <1>5, <2>1, <2>2 DEF On
  <2>3. CASE v # w
    <3>1. t # s
      BY <1>1, <2>1, <2>3 DEF IInv, AloneIsAlone
    <3>. QED
      BY <1>3, <1>4, <2>1, <2>3, <3>1 DEF IInv, AloneKnows
  <2>. QED
    BY <2>2, <2>3
<1>10. SettledLinesAgree'
  <2>1. s \notin settled
    BY <1>1 DEF IInv, SettledLinesAgree
  <2>. QED
    BY <1>2, <1>4, <1>5, <2>1 DEF IInv, TypeOK, SettledLinesAgree
<1>. QED
  BY <1>2, <1>6, <1>7, <1>8, <1>9, <1>10 DEF IInv, Core, UniqueImsi, Rows

\* The last write of a request: a row's status or provisioned_at changes, the
\* call is over, and if it was alone its line settles.
LEMMA FinishStep ==
  ASSUME IInv, NEW w \in Workers, NEW s \in Rows, Finish(w), On(w, s),
         UNCHANGED <<core, hook>>, Rows' = Rows,
         \A t \in Sims : /\ sim'[t].imsi = sim[t].imsi
                         /\ sim'[t].org = sim[t].org
                         /\ t # s => sim'[t] = sim[t],
         call[w].alone /\ hook /\ sim[s].imsi \notin SeedImsis
           => (sim'[s].status = "active" <=> Attachable(s))
  PROVE  Core'
<1>1. s \in Sims
  BY DEF Rows
<1>2. /\ \A v \in Workers : v # w => call'[v] = call[v]
      /\ call'[w] = NoCall
      /\ settled' = IF call[w].alone /\ hook THEN settled \cup {s} ELSE settled
  BY DEF Finish, IInv, TypeOK, On
<1>3. \A v \in Workers, t \in Sims : On(v, t)' <=> v # w /\ On(v, t)
  BY <1>2 DEF On, Idle, NoCall
<1>4. \A t \in Rows : t \in Sims /\ (Attachable(t)' <=> Attachable(t))
  BY DEF Attachable, Rows
<1>5. s \notin settled
  BY DEF IInv, SettledLinesAgree
<1>6. CallsFit'
  BY <1>2 DEF IInv, CallsFit, NoCall, Rows
<1>7. UniqueImsi'
  BY <1>4 DEF IInv, UniqueImsi
<1>8. CoreHoldsOwnKeys'
  BY <1>4 DEF IInv, CoreHoldsOwnKeys
<1>9. AloneIsAlone'
  BY <1>2, <1>3 DEF IInv, AloneIsAlone
<1>10. AloneKnows'
  <2>. SUFFICES ASSUME NEW v \in Workers, NEW t \in Rows, On(v, t)',
                       call'[v].alone, hook, sim[t].imsi \notin SeedImsis
                PROVE  /\ call'[v].at = "upsert" /\ call'[v].op = "create"
                            => sim'[t].status = "active"
                       /\ call'[v].at = "mark"
                            => sim'[t].status = "active" /\ Attachable(t)
                       /\ call'[v].at = "status"
                            => (call'[v].op = "resume" <=> Attachable(t))
    BY <1>4 DEF AloneKnows
  <2>1. v # w /\ On(v, t) /\ call'[v] = call[v]
    BY <1>2, <1>3, <1>4
  <2>2. t # s
    BY <1>1, <1>2, <2>1 DEF IInv, AloneIsAlone
  <2>. QED
    BY <1>4, <2>1, <2>2 DEF IInv, AloneKnows
<1>11. SettledLinesAgree'
  <2>. SUFFICES ASSUME NEW t \in settled'
                PROVE  /\ \A v \in Workers : ~On(v, t)'
                       /\ sim'[t].imsi \notin SeedImsis
                            => (sim'[t].status = "active" <=> Attachable(t)')
    BY DEF SettledLinesAgree
  <2>1. CASE t = s /\ call[w].alone /\ hook
    BY <1>1, <1>3, <1>4, <2>1 DEF IInv, AloneIsAlone
  <2>2. CASE t \in settled
    BY <1>1, <1>3, <1>4, <1>5, <2>2 DEF IInv, SettledLinesAgree
  <2>. QED
    BY <1>2, <2>1, <2>2
<1>. QED
  BY <1>2, <1>6, <1>7, <1>8, <1>9, <1>10, <1>11 DEF IInv, Core

LEMMA MarkProvisionedStep ==
  ASSUME IInv, NEW w \in Workers, MarkProvisioned(w)
  PROVE  Core'
<1>1. PICK s \in Rows : call[w].sim = s /\ call[w].at = "mark" /\ On(w, s)
  BY DEF MarkProvisioned, IInv, CallsFit, On, Idle
<1>2. /\ Rows' = Rows
      /\ \A t \in Sims : /\ sim'[t].imsi = sim[t].imsi
                         /\ sim'[t].org = sim[t].org
                         /\ sim'[t].status = sim[t].status
                         /\ t # s => sim'[t] = sim[t]
  BY <1>1, ProvisionedWrite DEF MarkProvisioned, IInv
<1>3. call[w].alone /\ hook /\ sim[s].imsi \notin SeedImsis
        => (sim'[s].status = "active" <=> Attachable(s))
  BY <1>1, <1>2 DEF IInv, AloneKnows, Rows
<1>. QED
  BY <1>1, <1>2, <1>3, FinishStep DEF MarkProvisioned

LEMMA UpdateStatusStep ==
  ASSUME IInv, NEW w \in Workers, UpdateStatus(w)
  PROVE  Core'
<1>1. PICK s \in Rows :
        /\ call[w].sim = s /\ call[w].at = "status" /\ On(w, s)
        /\ call[w].op \in {"suspend", "resume", "terminate"}
  BY DEF UpdateStatus, IInv, CallsFit, On, Idle
<1>2. /\ Outcome(call[w].op) \in {"active"} \cup Cut
      /\ Outcome(call[w].op) = "active" <=> call[w].op = "resume"
  BY <1>1 DEF Outcome, Cut
<1>3. /\ Rows' = Rows
      /\ sim'[s].status = Outcome(call[w].op)
      /\ \A t \in Sims : /\ sim'[t].imsi = sim[t].imsi
                         /\ sim'[t].org = sim[t].org
                         /\ t # s => sim'[t] = sim[t]
  BY <1>1, <1>2, StatusWrite DEF UpdateStatus, IInv
<1>4. call[w].alone /\ hook /\ sim[s].imsi \notin SeedImsis
        => (sim'[s].status = "active" <=> Attachable(s))
  BY <1>1, <1>2, <1>3 DEF IInv, AloneKnows
<1>. QED
  BY <1>1, <1>3, <1>4, FinishStep DEF UpdateStatus

LEMMA SeedStep ==
  ASSUME IInv, NEW i \in SeedImsis, SeedUE(i)
  PROVE  Core'
<1>1. UNCHANGED <<sim, call, hook, settled>> /\ core' = Put(i, SeedKey)
  BY DEF SeedUE
<1>2. \A t \in Rows : sim[t].imsi \notin SeedImsis
                        => (Attachable(t)' <=> Attachable(t))
  BY <1>1, SeedKeepsLines DEF IInv
<1>3. Rows' = Rows /\ \A v \in Workers, t \in Sims : On(v, t)' <=> On(v, t)
  BY <1>1 DEF Rows, On, Idle
<1>4. CoreHoldsOwnKeys'
  BY <1>1, <1>3 DEF IInv, CoreHoldsOwnKeys, Put
<1>5. AloneKnows'
  BY <1>1, <1>2, <1>3 DEF IInv, AloneKnows, Rows
<1>6. SettledLinesAgree'
  BY <1>1, <1>2, <1>3 DEF IInv, SettledLinesAgree, Rows
<1>. QED
  BY <1>1, <1>3, <1>4, <1>5, <1>6
  DEF IInv, Core, CallsFit, UniqueImsi, AloneIsAlone

-----------------------------------------------------------------------------
(* The theorems.                                                            *)

LEMMA InvInit == Init => TypeInv /\ IInv
<1>. SUFFICES ASSUME Init PROVE TypeInv /\ Core
  BY DEF TypeInv, IInv, Core
<1>1. Rows = {} /\ \A w \in Workers : call[w] = NoCall
  BY DEF Init, Rows, NoRow
<1>2. \A w \in Workers, s \in Sims : ~On(w, s)
  BY <1>1 DEF On, Idle, NoCall
<1>. QED
  BY <1>1, <1>2, TypeInit
  DEF Init, Core, CallsFit, UniqueImsi, CoreHoldsOwnKeys, AloneIsAlone,
      AloneKnows, SettledLinesAgree, NoCall

LEMMA InvStep == TypeInv /\ IInv /\ [Next]_vars => TypeInv' /\ IInv'
<1>. SUFFICES ASSUME TypeInv, IInv, [Next]_vars PROVE TypeInv' /\ Core'
  BY DEF TypeInv, IInv, Core
<1>1. TypeInv'
  BY TypeStep DEF IInv
<1>2. ASSUME NEW w \in Workers, InsertConflict(w) \/ Fails(w) PROVE Core'
  <2>1. /\ UNCHANGED <<sim, core, settled>>
        /\ \A v \in Workers : \/ call'[v] = call[v] /\ hook' = hook
                              \/ call'[v] = NoCall
    BY <1>2 DEF InsertConflict, Fails, IInv, TypeOK
  <2>. QED
    BY <2>1, DropStep
<1>3. ASSUME Restart PROVE Core'
  <2>1. /\ UNCHANGED <<sim, core, settled>>
        /\ \A v \in Workers : call'[v] = NoCall
    BY <1>3 DEF Restart
  <2>. QED
    BY <2>1, DropStep
<1>4. ASSUME UNCHANGED vars PROVE Core'
  <2>1. UNCHANGED <<sim, core, call, hook, settled>>
    BY <1>4 DEF vars
  <2>. QED
    BY <2>1, DropStep
<1>. QED
  BY <1>1, <1>2, <1>3, <1>4, CreateStep, BeginStep, InsertStep, UpsertStep,
     MarkProvisionedStep, DeleteStep, UpdateStatusStep, SeedStep
  DEF Next, Step

\* The inductive invariant holds in every reachable state.
THEOREM Invariant == Spec => [](TypeInv /\ IInv)
  BY InvInit, InvStep, PTL DEF Spec

\* Type correctness, for any number of workers, SIMs and tenants.
THEOREM TypeCorrect == Spec => []TypeOK
<1>1. TypeInv => TypeOK
  BY DEF TypeInv
<1>. QED
  BY Invariant, <1>1, PTL

\* What the last call reported on a line nobody else is working on is what the
\* 5G core does, and no interleaving or failure leaves a stray subscriber in it.
THEOREM CoreAgrees == Spec => []CoreIsTrue
<1>1. IInv => CoreIsTrue
  BY DEF IInv, CoreIsTrue
<1>. QED
  BY Invariant, <1>1, PTL

\* No interleaving or failure gives two SIMs one IMSI.
THEOREM ImsisAreUnique == Spec => []UniqueImsi
<1>1. IInv => UniqueImsi
  BY DEF IInv
<1>. QED
  BY Invariant, <1>1, PTL

-----------------------------------------------------------------------------
(* Dense numbering.                                                         *)

Dense == DenseMsins /\ CountsNotAhead

\* A step that inserts no row and starts no Create keeps the numbering.
LEMMA DenseKept ==
  ASSUME IInv, Dense, Rows' = Rows,
         \A s \in Rows : sim'[s].imsi = sim[s].imsi,
         \A v \in Workers : call'[v].at = "insert" =>
                              call[v].at = "insert" /\ call'[v].imsi = call[v].imsi
  PROVE  Dense'
<1>1. Taken' = Taken
  BY DEF Taken
<1>. QED
  BY <1>1 DEF Dense, DenseMsins, CountsNotAhead

LEMMA DenseCreate ==
  ASSUME TypeInv, IInv, Dense, NEW w \in Workers, Create(w)
  PROVE  Dense'
<1>1. Cardinality(Rows) \in Nat
  BY FS_CardinalityType DEF TypeInv
<1>2. /\ call'[w].imsi \in Explicit \cup {NextMSIN}
      /\ \A v \in Workers : v # w => call'[v] = call[v]
      /\ UNCHANGED sim
  BY DEF Create, IInv, TypeOK
<1>3. NextMSIN \in 1 .. Cardinality(Rows) + 1
  BY <1>1 DEF NextMSIN
<1>4. Rows' = Rows /\ Taken' = Taken
  BY <1>2 DEF Rows, Taken
<1>. QED
  BY <1>2, <1>3, <1>4 DEF Dense, DenseMsins, CountsNotAhead

LEMMA DenseInsert ==
  ASSUME TypeInv, IInv, Dense, NEW w \in Workers, Insert(w)
  PROVE  Dense'
<1>. DEFINE n == Cardinality(Rows)
            i == call[w].imsi
            r == [org |-> call[w].org, imsi |-> i,
                  status |-> "active", provisioned |-> FALSE]
<1>1. n \in Nat
  BY FS_CardinalityType DEF TypeInv
<1>2. /\ Taken \subseteq Explicit \cup 1 .. n /\ i \in Explicit \cup 1 .. n + 1
      /\ i \notin Taken /\ (Explicit = {} => Taken = 1 .. n)
  BY DEF Dense, DenseMsins, CountsNotAhead, Insert
<1>3. Explicit = {} => i = n + 1
  BY <1>1, <1>2
<1>4. PICK s \in Sims \ Rows : sim' = [sim EXCEPT ![s] = r]
  BY DEF Insert
<1>5. r \in Row /\ r.status # "none" /\ r.imsi = i
  BY NewRowTyped DEF IInv
<1>. HIDE DEF r
<1>6. /\ Rows' = Rows \cup {s} /\ sim'[s] = r
      /\ \A t \in Sims : t # s => sim'[t] = sim[t]
  BY <1>4, <1>5, InsertAddsRow DEF IInv
<1>7. Cardinality(Rows') = n + 1
  BY <1>1, <1>4, <1>6, FS_AddElement DEF TypeInv
<1>8. Taken' = Taken \cup {i}
  <2>1. \A t \in Rows : sim'[t].imsi = sim[t].imsi
    BY <1>6 DEF Rows
  <2>2. sim'[s].imsi = i
    BY <1>5, <1>6
  <2>. HIDE DEF n, i
  <2>. QED
    BY <1>6, <2>1, <2>2 DEF Taken
<1>9. /\ Taken' \subseteq Explicit \cup 1 .. n + 1
      /\ Explicit = {} => Taken' = 1 .. n + 1
  <2>. HIDE DEF n, i
  <2>. QED
    BY <1>1, <1>2, <1>3, <1>8
<1>10. \A v \in Workers : call'[v].at = "insert" =>
         call[v].at = "insert" /\ call'[v].imsi = call[v].imsi
  <2>1. PICK t \in Sims \ Rows :
          After(w, IF hook THEN [call[w] EXCEPT !.at = "upsert", !.sim = t]
                           ELSE NoCall)
    BY DEF Insert
  <2>2. [call[w] EXCEPT !.at = "upsert", !.sim = t].at = "upsert"
    BY DEF IInv, TypeOK, Call
  <2>. DEFINE c == [call[w] EXCEPT !.at = "upsert", !.sim = t]
  <2>3. call' = [call EXCEPT ![w] = c] \/ call' = [call EXCEPT ![w] = NoCall]
    BY <2>1 DEF After
  <2>4. NoCall.at # "insert" /\ c.at # "insert" /\ call \in [Workers -> Call]
    BY <2>2 DEF NoCall, IInv, TypeOK
  <2>. HIDE DEF c
  <2>5. call'[w].at # "insert" /\ \A v \in Workers : v # w => call'[v] = call[v]
    BY <2>3, <2>4
  <2>. QED
    BY <2>5
<1>11. CountsNotAhead'
  BY <1>1, <1>7, <1>10 DEF Dense, CountsNotAhead
<1>. QED
  BY <1>7, <1>9, <1>11 DEF Dense, DenseMsins

LEMMA DenseStep == TypeInv /\ IInv /\ Dense /\ [Next]_vars => Dense'
<1>. SUFFICES ASSUME TypeInv, IInv, Dense, [Next]_vars PROVE Dense'
  OBVIOUS
<1>0. NoCall.at = "idle"
  BY DEF NoCall
<1>1. ASSUME NEW w \in Workers, Begin(w) PROVE Dense'
  <2>1. \A v \in Workers : call'[v].at = "insert" =>
          call[v].at = "insert" /\ call'[v].imsi = call[v].imsi
    <3>. SUFFICES ASSUME NEW v \in Workers, call'[v].at = "insert"
                  PROVE  call[v].at = "insert" /\ call'[v].imsi = call[v].imsi
      OBVIOUS
    <3>1. v # w
      BY <1>1 DEF Begin
    <3>2. call'[v] = call[v] \/ call'[v] = [call[v] EXCEPT !.alone = FALSE]
      BY <1>1, <3>1 DEF Begin
    <3>3. call[v] \in Call
      BY DEF IInv, TypeOK
    <3>4. [call[v] EXCEPT !.alone = FALSE].at = call[v].at
          /\ [call[v] EXCEPT !.alone = FALSE].imsi = call[v].imsi
      BY <3>3, Zenon DEF Call
    <3>. QED
      BY <3>2, <3>4
  <2>. QED
    BY <1>1, <2>1, DenseKept DEF Begin, Rows
<1>2. ASSUME NEW w \in Workers, Upsert(w) \/ Delete(w) PROVE Dense'
  <2>1. \A v \in Workers : call'[v].at = "insert" => call'[v] = call[v]
    <3>1. CASE Upsert(w)
      BY <1>0, <3>1, AfterMoves DEF Upsert, IInv
    <3>2. CASE Delete(w)
      BY <1>0, <3>2, AfterMoves DEF Delete, IInv
    <3>. QED
      BY <1>2, <3>1, <3>2
  <2>. QED
    BY <1>2, <2>1, DenseKept DEF Upsert, Delete, Rows
<1>3. ASSUME NEW w \in Workers, MarkProvisioned(w) PROVE Dense'
  <2>1. call[w].sim \in Rows
    BY <1>3 DEF MarkProvisioned, IInv, CallsFit
  <2>2. Rows' = Rows /\ \A s \in Rows : sim'[s].imsi = sim[s].imsi
    BY <1>3, <2>1, ProvisionedWrite DEF MarkProvisioned, IInv, Rows
  <2>. QED
    BY <1>0, <1>3, <2>2, DenseKept DEF MarkProvisioned, Finish, IInv, TypeOK
<1>4. ASSUME NEW w \in Workers, UpdateStatus(w) PROVE Dense'
  <2>1. call[w].sim \in Rows /\ Outcome(call[w].op) \in {"active"} \cup Cut
    BY <1>4 DEF UpdateStatus, IInv, CallsFit, Outcome, Cut
  <2>2. Rows' = Rows /\ \A s \in Rows : sim'[s].imsi = sim[s].imsi
    BY <1>4, <2>1, StatusWrite DEF UpdateStatus, IInv, Rows
  <2>. QED
    BY <1>0, <1>4, <2>2, DenseKept DEF UpdateStatus, Finish, IInv, TypeOK
<1>5. ASSUME NEW w \in Workers, InsertConflict(w) \/ Fails(w) PROVE Dense'
  BY <1>0, <1>5, DenseKept DEF InsertConflict, Fails, IInv, TypeOK, Rows
<1>6. ASSUME Restart PROVE Dense'
  <2>1. UNCHANGED sim /\ \A v \in Workers : call'[v] = NoCall
    BY <1>6 DEF Restart
  <2>. QED
    BY <1>0, <2>1, DenseKept DEF Rows
<1>7. ASSUME NEW i \in SeedImsis, SeedUE(i) PROVE Dense'
  BY <1>7, DenseKept DEF SeedUE, Rows
<1>8. ASSUME UNCHANGED vars PROVE Dense'
  <2>1. UNCHANGED <<sim, call>>
    BY <1>8 DEF vars
  <2>. QED
    BY <2>1, DenseKept DEF Rows
<1>. QED
  BY <1>1, <1>2, <1>3, <1>4, <1>5, <1>6, <1>7, <1>8, DenseCreate, DenseInsert
  DEF Next, Step

\* The numbers assigned by the count stay within the number of SIMs, and are
\* 1..n without callers who choose their own, for any number of racing Creates.
THEOREM MsinsAreDense == Spec => []DenseMsins
<1>1. Init => Dense
  <2>. SUFFICES ASSUME Init PROVE Dense
    OBVIOUS
  <2>1. Rows = {} /\ Taken = {} /\ \A w \in Workers : call[w].at = "idle"
    BY DEF Init, Rows, NoRow, Taken, NoCall
  <2>2. Cardinality(Rows) = 0
    BY <2>1, FS_EmptySet
  <2>. QED
    BY <2>1, <2>2 DEF Dense, DenseMsins, CountsNotAhead
<1>2. Dense => DenseMsins
  BY DEF Dense
<1>. QED
  BY Invariant, <1>1, DenseStep, <1>2, PTL DEF Spec

-----------------------------------------------------------------------------
(* Tenant isolation.                                                        *)

\* Every step on a row or on its core record is a step of the row's tenant.
THEOREM TenantsAreIsolated == Spec => TenantIsolation
<1>. DEFINE ByTenant ==
       \A s \in Rows :
         \/ sim'[s] = sim[s] /\ (Attachable(s)' <=> Attachable(s))
         \/ sim[s].imsi \in SeedImsis
         \/ \E w \in Workers : /\ call'[w] # call[w]
                               /\ On(w, s)
                               /\ call[w].org = sim[s].org
<1>1. TypeInv /\ IInv /\ [Next]_vars => [ByTenant]_vars
  <2>. SUFFICES ASSUME IInv, Next PROVE ByTenant
    OBVIOUS
  <2>0. NoCall.at = "idle"
    BY DEF NoCall
  <2>1. ASSUME UNCHANGED stores PROVE ByTenant
    BY <2>1 DEF stores, Attachable
  <2>2. ASSUME NEW w \in Workers, Insert(w) PROVE ByTenant
    <3>1. \A s \in Rows : sim'[s] = sim[s] /\ UNCHANGED core
      BY <2>2 DEF Insert, IInv, TypeOK, Rows
    <3>. QED
      BY <3>1 DEF Attachable
  <2>3. ASSUME NEW w \in Workers, NEW t \in Rows, On(w, t),
               call'[w] # call[w], call[w].org = sim[t].org,
               \A s \in Rows : s # t => /\ sim'[s] = sim[s]
                                        /\ Attachable(s)' <=> Attachable(s)
        PROVE  ByTenant
    BY <2>3
  <2>4. ASSUME NEW w \in Workers, Upsert(w) \/ Delete(w) PROVE ByTenant
    <3>1. PICK t \in Rows : /\ On(w, t) /\ call[w].sim = t
                            /\ call[w].org = sim[t].org
                            /\ call[w].imsi = sim[t].imsi
      BY <2>4 DEF Upsert, Delete, IInv, CallsFit, On, Idle
    <3>2. call'[w] # call[w]
      <4>1. CASE Upsert(w)
        BY <2>0, <4>1, AfterMoves DEF Upsert, IInv
      <4>2. CASE Delete(w)
        BY <2>0, <4>2, AfterMoves DEF Delete, IInv
      <4>. QED
        BY <2>4, <4>1, <4>2
    <3>3. \A s \in Rows : s # t => (Attachable(s)' <=> Attachable(s))
      BY <2>4, <3>1, PutServesLine, RemoveCutsLine DEF Upsert, Delete, IInv
    <3>. QED
      BY <2>3, <2>4, <3>1, <3>2, <3>3 DEF Upsert, Delete
  <2>5. ASSUME NEW w \in Workers, MarkProvisioned(w) \/ UpdateStatus(w)
        PROVE  ByTenant
    <3>1. PICK t \in Rows : /\ On(w, t) /\ call[w].sim = t
                            /\ call[w].org = sim[t].org
      BY <2>5 DEF MarkProvisioned, UpdateStatus, IInv, CallsFit, On, Idle
    <3>2. call'[w] # call[w]
      BY <2>0, <2>5 DEF MarkProvisioned, UpdateStatus, Finish, IInv, TypeOK
    <3>3. \A s \in Rows : s # t => sim'[s] = sim[s] /\ UNCHANGED core
      BY <2>5, <3>1 DEF MarkProvisioned, UpdateStatus, IInv, TypeOK, Rows
    <3>. QED
      BY <2>3, <3>1, <3>2, <3>3 DEF Attachable
  <2>6. ASSUME NEW i \in SeedImsis, SeedUE(i) PROVE ByTenant
    BY <2>6, SeedKeepsLines DEF SeedUE, IInv
  <2>. QED
    BY <2>1, <2>2, <2>4, <2>5, <2>6
    DEF Next, Step, Create, Begin, InsertConflict, Fails, Restart, stores
<1>. QED
  BY Invariant, <1>1, PTL DEF Spec, TenantIsolation
=============================================================================
