---------------------------- MODULE SimLifecycle ----------------------------
(***************************************************************************)
(* The SIM lifecycle of svc-aerial-subscriber: Create, Suspend, Resume and  *)
(* Terminate served concurrently over two stores that share no transaction, *)
(* the Postgres table subscriber.sims and the Open5GS subscriber collection *)
(* (MongoDB) that the 5G core reads when a UE attaches.                     *)
(*                                                                          *)
(* A worker is one HTTP request being served.  Between two calls to a store *)
(* any other worker may run; a store call is one step (one SQL statement in *)
(* autocommit mode, one Mongo command on one document).                     *)
(***************************************************************************)
EXTENDS Naturals, FiniteSets

CONSTANTS
  Workers,     \* requests the service can be serving at the same time
  Sims,        \* row ids the table can hand out (bounds the number of SIMs)
  Orgs,        \* tenants, as found in the callers' tokens
  None,        \* the empty value of an id
  Explicit,    \* IMSIs callers choose themselves, as MSIN numbers
  SeedImsis,   \* IMSIs the open5gs-seed-ues job writes, as MSIN numbers
  SeedKey,     \* the Ki/OPc pair of the seed job
  Ops,         \* kinds of request the callers make
  Faults,      \* what may go wrong, see Fails, After and Restart
  BootHooks    \* whether Mongo may answer (TRUE) or not (FALSE) at start-up

ASSUME ConstantsAssumption ==
  /\ None \notin Sims \cup Orgs
  /\ SeedKey \notin Sims
  /\ Explicit \subseteq Nat /\ SeedImsis \subseteq Nat
  /\ Ops \subseteq {"create", "suspend", "resume", "terminate"}
  /\ Faults \subseteq {"lost", "unacked", "crash"}
  /\ BootHooks \subseteq BOOLEAN /\ BootHooks # {}

VARIABLES
  sim,      \* subscriber.sims: the row of each id
  core,     \* the Open5GS collection: a set of [imsi, key] documents
  call,     \* what each worker is doing
  hook,     \* is the service's Provisioner non-nil?
  settled   \* history: the lines whose last call had the line to itself
            \* and ran to its last store write with the Provisioner present

vars == <<sim, core, call, hook, settled>>
stores == <<sim, core>>

-----------------------------------------------------------------------------
(* The two stores.                                                          *)

Cut == {"suspended", "terminated"}

Row == [org : Orgs \cup {None}, imsi : Nat,
        status : {"none", "active"} \cup Cut, provisioned : BOOLEAN]

\* An id the table has not handed out.
NoRow == [org |-> None, imsi |-> 0, status |-> "none", provisioned |-> FALSE]

Doc == [imsi : Nat, key : Sims \cup {SeedKey}]

Rows == {s \in Sims : sim[s].status # "none"}

Taken == {sim[s].imsi : s \in Rows}

\* Faulty variant: the count starts one number late.
NextMSIN_Skips == Cardinality(Rows) + 2

\* The count is not filtered by status: rows are never deleted.
NextMSIN == Cardinality(Rows) + 1

\* UpdateOne by IMSI with upsert: the one document of that IMSI is replaced.
Put(i, k) == {d \in core : d.imsi # i} \cup {[imsi |-> i, key |-> k]}

Remove(i) == {d \in core : d.imsi # i}

\* A UE holding SIM s can attach: the core has its IMSI with its keys.
Attachable(s) == [imsi |-> sim[s].imsi, key |-> s] \in core

-----------------------------------------------------------------------------
(* Requests.                                                                *)

Call == [at : {"idle", "insert", "upsert", "mark", "delete", "status"},
         op : {"none", "create", "suspend", "resume", "terminate"},
         org : Orgs \cup {None}, sim : Sims \cup {None}, imsi : Nat,
         alone : BOOLEAN]

NoCall == [at |-> "idle", op |-> "none", org |-> None, sim |-> None,
           imsi |-> 0, alone |-> FALSE]

Idle(w) == call[w].at = "idle"

\* Worker w is between the first and the last store call of a request on s.
On(w, s) == ~Idle(w) /\ call[w].sim = s

\* Faulty variant: the row's org is not compared with the caller's.
Owned_Anyone(s, o) == s \in Rows /\ o \in Orgs

\* ownedByOrg: the row exists and its org is the caller's.
Owned(s, o) == s \in Rows /\ sim[s].org = o

\* A store call took effect and the handler goes on to `next'; or it took
\* effect but its answer was lost, and the handler returns the error.
After(w, next) ==
  \/ call' = [call EXCEPT ![w] = next]
  \/ "unacked" \in Faults /\ call' = [call EXCEPT ![w] = NoCall]

\* The last store write of a request.
Finish(w) ==
  /\ call' = [call EXCEPT ![w] = NoCall]
  /\ settled' = IF call[w].alone /\ hook THEN settled \cup {call[w].sim}
                                         ELSE settled

-----------------------------------------------------------------------------
(* The steps of a request.                                                  *)

\* Create up to its first write: the IMSI is the caller's, or NextMSIN now.
Create(w) ==
  /\ Idle(w)
  /\ "create" \in Ops
  /\ \E o \in Orgs, i \in Explicit \cup {NextMSIN} :
       call' = [call EXCEPT ![w] = [at |-> "insert", op |-> "create", org |-> o,
                                    sim |-> None, imsi |-> i, alone |-> TRUE]]
  /\ UNCHANGED <<sim, core, hook, settled>>

\* The INSERT of repository.Create.  UNIQUE(imsi) lets one row per IMSI in.
\* Without a Provisioner it is the last write of the request.
Insert(w) ==
  /\ call[w].at = "insert"
  /\ call[w].imsi \notin Taken
  /\ \E s \in Sims \ Rows :
       /\ sim' = [sim EXCEPT ![s] = [org |-> call[w].org, imsi |-> call[w].imsi,
                                     status |-> "active", provisioned |-> FALSE]]
       /\ After(w, IF hook THEN [call[w] EXCEPT !.at = "upsert", !.sim = s]
                           ELSE NoCall)
  /\ UNCHANGED <<core, hook, settled>>

\* isUniqueViolation: the request ends with ErrSIMExists.
InsertConflict(w) ==
  /\ call[w].at = "insert"
  /\ call[w].imsi \in Taken
  /\ call' = [call EXCEPT ![w] = NoCall]
  /\ UNCHANGED <<sim, core, hook, settled>>

\* ownedByOrg, the first call of Suspend, Resume and Terminate.  A SIM that is
\* not the caller's is answered ErrSIMNotFound and nothing changes.  The
\* history notes which requests on the same line overlap.
Begin(w) ==
  /\ Idle(w)
  /\ \E o \in Orgs, s \in Rows, op \in Ops \ {"create"} :
       LET others == {v \in Workers : On(v, s)}
           first  == IF ~hook THEN "status"
                     ELSE IF op = "resume" THEN "upsert" ELSE "delete"
       IN  /\ Owned(s, o)
           /\ call' = [v \in Workers |->
                IF v = w THEN [at |-> first, op |-> op, org |-> o, sim |-> s,
                               imsi |-> sim[s].imsi, alone |-> others = {}]
                ELSE IF v \in others THEN [call[v] EXCEPT !.alone = FALSE]
                ELSE call[v]]
           /\ settled' = settled \ {s}
  /\ UNCHANGED <<sim, core, hook>>

\* Faulty variant: the IMSI is computed again instead of read from the row.
Upsert_Recounts(w) ==
  /\ call[w].at = "upsert"
  /\ core' = Put(NextMSIN, call[w].sim)
  /\ After(w, [call[w] EXCEPT !.at = IF call[w].op = "create" THEN "mark"
                                                              ELSE "status"])
  /\ UNCHANGED <<sim, hook, settled>>

\* Open5GS Upsert by Create or Resume.
Upsert(w) ==
  /\ call[w].at = "upsert"
  /\ core' = Put(call[w].imsi, call[w].sim)
  /\ After(w, [call[w] EXCEPT !.at = IF call[w].op = "create" THEN "mark"
                                                              ELSE "status"])
  /\ UNCHANGED <<sim, hook, settled>>

\* MarkProvisioned, the last write of Create.
MarkProvisioned(w) ==
  /\ call[w].at = "mark"
  /\ sim' = [sim EXCEPT ![call[w].sim].provisioned = TRUE]
  /\ Finish(w)
  /\ UNCHANGED <<core, hook>>

\* Faulty variant: the error of the removal is dropped and the handler goes on.
Delete_Swallows(w) ==
  /\ call[w].at = "delete"
  /\ \/ core' = Remove(call[w].imsi)
     \/ "lost" \in Faults /\ UNCHANGED core
  /\ After(w, [call[w] EXCEPT !.at = "status"])
  /\ UNCHANGED <<sim, hook, settled>>

\* Open5GS Delete by Suspend or Terminate.
Delete(w) ==
  /\ call[w].at = "delete"
  /\ core' = Remove(call[w].imsi)
  /\ After(w, [call[w] EXCEPT !.at = "status"])
  /\ UNCHANGED <<sim, hook, settled>>

\* Faulty variant: a status the table's readers do not know.
Outcome_Unknown(op) == IF op = "terminate" THEN "deleted" ELSE "active"

Outcome(op) == CASE op = "suspend"   -> "suspended"
                 [] op = "resume"    -> "active"
                 [] op = "terminate" -> "terminated"

\* UpdateStatus writes the status whatever the row's status is by now.
UpdateStatus(w) ==
  /\ call[w].at = "status"
  /\ sim' = [sim EXCEPT ![call[w].sim].status = Outcome(call[w].op)]
  /\ Finish(w)
  /\ UNCHANGED <<core, hook>>

\* The store call the handler is about to make fails without effect: every
\* handler returns the error at once and leaves earlier writes in place.
Fails(w) ==
  /\ "lost" \in Faults
  /\ ~Idle(w)
  /\ call' = [call EXCEPT ![w] = NoCall]
  /\ UNCHANGED <<sim, core, hook, settled>>

-----------------------------------------------------------------------------
(* The environment.                                                         *)

\* The process dies with its requests and boots again; if Mongo does not
\* answer the boot-time ping it runs without a Provisioner until it dies.
Restart ==
  /\ "crash" \in Faults
  /\ call' = [w \in Workers |-> NoCall]
  /\ hook' \in BootHooks
  /\ UNCHANGED <<sim, core, settled>>

\* One update of the open5gs-seed-ues job, which may be applied at any time.
SeedUE(i) ==
  /\ core' = Put(i, SeedKey)
  /\ UNCHANGED <<sim, call, hook, settled>>

-----------------------------------------------------------------------------

Init ==
  /\ sim = [s \in Sims |-> NoRow]
  /\ core = {}
  /\ call = [w \in Workers |-> NoCall]
  /\ hook \in BootHooks
  /\ settled = {}

Step(w) ==
  \/ Insert(w) \/ InsertConflict(w)
  \/ Upsert(w) \/ MarkProvisioned(w) \/ Delete(w) \/ UpdateStatus(w)

Next ==
  \/ \E w \in Workers : Create(w) \/ Begin(w) \/ Step(w) \/ Fails(w)
  \/ Restart
  \/ \E i \in SeedImsis : SeedUE(i)

Spec == Init /\ [][Next]_vars

-----------------------------------------------------------------------------
(* Properties.                                                              *)

\* The values every variable ranges over.
TypeOK ==
  /\ sim \in [Sims -> Row]
  /\ core \subseteq Doc
  /\ call \in [Workers -> Call]
  /\ hook \in BOOLEAN
  /\ settled \subseteq Sims

\* Whatever fails, overlaps or crashes, the keys of a SIM are in the core only
\* under the IMSI of its row: a half-done Create leaves no stray subscriber.
CoreHoldsOwnKeys ==
  \A d \in core : d.key # SeedKey => d.key \in Rows /\ d.imsi = sim[d.key].imsi

\* Once a call that had the line to itself has done its last write, the status
\* in Postgres and the 5G core agree, whatever failures, overlaps or restarts
\* came before, until the next call on that line.
SettledLinesAgree ==
  \A s \in settled : /\ \A w \in Workers : ~On(w, s)
                     /\ sim[s].imsi \notin SeedImsis
                          => (sim[s].status = "active" <=> Attachable(s))

\* Both: what the core lets attach is what the rows say.
CoreIsTrue == CoreHoldsOwnKeys /\ SettledLinesAgree

\* The numbers the service assigns never run ahead of the number of SIMs: the
\* next count is free unless a caller chose it, and with no such callers the
\* MSINs are 1..n.  Racing Creates that counted the same rows skip none.
DenseMsins ==
  /\ Taken \subseteq Explicit \cup 1 .. Cardinality(Rows)
  /\ Explicit = {} => Taken = 1 .. Cardinality(Rows)

\* A row or its core record changes only in a step of a request that the
\* row's own tenant made on that row.
TenantIsolation ==
  [][\A s \in Rows :
       \/ sim'[s] = sim[s] /\ (Attachable(s)' <=> Attachable(s))
       \/ sim[s].imsi \in SeedImsis
       \/ \E w \in Workers : /\ call'[w] # call[w]
                             /\ On(w, s)
                             /\ call[w].org = sim[s].org]_vars

-----------------------------------------------------------------------------
(* The inductive invariant behind these properties.                         *)

\* The calls of a request follow the handler: which request makes which call,
\* on a row that exists, is the caller's, and has the IMSI the request read.
CallsFit ==
  \A w \in Workers :
    LET c == call[w] IN
    /\ c.at = "insert" => c.op = "create" /\ c.sim = None /\ c.org \in Orgs
    /\ c.at = "upsert" => c.op \in {"create", "resume"}
    /\ c.at = "mark"   => c.op = "create"
    /\ c.at = "delete" => c.op \in {"suspend", "terminate"}
    /\ c.at = "status" => c.op \in {"suspend", "resume", "terminate"}
    /\ c.at \in {"upsert", "mark", "delete", "status"} =>
         c.sim \in Rows /\ c.imsi = sim[c.sim].imsi /\ c.org = sim[c.sim].org

\* A request marked alone is the only one on its line.
AloneIsAlone ==
  \A v, w \in Workers : \A s \in Sims :
    On(v, s) /\ On(w, s) /\ call[w].alone => v = w

\* What a request that has its line to itself already knows of both stores.
AloneKnows ==
  \A w \in Workers, s \in Rows :
    On(w, s) /\ call[w].alone /\ hook /\ sim[s].imsi \notin SeedImsis =>
      /\ call[w].at = "upsert" /\ call[w].op = "create"
           => sim[s].status = "active"
      /\ call[w].at = "mark" => sim[s].status = "active" /\ Attachable(s)
      /\ call[w].at = "status" => (call[w].op = "resume" <=> Attachable(s))

\* UNIQUE(imsi).
UniqueImsi ==
  \A s, t \in Rows : sim[s].imsi = sim[t].imsi => s = t

IInv ==
  /\ TypeOK
  /\ settled \subseteq Rows
  /\ CallsFit
  /\ UniqueImsi
  /\ CoreHoldsOwnKeys
  /\ AloneIsAlone
  /\ AloneKnows
  /\ SettledLinesAgree

\* What makes the numbering dense: a count once read is never ahead of the
\* table by more than one.
CountsNotAhead ==
  \A w \in Workers : call[w].at = "insert" =>
    call[w].imsi \in Explicit \cup 1 .. Cardinality(Rows) + 1

-----------------------------------------------------------------------------
(* What the repository says of these states, and the code does not ensure.  *)

\* model/sim.go: reporting "suspended"/"terminated" while the UE can still
\* attach would be a dangerous lie.  Stated of lines no request is working on.
CutLineCannotAttach ==
  \A s \in Rows :
    sim[s].status \in Cut /\ (\A w \in Workers : ~On(w, s)) => ~Attachable(s)
=============================================================================
