---------------------------- MODULE Subscriptions ----------------------------
(***************************************************************************)
(* svc-aerial-provision: CreateSubscription and Cancel over the table        *)
(* provision.subscriptions, while the migration job is still bringing the    *)
(* database up to date.  That a user has one live subscription to a plan is  *)
(* kept by nothing but the partial unique index of a later migration file,   *)
(* and that file cannot be applied to a table that has duplicates already.   *)
(***************************************************************************)
EXTENDS Migrations

CONSTANTS
  Workers,    \* requests the service can be serving at the same time
  Subs,       \* row ids the table can hand out (bounds the subscriptions)
  Orgs,       \* tenants, as found in the callers' tokens
  Users,      \* user ids, of the token or of the request body
  Plans,      \* plan ids that the table file seeds
  None,       \* the empty value
  TableFile,  \* the file that creates the tables and then seeds the plans
  IndexFile   \* the file whose first statement is the partial unique index

ASSUME SubscriptionsAssumption ==
  /\ TableFile \in Files /\ IndexFile \in Files /\ TableFile < IndexFile
  /\ None \notin Orgs \cup Users \cup Plans

VARIABLES
  sub,   \* provision.subscriptions: the row of each id
  call   \* the subscription each worker is about to insert

vars == <<applied, recorded, job, sub, call>>

-----------------------------------------------------------------------------

Row == [org : Orgs \cup {None}, user : Users \cup {None},
        plan : Plans \cup {None}, status : {"none", "active", "cancelled"}]

\* An id the table has not handed out.
NoRow == [org |-> None, user |-> None, plan |-> None, status |-> "none"]

Call == [at : {"idle", "insert"}, org : Orgs \cup {None},
         user : Users \cup {None}, plan : Plans \cup {None}]

NoCall == [at |-> "idle", org |-> None, user |-> None, plan |-> None]

Free == {s \in Subs : sub[s].status = "none"}

\* The rows the partial index covers: status <> 'cancelled'.
Live == {s \in Subs : sub[s].status = "active"}

Same(s, t) == sub[s].user = sub[t].user /\ sub[s].plan = sub[t].plan

Distinct == \A s, t \in Live : Same(s, t) => s = t

Holds(u, p) == \E s \in Live : sub[s].user = u /\ sub[s].plan = p

\* GetPlan finds the plans from the last statement of the table file on.
Seeded == applied[TableFile] = Parts[TableFile]

Indexed == applied[IndexFile] > 0

\* Faulty variant: the index covers cancelled rows too.
Clash_Total(w) ==
  Indexed /\ \E s \in Subs \ Free : /\ sub[s].user = call[w].user
                                    /\ sub[s].plan = call[w].plan

\* Faulty variant: the index is one per organisation.
Clash_OwnOrg(w) ==
  Indexed /\ \E s \in Live : /\ sub[s].user = call[w].user
                             /\ sub[s].plan = call[w].plan
                             /\ sub[s].org = call[w].org

\* The row that request w is about to insert meets a row of the index.
Clash(w) == Indexed /\ Holds(call[w].user, call[w].plan)

\* Faulty variant: statements without IF NOT EXISTS fail the second time.
Admitted_Once(j) == applied[job[j].file] < job[j].part

\* CREATE UNIQUE INDEX checks the rows the table has.
Admitted(j) ==
  job[j].file = IndexFile /\ job[j].part = 1 /\ ~Indexed => Distinct

-----------------------------------------------------------------------------

\* CreateSubscription up to the INSERT: GetPlan finds the plan.  The user may
\* be any the request names, the organisation is the caller's.
Create(w, u, p) ==
  /\ call[w].at = "idle"
  /\ Seeded
  /\ \E o \in Orgs :
       call' = [call EXCEPT ![w] = [at |-> "insert", org |-> o, user |-> u,
                                    plan |-> p]]
  /\ UNCHANGED <<applied, recorded, job, sub>>

\* The INSERT of a row; the request ends, whether it learns of it or not.
Insert(w) ==
  /\ call[w].at = "insert"
  /\ ~Clash(w)
  /\ \E s \in Free :
       sub' = [sub EXCEPT ![s] = [org |-> call[w].org, user |-> call[w].user,
                                  plan |-> call[w].plan, status |-> "active"]]
  /\ call' = [call EXCEPT ![w] = NoCall]
  /\ UNCHANGED <<applied, recorded, job>>

\* 23505: the request ends with ErrSubExists.
InsertConflict(w) ==
  /\ call[w].at = "insert"
  /\ Clash(w)
  /\ call' = [call EXCEPT ![w] = NoCall]
  /\ UNCHANGED <<applied, recorded, job, sub>>

\* Cancel, one UPDATE by a caller of organisation o; a row that is another
\* organisation's or cancelled already is not found and nothing changes.
Cancel(s, o) ==
  /\ s \in Live
  /\ sub[s].org = o
  /\ sub' = [sub EXCEPT ![s].status = "cancelled"]
  /\ UNCHANGED <<applied, recorded, job, call>>

\* The INSERT fails without effect, or the process dies with its requests.
Fails(w) ==
  /\ call[w].at = "insert"
  /\ "lost" \in Faults \/ "crash" \in Faults
  /\ call' = [call EXCEPT ![w] = NoCall]
  /\ UNCHANGED <<applied, recorded, job, sub>>

-----------------------------------------------------------------------------

Init ==
  /\ MigrationInit
  /\ sub = [s \in Subs |-> NoRow]
  /\ call = [w \in Workers |-> NoCall]

Migrate(j) == MigrationStep(j, Admitted(j)) /\ UNCHANGED <<sub, call>>

Next ==
  \/ \E j \in Jobs : Migrate(j)
  \/ \E w \in Workers : \/ \E u \in Users, p \in Plans : Create(w, u, p)
                        \/ Insert(w) \/ InsertConflict(w) \/ Fails(w)
  \/ \E s \in Subs, o \in Orgs : Cancel(s, o)

Spec == Init /\ [][Next]_vars

\* No call fails, loses its answer or is misread.
Calm ==
  /\ \A j \in Jobs :
       job'[j] # job[j] => \/ Answered(j, Admitted(j)) \/ Reapply(j)
                          \/ Refused(j, Admitted(j))
  /\ \A w \in Workers : Fails(w) => Clash(w)

\* Pods and requests that can go on do so, a failed pod is started again, users
\* keep asking for plans, and in the end faults cease.
FairSpec ==
  /\ Spec
  /\ <>[][Calm]_vars
  /\ \A j \in Jobs : WF_vars(Migrate(j) /\ ~Reapply(j))
  /\ \A u \in Users, p \in Plans :
       SF_vars(\E w \in Workers : Create(w, u, p))
  /\ \A w \in Workers : WF_vars(Insert(w) \/ InsertConflict(w))

-----------------------------------------------------------------------------
(* Properties.                                                              *)

\* The values every variable ranges over.
TypeOK ==
  /\ MigrationTypeOK
  /\ sub \in [Subs -> Row]
  /\ call \in [Workers -> Call]

\* Once schema_migrations lists the index file, no user has two live
\* subscriptions to one plan, although the requests never check for one and
\* some of them ran, or had already looked up their plan, before there was an
\* index.
OneLivePerPlan == IndexFile \in recorded => Distinct

\* The job gets through all files, however often it is cut off or run twice,
\* unless it keeps finding the table with duplicates.
MigrationEnds == []<>~Distinct \/ <>(recorded = Files)

\* A user who keeps asking for a plan gets it, also after a cancelled
\* subscription to the same plan, as long as the bound on the ids allows.
WhoAsksSubscribes ==
  \A u \in Users, p \in Plans : Seeded ~> (Holds(u, p) \/ Free = {})

-----------------------------------------------------------------------------
(* The inductive invariant behind these properties.                         *)

\* From its first moment the index keeps live rows apart.
IndexExcludes == Indexed => Distinct

IInv ==
  /\ TypeOK
  /\ RecordedInOrder
  /\ JobsFollow
  /\ IndexExcludes
=============================================================================
