----------------------------- MODULE Migrations -----------------------------
(***************************************************************************)
(* scripts/migrate.sh as the Kubernetes Job aerial-migrate runs it: for each *)
(* migration file in order, look the version up, apply the file with one     *)
(* psql call, and record the version with another.  psql runs the statements *)
(* of a file one by one, each committed by itself, and `set -e' ends the     *)
(* script at the first error; the pod is then started again.                 *)
(*                                                                          *)
(* The files of all schemas are one sequence, in the order the script visits *)
(* them.  Whether a statement is admitted depends on the rows the services   *)
(* have written, so it is a parameter of Apply.                              *)
(***************************************************************************)
EXTENDS Naturals

CONSTANTS
  Jobs,    \* pods of the Job that may run at one time
  NFiles,  \* number of migration files
  Parts,   \* number of statements in each file
  Faults   \* what may go wrong: "lost", "unacked", "crash", "misread"

Files == 1 .. NFiles

ASSUME MigrationsAssumption ==
  /\ NFiles \in Nat \ {0}
  /\ Parts \in [Files -> Nat \ {0}]
  /\ Faults \subseteq {"lost", "unacked", "crash", "misread"}

VARIABLES
  applied,   \* of each file, how many statements are in the database
  recorded,  \* the versions in schema_migrations
  job        \* what each pod is doing

migration == <<applied, recorded, job>>

Job == [at : {"down", "lookup", "apply", "record", "done"},
        file : Files, part : Nat]

Down == [at |-> "down", file |-> 1, part |-> 1]

Goto(j, p) == job' = [job EXCEPT ![j] = p]

\* Faulty variant: the loop does not stop at the last file.
After_RunsOff(f) == [at |-> "lookup", file |-> f + 1, part |-> 1]

\* The next iteration of the loop over the files.
After(f) == [at |-> IF f = NFiles THEN "done" ELSE "lookup",
             file |-> IF f = NFiles THEN f ELSE f + 1, part |-> 1]

\* A psql call took effect and the script goes on to p; or it took effect but
\* psql lost its connection before it knew, and `set -e' ends the script.
Then(j, p) ==
  \/ Goto(j, p)
  \/ "unacked" \in Faults /\ Goto(j, Down)

-----------------------------------------------------------------------------

\* The pod is started, or started again after the script failed.
Start(j) ==
  /\ job[j].at = "down"
  /\ Goto(j, [at |-> "lookup", file |-> 1, part |-> 1])
  /\ UNCHANGED <<applied, recorded>>

\* Somebody deletes the finished Job and applies it again.
Reapply(j) ==
  /\ job[j].at = "done"
  /\ Goto(j, Down)
  /\ UNCHANGED <<applied, recorded>>

\* SELECT 1 FROM schema_migrations.  A lookup that fails reads as not applied.
Lookup(j) ==
  /\ job[j].at = "lookup"
  /\ \/ job[j].file \in recorded /\ Goto(j, After(job[j].file))
     \/ /\ job[j].file \notin recorded \/ "misread" \in Faults
        /\ Goto(j, [job[j] EXCEPT !.at = "apply"])
  /\ UNCHANGED <<applied, recorded>>

\* Faulty variant: psql without ON_ERROR_STOP goes on after a refused statement.
Apply_Continues(j, admitted) ==
  LET f == job[j].file  k == job[j].part IN
  /\ job[j].at = "apply"
  /\ applied' = IF admitted /\ applied[f] < k
                THEN [applied EXCEPT ![f] = k] ELSE applied
  /\ Then(j, IF k < Parts[f] THEN [job[j] EXCEPT !.part = k + 1]
                             ELSE [job[j] EXCEPT !.at = "record"])
  /\ UNCHANGED recorded

\* One statement of the file.  Every statement is written so that it changes
\* nothing the second time (IF NOT EXISTS, ON CONFLICT DO NOTHING).
Apply(j, admitted) ==
  LET f == job[j].file  k == job[j].part IN
  /\ job[j].at = "apply"
  /\ admitted
  /\ applied' = IF applied[f] < k THEN [applied EXCEPT ![f] = k] ELSE applied
  /\ Then(j, IF k < Parts[f] THEN [job[j] EXCEPT !.part = k + 1]
                             ELSE [job[j] EXCEPT !.at = "record"])
  /\ UNCHANGED recorded

\* The statement is refused: ON_ERROR_STOP and `set -e' end the script.
Refused(j, admitted) ==
  /\ job[j].at = "apply"
  /\ ~admitted
  /\ Goto(j, Down)
  /\ UNCHANGED <<applied, recorded>>

\* INSERT INTO schema_migrations.  The version is its primary key, so the
\* INSERT of a second job fails, and the script with it.
Record(j) ==
  LET f == job[j].file IN
  /\ job[j].at = "record"
  /\ IF f \in recorded
     THEN Goto(j, Down) /\ UNCHANGED recorded
     ELSE recorded' = recorded \cup {f} /\ Then(j, After(f))
  /\ UNCHANGED applied

\* A psql call other than the lookup fails without effect, or the pod dies.
Dies(j) ==
  /\ \/ "lost" \in Faults /\ job[j].at \in {"apply", "record"}
     \/ "crash" \in Faults /\ job[j].at \notin {"down", "done"}
  /\ Goto(j, Down)
  /\ UNCHANGED <<applied, recorded>>

MigrationInit ==
  /\ applied = [f \in Files |-> 0]
  /\ recorded = {}
  /\ job = [j \in Jobs |-> Down]

\* A step of the script that goes on.
Runs(j, admitted) == Lookup(j) \/ Apply(j, admitted) \/ Record(j)

\* A step in which every psql call is answered, and rightly.
Answered(j, admitted) ==
  /\ Start(j) \/ Runs(j, admitted)
  /\ job[j].at # "record" => job'[j].at # "down"
  /\ job[j].at = "lookup" /\ job[j].file \in recorded => job'[j].at # "apply"

MigrationStep(j, admitted) ==
  \/ Start(j) \/ Reapply(j) \/ Runs(j, admitted)
  \/ Refused(j, admitted) \/ Dies(j)

-----------------------------------------------------------------------------
(* Properties.                                                              *)

MigrationTypeOK ==
  /\ applied \in [Files -> Nat]
  /\ \A f \in Files : applied[f] <= Parts[f]
  /\ recorded \subseteq Files
  /\ job \in [Jobs -> Job]

\* Whatever was cut off, misread or run by two jobs at a time: the recorded
\* versions are a prefix of the sequence, a recorded file is wholly in the
\* database, and no statement of a file runs before every file ahead of it is.
RecordedInOrder ==
  /\ \A f \in recorded : applied[f] = Parts[f]
  /\ \A f \in Files : applied[f] > 0 => 1 .. f - 1 \subseteq recorded

\* What a pod knows at each point of the script: the files before its own are
\* recorded, and the statements before its own are in the database.
JobsFollow ==
  \A j \in Jobs :
    LET f == job[j].file  k == job[j].part IN
    /\ job[j].at \in {"lookup", "apply", "record"} => 1 .. f - 1 \subseteq recorded
    /\ job[j].at = "lookup" => k = 1
    /\ job[j].at = "apply" => k \in 1 .. Parts[f] /\ applied[f] >= k - 1
    /\ job[j].at = "record" => applied[f] = Parts[f]
=============================================================================
