------------------------------- MODULE Service -------------------------------
(***************************************************************************)
(* lib-aerial-go/runner and lib-aerial-go/health: the life of a service's    *)
(* process from its start to the end of the graceful shutdown, and the       *)
(* health that a background goroutine samples and the probes of the cluster  *)
(* read.  RanControl adds a service's own part to every step.                *)
(*                                                                          *)
(* Time is counted in ticks and runs down; a step that is due happens before *)
(* the next tick.                                                            *)
(***************************************************************************)
EXTENDS Naturals

CONSTANTS
  Interval,    \* between two health checks (5 s in the code)
  ProbeLimit,  \* the time limit of a check (3 s)
  Grace        \* the time limit of Shutdown (10 s)

ASSUME ServiceAssumption ==
  /\ Interval \in Nat /\ ProbeLimit \in Nat \ {0} /\ Grace \in Nat
  /\ ProbeLimit < Interval

VARIABLES
  proc,     \* where Run is
  grace,    \* time left to Shutdown
  healthy,  \* Checker.healthy
  probe,    \* time left to the check under way, or NoProbe
  ticker,   \* time until the ticker fires
  db,       \* Postgres answers
  steady    \* history: for how long neither db nor the process changed

serviceVars == <<proc, grace, healthy, probe, ticker, db, steady>>

-----------------------------------------------------------------------------

NoProbe == ProbeLimit + 1

\* A change is seen this long after it at the latest.
Lag == Interval + ProbeLimit

Down(p) == IF p = 0 THEN 0 ELSE p - 1

\* Checker.Start: the first check does not wait for the ticker.
Boot ==
  /\ proc = "down"
  /\ proc' = "mounting"
  /\ healthy' = FALSE
  /\ probe' = ProbeLimit
  /\ ticker' = Interval
  /\ steady' = 0
  /\ UNCHANGED <<grace, db>>

\* Mount has returned and the listener is started.
Serve ==
  /\ proc = "mounting"
  /\ proc' = "serving"
  /\ UNCHANGED <<grace, healthy, probe, ticker, db, steady>>

Off ==
  /\ proc' = "down"
  /\ healthy' = FALSE
  /\ grace' = 0 /\ probe' = NoProbe /\ ticker' = Interval /\ steady' = 0
  /\ UNCHANGED db

\* SIGTERM while serving: the listener is closed, and the check under way is
\* cancelled and stores false.
Shutdown ==
  /\ proc = "serving"
  /\ proc' = "draining"
  /\ grace' = Grace
  /\ healthy' = (healthy /\ probe = NoProbe)
  /\ probe' = NoProbe
  /\ UNCHANGED <<ticker, db, steady>>

\* SIGTERM during Mount: Run starts the listener and closes it again.
EarlyShutdown == proc = "mounting" /\ Off

\* Shutdown returns when no request is left or its time is up.
Exit(busy) ==
  /\ proc = "draining"
  /\ ~busy \/ grace = 0
  /\ Off

Crash == proc # "down" /\ Off

\* What a check may find: a Postgres that answered all the time answers it, one
\* that did not at some time may also fail it.
Findings ==
  {ok \in BOOLEAN : IF ok THEN db ELSE ~db \/ steady <= ProbeLimit - probe}

\* Faulty variant: only a success is stored.
CheckEnds_KeepsSuccess ==
  /\ probe # NoProbe
  /\ \E ok \in Findings : healthy' = (healthy \/ ok)
  /\ probe' = NoProbe
  /\ UNCHANGED <<proc, grace, ticker, db, steady>>

\* The second half of check: the result is stored, whatever it is.
CheckEnds ==
  /\ probe # NoProbe
  /\ \E ok \in Findings : healthy' = ok
  /\ probe' = NoProbe
  /\ UNCHANGED <<proc, grace, ticker, db, steady>>

\* The ticker fires and a check starts.
CheckStarts ==
  /\ proc \in {"mounting", "serving"}
  /\ ticker = 0 /\ probe = NoProbe
  /\ probe' = ProbeLimit
  /\ ticker' = Interval
  /\ UNCHANGED <<proc, grace, healthy, db, steady>>

\* Postgres goes away or comes back.
DbChanges ==
  /\ db' = ~db
  /\ steady' = 0
  /\ UNCHANGED <<proc, grace, healthy, probe, ticker>>

Watched == proc \in {"mounting", "serving"}

\* The service's part of a tick.
Passes ==
  /\ probe # 0
  /\ Watched => ticker # 0
  /\ proc = "draining" => grace # 0
  /\ probe' = IF probe = NoProbe THEN NoProbe ELSE probe - 1
  /\ ticker' = IF Watched THEN ticker - 1 ELSE ticker
  /\ grace' = IF proc = "draining" THEN grace - 1 ELSE grace
  /\ steady' = IF steady > Lag THEN steady ELSE steady + 1
  /\ UNCHANGED <<proc, healthy, db>>

ServiceInit ==
  /\ proc = "down"
  /\ grace = 0
  /\ healthy = FALSE
  /\ probe = NoProbe
  /\ ticker = Interval
  /\ db \in BOOLEAN
  /\ steady = 0

-----------------------------------------------------------------------------
(* Properties.                                                              *)

\* The values every variable ranges over.
ServiceTypeOK ==
  /\ proc \in {"down", "mounting", "serving", "draining"}
  /\ grace \in 0 .. Grace
  /\ healthy \in BOOLEAN
  /\ probe \in 0 .. NoProbe
  /\ ticker \in 0 .. Interval
  /\ db \in BOOLEAN
  /\ steady \in 0 .. Lag + 1

\* A serving process is reported healthy if Postgres has been answering for an
\* interval and a check's time limit, and unhealthy if it has not been; no check
\* is skipped, and none keeps an older result alive.
HealthFollows ==
  proc = "serving" /\ steady > Lag => (healthy <=> db)

-----------------------------------------------------------------------------
(* The inductive invariant behind HealthFollows.                            *)

\* For how long the check under way, or else the last one, has been started.
\* A check ends before the ticker fires again.
CheckAge == Interval - ticker

\* A check runs while the process does, and is as old as the ticker says.
ChecksFit ==
  probe # NoProbe => Watched /\ ProbeLimit - probe = CheckAge

\* What the last check to end found is so, unless something has changed since
\* it started: that is CheckAge ago, or an interval more while the next runs.
LastCheckHolds ==
  Watched /\ steady > CheckAge + (IF probe = NoProbe THEN 0 ELSE Interval)
    => (healthy <=> db)

ServiceInv == ServiceTypeOK /\ ChecksFit /\ LastCheckHolds
=============================================================================
