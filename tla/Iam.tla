--------------------------------- MODULE Iam ---------------------------------
(***************************************************************************)
(* What Signup and RefreshTokens share: both are served by svc-aerial-iam,   *)
(* a process whose requests run concurrently over one database.             *)
(***************************************************************************)

CONSTANTS
  Workers,    \* requests the service can be serving at the same time
  None,       \* no token, family, user, e-mail, slug or organisation
  Faults      \* what may go wrong: "lost", a call fails without effect;
              \* "unacked", it took effect and its answer was lost; "crash",
              \* the process dies

ASSUME FaultsAssumption == Faults \subseteq {"lost", "unacked", "crash"}

=============================================================================
