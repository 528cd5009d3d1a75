--------------------------- MODULE MCSimLifecycle ---------------------------
(* Bounds and symmetry for model-checking SimLifecycle.                     *)
EXTENDS SimLifecycle, TLC

\* Workers, SIM ids and tenants are interchangeable, and the runs check no
\* liveness property.
Symmetry == Permutations(Workers) \cup Permutations(Sims) \cup Permutations(Orgs)
=============================================================================
