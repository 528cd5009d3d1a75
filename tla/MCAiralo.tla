------------------------------- MODULE MCAiralo ------------------------------
(* Values for model-checking Airalo.                                        *)
EXTENDS Airalo

\* A token that lives no longer than two calls may take, and one that is taken
\* from the cache for one tick.
SomeLifetimes == {2, 4}
=============================================================================
