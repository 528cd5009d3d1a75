----------------------------- MODULE MCRanControl -----------------------------
(* Symmetry for model-checking RanControl.                                  *)
EXTENDS RanControl, TLC

\* Subscribers are interchangeable.
Symmetry == Permutations(Imsis)
=============================================================================
