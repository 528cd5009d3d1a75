---------------------------- MODULE MCEsimOrders ----------------------------
(* Symmetry for model-checking EsimOrders.                                  *)
EXTENDS EsimOrders, TLC

\* Workers, row ids, references and organisations are interchangeable.
Symmetry == Permutations(Workers) \cup Permutations(Ids)
              \cup Permutations(Refs) \cup Permutations(Orgs)
=============================================================================
