-------------------------- MODULE MCRefreshTokens ---------------------------
(* Symmetry for model-checking RefreshTokens.                               *)
EXTENDS RefreshTokens, TLC

\* Workers, token values, families and users are interchangeable.
Symmetry == Permutations(Workers) \cup Permutations(Tokens)
              \cup Permutations(Families) \cup Permutations(Users)
=============================================================================
