------------------------------- MODULE MCSignup ------------------------------
(* Symmetry for model-checking Signup.                                      *)
EXTENDS Signup, TLC

\* Workers, e-mails and slugs are interchangeable.
Symmetry == Permutations(Workers) \cup Permutations(Emails)
              \cup Permutations(Slugs)
=============================================================================
