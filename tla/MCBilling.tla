------------------------------ MODULE MCBilling ------------------------------
(* Values for model-checking Billing.                                       *)
EXTENDS Billing

\* An amount that fits twice into an INTEGER of 4 and not three times, and one
\* that fits into none at all.
SomeAmounts == {2, 9}
=============================================================================
