--------------------------- MODULE MCSubscriptions ---------------------------
(* Bounds for model-checking Subscriptions.                                 *)
EXTENDS Subscriptions

\* The table file (tables, then plans), the index file, and a later file.
ThreeFiles == <<2, 1, 1>>
=============================================================================
