----------------------------- MODULE MCMessaging -----------------------------
(* The middleware chains for model-checking Messaging.                      *)
EXTENDS Messaging

\* The handler as its package's tests serve it, behind authentication only.
Bare == {"auth"}

\* The handler as runner.Run serves it.
Deployed == Wrapping
=============================================================================
