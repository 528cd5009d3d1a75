------------------------------ MODULE Sessions -------------------------------
(***************************************************************************)
(* What svc-aerial-iam promises about sessions.  A session is one token     *)
(* family.  A login opens it with one good token, a Refresh exchanges that  *)
(* token for a new one of the same user in one indivisible step, and once   *)
(* closed it never opens again.  Only a session that requests were sharing  *)
(* at some time is beyond the promise.  RefreshTokens implements it with    *)
(* statements that overlap, fail and are cut short.                         *)
(***************************************************************************)

CONSTANTS Tokens, Families, Users, None

VARIABLES
  session,    \* of each family: how it stands, its good token and its user
  family      \* the family each token was issued in

vars == <<session, family>>

Fresh == [state |-> "fresh", token |-> None, user |-> None]
Opened(t, u) == [state |-> "open", token |-> t, user |-> u]
Closed == [state |-> "closed", token |-> None, user |-> None]
Shared == [state |-> "shared", token |-> None, user |-> None]

Init ==
  /\ session = [f \in Families |-> Fresh]
  /\ family = [t \in Tokens |-> None]

\* No token is ever issued twice.
Issue(t, f) == family[t] = None /\ family' = [family EXCEPT ![t] = f]

Open(f, u, t) ==
  /\ Issue(t, f)
  /\ session[f].state = "fresh"
  /\ session' = [session EXCEPT ![f] = Opened(t, u)]

\* The old token is good up to this step, and the new one from it on.
Exchange(f, t) ==
  /\ Issue(t, f)
  /\ session[f].state = "open"
  /\ session' = [session EXCEPT ![f] = Opened(t, session[f].user)]

\* Logout, reuse, or an exchange cut short; a restart cuts several.
Close(F) ==
  /\ UNCHANGED family
  /\ \A f \in F : session[f].state = "open"
  /\ session' = [f \in Families |-> IF f \in F THEN Closed ELSE session[f]]

\* Two requests work on one session at a time.
Share(f) ==
  /\ UNCHANGED family
  /\ session[f].state \in {"open", "closed"}
  /\ session' = [session EXCEPT ![f] = Shared]

\* From then on any of them may add a token to it.
Add(f, t) ==
  /\ Issue(t, f)
  /\ session[f].state = "shared"
  /\ UNCHANGED session

Next ==
  \/ \E F \in SUBSET Families : Close(F)
  \/ \E f \in Families : Share(f)
  \/ \E f \in Families, t \in Tokens :
       (\E u \in Users : Open(f, u, t)) \/ Exchange(f, t) \/ Add(f, t)

Spec == Init /\ [][Next]_vars

-----------------------------------------------------------------------------

\* What a step leaves of a session: closed or shared it does not open again, open
\* it keeps its user, and its token gives way only to one never issued before.
Kept(f) ==
  /\ session[f].state \in {"closed", "shared"} => session'[f].state # "open"
  /\ session[f].state = "open" /\ session'[f].state = "open" =>
       /\ session'[f].user = session[f].user
       /\ \/ session'[f].token = session[f].token
          \/ family[session'[f].token] = None

\* What that comes to for a client.
ClosedForGood == [][\A f \in Families : Kept(f)]_vars
=============================================================================
