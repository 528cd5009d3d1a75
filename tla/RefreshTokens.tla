---------------------------- MODULE RefreshTokens ---------------------------
(***************************************************************************)
(* Sessions of svc-aerial-iam: Login, Refresh and Logout over the table     *)
(* iam.refresh_tokens.  A login starts a token family; every Refresh        *)
(* revokes the token presented and stores its successor in the same family; *)
(* presenting a revoked token revokes the whole family.                     *)
(*                                                                          *)
(* Each repository call is one autocommitted statement and one step here.   *)
(* Refresh reads the token in one statement, revokes it in the next and     *)
(* stores the successor in a third, and requests are served concurrently.   *)
(***************************************************************************)
EXTENDS Naturals, Iam

CONSTANTS
  Tokens,     \* token values the service can draw (bounds the table)
  Families,   \* family ids the service can draw (bounds the logins)
  Users

ASSUME ConstantsAssumption == None \notin Tokens \cup Families \cup Users

VARIABLES
  token,       \* iam.refresh_tokens: the row of each token value
  call,        \* what each worker is doing
  known,       \* the tokens whose answer reached a client
  reported,    \* history: families answered ErrTokenReuse, "family revoked"
  ended,       \* history: families logged out, revoked for reuse, or whose
               \* rotation failed after its first write or was never answered
  overlapped   \* history: families two requests were working on at a time

vars == <<token, call, known, reported, ended, overlapped>>
history == <<reported, ended, overlapped>>

-----------------------------------------------------------------------------
(* The table.                                                               *)

\* `parent' is the token the row was exchanged for; the table has no such
\* column, it is what the properties compare.
Row == [state : {"none", "live", "revoked"}, family : Families \cup {None},
        user : Users \cup {None}, parent : Tokens \cup {None},
        expired : BOOLEAN]

NoRow == [state |-> "none", family |-> None, user |-> None, parent |-> None,
          expired |-> FALSE]

Stored == {t \in Tokens : token[t].state # "none"}
Live(t) == token[t].state = "live"
LiveIn(f) == {t \in Tokens : Live(t) /\ token[t].family = f}

-----------------------------------------------------------------------------
(* Requests.                                                                *)

Call == [at : {"idle", "revoke", "store", "revokeFamily"},
         family : Families \cup {None}, user : Users \cup {None},
         old : Tokens \cup {None}]

NoCall == [at |-> "idle", family |-> None, user |-> None, old |-> None]

Idle(w) == call[w].at = "idle"

\* Worker w is between the statements of a request on family f.
On(w, f) == ~Idle(w) /\ call[w].family = f

\* Worker w has used up a token of f and not yet stored its successor.
Rotating(w, f) == On(w, f) /\ call[w].at = "store" /\ call[w].old # None

\* A Refresh starts; the history notes requests that overlap on one family.
Start(w, c) ==
  /\ call' = [call EXCEPT ![w] = c]
  /\ overlapped' = IF \E v \in Workers : On(v, c.family)
                   THEN overlapped \cup {c.family} ELSE overlapped

-----------------------------------------------------------------------------
(* The steps of Login, Refresh and Logout.                                  *)

\* Login up to its INSERT: the password was good and uuid.NewString() drew a
\* family nobody has.
Login(w) ==
  /\ Idle(w)
  /\ \E u \in Users, f \in Families :
       /\ \A t \in Stored : token[t].family # f
       /\ \A v \in Workers : ~On(v, f)
       /\ call' = [call EXCEPT ![w] = [at |-> "store", family |-> f,
                                       user |-> u, old |-> None]]
  /\ UNCHANGED <<token, known, history>>

\* Faulty variant: an already revoked token goes on to be exchanged.
Refresh_NoReuseDetection(w) ==
  /\ Idle(w)
  /\ \E t \in known :
       /\ ~token[t].expired
       /\ Start(w, [at |-> "revoke", family |-> token[t].family,
                    user |-> token[t].user, old |-> t])
  /\ UNCHANGED <<token, known, reported, ended>>

\* FindRefreshToken: a revoked token means reuse, also when it has expired
\* meanwhile; a live one goes on; a live one that has expired ends the request
\* with ErrTokenExpired and changes nothing.
Refresh(w) ==
  /\ Idle(w)
  /\ \E t \in known :
       /\ Live(t) => ~token[t].expired
       /\ Start(w, [at |-> IF Live(t) THEN "revoke" ELSE "revokeFamily",
                    family |-> token[t].family, user |-> token[t].user,
                    old |-> t])
  /\ UNCHANGED <<token, known, reported, ended>>

\* Faulty variant: the error of RevokeToken is dropped.
RevokeToken_Skipped(w) ==
  /\ call[w].at = "revoke"
  /\ \/ token' = [token EXCEPT ![call[w].old].state = "revoked"]
     \/ UNCHANGED token
  /\ call' = [call EXCEPT ![w].at = "store"]
  /\ UNCHANGED <<known, history>>

\* RevokeToken of the old token.  How many rows it changed is not looked at.
RevokeToken(w) ==
  /\ call[w].at = "revoke"
  /\ token' = [token EXCEPT ![call[w].old].state = "revoked"]
  /\ \/ call' = [call EXCEPT ![w].at = "store"] /\ UNCHANGED ended
     \/ /\ "unacked" \in Faults
        /\ call' = [call EXCEPT ![w] = NoCall]
        /\ ended' = ended \cup {call[w].family}
  /\ UNCHANGED <<known, reported, overlapped>>

\* Faulty variant: the successor is given to another user than the old token's.
StoreRefreshToken_AnyUser(w) ==
  /\ call[w].at = "store"
  /\ \E t \in Tokens \ Stored, u \in Users :
       /\ token' = [token EXCEPT ![t] =
            [state |-> "live", family |-> call[w].family, user |-> u,
             parent |-> call[w].old, expired |-> FALSE]]
       /\ known' = known \cup {t}
  /\ call' = [call EXCEPT ![w] = NoCall]
  /\ UNCHANGED history

\* Faulty variant: the error of the INSERT is dropped, and the token answered
\* was never stored.
StoreRefreshToken_Dropped(w) ==
  /\ call[w].at = "store"
  /\ \E t \in Tokens \ Stored :
       /\ \/ UNCHANGED token
          \/ token' = [token EXCEPT ![t] =
               [state |-> "live", family |-> call[w].family,
                user |-> call[w].user, parent |-> call[w].old,
                expired |-> FALSE]]
       /\ known' = known \cup {t}
  /\ call' = [call EXCEPT ![w] = NoCall]
  /\ UNCHANGED history

\* issueTokens: the INSERT of a new token, after GetUserByID and UpsertDevice,
\* and the answer that carries it.  The answer may be lost.
StoreRefreshToken(w) ==
  /\ call[w].at = "store"
  /\ \E t \in Tokens \ Stored :
       /\ token' = [token EXCEPT ![t] =
            [state |-> "live", family |-> call[w].family, user |-> call[w].user,
             parent |-> call[w].old, expired |-> FALSE]]
       /\ \/ known' = known \cup {t} /\ UNCHANGED ended
          \/ /\ "unacked" \in Faults
             /\ ended' = ended \cup {call[w].family}
             /\ UNCHANGED known
  /\ call' = [call EXCEPT ![w] = NoCall]
  /\ UNCHANGED <<reported, overlapped>>

\* Faulty variant: the error of the family's revocation is dropped.
RevokeFamily_Swallows(w) ==
  /\ call[w].at = "revokeFamily"
  /\ \/ UNCHANGED token
     \/ token' = [t \in Tokens |-> IF t \in LiveIn(call[w].family)
                                   THEN [token[t] EXCEPT !.state = "revoked"]
                                   ELSE token[t]]
  /\ reported' = reported \cup {call[w].family}
  /\ ended' = ended \cup {call[w].family}
  /\ call' = [call EXCEPT ![w] = NoCall]
  /\ UNCHANGED <<known, overlapped>>

\* RevokeFamily: one statement over the family's rows.  The request ends with
\* ErrTokenReuse, or with ErrReuseRevokeFailed when the answer is lost.
RevokeFamily(w) ==
  /\ call[w].at = "revokeFamily"
  /\ token' = [t \in Tokens |-> IF t \in LiveIn(call[w].family)
                                THEN [token[t] EXCEPT !.state = "revoked"]
                                ELSE token[t]]
  /\ \/ reported' = reported \cup {call[w].family}
     \/ "unacked" \in Faults /\ UNCHANGED reported
  /\ ended' = ended \cup {call[w].family}
  /\ call' = [call EXCEPT ![w] = NoCall]
  /\ UNCHANGED <<known, overlapped>>

\* Faulty variant: the row is marked in a way FindRefreshToken does not know.
Logout_Unknown(t) ==
  /\ token' = [token EXCEPT ![t].state = "deleted"]
  /\ UNCHANGED <<call, known, history>>

\* Logout is one statement: RevokeToken of the token presented.
Logout(t) ==
  /\ token' = [token EXCEPT ![t].state = "revoked"]
  /\ ended' = ended \cup {token[t].family}
  /\ overlapped' = IF \E v \in Workers : On(v, token[t].family)
                   THEN overlapped \cup {token[t].family} ELSE overlapped
  /\ UNCHANGED <<call, known, reported>>

\* The statement (or GetUserByID, UpsertDevice before the INSERT) fails without
\* effect and the handler returns the error.
Fails(w) ==
  /\ "lost" \in Faults
  /\ ~Idle(w)
  /\ call' = [call EXCEPT ![w] = NoCall]
  /\ ended' = IF call[w].at = "store" /\ call[w].old # None
              THEN ended \cup {call[w].family} ELSE ended
  /\ UNCHANGED <<token, known, reported, overlapped>>

-----------------------------------------------------------------------------
(* The environment.                                                         *)

\* The process dies with its requests.
Restart ==
  /\ "crash" \in Faults
  /\ call' = [w \in Workers |-> NoCall]
  /\ ended' = ended \cup {f \in Families : \E w \in Workers : Rotating(w, f)}
  /\ UNCHANGED <<token, known, reported, overlapped>>

\* expires_at of a token passes.
Expire(t) ==
  /\ ~token[t].expired
  /\ token' = [token EXCEPT ![t].expired = TRUE]
  /\ UNCHANGED <<call, known, history>>

-----------------------------------------------------------------------------

Init ==
  /\ token = [t \in Tokens |-> NoRow]
  /\ call = [w \in Workers |-> NoCall]
  /\ known = {}
  /\ reported = {} /\ ended = {} /\ overlapped = {}

Step(w) ==
  RevokeToken(w) \/ StoreRefreshToken(w) \/ RevokeFamily(w)

Next ==
  \/ \E w \in Workers : Login(w) \/ Refresh(w) \/ Step(w) \/ Fails(w)
  \/ \E t \in known : Logout(t)
  \/ \E t \in Stored : Expire(t)
  \/ Restart

Spec == Init /\ [][Next]_vars

-----------------------------------------------------------------------------
(* Properties.                                                              *)

\* The values every variable ranges over.
TypeOK ==
  /\ token \in [Tokens -> Row]
  /\ call \in [Workers -> Call]
  /\ known \subseteq Tokens
  /\ reported \subseteq Families
  /\ ended \subseteq Families
  /\ overlapped \subseteq Families

\* A family belongs to one user: no interleaving of logins and rotations hands
\* a session to somebody else.
FamilyHasOneUser ==
  \A s, t \in Stored : token[s].family = token[t].family
                         => token[s].user = token[t].user

\* A token that was exchanged is dead: whatever fails or overlaps, a token and
\* one of its successors are never both good.
ExchangedIsRevoked ==
  \A t \in Stored : token[t].parent # None => token[token[t].parent].state = "revoked"

\* While a family serves one request at a time it has at most one good token,
\* and none while that token is being exchanged.
OneLivePerFamily ==
  \A f \in Families \ overlapped :
    /\ \A s, t \in LiveIn(f) : s = t
    /\ \A v, w \in Workers : On(v, f) /\ On(w, f) => v = w
    /\ (\E w \in Workers : Rotating(w, f)) => LiveIn(f) = {}

\* Nor is a token of such a family exchanged for two others: its tokens are a
\* chain.
ChainsDoNotFork ==
  \A f \in Families \ overlapped : \A s, t \in Stored :
    /\ token[s].family = f /\ token[t].family = f
    /\ token[s].parent # None /\ token[s].parent = token[t].parent
    => s = t

\* Of such a family the answer "reuse detected; family revoked" is true, and
\* stays true.
ReuseClosesFamily ==
  \A f \in reported \ overlapped :
    /\ LiveIn(f) = {}
    /\ \A w \in Workers : ~Rotating(w, f)

\* What rotation and reuse detection promise: a family stays with its user, an
\* exchanged token is dead, requests that come one at a time leave a chain with
\* one good token, and with none once a reuse was reported.
RotationIsSafe ==
  /\ FamilyHasOneUser
  /\ ExchangedIsRevoked
  /\ OneLivePerFamily
  /\ ChainsDoNotFork
  /\ ReuseClosesFamily

\* A client loses its session only to a logout, a reuse or a rotation cut
\* short: else it holds a token that can be exchanged until it expires.
SessionSurvives ==
  \A t \in known :
    LET f == token[t].family IN
    \/ f \in ended
    \/ LiveIn(f) \cap known # {}
    \/ \E w \in Workers : Rotating(w, f)

\* The tokens a family's session stands on: the good ones, and one whose exchange
\* is under way, which the client has not got an answer for.
Standing(f) ==
  LiveIn(f) \cup {t \in Tokens : \E w \in Workers :
                                   Rotating(w, f) /\ call[w].old = t}

\* How a family stands as a session.
Session(f) ==
  LET open == f \notin overlapped /\ Standing(f) # {}
      good == CHOOSE t \in Standing(f) : TRUE
  IN  [state |-> IF f \in overlapped THEN "shared"
                 ELSE IF Standing(f) # {} THEN "open"
                 ELSE IF \E t \in Stored : token[t].family = f THEN "closed"
                 ELSE "fresh",
       token |-> IF open THEN good ELSE None,
       user |-> IF open THEN token[good].user ELSE None]

IssuedIn(t) == IF t \in Stored THEN token[t].family ELSE None

\* Logins, rotations in three statements, failures and restarts do what sessions
\* with an indivisible exchange would.
Abstract == INSTANCE Sessions WITH
              session <- [f \in Families |-> Session(f)],
              family <- [t \in Tokens |-> IssuedIn(t)]
ImplementsSessions == Abstract!Spec

-----------------------------------------------------------------------------
(* The inductive invariant behind these properties.                         *)

\* What a client holds, what a token was exchanged for and what was reported
\* are rows of the table, and a row has an owner and a family.
RowsFit ==
  /\ known \subseteq Stored
  /\ \A t \in Stored : /\ token[t].family \in Families
                       /\ token[t].user \in Users
                       /\ token[t].parent # None => token[t].parent \in Stored
  /\ \A f \in reported : \E t \in Stored : token[t].family = f

\* A request in progress works on its old token's family and user; from its
\* first write on that token is revoked; a login has its new family to itself.
CallFits(w) ==
  LET c == call[w] IN
  /\ c.family \in Families /\ c.user \in Users
  /\ c.old # None => /\ c.old \in Stored
                     /\ token[c.old].family = c.family
                     /\ token[c.old].user = c.user
                     /\ c.at # "revoke" => token[c.old].state = "revoked"
  /\ c.old = None =>
       /\ c.at = "store"
       /\ \A t \in Stored : token[t].family # c.family
       /\ \A v \in Workers : On(v, c.family) => v = w

CallsFit == \A w \in Workers : ~Idle(w) => CallFits(w)

\* A Refresh that has its family to itself finds the old token still good when
\* it comes to revoke it.
AloneKnows ==
  \A w \in Workers :
    call[w].at = "revoke" /\ call[w].family \notin overlapped => Live(call[w].old)

\* A token that such a Refresh is exchanging has no successor yet.
ExchangesAreOpen ==
  \A w \in Workers, f \in Families \ overlapped :
    Rotating(w, f) => \A t \in Stored : token[t].parent # call[w].old

ChainInv == ChainsDoNotFork /\ ExchangesAreOpen

IInv ==
  /\ TypeOK
  /\ RowsFit
  /\ CallsFit
  /\ FamilyHasOneUser
  /\ ExchangedIsRevoked
  /\ AloneKnows
  /\ OneLivePerFamily
  /\ ReuseClosesFamily
  /\ SessionSurvives

-----------------------------------------------------------------------------
(* What the repository says, and the code does not ensure.                  *)

\* docs/SECURITY_REVIEW_2026-09.md: no check-then-act on security decisions,
\* RowsAffected arbitrates.  Then a token would be exchanged at most once.
ExchangedOnce ==
  \A s, t \in Stored :
    token[s].parent # None /\ token[s].parent = token[t].parent => s = t
=============================================================================
