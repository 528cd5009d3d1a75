------------------------------ MODULE Iam_proofs -----------------------------
(***************************************************************************)
(* Proofs about svc-aerial-iam, for every value of its constants: first     *)
(* RefreshTokens, for every set of workers, token values, families and      *)
(* users, then Signup, for every set of workers, e-mails and slugs; both    *)
(* with every combination of faults.                                        *)
(***************************************************************************)
EXTENDS RefreshTokens, Signup, TLAPS

-----------------------------------------------------------------------------
(* What the writes to the table and to the request states do.               *)

\* A step that revokes tokens, or none, and changes nothing else of the table.
OnlyRevokes ==
  /\ token' \in [Tokens -> Row]
  /\ \A t \in Tokens : /\ token'[t].family = token[t].family
                       /\ token'[t].user = token[t].user
                       /\ token'[t].parent = token[t].parent
                       /\ token'[t].state = "none" <=> token[t].state = "none"
                       /\ token[t].state = "revoked" => token'[t].state = "revoked"

LEMMA RevokedTyped ==
  ASSUME NEW r \in Row
  PROVE  [r EXCEPT !.state = "revoked"] \in Row
BY DEF Row

LEMMA ExpiredTyped ==
  ASSUME NEW r \in Row
  PROVE  LET x == [r EXCEPT !.expired = TRUE] IN
         /\ x \in Row /\ x.state = r.state /\ x.family = r.family
         /\ x.user = r.user /\ x.parent = r.parent
<1>1. [r EXCEPT !.expired = TRUE] \in Row
  BY DEF Row
<1>. QED
  BY <1>1 DEF Row

\* The revocation of one stored token.
LEMMA RevokesOne ==
  ASSUME TypeOK, NEW o \in Stored,
         token' = [token EXCEPT ![o].state = "revoked"]
  PROVE  /\ OnlyRevokes
         /\ token'[o].state = "revoked"
         /\ \A t \in Tokens : t # o => token'[t] = token[t]
<1>1. o \in Tokens /\ token[o] \in Row /\ token[o].state # "none"
  BY DEF TypeOK, Stored
<1>2. token'[o] = [token[o] EXCEPT !.state = "revoked"]
  BY <1>1 DEF TypeOK
<1>3. \A t \in Tokens : t # o => token'[t] = token[t]
  BY DEF TypeOK
<1>4. /\ token'[o].state = "revoked"
      /\ token'[o].family = token[o].family
      /\ token'[o].user = token[o].user
      /\ token'[o].parent = token[o].parent
  BY <1>1, <1>2 DEF Row
<1>5. token'[o] \in Row
  BY <1>1, <1>2, RevokedTyped
<1>6. token' \in [Tokens -> Row]
  BY <1>3, <1>5 DEF TypeOK
<1>. QED
  BY <1>1, <1>3, <1>4, <1>6 DEF OnlyRevokes, TypeOK

\* The revocation of a family's live tokens.
LEMMA RevokesAll ==
  ASSUME TypeOK, NEW f \in Families,
         token' = [t \in Tokens |-> IF t \in LiveIn(f)
                                    THEN [token[t] EXCEPT !.state = "revoked"]
                                    ELSE token[t]]
  PROVE  /\ OnlyRevokes
         /\ \A t \in Tokens : token[t].family = f => token'[t].state # "live"
         /\ \A t \in Tokens : token[t].family # f => token'[t] = token[t]
<1>1. \A t \in Tokens : t \notin LiveIn(f) => token'[t] = token[t]
  OBVIOUS
<1>2. ASSUME NEW t \in LiveIn(f)
      PROVE  /\ token'[t] \in Row
             /\ token'[t].state = "revoked"
             /\ token'[t].family = token[t].family
             /\ token'[t].user = token[t].user
             /\ token'[t].parent = token[t].parent
  <2>1. t \in Tokens /\ token[t] \in Row
    BY DEF LiveIn, TypeOK
  <2>2. token'[t] = [token[t] EXCEPT !.state = "revoked"]
    BY <2>1
  <2>3. token'[t] \in Row
    BY <2>1, <2>2, RevokedTyped
  <2>. QED
    BY <2>1, <2>2, <2>3 DEF Row
<1>3. \A t \in Tokens : token[t] \in Row
  BY DEF TypeOK
<1>4. token' \in [Tokens -> Row]
  BY <1>1, <1>2, <1>3
<1>. QED
  BY <1>1, <1>2, <1>3, <1>4 DEF OnlyRevokes, LiveIn, Live, Row

\* The INSERT of a new token.
LEMMA StoresOne ==
  ASSUME TypeOK, NEW t \in Tokens \ Stored, NEW r \in Row, r.state = "live",
         token' = [token EXCEPT ![t] = r]
  PROVE  /\ token' \in [Tokens -> Row]
         /\ token'[t] = r
         /\ \A s \in Tokens : s # t => token'[s] = token[s]
         /\ Stored' = Stored \cup {t}
BY DEF TypeOK, Stored

\* A request moves on and the others stay where they are.
LEMMA MovesOne ==
  ASSUME TypeOK, NEW w \in Workers, NEW c \in Call,
         call' = [call EXCEPT ![w] = c]
  PROVE  /\ call' \in [Workers -> Call]
         /\ call'[w] = c
         /\ \A v \in Workers : v # w => call'[v] = call[v]
BY DEF TypeOK

LEMMA NoCallTyped == NoCall \in Call /\ NoCall.at = "idle"
BY DEF NoCall, Call

\* Once a statement of a request is due, the request has its family and user,
\* and an old token unless it is a login.
LEMMA BusyFit ==
  ASSUME TypeOK, CallsFit, NEW w \in Workers, ~Idle(w)
  PROVE  /\ On(w, call[w].family)
         /\ call[w] \in Call
         /\ call[w].family \in Families /\ call[w].user \in Users
         /\ call[w].old # None =>
              /\ call[w].old \in Stored
              /\ token[call[w].old].family = call[w].family
              /\ token[call[w].old].user = call[w].user
         /\ call[w].at # "store" => call[w].old # None
BY DEF TypeOK, CallsFit, CallFits, On

-----------------------------------------------------------------------------
(* Steps that store no token.                                               *)

\* Revoking tokens keeps the rows' owners, families and exchanges.
LEMMA RevokingKeepsRows ==
  ASSUME RowsFit, FamilyHasOneUser, ExchangedIsRevoked,
         OnlyRevokes, known' = known,
         \A f \in reported' : f \in reported \/ \E t \in Stored : token[t].family = f
  PROVE  /\ Stored' = Stored
         /\ RowsFit' /\ FamilyHasOneUser' /\ ExchangedIsRevoked'
<1>1. Stored' = Stored
  BY DEF OnlyRevokes, Stored
<1>2. \A t \in Stored : t \in Tokens
  BY DEF Stored
<1>3. RowsFit'
  BY <1>1, <1>2 DEF OnlyRevokes, RowsFit
<1>4. FamilyHasOneUser'
  BY <1>1, <1>2 DEF OnlyRevokes, FamilyHasOneUser
<1>5. ExchangedIsRevoked'
  BY <1>1, <1>2 DEF OnlyRevokes, ExchangedIsRevoked, RowsFit
<1>. QED
  BY <1>1, <1>3, <1>4, <1>5

\* A request that ends leaves the others as they were.
LEMMA EndingKeepsCalls ==
  ASSUME TypeOK, CallsFit, RowsFit, NEW w \in Workers, OnlyRevokes,
         call' = [call EXCEPT ![w] = NoCall]
  PROVE  /\ CallsFit'
         /\ \A v \in Workers, f \in Families : On(v, f)' => v # w /\ On(v, f)
         /\ \A v \in Workers, f \in Families : Rotating(v, f)' <=> v # w /\ Rotating(v, f)
<1>1. /\ Idle(w)' /\ \A v \in Workers : v # w => call'[v] = call[v]
  BY MovesOne, NoCallTyped DEF Idle
<1>2. Stored' = Stored
  BY DEF OnlyRevokes, Stored
<1>3. \A v \in Workers, f \in Families : On(v, f)' => v # w /\ On(v, f)
  BY <1>1 DEF On, Idle
<1>4. \A v \in Workers, f \in Families : Rotating(v, f)' <=> v # w /\ Rotating(v, f)
  BY <1>1 DEF On, Idle, Rotating
<1>5. ASSUME NEW v \in Workers, ~Idle(v)' PROVE CallFits(v)'
  <2>1. v # w /\ call'[v] = call[v] /\ CallFits(v)
    BY <1>1, <1>5 DEF CallsFit, Idle
  <2>2. \A t \in Stored : t \in Tokens
    BY DEF Stored
  <2>. QED
    BY <1>2, <1>3, <2>1, <2>2 DEF CallFits, OnlyRevokes
<1>. QED
  BY <1>3, <1>4, <1>5 DEF CallsFit

\* A step outside the requests leaves them as they were.
LEMMA StandingCalls ==
  ASSUME CallsFit, RowsFit, OnlyRevokes, call' = call
  PROVE  /\ CallsFit'
         /\ \A v \in Workers, f \in Families : On(v, f)' <=> On(v, f)
         /\ \A v \in Workers, f \in Families : Rotating(v, f)' <=> Rotating(v, f)
<1>1. Stored' = Stored
  BY DEF OnlyRevokes, Stored
<1>2. \A v \in Workers, f \in Families : On(v, f)' <=> On(v, f)
  BY DEF On, Idle
<1>3. \A v \in Workers, f \in Families : Rotating(v, f)' <=> Rotating(v, f)
  BY DEF On, Idle, Rotating
<1>4. ASSUME NEW v \in Workers, ~Idle(v)' PROVE CallFits(v)'
  <2>1. CallFits(v)
    BY <1>4 DEF CallsFit, Idle
  <2>2. \A t \in Stored : t \in Tokens
    BY DEF Stored
  <2>. QED
    BY <1>1, <1>2, <2>1, <2>2 DEF CallFits, OnlyRevokes
<1>. QED
  BY <1>2, <1>3, <1>4 DEF CallsFit

\* The request ends with RevokeFamily.
LEMMA RevokeFamilyStep ==
  ASSUME IInv, NEW w \in Workers, RevokeFamily(w)
  PROVE  IInv'
<1>0. TypeOK /\ RowsFit /\ CallsFit
  BY DEF IInv
<1>1. PICK f \in Families :
        /\ f = call[w].family /\ On(w, f)
        /\ call[w].old \in Stored /\ token[call[w].old].family = f
  BY <1>0, BusyFit DEF RevokeFamily, Idle
<1>2. /\ OnlyRevokes
      /\ \A t \in Tokens : token[t].family = f => token'[t].state # "live"
      /\ \A t \in Tokens : token[t].family # f => token'[t] = token[t]
  BY <1>0, <1>1, RevokesAll DEF RevokeFamily
<1>3. call' = [call EXCEPT ![w] = NoCall] /\ call' \in [Workers -> Call]
  BY <1>0, MovesOne, NoCallTyped DEF RevokeFamily
<1>4. /\ known' = known /\ overlapped' = overlapped
      /\ ended' = ended \cup {f}
      /\ reported' \subseteq reported \cup {f}
  BY <1>1 DEF RevokeFamily
<1>5. TypeOK'
  BY <1>0, <1>1, <1>2, <1>3, <1>4 DEF TypeOK, OnlyRevokes
<1>6. Stored' = Stored /\ RowsFit' /\ FamilyHasOneUser' /\ ExchangedIsRevoked'
  BY <1>1, <1>2, <1>4, RevokingKeepsRows DEF IInv
<1>7. /\ CallsFit'
      /\ \A v \in Workers, g \in Families : On(v, g)' => v # w /\ On(v, g)
      /\ \A v \in Workers, g \in Families : Rotating(v, g)' <=> v # w /\ Rotating(v, g)
  BY <1>0, <1>2, <1>3, EndingKeepsCalls
<1>8. \A g \in Families : LiveIn(g)' = IF g = f THEN {} ELSE LiveIn(g)
  BY <1>2 DEF LiveIn, Live, OnlyRevokes
<1>9. AloneKnows'
  <2>. SUFFICES ASSUME NEW v \in Workers,
                       call'[v].at = "revoke", call'[v].family \notin overlapped'
                PROVE  token'[call'[v].old].state = "live"
    BY DEF AloneKnows, Live
  <2>1. v # w /\ call'[v] = call[v] /\ ~Idle(v)
    BY <1>0, <1>3, MovesOne, NoCallTyped DEF Idle
  <2>2. Live(call[v].old) /\ On(v, call[v].family) /\ call[v].family \in Families
    BY <1>0, <1>4, <2>1, BusyFit DEF IInv, AloneKnows
  <2>3. call[v].family # f
    BY <1>1, <1>4, <2>1, <2>2 DEF IInv, OneLivePerFamily
  <2>. QED
    BY <1>0, <1>2, <2>1, <2>2, <2>3, BusyFit DEF Live, Stored
<1>10. OneLivePerFamily'
  BY <1>4, <1>7, <1>8 DEF IInv, OneLivePerFamily, Rotating
<1>11. ReuseClosesFamily'
  <2>1. f \notin overlapped => \A v \in Workers : ~Rotating(v, f)'
    BY <1>1, <1>7 DEF IInv, OneLivePerFamily, Rotating
  <2>2. \A g \in reported' : g \in Families
    BY <1>5 DEF TypeOK
  <2>. QED
    BY <1>4, <1>7, <1>8, <2>1, <2>2 DEF IInv, ReuseClosesFamily
<1>12. SessionSurvives'
  <2>1. \A s \in known : s \in Tokens /\ token[s].family \in Families
                         /\ token'[s].family = token[s].family
    BY <1>0, <1>2 DEF RowsFit, Stored, OnlyRevokes
  <2>2. \A g \in Families : Rotating(w, g) => g = f
    BY <1>1 DEF Rotating, On
  <2>. QED
    BY <1>4, <1>7, <1>8, <2>1, <2>2 DEF IInv, SessionSurvives
<1>. QED
  BY <1>5, <1>6, <1>7, <1>9, <1>10, <1>11, <1>12 DEF IInv

\* The request ends because a statement failed.
LEMMA FailsStep ==
  ASSUME IInv, NEW w \in Workers, Fails(w)
  PROVE  IInv'
<1>0. TypeOK /\ RowsFit /\ CallsFit
  BY DEF IInv
<1>1. PICK f \in Families : f = call[w].family /\ On(w, f)
  BY <1>0, BusyFit DEF Fails
<1>2. UNCHANGED <<token, known, reported, overlapped>> /\ OnlyRevokes
  BY <1>0 DEF Fails, OnlyRevokes, TypeOK
<1>3. call' = [call EXCEPT ![w] = NoCall] /\ call' \in [Workers -> Call]
  BY <1>0, MovesOne, NoCallTyped DEF Fails
<1>4. /\ ended \subseteq ended' /\ ended' \subseteq ended \cup {f}
      /\ Rotating(w, f) => f \in ended'
  BY <1>1 DEF Fails, Rotating
<1>5. \A g \in Families : Rotating(w, g) => g = f
  BY <1>1 DEF Rotating, On
<1>6. TypeOK'
  BY <1>0, <1>1, <1>2, <1>3, <1>4 DEF TypeOK
<1>7. Stored' = Stored /\ RowsFit' /\ FamilyHasOneUser' /\ ExchangedIsRevoked'
  BY <1>2, RevokingKeepsRows DEF IInv
<1>8. /\ CallsFit'
      /\ \A v \in Workers, g \in Families : On(v, g)' => v # w /\ On(v, g)
      /\ \A v \in Workers, g \in Families :
           Rotating(v, g)' <=> v # w /\ Rotating(v, g)
  BY <1>0, <1>2, <1>3, EndingKeepsCalls
<1>9. AloneKnows'
  BY <1>0, <1>2, <1>3, MovesOne, NoCallTyped DEF IInv, AloneKnows, Live
<1>10. \A g : LiveIn(g)' = LiveIn(g)
  BY <1>2 DEF LiveIn, Live
<1>11. OneLivePerFamily' /\ ReuseClosesFamily'
  BY <1>0, <1>2, <1>8, <1>10 DEF IInv, OneLivePerFamily, ReuseClosesFamily, TypeOK
<1>12. SessionSurvives'
  BY <1>0, <1>2, <1>4, <1>5, <1>8, <1>10
  DEF IInv, SessionSurvives, RowsFit, Stored
<1>. QED
  BY <1>6, <1>7, <1>8, <1>9, <1>11, <1>12 DEF IInv

\* The process dies.
LEMMA RestartStep ==
  ASSUME IInv, Restart
  PROVE  IInv'
<1>0. TypeOK /\ RowsFit /\ CallsFit
  BY DEF IInv
<1>1. UNCHANGED <<token, known, reported, overlapped>> /\ OnlyRevokes
  BY <1>0 DEF Restart, OnlyRevokes, TypeOK
<1>2. /\ call' \in [Workers -> Call]
      /\ \A w \in Workers : Idle(w)' /\ call'[w].at # "revoke"
      /\ \A w \in Workers, f \in Families : ~On(w, f)' /\ ~Rotating(w, f)'
  BY NoCallTyped DEF Restart, Idle, On, Rotating
<1>3. TypeOK'
  BY <1>0, <1>1, <1>2 DEF TypeOK, Restart
<1>4. Stored' = Stored /\ RowsFit' /\ FamilyHasOneUser' /\ ExchangedIsRevoked'
  BY <1>1, RevokingKeepsRows DEF IInv
<1>5. CallsFit' /\ AloneKnows'
  BY <1>2 DEF CallsFit, AloneKnows
<1>6. \A f : LiveIn(f)' = LiveIn(f)
  BY <1>1 DEF LiveIn, Live
<1>7. OneLivePerFamily' /\ ReuseClosesFamily'
  BY <1>0, <1>1, <1>2, <1>6 DEF IInv, OneLivePerFamily, ReuseClosesFamily, TypeOK
<1>8. SessionSurvives'
  <2>1. \A f \in Families : (\E w \in Workers : Rotating(w, f)) => f \in ended'
    BY DEF Restart
  <2>2. ended \subseteq ended'
    BY DEF Restart
  <2>. QED
    BY <1>0, <1>1, <1>6, <2>1, <2>2 DEF IInv, SessionSurvives, RowsFit, Stored
<1>. QED
  BY <1>3, <1>4, <1>5, <1>7, <1>8 DEF IInv

\* A token expires.
LEMMA ExpireStep ==
  ASSUME IInv, NEW t \in Stored, Expire(t)
  PROVE  IInv'
<1>0. TypeOK /\ RowsFit /\ CallsFit /\ t \in Tokens
  BY DEF IInv, Stored
<1>1. \A s \in Tokens : s # t => token'[s] = token[s]
  BY <1>0 DEF Expire, TypeOK
<1>2. token'[t] = [token[t] EXCEPT !.expired = TRUE] /\ token[t] \in Row
  BY <1>0 DEF Expire, TypeOK
<1>3. token'[t] \in Row /\ token'[t].state = token[t].state
      /\ token'[t].family = token[t].family /\ token'[t].user = token[t].user
      /\ token'[t].parent = token[t].parent
  BY <1>2, ExpiredTyped
<1>4. UNCHANGED <<call, known, reported, ended, overlapped>>
  BY DEF Expire, history
<1>5. \A s \in Tokens :
        /\ token'[s].state = token[s].state /\ token'[s].family = token[s].family
        /\ token'[s].user = token[s].user /\ token'[s].parent = token[s].parent
  BY <1>1, <1>3
<1>6. token' \in [Tokens -> Row]
  BY <1>0, <1>1, <1>3 DEF Expire, TypeOK
<1>7. OnlyRevokes
  BY <1>5, <1>6 DEF OnlyRevokes
<1>8. TypeOK'
  BY <1>0, <1>4, <1>6 DEF TypeOK
<1>9. Stored' = Stored /\ RowsFit' /\ FamilyHasOneUser' /\ ExchangedIsRevoked'
  BY <1>4, <1>7, RevokingKeepsRows DEF IInv
<1>10. \A s \in Tokens : Live(s)' <=> Live(s)
  BY <1>5 DEF Live
<1>11. \A f : LiveIn(f)' = LiveIn(f)
  BY <1>5, <1>10 DEF LiveIn
<1>12. /\ CallsFit'
       /\ \A v \in Workers, f \in Families : On(v, f)' <=> On(v, f)
       /\ \A v \in Workers, f \in Families : Rotating(v, f)' <=> Rotating(v, f)
  BY <1>0, <1>4, <1>7, StandingCalls
<1>13. AloneKnows'
  <2>. SUFFICES ASSUME NEW v \in Workers,
                       call[v].at = "revoke", call[v].family \notin overlapped
                PROVE  token'[call[v].old].state = "live"
    BY <1>4 DEF AloneKnows, Live
  <2>. QED
    BY <1>0, <1>5, BusyFit DEF IInv, AloneKnows, Idle, Stored, Live
<1>14. OneLivePerFamily' /\ ReuseClosesFamily'
  BY <1>0, <1>4, <1>11, <1>12 DEF IInv, OneLivePerFamily, ReuseClosesFamily, TypeOK
<1>15. SessionSurvives'
  BY <1>0, <1>4, <1>5, <1>11, <1>12 DEF IInv, SessionSurvives, RowsFit, Stored
<1>. QED
  BY <1>8, <1>9, <1>12, <1>13, <1>14, <1>15 DEF IInv

\* A client logs out.
LEMMA LogoutStep ==
  ASSUME IInv, NEW t \in known, Logout(t)
  PROVE  IInv'
<1>0. TypeOK /\ RowsFit /\ CallsFit /\ t \in Stored /\ t \in Tokens
  BY DEF IInv, RowsFit, Stored
<1>11. PICK f \in Families : f = token[t].family
  BY <1>0 DEF RowsFit
<1>1. /\ OnlyRevokes
      /\ token'[t].state = "revoked"
      /\ \A s \in Tokens : s # t => token'[s] = token[s]
  BY <1>0, RevokesOne DEF Logout
<1>2. /\ UNCHANGED <<call, known, reported>>
      /\ ended' = ended \cup {f}
      /\ overlapped \subseteq overlapped' /\ overlapped' \subseteq overlapped \cup {f}
      /\ (\E v \in Workers : On(v, f)) => f \in overlapped'
  BY <1>11 DEF Logout
<1>3. TypeOK'
  BY <1>0, <1>1, <1>2 DEF TypeOK, OnlyRevokes
<1>4. Stored' = Stored /\ RowsFit' /\ FamilyHasOneUser' /\ ExchangedIsRevoked'
  BY <1>1, <1>2, RevokingKeepsRows DEF IInv
<1>5. /\ CallsFit'
      /\ \A v \in Workers, g \in Families : On(v, g)' <=> On(v, g)
      /\ \A v \in Workers, g \in Families : Rotating(v, g)' <=> Rotating(v, g)
  BY <1>0, <1>1, <1>2, StandingCalls
<1>6. /\ \A g \in Families : LiveIn(g)' \subseteq LiveIn(g)
      /\ \A g \in Families : g # f => LiveIn(g)' = LiveIn(g)
  <2>1. \A s \in Tokens : token'[s].family = token[s].family
    BY <1>1 DEF OnlyRevokes
  <2>2. \A s \in Tokens : Live(s)' => s # t /\ Live(s)
    BY <1>1 DEF Live
  <2>3. \A s \in Tokens : s # t => (Live(s)' <=> Live(s))
    BY <1>1 DEF Live
  <2>. QED
    BY <1>11, <2>1, <2>2, <2>3 DEF LiveIn
<1>7. AloneKnows'
  <2>. SUFFICES ASSUME NEW v \in Workers,
                       call[v].at = "revoke", call[v].family \notin overlapped'
                PROVE  token'[call[v].old].state = "live"
    BY <1>2 DEF AloneKnows, Live
  <2>1. /\ Live(call[v].old) /\ call[v].old \in Stored
        /\ token[call[v].old].family = call[v].family
        /\ On(v, call[v].family)
    BY <1>0, <1>2, BusyFit DEF IInv, AloneKnows, Idle
  <2>2. call[v].old # t
    BY <1>2, <1>11, <2>1
  <2>. QED
    BY <1>1, <2>1, <2>2 DEF Live, Stored
<1>8. OneLivePerFamily'
  BY <1>2, <1>5, <1>6 DEF IInv, OneLivePerFamily
<1>9. ReuseClosesFamily'
  BY <1>0, <1>2, <1>5, <1>6 DEF IInv, ReuseClosesFamily, TypeOK
<1>10. SessionSurvives'
  <2>1. \A s \in known : s \in Tokens /\ token[s].family \in Families
                         /\ token'[s].family = token[s].family
    BY <1>0, <1>1 DEF RowsFit, Stored, OnlyRevokes
  <2>. QED
    BY <1>2, <1>5, <1>6, <2>1 DEF IInv, SessionSurvives
<1>. QED
  BY <1>3, <1>4, <1>5, <1>7, <1>8, <1>9, <1>10 DEF IInv

\* The old token of a Refresh is revoked.
LEMMA RevokeTokenStep ==
  ASSUME IInv, NEW w \in Workers, RevokeToken(w)
  PROVE  IInv'
<1>0. TypeOK /\ RowsFit /\ CallsFit
  BY DEF IInv
<1>1. PICK f \in Families, o \in Stored :
        /\ f = call[w].family /\ o = call[w].old /\ o # None /\ o \in Tokens
        /\ On(w, f) /\ call[w] \in Call /\ ~Idle(w) /\ call[w].user \in Users
        /\ token[o].family = f /\ token[o].user = call[w].user
  BY <1>0, BusyFit DEF RevokeToken, Idle, Stored
<1>2. /\ OnlyRevokes
      /\ token'[o].state = "revoked"
      /\ \A s \in Tokens : s # o => token'[s] = token[s]
  BY <1>0, <1>1, RevokesOne DEF RevokeToken
<1>3. UNCHANGED <<known, reported, overlapped>>
  BY DEF RevokeToken
<1>4. Stored' = Stored /\ RowsFit' /\ FamilyHasOneUser' /\ ExchangedIsRevoked'
  BY <1>2, <1>3, RevokingKeepsRows DEF IInv
<1>5. /\ \A g \in Families : LiveIn(g)' \subseteq LiveIn(g)
      /\ \A g \in Families : g # f => LiveIn(g)' = LiveIn(g)
      /\ LiveIn(f)' = LiveIn(f) \ {o}
  <2>1. \A s \in Tokens : token'[s].family = token[s].family
    BY <1>2 DEF OnlyRevokes
  <2>2. \A s \in Tokens : Live(s)' <=> s # o /\ Live(s)
    BY <1>2 DEF Live
  <2>. QED
    BY <1>1, <2>1, <2>2 DEF LiveIn
\* A Refresh alone on its family revokes the only good token.
<1>6. f \notin overlapped =>
        /\ LiveIn(f) = {o} /\ LiveIn(f)' = {}
        /\ f \notin reported
        /\ \A v \in Workers : On(v, f) => v = w
  <2>. SUFFICES ASSUME f \notin overlapped
                PROVE  LiveIn(f) = {o} /\ f \notin reported
                       /\ \A v \in Workers : On(v, f) => v = w
    BY <1>5
  <2>1. Live(o)
    BY <1>1 DEF IInv, AloneKnows, RevokeToken
  <2>2. o \in LiveIn(f)
    BY <1>1, <2>1 DEF LiveIn, Stored
  <2>. QED
    BY <1>1, <2>2 DEF IInv, OneLivePerFamily, ReuseClosesFamily
<1>7. AloneKnows' <=> \A v \in Workers :
         call'[v].at = "revoke" /\ call'[v].family \notin overlapped =>
           token'[call'[v].old].state = "live"
  BY <1>3 DEF AloneKnows, Live
<1>8. ASSUME NEW v \in Workers, v # w,
             call[v].at = "revoke", call[v].family \notin overlapped
      PROVE  token'[call[v].old].state = "live"
  <2>1. /\ Live(call[v].old) /\ call[v].old \in Stored
        /\ token[call[v].old].family = call[v].family
        /\ On(v, call[v].family)
    BY <1>0, <1>8, BusyFit DEF IInv, AloneKnows, Idle
  <2>2. call[v].old # o
    BY <1>1, <1>6, <1>8, <2>1
  <2>. QED
    BY <1>2, <2>1, <2>2 DEF Live, Stored
<1>9. CASE call' = [call EXCEPT ![w] = NoCall] /\ ended' = ended \cup {f}
  <2>1. call' \in [Workers -> Call] /\ call'[w] = NoCall
        /\ \A v \in Workers : v # w => call'[v] = call[v]
    BY <1>0, <1>9, MovesOne, NoCallTyped
  <2>2. /\ CallsFit'
        /\ \A v \in Workers, g \in Families : On(v, g)' => v # w /\ On(v, g)
        /\ \A v \in Workers, g \in Families :
             Rotating(v, g)' <=> v # w /\ Rotating(v, g)
    BY <1>0, <1>2, <1>9, EndingKeepsCalls
  <2>3. TypeOK'
    BY <1>0, <1>1, <1>2, <1>3, <1>9, <2>1 DEF TypeOK, OnlyRevokes
  <2>4. AloneKnows'
    BY <1>7, <1>8, <2>1, NoCallTyped
  <2>5. OneLivePerFamily' /\ ReuseClosesFamily'
    BY <1>0, <1>3, <1>5, <2>2
    DEF IInv, OneLivePerFamily, ReuseClosesFamily, TypeOK
  <2>6. SessionSurvives'
    <3>1. ~Rotating(w, f) /\ \A g \in Families : ~Rotating(w, g)
      BY DEF Rotating, RevokeToken
    <3>2. \A s \in known : s \in Tokens /\ token[s].family \in Families
                           /\ token'[s].family = token[s].family
      BY <1>0, <1>2 DEF RowsFit, Stored, OnlyRevokes
    <3>. QED
      BY <1>3, <1>5, <1>9, <2>2, <3>1, <3>2 DEF IInv, SessionSurvives
  <2>. QED
    BY <1>4, <2>2, <2>3, <2>4, <2>5, <2>6 DEF IInv
<1>10. CASE call' = [call EXCEPT ![w].at = "store"] /\ ended' = ended
  <2>1. /\ call' \in [Workers -> Call]
        /\ call'[w].at = "store" /\ call'[w].family = f
        /\ call'[w].user = call[w].user /\ call'[w].old = o
        /\ \A v \in Workers : v # w => call'[v] = call[v]
    <3>1. [call[w] EXCEPT !.at = "store"] \in Call
      BY <1>1 DEF Call
    <3>2. call' = [call EXCEPT ![w] = [call[w] EXCEPT !.at = "store"]]
      BY <1>0, <1>10 DEF TypeOK
    <3>. QED
      BY <1>0, <1>1, <3>1, <3>2, MovesOne DEF Call
  <2>2. /\ \A v \in Workers, g \in Families : On(v, g)' <=> On(v, g)
        /\ \A v \in Workers, g \in Families :
             Rotating(v, g)' <=> (v = w /\ g = f) \/ (v # w /\ Rotating(v, g))
    BY <1>1, <2>1 DEF On, Idle, Rotating
  <2>3. TypeOK'
    BY <1>0, <1>1, <1>2, <1>3, <1>10, <2>1 DEF TypeOK, OnlyRevokes
  <2>4. CallsFit'
    <3>1. CallFits(w)'
      BY <1>1, <1>2, <1>4, <2>1 DEF CallFits, OnlyRevokes, Stored
    <3>2. ASSUME NEW v \in Workers, v # w, ~Idle(v)' PROVE CallFits(v)'
      <4>1. CallFits(v) /\ call'[v] = call[v]
        BY <1>0, <2>1, <3>2 DEF CallsFit, Idle
      <4>2. \A t \in Stored : t \in Tokens
        BY DEF Stored
      <4>. QED
        BY <1>2, <1>4, <2>2, <4>1, <4>2 DEF CallFits, OnlyRevokes
    <3>. QED
      BY <3>1, <3>2 DEF CallsFit
  <2>5. AloneKnows'
    BY <1>7, <1>8, <2>1
  <2>6. OneLivePerFamily' /\ ReuseClosesFamily'
    BY <1>0, <1>3, <1>5, <1>6, <2>2
    DEF IInv, OneLivePerFamily, ReuseClosesFamily, TypeOK
  <2>7. SessionSurvives'
    <3>1. \A s \in known : s \in Tokens /\ token[s].family \in Families
                           /\ token'[s].family = token[s].family
      BY <1>0, <1>2 DEF RowsFit, Stored, OnlyRevokes
    <3>2. Rotating(w, f)' /\ \A g \in Families : ~Rotating(w, g)
      BY <1>1, <2>2 DEF Rotating, RevokeToken
    <3>. QED
      BY <1>3, <1>5, <1>10, <2>2, <3>1, <3>2 DEF IInv, SessionSurvives
  <2>. QED
    BY <1>4, <2>3, <2>4, <2>5, <2>6, <2>7 DEF IInv
<1>. QED
  BY <1>1, <1>9, <1>10 DEF RevokeToken

\* A new token is stored and answered.
LEMMA StoreRefreshTokenStep ==
  ASSUME IInv, NEW w \in Workers, StoreRefreshToken(w)
  PROVE  IInv'
<1>0. TypeOK /\ RowsFit /\ CallsFit
  BY DEF IInv
<1>1. PICK f \in Families, o \in Tokens \cup {None} :
      /\ f = call[w].family /\ o = call[w].old
      /\ On(w, f) /\ call[w] \in Call /\ ~Idle(w) /\ call[w].user \in Users
      /\ o # None => /\ o \in Stored /\ token[o].family = f
                     /\ token[o].user = call[w].user
                     /\ token[o].state = "revoked" /\ Rotating(w, f)
      /\ o = None => /\ \A t \in Stored : token[t].family # f
                     /\ \A v \in Workers : On(v, f) => v = w
  <2>1. ~Idle(w) /\ call[w].at = "store"
    BY DEF StoreRefreshToken, Idle
  <2>2. CallFits(w)
    BY <1>0, <2>1 DEF CallsFit
  <2>. QED
    BY <1>0, <2>1, <2>2, BusyFit DEF CallFits, Rotating, Call
<1>2. PICK n \in Tokens \ Stored :
        /\ token' = [token EXCEPT ![n] =
             [state |-> "live", family |-> f, user |-> call[w].user,
              parent |-> o, expired |-> FALSE]]
        /\ \/ known' = known \cup {n} /\ UNCHANGED ended
           \/ ended' = ended \cup {f} /\ UNCHANGED known
  BY <1>1 DEF StoreRefreshToken
<1>3. call' = [call EXCEPT ![w] = NoCall] /\ UNCHANGED <<reported, overlapped>>
  BY DEF StoreRefreshToken
<1>4. call' \in [Workers -> Call] /\ call'[w] = NoCall
      /\ \A v \in Workers : v # w => call'[v] = call[v]
  BY <1>0, <1>3, MovesOne, NoCallTyped
<1>5. [state |-> "live", family |-> f, user |-> call[w].user,
       parent |-> o, expired |-> FALSE] \in Row
  BY <1>1 DEF Row, Call
<1>. DEFINE r == [state |-> "live", family |-> f, user |-> call[w].user,
                  parent |-> o, expired |-> FALSE]
<1>6. /\ r.state = "live" /\ r.family = f /\ r.user = call[w].user /\ r.parent = o
  OBVIOUS
<1>. HIDE DEF r
<1>7. /\ token' \in [Tokens -> Row] /\ token'[n] = r
      /\ \A s \in Tokens : s # n => token'[s] = token[s]
      /\ Stored' = Stored \cup {n}
  BY <1>0, <1>2, <1>5, <1>6, StoresOne DEF r
<1>8. \A s \in Stored : s \in Tokens /\ token'[s] = token[s] /\ s # n
  BY <1>2, <1>7 DEF Stored
<1>9. TypeOK'
  BY <1>0, <1>1, <1>2, <1>3, <1>4, <1>7 DEF TypeOK
<1>10. RowsFit'
  BY <1>0, <1>1, <1>2, <1>3, <1>6, <1>7, <1>8 DEF RowsFit
<1>11. FamilyHasOneUser'
  BY <1>1, <1>6, <1>7, <1>8 DEF IInv, FamilyHasOneUser
<1>12. ExchangedIsRevoked'
  BY <1>0, <1>1, <1>6, <1>7, <1>8 DEF IInv, ExchangedIsRevoked, RowsFit
<1>13. /\ \A v \in Workers, g \in Families : On(v, g)' <=> v # w /\ On(v, g)
       /\ \A v \in Workers, g \in Families :
            Rotating(v, g)' <=> v # w /\ Rotating(v, g)
  BY <1>4, NoCallTyped DEF On, Idle, Rotating
<1>14. CallsFit'
  <2>. SUFFICES ASSUME NEW v \in Workers, v # w, ~Idle(v) PROVE CallFits(v)'
    BY <1>4, NoCallTyped DEF CallsFit, Idle
  <2>1. CallFits(v) /\ call'[v] = call[v] /\ On(v, call[v].family)
    BY <1>0, <1>4 DEF CallsFit, On
  <2>2. call[v].old = None => call[v].family # f
    BY <1>1, <2>1 DEF CallFits
  <2>. QED
    BY <1>6, <1>7, <1>8, <1>13, <2>1, <2>2 DEF CallFits
<1>15. AloneKnows'
  <2>. SUFFICES ASSUME NEW v \in Workers, v # w, call[v].at = "revoke",
                       call[v].family \notin overlapped
                PROVE  Live(call[v].old)' /\ call'[v] = call[v]
    BY <1>3, <1>4, NoCallTyped DEF AloneKnows, Live
  <2>. QED
    BY <1>0, <1>4, <1>8, BusyFit DEF IInv, AloneKnows, Idle, Live
<1>16. /\ \A g \in Families : g # f => LiveIn(g)' = LiveIn(g)
       /\ LiveIn(f)' = LiveIn(f) \cup {n}
  <2>1. \A s \in Tokens : s # n =>
          (Live(s)' <=> Live(s)) /\ token'[s].family = token[s].family
    BY <1>7 DEF Live
  <2>2. Live(n)' /\ token'[n].family = f
    BY <1>6, <1>7 DEF Live
  <2>3. ~Live(n) /\ n \in Tokens
    BY <1>2 DEF Live, Stored
  <2>. QED
    BY <2>1, <2>2, <2>3 DEF LiveIn
\* The family had no good token before, or other requests were working on it.
<1>17. f \notin overlapped => /\ LiveIn(f) = {} /\ f \notin reported
                              /\ \A v \in Workers : On(v, f) => v = w
  <2>1. CASE o = None
    <3>1. \A t \in Tokens : t \in LiveIn(f) => t \in Stored
      BY DEF LiveIn, Live, Stored
    <3>. QED
      BY <1>0, <1>1, <2>1, <3>1 DEF LiveIn, RowsFit
  <2>2. CASE o # None
    BY <1>1, <2>2 DEF IInv, OneLivePerFamily, ReuseClosesFamily
  <2>. QED
    BY <2>1, <2>2
<1>18. OneLivePerFamily'
  <2>1. ASSUME NEW g \in Families \ overlapped
        PROVE  /\ \A s, t \in LiveIn(g)' : s = t
               /\ \A v, x \in Workers : On(v, g)' /\ On(x, g)' => v = x
               /\ (\E v \in Workers : Rotating(v, g)') => LiveIn(g)' = {}
    <3>1. CASE g = f
      BY <1>13, <1>16, <1>17, <2>1, <3>1 DEF Rotating
    <3>2. CASE g # f
      BY <1>13, <1>16, <2>1, <3>2 DEF IInv, OneLivePerFamily
    <3>. QED
      BY <3>1, <3>2
  <2>. QED
    BY <1>3, <2>1 DEF OneLivePerFamily
<1>20. ReuseClosesFamily'
  <2>1. \A g \in reported \ overlapped : g \in Families /\ g # f
    BY <1>0, <1>17 DEF TypeOK
  <2>. QED
    BY <1>3, <1>13, <1>16, <2>1 DEF IInv, ReuseClosesFamily
<1>19. SessionSurvives'
  <2>. SUFFICES ASSUME NEW s \in known', NEW g \in Families,
                       token'[s].family = g, g \notin ended'
                PROVE  \/ LiveIn(g)' \cap known' # {}
                       \/ \E v \in Workers : Rotating(v, g)'
    BY <1>10 DEF RowsFit, SessionSurvives
  <2>1. CASE g = f
    BY <1>2, <1>16, <2>1
  <2>2. CASE g # f
    <3>1. s \in known /\ token[s].family = g
      BY <1>0, <1>2, <1>6, <1>7, <1>8, <2>2 DEF RowsFit
    <3>2. ~Rotating(w, g)
      BY <1>1, <2>2 DEF Rotating, On
    <3>3. g \notin ended
      BY <1>2
    <3>4. LiveIn(g) \cap known # {} \/ \E v \in Workers : Rotating(v, g)
      BY <3>1, <3>3 DEF IInv, SessionSurvives
    <3>5. LiveIn(g)' = LiveIn(g) /\ known \subseteq known'
      BY <1>2, <1>16, <2>2
    <3>. QED
      BY <1>13, <3>2, <3>4, <3>5
  <2>. QED
    BY <2>1, <2>2
<1>. QED
  BY <1>9, <1>10, <1>11, <1>12, <1>14, <1>15, <1>18, <1>20, <1>19 DEF IInv

\* A login starts a family of its own.
LEMMA LoginStep ==
  ASSUME IInv, NEW w \in Workers, Login(w)
  PROVE  IInv'
<1>0. TypeOK /\ RowsFit /\ CallsFit /\ Idle(w)
  BY DEF IInv, Login
<1>1. PICK u \in Users, f \in Families :
        /\ \A t \in Stored : token[t].family # f
        /\ \A v \in Workers : ~On(v, f)
        /\ call' = [call EXCEPT ![w] = [at |-> "store", family |-> f,
                                        user |-> u, old |-> None]]
  BY DEF Login
<1>2. UNCHANGED <<token, known, reported, ended, overlapped>>
  BY DEF Login, history
<1>3. /\ call' \in [Workers -> Call]
      /\ call'[w].at = "store" /\ call'[w].family = f
      /\ call'[w].user = u /\ call'[w].old = None
      /\ \A v \in Workers : v # w => call'[v] = call[v]
  <2>1. [at |-> "store", family |-> f, user |-> u, old |-> None] \in Call
    BY DEF Call
  <2>. QED
    BY <1>0, <1>1, <2>1, MovesOne
<1>4. TypeOK' /\ OnlyRevokes
  BY <1>0, <1>2, <1>3 DEF TypeOK, OnlyRevokes
<1>5. Stored' = Stored /\ RowsFit' /\ FamilyHasOneUser' /\ ExchangedIsRevoked'
  BY <1>2, <1>4, RevokingKeepsRows DEF IInv
<1>6. /\ \A v \in Workers, g \in Families :
           On(v, g)' <=> (v = w /\ g = f) \/ (v # w /\ On(v, g))
      /\ \A v \in Workers, g \in Families : Rotating(v, g)' <=> Rotating(v, g)
  BY <1>0, <1>3 DEF On, Idle, Rotating
<1>7. CallsFit'
  <2>1. CallFits(w)'
    BY <1>1, <1>2, <1>3, <1>5, <1>6 DEF CallFits
  <2>2. ASSUME NEW v \in Workers, v # w, ~Idle(v)' PROVE CallFits(v)'
    <3>1. CallFits(v) /\ call'[v] = call[v] /\ On(v, call[v].family)
      BY <1>0, <1>3, <2>2 DEF CallsFit, Idle, On
    <3>2. call[v].family # f
      BY <1>1, <3>1
    <3>. QED
      BY <1>2, <1>5, <1>6, <3>1, <3>2 DEF CallFits
  <2>. QED
    BY <2>1, <2>2 DEF CallsFit
<1>8. AloneKnows'
  BY <1>2, <1>3 DEF IInv, AloneKnows, Live
<1>9. \A g : LiveIn(g)' = LiveIn(g)
  BY <1>2 DEF LiveIn, Live
<1>10. OneLivePerFamily'
  <2>1. \A v, x \in Workers, g \in Families :
          g \notin overlapped /\ On(v, g)' /\ On(x, g)' => v = x
    BY <1>1, <1>6 DEF IInv, OneLivePerFamily
  <2>. QED
    BY <1>2, <1>6, <1>9, <2>1 DEF IInv, OneLivePerFamily
<1>11. ReuseClosesFamily'
  BY <1>0, <1>2, <1>6, <1>9 DEF IInv, ReuseClosesFamily, TypeOK
<1>12. SessionSurvives'
  BY <1>0, <1>2, <1>6, <1>9 DEF IInv, SessionSurvives, RowsFit, Stored
<1>. QED
  BY <1>4, <1>5, <1>7, <1>8, <1>10, <1>11, <1>12 DEF IInv

\* A Refresh finds its token and decides between exchange and reuse.
LEMMA RefreshStep ==
  ASSUME IInv, NEW w \in Workers, Refresh(w)
  PROVE  IInv'
<1>0. TypeOK /\ RowsFit /\ CallsFit /\ Idle(w)
  BY DEF IInv, Refresh
<1>1. PICK t \in known :
        Start(w, [at |-> IF Live(t) THEN "revoke" ELSE "revokeFamily",
                  family |-> token[t].family, user |-> token[t].user,
                  old |-> t])
  BY DEF Refresh
<1>2. UNCHANGED <<token, known, reported, ended>>
  BY DEF Refresh
<1>3. PICK f \in Families :
      /\ f = token[t].family /\ t \in Stored /\ t \in Tokens
      /\ token[t].user \in Users /\ t # None
      /\ ~Live(t) => token[t].state = "revoked"
  BY <1>0, ConstantsAssumption DEF RowsFit, Stored, Live, TypeOK, Row
<1>4. /\ call' \in [Workers -> Call]
      /\ call'[w].at = (IF Live(t) THEN "revoke" ELSE "revokeFamily")
      /\ call'[w].family = f
      /\ call'[w].user = token[t].user /\ call'[w].old = t
      /\ \A v \in Workers : v # w => call'[v] = call[v]
  <2>. DEFINE c == [at |-> IF Live(t) THEN "revoke" ELSE "revokeFamily",
                    family |-> token[t].family, user |-> token[t].user,
                    old |-> t]
  <2>1. c \in Call
    BY <1>3 DEF Call
  <2>2. call' = [call EXCEPT ![w] = c]
    BY <1>1 DEF Start
  <2>3. /\ c.at = (IF Live(t) THEN "revoke" ELSE "revokeFamily")
        /\ c.family = f /\ c.user = token[t].user /\ c.old = t
    BY <1>3
  <2>. HIDE DEF c
  <2>. QED
    BY <1>0, <2>1, <2>2, <2>3, MovesOne
<1>5. /\ overlapped \subseteq overlapped' /\ overlapped' \subseteq overlapped \cup {f}
      /\ (\E v \in Workers : On(v, f)) => f \in overlapped'
  BY <1>1, <1>3 DEF Start
<1>6. TypeOK' /\ OnlyRevokes
  BY <1>0, <1>2, <1>3, <1>4, <1>5 DEF TypeOK, OnlyRevokes
<1>7. Stored' = Stored /\ RowsFit' /\ FamilyHasOneUser' /\ ExchangedIsRevoked'
  BY <1>2, <1>6, RevokingKeepsRows DEF IInv
<1>8. /\ \A v \in Workers, g \in Families :
           On(v, g)' <=> (v = w /\ g = f) \/ (v # w /\ On(v, g))
      /\ \A v \in Workers, g \in Families : Rotating(v, g)' <=> Rotating(v, g)
  BY <1>0, <1>4 DEF On, Idle, Rotating
<1>9. CallsFit'
  <2>1. CallFits(w)'
    BY <1>2, <1>3, <1>4, <1>7 DEF CallFits
  <2>2. ASSUME NEW v \in Workers, v # w, ~Idle(v)' PROVE CallFits(v)'
    <3>1. CallFits(v) /\ call'[v] = call[v]
      BY <1>0, <1>4, <2>2 DEF CallsFit, Idle
    <3>2. call[v].old = None => call[v].family # f
      BY <1>3, <3>1 DEF CallFits
    <3>. QED
      BY <1>2, <1>7, <1>8, <3>1, <3>2 DEF CallFits
  <2>. QED
    BY <2>1, <2>2 DEF CallsFit
<1>10. AloneKnows'
  <2>1. call'[w].at = "revoke" => Live(call'[w].old)
    BY <1>4
  <2>2. \A s : Live(s)' <=> Live(s)
    BY <1>2 DEF Live
  <2>3. \A g : g \notin overlapped' => g \notin overlapped
    BY <1>5
  <2>4. ASSUME NEW v \in Workers, call'[v].at = "revoke",
               call'[v].family \notin overlapped'
        PROVE  Live(call'[v].old)
    BY <1>4, <2>1, <2>3, <2>4 DEF IInv, AloneKnows
  <2>5. \A v \in Workers : call'[v].at = "revoke" /\ call'[v].family \notin overlapped'
          => token'[call'[v].old].state = "live"
    BY <1>2, <2>4 DEF Live
  <2>. QED
    BY <2>5 DEF AloneKnows, Live
<1>11. \A g : LiveIn(g)' = LiveIn(g)
  BY <1>2 DEF LiveIn, Live
<1>12. OneLivePerFamily'
  <2>1. \A v, x \in Workers, g \in Families :
          g \notin overlapped' /\ On(v, g)' /\ On(x, g)' => v = x
    BY <1>5, <1>8 DEF IInv, OneLivePerFamily
  <2>. QED
    BY <1>5, <1>8, <1>11, <2>1 DEF IInv, OneLivePerFamily
<1>13. ReuseClosesFamily'
  BY <1>0, <1>2, <1>5, <1>8, <1>11 DEF IInv, ReuseClosesFamily, TypeOK
<1>14. SessionSurvives'
  BY <1>0, <1>2, <1>8, <1>11 DEF IInv, SessionSurvives, RowsFit, Stored
<1>. QED
  BY <1>6, <1>7, <1>9, <1>10, <1>12, <1>13, <1>14 DEF IInv

-----------------------------------------------------------------------------
(* Chains.  ChainInv is preserved by the steps from states of IInv.          *)

\* Such chains stay when no token is stored and no request begins an exchange,
\* or one does of a token without a successor.
LEMMA KeepsChains ==
  ASSUME ChainInv, OnlyRevokes, overlapped \subseteq overlapped',
         \A v \in Workers :
           \/ call'[v] = call[v]
           \/ call'[v].at # "store"
           \/ call'[v].old = None
           \/ \A t \in Stored : token[t].parent # call'[v].old
  PROVE  ChainInv'
<1>1. Stored' = Stored /\ \A t \in Stored : t \in Tokens
  BY DEF OnlyRevokes, Stored
<1>2. ChainsDoNotFork'
  BY <1>1 DEF ChainInv, ChainsDoNotFork, OnlyRevokes
<1>3. ASSUME NEW v \in Workers, NEW f \in Families \ overlapped', Rotating(v, f)'
      PROVE  \A t \in Stored : token[t].parent # call'[v].old
  <2>1. CASE call'[v] = call[v]
    BY <1>3, <2>1 DEF ChainInv, ExchangesAreOpen, Rotating, On, Idle
  <2>2. CASE call'[v] # call[v]
    BY <1>3, <2>2 DEF Rotating
  <2>. QED
    BY <2>1, <2>2
<1>4. ExchangesAreOpen'
  BY <1>1, <1>3 DEF ExchangesAreOpen, OnlyRevokes
<1>. QED
  BY <1>2, <1>4 DEF ChainInv

\* Requests that start, end or are cut short begin no exchange.
LEMMA OtherStepsKeepChains ==
  ASSUME IInv, ChainInv, NEW w \in Workers,
         Login(w) \/ Refresh(w) \/ RevokeFamily(w) \/ Fails(w)
  PROVE  ChainInv'
<1>0. TypeOK /\ CallsFit
  BY DEF IInv
<1>1. \A v \in Workers : v # w => call'[v] = call[v]
  BY <1>0 DEF TypeOK, Login, Refresh, Start, RevokeFamily, Fails
<1>2. call'[w].at # "store" \/ call'[w].old = None
  BY <1>0 DEF TypeOK, Login, Refresh, Start, RevokeFamily, Fails, NoCall
<1>3. overlapped \subseteq overlapped'
  BY DEF Login, Refresh, Start, RevokeFamily, Fails, history
<1>4. OnlyRevokes
  <2>1. CASE RevokeFamily(w)
    <3>1. call[w].family \in Families
      BY <1>0, <2>1, BusyFit DEF RevokeFamily, Idle
    <3>. QED
      BY <1>0, <2>1, <3>1, RevokesAll DEF RevokeFamily
  <2>2. CASE ~RevokeFamily(w)
    BY <1>0, <2>2 DEF Login, Refresh, Fails, OnlyRevokes, TypeOK
  <2>. QED
    BY <2>1, <2>2
<1>. QED
  BY <1>1, <1>2, <1>3, <1>4, KeepsChains

\* A token is exchanged while it is good, unless its family is shared, and a good
\* token has no successor.
LEMMA RevokeTokenKeepsChains ==
  ASSUME IInv, ChainInv, NEW w \in Workers, RevokeToken(w)
  PROVE  ChainInv'
<1>0. TypeOK /\ CallsFit /\ RowsFit /\ ~Idle(w) /\ call[w].at = "revoke"
  BY DEF IInv, RevokeToken, Idle
<1>1. PICK f \in Families, o \in Stored :
        f = call[w].family /\ o = call[w].old /\ On(w, f) /\ o \in Tokens
  BY <1>0, BusyFit DEF Stored
<1>2. OnlyRevokes /\ overlapped' = overlapped
  BY <1>0, <1>1, RevokesOne DEF RevokeToken
<1>3. Stored' = Stored /\ \A t \in Stored : t \in Tokens
  BY <1>2 DEF OnlyRevokes, Stored
<1>4. \A v \in Workers : v # w => call'[v] = call[v]
  BY <1>0 DEF RevokeToken, TypeOK
<1>5. call'[w].at = "store" => call'[w].family = f /\ call'[w].old = o
  BY <1>0, <1>1 DEF RevokeToken, TypeOK, Call, NoCall
<1>6. f \notin overlapped => \A t \in Stored : token[t].parent # o
  <2>1. f \notin overlapped => Live(o)
    BY <1>0, <1>1 DEF IInv, AloneKnows
  <2>2. o # None
    BY <1>1, ConstantsAssumption
  <2>. QED
    BY <2>1, <2>2 DEF IInv, ExchangedIsRevoked, Live
<1>7. ChainsDoNotFork'
  BY <1>2, <1>3 DEF ChainInv, ChainsDoNotFork, OnlyRevokes
<1>8. ASSUME NEW v \in Workers, NEW g \in Families \ overlapped, Rotating(v, g)'
      PROVE  \A t \in Stored : token[t].parent # call'[v].old
  <2>1. CASE v = w
    BY <1>5, <1>6, <1>8, <2>1 DEF Rotating, On
  <2>2. CASE v # w
    BY <1>4, <1>8, <2>2 DEF ChainInv, ExchangesAreOpen, Rotating, On, Idle
  <2>. QED
    BY <2>1, <2>2
<1>9. ExchangesAreOpen'
  BY <1>2, <1>3, <1>8 DEF ExchangesAreOpen, OnlyRevokes
<1>. QED
  BY <1>7, <1>9 DEF ChainInv

\* The successor that is stored is the first of its old token, and no other
\* request is exchanging that token.
LEMMA StoreKeepsChains ==
  ASSUME IInv, ChainInv, NEW w \in Workers, StoreRefreshToken(w)
  PROVE  ChainInv'
<1>0. TypeOK /\ CallsFit /\ RowsFit /\ ~Idle(w) /\ call[w].at = "store"
  BY DEF IInv, StoreRefreshToken, Idle
<1>1. PICK f \in Families, o \in Tokens \cup {None} :
        /\ f = call[w].family /\ o = call[w].old /\ On(w, f)
        /\ call[w].user \in Users
        /\ o # None => o \in Stored /\ token[o].family = f /\ Rotating(w, f)
  BY <1>0, BusyFit DEF Call, Rotating
<1>2. PICK n \in Tokens \ Stored :
        token' = [token EXCEPT ![n] =
          [state |-> "live", family |-> f, user |-> call[w].user,
           parent |-> o, expired |-> FALSE]]
  BY <1>1 DEF StoreRefreshToken
<1>3. /\ token'[n].family = f /\ token'[n].parent = o
      /\ \A s \in Tokens : s # n => token'[s] = token[s]
      /\ Stored' = Stored \cup {n}
  <2>1. [state |-> "live", family |-> f, user |-> call[w].user,
         parent |-> o, expired |-> FALSE] \in Row
    BY <1>1 DEF Row
  <2>. QED
    BY <1>0, <1>2, <2>1, StoresOne
<1>4. \A s \in Stored : s \in Tokens /\ s # n /\ token'[s] = token[s]
  BY <1>3 DEF Stored
<1>5. /\ call'[w].at = "idle" /\ overlapped' = overlapped
      /\ \A v \in Workers : v # w => call'[v] = call[v]
  BY <1>0, MovesOne, NoCallTyped DEF StoreRefreshToken
<1>6. f \notin overlapped /\ o # None => \A t \in Stored : token[t].parent # o
  BY <1>1 DEF ChainInv, ExchangesAreOpen
<1>7. ChainsDoNotFork'
  <2>. SUFFICES ASSUME NEW g \in Families \ overlapped, NEW s \in Stored',
                       NEW t \in Stored',
                       token'[s].family = g, token'[t].family = g,
                       token'[s].parent # None,
                       token'[s].parent = token'[t].parent
                PROVE  s = t
    BY <1>5 DEF ChainsDoNotFork
  <2>1. CASE s # n /\ t # n
    BY <1>3, <1>4, <2>1 DEF ChainInv, ChainsDoNotFork
  <2>2. CASE s = n \/ t = n
    BY <1>3, <1>4, <1>6, <2>2
  <2>. QED
    BY <2>1, <2>2
<1>8. ASSUME NEW v \in Workers, NEW g \in Families \ overlapped, Rotating(v, g)'
      PROVE  \A t \in Stored' : token'[t].parent # call'[v].old
  <2>1. v # w /\ call'[v] = call[v] /\ Rotating(v, g) /\ call[v].old # None
    BY <1>5, <1>8 DEF Rotating, On, Idle
  <2>2. call[v].old \in Stored /\ token[call[v].old].family = g
    BY <1>0, <2>1, BusyFit DEF Rotating, On
  <2>3. o = None \/ o # call[v].old
    BY <1>1, <1>8, <2>1, <2>2 DEF IInv, OneLivePerFamily, Rotating
  <2>4. \A t \in Stored : token[t].parent # call[v].old
    BY <1>8, <2>1 DEF ChainInv, ExchangesAreOpen
  <2>. QED
    BY <1>3, <1>4, <2>1, <2>3, <2>4
<1>9. ExchangesAreOpen'
  BY <1>5, <1>8 DEF ExchangesAreOpen
<1>. QED
  BY <1>7, <1>9 DEF ChainInv

LEMMA InitChains == Init => ChainInv
<1>. SUFFICES ASSUME Init PROVE ChainInv
  OBVIOUS
<1>1. Stored = {}
  BY DEF Init, Stored, NoRow
<1>. QED
  BY <1>1 DEF ChainInv, ChainsDoNotFork, ExchangesAreOpen

LEMMA NextChains == IInv /\ ChainInv /\ [Next]_vars => ChainInv'
<1>. SUFFICES ASSUME IInv, ChainInv, [Next]_vars PROVE ChainInv'
  OBVIOUS
<1>0. TypeOK /\ RowsFit
  BY DEF IInv
<1>1. ASSUME NEW w \in Workers,
             Login(w) \/ Refresh(w) \/ RevokeFamily(w) \/ Fails(w)
      PROVE  ChainInv'
  BY <1>1, OtherStepsKeepChains
<1>2. ASSUME NEW w \in Workers, RevokeToken(w) PROVE ChainInv'
  BY <1>2, RevokeTokenKeepsChains
<1>3. ASSUME NEW w \in Workers, StoreRefreshToken(w) PROVE ChainInv'
  BY <1>3, StoreKeepsChains
<1>4. ASSUME NEW t \in known, Logout(t) PROVE ChainInv'
  <2>1. t \in Stored
    BY <1>0 DEF RowsFit
  <2>2. OnlyRevokes
    BY <1>0, <1>4, <2>1, RevokesOne DEF Logout
  <2>3. call' = call /\ overlapped \subseteq overlapped'
    BY <1>4 DEF Logout
  <2>. QED
    BY <2>2, <2>3, KeepsChains
<1>5. ASSUME NEW t \in Stored, Expire(t) PROVE ChainInv'
  <2>1. /\ t \in Tokens /\ token[t] \in Row
        /\ token' = [token EXCEPT ![t].expired = TRUE]
        /\ call' = call /\ overlapped' = overlapped
    BY <1>0, <1>5 DEF TypeOK, Stored, Expire, history
  <2>2. OnlyRevokes
    BY <1>0, <2>1, ExpiredTyped DEF OnlyRevokes, TypeOK
  <2>. QED
    BY <2>1, <2>2, KeepsChains
<1>6. ASSUME Restart PROVE ChainInv'
  <2>1. OnlyRevokes /\ overlapped' = overlapped
    BY <1>0, <1>6 DEF Restart, OnlyRevokes, TypeOK
  <2>2. \A v \in Workers : call'[v].at # "store"
    BY <1>6 DEF Restart, NoCall
  <2>. QED
    BY <2>1, <2>2, KeepsChains
<1>7. ASSUME UNCHANGED vars PROVE ChainInv'
  <2>1. OnlyRevokes /\ overlapped' = overlapped /\ call' = call
    BY <1>0, <1>7 DEF vars, OnlyRevokes, TypeOK
  <2>. QED
    BY <2>1, KeepsChains
<1>. QED
  BY <1>1, <1>2, <1>3, <1>4, <1>5, <1>6, <1>7 DEF Next, Step

-----------------------------------------------------------------------------
(* The theorems.                                                            *)

LEMMA InitIInv == Init => IInv
<1>. SUFFICES ASSUME Init PROVE IInv
  OBVIOUS
<1>1. NoRow \in Row /\ NoRow.state = "none"
  BY DEF NoRow, Row
<1>2. TypeOK
  BY <1>1, NoCallTyped DEF Init, TypeOK
<1>3. Stored = {} /\ \A f : LiveIn(f) = {}
  BY <1>1 DEF Init, Stored, LiveIn, Live
<1>4. /\ \A w \in Workers : Idle(w) /\ call[w].at # "revoke"
      /\ \A w \in Workers, f \in Families : ~On(w, f) /\ ~Rotating(w, f)
  BY NoCallTyped DEF Init, Idle, On, Rotating
<1>5. known = {} /\ reported = {}
  BY DEF Init
<1>6. RowsFit /\ CallsFit /\ FamilyHasOneUser /\ ExchangedIsRevoked /\ AloneKnows
  BY <1>3, <1>4, <1>5
  DEF RowsFit, CallsFit, FamilyHasOneUser, ExchangedIsRevoked, AloneKnows
<1>7. OneLivePerFamily /\ ReuseClosesFamily /\ SessionSurvives
  BY <1>3, <1>4, <1>5 DEF OneLivePerFamily, ReuseClosesFamily, SessionSurvives
<1>. QED
  BY <1>2, <1>6, <1>7 DEF IInv

LEMMA NextIInv == IInv /\ [Next]_vars => IInv'
<1>. SUFFICES ASSUME IInv, [Next]_vars PROVE IInv'
  OBVIOUS
<1>1. ASSUME NEW w \in Workers, Login(w) PROVE IInv'
  BY <1>1, LoginStep
<1>2. ASSUME NEW w \in Workers, Refresh(w) PROVE IInv'
  BY <1>2, RefreshStep
<1>3. ASSUME NEW w \in Workers, RevokeToken(w) PROVE IInv'
  BY <1>3, RevokeTokenStep
<1>4. ASSUME NEW w \in Workers, StoreRefreshToken(w) PROVE IInv'
  BY <1>4, StoreRefreshTokenStep
<1>5. ASSUME NEW w \in Workers, RevokeFamily(w) PROVE IInv'
  BY <1>5, RevokeFamilyStep
<1>6. ASSUME NEW w \in Workers, Fails(w) PROVE IInv'
  BY <1>6, FailsStep
<1>7. ASSUME NEW t \in known, Logout(t) PROVE IInv'
  BY <1>7, LogoutStep
<1>8. ASSUME NEW t \in Stored, Expire(t) PROVE IInv'
  BY <1>8, ExpireStep
<1>9. ASSUME Restart PROVE IInv'
  BY <1>9, RestartStep
<1>10. ASSUME UNCHANGED vars PROVE IInv'
  BY <1>10
  DEF vars, IInv, TypeOK, RowsFit, CallsFit, CallFits, FamilyHasOneUser,
      ExchangedIsRevoked, AloneKnows, OneLivePerFamily, ReuseClosesFamily,
      SessionSurvives, Stored, LiveIn, Live, On, Idle, Rotating
<1>. QED
  BY <1>1, <1>2, <1>3, <1>4, <1>5, <1>6, <1>7, <1>8, <1>9, <1>10 DEF Next, Step

\* The inductive invariant: at every moment the table, the requests in
\* progress and the histories fit together as IInv says.
THEOREM Invariant == Spec => []IInv
BY InitIInv, NextIInv, PTL DEF Spec

\* Every variable keeps its type.
THEOREM TypeCorrect == Spec => []TypeOK
<1>1. IInv => TypeOK
  BY DEF IInv
<1>. QED
  BY Invariant, <1>1, PTL

\* However logins and rotations overlap or fail, the tokens of a family belong to
\* one user, and a token that Refresh exchanged is revoked and stays revoked; a
\* family whose requests come one at a time is a chain with at most one good
\* token, and with none once it was answered "reuse detected; family revoked".
THEOREM RotationsAreSafe == Spec => []RotationIsSafe
<1>1. IInv /\ ChainInv => RotationIsSafe
  BY DEF IInv, ChainInv, RotationIsSafe
<1>. QED
  BY Invariant, InitChains, NextChains, <1>1, PTL DEF Spec

\* A client loses its session only to a logout, a reuse or a rotation that was
\* cut short.
THEOREM SessionsSurvive == Spec => []SessionSurvives
<1>1. IInv => SessionSurvives
  BY DEF IInv
<1>. QED
  BY Invariant, <1>1, PTL

-----------------------------------------------------------------------------
(* The implementation of Sessions.                                          *)

\* A token of family f is stored.
HasRows(f) == \E t \in Stored : token[t].family = f

\* While nobody shares it, a family stands on one token at most.
LEMMA StandingIsOne ==
  IInv => \A f \in Families :
    /\ \A t \in Standing(f) : t \in Stored /\ token[t].family = f
    /\ f \notin overlapped => \A s, t \in Standing(f) : s = t
<1>. SUFFICES ASSUME IInv, NEW f \in Families
              PROVE  /\ \A t \in Standing(f) : t \in Stored /\ token[t].family = f
                     /\ f \notin overlapped => \A s, t \in Standing(f) : s = t
  OBVIOUS
<1>1. \A t \in LiveIn(f) : t \in Stored /\ token[t].family = f
  BY DEF LiveIn, Live, Stored
<1>2. ASSUME NEW w \in Workers, Rotating(w, f)
      PROVE  call[w].old \in Stored /\ token[call[w].old].family = f
  BY <1>2, BusyFit DEF IInv, Rotating, On
<1>3. ASSUME f \notin overlapped, NEW w \in Workers, Rotating(w, f)
      PROVE  LiveIn(f) = {} /\ \A v \in Workers : Rotating(v, f) => v = w
  BY <1>3 DEF IInv, OneLivePerFamily, Rotating
<1>4. f \notin overlapped => \A s, t \in LiveIn(f) : s = t
  BY DEF IInv, OneLivePerFamily
<1>. QED
  BY <1>1, <1>2, <1>3, <1>4 DEF Standing

\* How a family stands as a session, case by case.
StandsAs(f) ==
  /\ f \in overlapped => Session(f) = Abstract!Shared
  /\ f \notin overlapped => \A t \in Standing(f) :
       Session(f) = Abstract!Opened(t, token[t].user)
  /\ f \notin overlapped /\ Standing(f) = {} =>
       Session(f) = IF HasRows(f) THEN Abstract!Closed ELSE Abstract!Fresh

LEMMA SessionCases == IInv => \A f \in Families : StandsAs(f)
<1>. SUFFICES ASSUME IInv, NEW f \in Families PROVE StandsAs(f)
  OBVIOUS
<1>1. f \in overlapped => Session(f) = Abstract!Shared
  BY DEF Session, Abstract!Shared
<1>2. ASSUME f \notin overlapped, NEW t \in Standing(f)
      PROVE  Session(f) = Abstract!Opened(t, token[t].user)
  <2>1. (CHOOSE s \in Standing(f) : TRUE) = t
    BY <1>2, StandingIsOne
  <2>. QED
    BY <1>2, <2>1 DEF Session, Abstract!Opened
<1>3. ASSUME f \notin overlapped, Standing(f) = {}
      PROVE  Session(f) = IF HasRows(f) THEN Abstract!Closed ELSE Abstract!Fresh
  BY <1>3 DEF Session, HasRows, Abstract!Closed, Abstract!Fresh
<1>. QED
  BY <1>1, <1>2, <1>3 DEF StandsAs

\* The same before and after a step.
LEMMA SessionCasesNext ==
  IInv /\ IInv' => \A f \in Families : StandsAs(f) /\ StandsAs(f)'
<1>1. IInv => \A f \in Families : StandsAs(f)
  BY SessionCases
<1>2. (IInv => \A f \in Families : StandsAs(f))'
  BY <1>1, PTL
<1>. QED
  BY <1>1, <1>2

\* A step that issues no token leaves the tokens' families alone.
LEMMA NoneIssued ==
  ASSUME OnlyRevokes
  PROVE  /\ \A f \in Families : HasRows(f)' <=> HasRows(f)
         /\ \A t \in Tokens : IssuedIn(t)' = IssuedIn(t)
BY DEF OnlyRevokes, HasRows, IssuedIn, Stored

\* A family that is touched by a step in no respect stands as it did.
LEMMA SameSession ==
  ASSUME IInv, IInv', NEW f \in Families,
         f \in overlapped' <=> f \in overlapped,
         HasRows(f)' <=> HasRows(f),
         f \notin overlapped => /\ Standing(f)' = Standing(f)
                                /\ \A t \in Standing(f) : token'[t].user = token[t].user
  PROVE  Session(f)' = Session(f)
<1>1. CASE f \in overlapped
  BY <1>1, SessionCasesNext
     DEF StandsAs, Abstract!Shared, Abstract!Opened, Abstract!Closed,
         Abstract!Fresh
<1>2. CASE f \notin overlapped /\ Standing(f) = {}
  BY <1>2, SessionCasesNext
     DEF StandsAs, Abstract!Shared, Abstract!Opened, Abstract!Closed,
         Abstract!Fresh
<1>3. CASE f \notin overlapped /\ Standing(f) # {}
  <2>1. PICK t \in Standing(f) : TRUE
    BY <1>3
  <2>. QED
    BY <1>3, <2>1, SessionCasesNext
     DEF StandsAs, Abstract!Shared, Abstract!Opened, Abstract!Closed,
         Abstract!Fresh
<1>. QED
  BY <1>1, <1>2, <1>3

\* The users and families of tokens that stand for a session survive the step.
LEMMA RevokingKeepsUsers ==
  ASSUME IInv, OnlyRevokes, NEW f \in Families, NEW t \in Standing(f)
  PROVE  t \in Tokens /\ token'[t].user = token[t].user
BY StandingIsOne DEF OnlyRevokes, Stored

\* A step that issues no token and takes from some families what they stand on
\* closes these, and does nothing else.
LEMMA ClosingStep ==
  ASSUME IInv, IInv', OnlyRevokes, overlapped' = overlapped,
         \A f \in Families \ overlapped : Standing(f)' \in {Standing(f), {}}
  PROVE  Abstract!Next
<1>. DEFINE F == {f \in Families \ overlapped : Standing(f) # {} /\ Standing(f)' = {}}
<1>1. ASSUME NEW f \in Families \ F
      PROVE  Session(f)' = Session(f)
  <2>1. f \notin overlapped => Standing(f)' = Standing(f)
    OBVIOUS
  <2>. QED
    BY <2>1, NoneIssued, RevokingKeepsUsers, SameSession
<1>2. ASSUME NEW f \in F
      PROVE  Session(f).state = "open" /\ Session(f)' = Abstract!Closed
  <2>1. PICK t \in Standing(f) : TRUE
    OBVIOUS
  <2>2. HasRows(f)'
    BY <2>1, StandingIsOne, NoneIssued DEF HasRows
  <2>. QED
    BY <2>1, <2>2, SessionCasesNext DEF StandsAs, Abstract!Opened
<1>3. \A t \in Tokens : IssuedIn(t)' = IssuedIn(t)
  BY NoneIssued
<1>4. F \in SUBSET Families
  OBVIOUS
<1>. HIDE DEF F
<1>5. Abstract!Close(F)
  BY <1>1, <1>2, <1>3, <1>4 DEF Abstract!Close
<1>. QED
  BY <1>4, <1>5 DEF Abstract!Next

\* A step after which a family is shared.
LEMMA SharingStep ==
  ASSUME IInv, IInv', OnlyRevokes, NEW f \in Families \ overlapped, HasRows(f),
         overlapped' = overlapped \cup {f},
         \A g \in Families : g # f => Standing(g)' = Standing(g)
  PROVE  Abstract!Next
<1>1. ASSUME NEW g \in Families, g # f
      PROVE  Session(g)' = Session(g)
  BY <1>1, NoneIssued, RevokingKeepsUsers, SameSession
<1>2. Session(f)' = Abstract!Shared
  BY SessionCasesNext DEF StandsAs
<1>3. Session(f).state \in {"open", "closed"}
  <2>1. CASE Standing(f) = {}
    BY <2>1, SessionCases DEF StandsAs, Abstract!Closed
  <2>2. ASSUME NEW t \in Standing(f) PROVE Session(f).state = "open"
    BY <2>2, SessionCases DEF StandsAs, Abstract!Opened
  <2>. QED
    BY <2>1, <2>2
<1>4. \A t \in Tokens : IssuedIn(t)' = IssuedIn(t)
  BY NoneIssued
<1>5. Abstract!Share(f)
  BY <1>1, <1>2, <1>3, <1>4 DEF Abstract!Share
<1>. QED
  BY <1>5 DEF Abstract!Next

\* Requests that start change nothing a session stands on.
LEMMA StartSession ==
  ASSUME IInv, IInv', NEW w \in Workers, Login(w) \/ Refresh(w)
  PROVE  Abstract!Next
<1>0. TypeOK /\ Idle(w) /\ RowsFit
  BY DEF IInv, Login, Refresh
<1>1. OnlyRevokes /\ token' = token
  BY <1>0 DEF Login, Refresh, OnlyRevokes, TypeOK
<1>2. PICK c \in Call : call' = [call EXCEPT ![w] = c]
                        /\ (c.at = "store" => c.old = None)
  <2>1. CASE Login(w)
    <3>1. PICK u \in Users, f \in Families :
            call' = [call EXCEPT ![w] = [at |-> "store", family |-> f,
                                         user |-> u, old |-> None]]
      BY <2>1 DEF Login
    <3>2. [at |-> "store", family |-> f, user |-> u, old |-> None] \in Call
      BY DEF Call
    <3>. QED
      BY <3>1, <3>2
  <2>2. CASE Refresh(w)
    <3>1. PICK t \in known :
            call' = [call EXCEPT ![w] =
                      [at |-> IF Live(t) THEN "revoke" ELSE "revokeFamily",
                       family |-> token[t].family, user |-> token[t].user,
                       old |-> t]]
      BY <2>2 DEF Refresh, Start
    <3>2. [at |-> IF Live(t) THEN "revoke" ELSE "revokeFamily",
           family |-> token[t].family, user |-> token[t].user,
           old |-> t] \in Call
      BY <1>0 DEF Call, RowsFit, Stored
    <3>. QED
      BY <3>1, <3>2
  <2>. QED
    BY <2>1, <2>2
<1>3. /\ call'[w] = c /\ \A v \in Workers : v # w => call'[v] = call[v]
  BY <1>0, <1>2, MovesOne
<1>4. \A f \in Families, v \in Workers :
        /\ Rotating(v, f)' <=> Rotating(v, f)
        /\ Rotating(v, f) => call'[v].old = call[v].old
  BY <1>0, <1>2, <1>3 DEF Rotating, On, Idle
<1>5. \A f \in Families : Standing(f)' = Standing(f)
  BY <1>1, <1>4 DEF Standing, LiveIn, Live
<1>6. CASE overlapped' = overlapped
  BY <1>1, <1>5, <1>6, ClosingStep
<1>7. CASE overlapped' # overlapped
  <2>1. PICK t \in known : overlapped' = overlapped \cup {token[t].family}
    BY <1>7 DEF Login, Refresh, Start, history
  <2>2. /\ token[t].family \in Families \ overlapped
        /\ HasRows(token[t].family)
    BY <1>0, <1>7, <2>1 DEF RowsFit, HasRows
  <2>. QED
    BY <1>1, <1>5, <2>1, <2>2, SharingStep
<1>. QED
  BY <1>6, <1>7

\* A request that ends without a new token closes its session if it had begun to
\* exchange the token, or revoked the family.
LEMMA EndSession ==
  ASSUME IInv, IInv', NEW w \in Workers, RevokeFamily(w) \/ Fails(w)
  PROVE  Abstract!Next
<1>0. TypeOK /\ CallsFit /\ RowsFit /\ ~Idle(w)
  BY DEF IInv, RevokeFamily, Fails, Idle
<1>1. PICK f \in Families : f = call[w].family /\ On(w, f)
  BY <1>0, BusyFit
<1>2. /\ call' = [call EXCEPT ![w] = NoCall] /\ overlapped' = overlapped
      /\ OnlyRevokes
      /\ \A g \in Families : g # f => LiveIn(g)' = LiveIn(g)
      /\ LiveIn(f)' \in {LiveIn(f), {}}
      /\ call[w].at = "revokeFamily" \/ token' = token
  <2>1. CASE Fails(w)
    BY <1>0, <2>1 DEF Fails, OnlyRevokes, TypeOK, LiveIn, Live
  <2>2. CASE RevokeFamily(w)
    <3>1. /\ OnlyRevokes
          /\ \A t \in Tokens : token[t].family = f => token'[t].state # "live"
          /\ \A t \in Tokens : token[t].family # f => token'[t] = token[t]
      BY <1>0, <1>1, <2>2, RevokesAll DEF RevokeFamily
    <3>2. /\ \A g \in Families : g # f => LiveIn(g)' = LiveIn(g)
          /\ LiveIn(f)' = {}
      BY <3>1 DEF OnlyRevokes, LiveIn, Live
    <3>. QED
      BY <2>2, <3>1, <3>2 DEF RevokeFamily
  <2>. QED
    BY <2>1, <2>2
<1>3. /\ call'[w].at = "idle"
      /\ \A v \in Workers : v # w => call'[v] = call[v]
  BY <1>0, <1>2, MovesOne, NoCallTyped
<1>4. \A g \in Families, v \in Workers :
        Rotating(v, g)' <=> v # w /\ Rotating(v, g)
  BY <1>3 DEF Rotating, On, Idle
<1>5. \A g \in Families : g # f => Standing(g)' = Standing(g)
  <2>1. \A g \in Families : g # f => ~Rotating(w, g)
    BY <1>1 DEF Rotating, On
  <2>. QED
    BY <1>2, <1>3, <1>4, <2>1 DEF Standing
<1>6. f \notin overlapped => Standing(f)' \in {Standing(f), {}}
  <2>1. ASSUME f \notin overlapped
        PROVE  \A v \in Workers : ~Rotating(v, f)'
    BY <1>1, <1>4, <2>1 DEF IInv, OneLivePerFamily, Rotating
  <2>2. CASE Rotating(w, f)
    <3>1. f \notin overlapped => LiveIn(f) = {}
      BY <2>2 DEF IInv, OneLivePerFamily
    <3>. QED
      BY <1>2, <2>1, <3>1 DEF Standing
  <2>3. CASE ~Rotating(w, f)
    <3>1. f \notin overlapped => \A v \in Workers : ~Rotating(v, f)
      BY <1>1, <2>3 DEF IInv, OneLivePerFamily, Rotating
    <3>. QED
      BY <1>2, <2>1, <3>1 DEF Standing
  <2>. QED
    BY <2>2, <2>3
<1>. QED
  BY <1>2, <1>5, <1>6, ClosingStep

\* A restart closes the sessions whose exchange it cuts short.
LEMMA RestartSession ==
  ASSUME IInv, IInv', Restart
  PROVE  Abstract!Next
<1>1. OnlyRevokes /\ token' = token /\ overlapped' = overlapped
  BY DEF IInv, Restart, OnlyRevokes, TypeOK
<1>2. \A f \in Families, v \in Workers : ~Rotating(v, f)'
  BY DEF Restart, Rotating, On, Idle, NoCall
<1>3. \A f \in Families : Standing(f)' = LiveIn(f)
  BY <1>1, <1>2 DEF Standing, LiveIn, Live
<1>4. ASSUME NEW f \in Families \ overlapped
      PROVE  LiveIn(f) \in {Standing(f), {}}
  <2>1. (\E w \in Workers : Rotating(w, f)) => LiveIn(f) = {}
    BY DEF IInv, OneLivePerFamily
  <2>. QED
    BY <2>1 DEF Standing
<1>. QED
  BY <1>1, <1>3, <1>4, ClosingStep

\* A token that expires still stands for its session; the next Refresh is
\* answered that it is late.
LEMMA ExpireSession ==
  ASSUME IInv, IInv', NEW t \in Stored, Expire(t)
  PROVE  Abstract!Next
<1>1. /\ t \in Tokens /\ token[t] \in Row
      /\ token' = [token EXCEPT ![t].expired = TRUE]
      /\ call' = call /\ overlapped' = overlapped
  BY DEF IInv, TypeOK, Stored, Expire, history
<1>2. \A s \in Tokens :
        /\ token'[s].state = token[s].state /\ token'[s].family = token[s].family
        /\ token'[s].user = token[s].user /\ token'[s].parent = token[s].parent
  BY <1>1, ExpiredTyped DEF IInv, TypeOK
<1>3. OnlyRevokes
  BY <1>2 DEF OnlyRevokes, IInv, TypeOK
<1>4. \A f \in Families : Standing(f)' = Standing(f)
  BY <1>1, <1>2 DEF Standing, LiveIn, Live, Rotating, On, Idle
<1>. QED
  BY <1>1, <1>3, <1>4, ClosingStep

\* A logout closes the session, unless it meets a request of the same session.
LEMMA LogoutSession ==
  ASSUME IInv, IInv', NEW t \in known, Logout(t)
  PROVE  Abstract!Next
<1>1. PICK f \in Families : f = token[t].family /\ t \in Stored /\ t \in Tokens
  BY DEF IInv, RowsFit, Stored
<1>2. /\ OnlyRevokes /\ call' = call
      /\ token'[t].state = "revoked"
      /\ \A s \in Tokens : s # t => token'[s] = token[s]
  BY <1>1, RevokesOne DEF Logout, IInv
<1>3. \A g \in Families, v \in Workers : Rotating(v, g)' <=> Rotating(v, g)
  BY <1>2 DEF Rotating, On, Idle
<1>4. /\ \A g \in Families : g # f => LiveIn(g)' = LiveIn(g)
      /\ LiveIn(f)' = LiveIn(f) \ {t}
  BY <1>1, <1>2 DEF OnlyRevokes, LiveIn, Live
<1>5. \A g \in Families : g # f => Standing(g)' = Standing(g)
  BY <1>2, <1>3, <1>4 DEF Standing
<1>6. CASE f \notin overlapped /\ \E v \in Workers : On(v, f)
  <2>1. overlapped' = overlapped \cup {f} /\ HasRows(f)
    BY <1>1, <1>6 DEF Logout, HasRows
  <2>. QED
    BY <1>2, <1>5, <1>6, <2>1, SharingStep
<1>7. CASE f \in overlapped \/ ~\E v \in Workers : On(v, f)
  <2>1. overlapped' = overlapped
    BY <1>1, <1>7 DEF Logout
  <2>2. ASSUME f \notin overlapped
        PROVE  Standing(f)' \in {Standing(f), {}}
    <3>1. \A v \in Workers : ~Rotating(v, f)
      BY <1>7, <2>2 DEF Rotating
    <3>2. Standing(f) = LiveIn(f) /\ Standing(f)' = LiveIn(f) \ {t}
      BY <1>3, <1>4, <3>1 DEF Standing
    <3>3. \A s, r \in LiveIn(f) : s = r
      BY <2>2 DEF IInv, OneLivePerFamily
    <3>. QED
      BY <3>2, <3>3
  <2>. QED
    BY <1>2, <1>5, <2>1, <2>2, ClosingStep
<1>. QED
  BY <1>6, <1>7

\* The old token of a Refresh is revoked: its session stands on it until the
\* successor is stored, unless the request ends here.
LEMMA RevokeTokenSession ==
  ASSUME IInv, IInv', NEW w \in Workers, RevokeToken(w)
  PROVE  Abstract!Next
<1>0. TypeOK /\ CallsFit /\ RowsFit /\ ~Idle(w) /\ call[w].at = "revoke"
  BY DEF IInv, RevokeToken, Idle
<1>1. PICK f \in Families, o \in Stored :
        /\ f = call[w].family /\ o = call[w].old /\ On(w, f)
        /\ token[o].family = f /\ o \in Tokens
  BY <1>0, BusyFit DEF Stored
<1>2. /\ OnlyRevokes /\ overlapped' = overlapped
      /\ token'[o].state = "revoked"
      /\ \A s \in Tokens : s # o => token'[s] = token[s]
  BY <1>0, <1>1, RevokesOne DEF RevokeToken
<1>3. PICK c \in Call :
        /\ call' = [call EXCEPT ![w] = c]
        /\ \/ c.at = "idle"
           \/ c.at = "store" /\ c.family = f /\ c.old = o
  <2>1. CASE call' = [call EXCEPT ![w] = NoCall]
    BY <2>1, NoCallTyped
  <2>2. CASE call' = [call EXCEPT ![w].at = "store"]
    <3>1. [call[w] EXCEPT !.at = "store"] \in Call
      BY <1>0 DEF TypeOK, Call
    <3>2. LET d == [call[w] EXCEPT !.at = "store"]
          IN  d.at = "store" /\ d.family = f /\ d.old = o
      BY <1>0, <1>1 DEF TypeOK, Call
    <3>3. call' = [call EXCEPT ![w] = [call[w] EXCEPT !.at = "store"]]
      BY <2>2
    <3>. QED
      BY <3>1, <3>2, <3>3
  <2>. QED
    BY <2>1, <2>2 DEF RevokeToken
<1>4. call'[w] = c /\ \A v \in Workers : v # w => call'[v] = call[v]
  BY <1>0, <1>3, MovesOne
<1>5. \A g \in Families, v \in Workers :
        Rotating(v, g)' <=> \/ v # w /\ Rotating(v, g)
                            \/ v = w /\ g = f /\ c.at = "store" /\ o # None
  BY <1>3, <1>4 DEF Rotating, On, Idle
<1>6. \A g \in Families : ~Rotating(w, g)
  BY <1>0 DEF Rotating
<1>7. /\ \A g \in Families : g # f => LiveIn(g)' = LiveIn(g)
      /\ LiveIn(f)' = LiveIn(f) \ {o}
  BY <1>1, <1>2 DEF OnlyRevokes, LiveIn, Live
<1>8. \A g \in Families : g # f => Standing(g)' = Standing(g)
  BY <1>4, <1>5, <1>6, <1>7 DEF Standing
<1>9. ASSUME f \notin overlapped
      PROVE  Standing(f)' \in {Standing(f), {}}
  <2>1. LiveIn(f) = {o}
    BY <1>0, <1>1, <1>9 DEF IInv, AloneKnows, OneLivePerFamily, LiveIn, Live
  <2>2. \A v \in Workers : v # w => ~Rotating(v, f)
    BY <1>1, <1>9 DEF IInv, OneLivePerFamily, Rotating
  <2>3. Standing(f) = {o}
    BY <1>6, <2>1, <2>2 DEF Standing
  <2>4. CASE c.at = "store"
    <3>1. \A v \in Workers : Rotating(v, f)' <=> v = w
      BY <1>1, <1>5, <2>2, <2>4, ConstantsAssumption
    <3>2. call'[w].old = o
      BY <1>3, <1>4, <2>4
    <3>. QED
      BY <1>1, <1>7, <2>1, <2>3, <3>1, <3>2 DEF Standing
  <2>5. CASE c.at = "idle"
    <3>1. \A v \in Workers : ~Rotating(v, f)'
      BY <1>5, <2>2, <2>5
    <3>. QED
      BY <1>7, <2>1, <3>1 DEF Standing
  <2>. QED
    BY <1>3, <2>4, <2>5
<1>. QED
  BY <1>2, <1>8, <1>9, ClosingStep

\* The INSERT of a token is the exchange, or the opening of a session.
LEMMA StoreSession ==
  ASSUME IInv, IInv', NEW w \in Workers, StoreRefreshToken(w)
  PROVE  Abstract!Next
<1>0. TypeOK /\ CallsFit /\ RowsFit /\ ~Idle(w) /\ call[w].at = "store"
  BY DEF IInv, StoreRefreshToken, Idle
<1>1. PICK f \in Families, u \in Users :
        /\ f = call[w].family /\ u = call[w].user /\ On(w, f)
        /\ call[w].old \in Tokens \cup {None}
  BY <1>0, BusyFit DEF Call
<1>2. PICK n \in Tokens \ Stored :
        token' = [token EXCEPT ![n] =
          [state |-> "live", family |-> f, user |-> u,
           parent |-> call[w].old, expired |-> FALSE]]
  BY <1>1 DEF StoreRefreshToken
<1>3. /\ token'[n].state = "live" /\ token'[n].family = f /\ token'[n].user = u
      /\ \A s \in Tokens : s # n => token'[s] = token[s]
      /\ Stored' = Stored \cup {n}
  <2>1. [state |-> "live", family |-> f, user |-> u,
         parent |-> call[w].old, expired |-> FALSE] \in Row
    BY <1>1 DEF Row
  <2>. QED
    BY <1>0, <1>2, <2>1, StoresOne
<1>4. /\ call'[w].at = "idle" /\ overlapped' = overlapped
      /\ \A v \in Workers : v # w => call'[v] = call[v]
  BY <1>0, MovesOne, NoCallTyped DEF StoreRefreshToken
<1>5. \A g \in Families, v \in Workers :
        Rotating(v, g)' <=> v # w /\ Rotating(v, g)
  BY <1>4 DEF Rotating, On, Idle
<1>6. /\ \A g \in Families : g # f => LiveIn(g)' = LiveIn(g) /\ n \notin LiveIn(g)
      /\ LiveIn(f)' = LiveIn(f) \cup {n}
  BY <1>3 DEF LiveIn, Live, Stored
<1>7. \A g \in Families : g # f => Standing(g)' = Standing(g)
  <2>1. \A g \in Families : g # f => ~Rotating(w, g)
    BY <1>1 DEF Rotating, On
  <2>. QED
    BY <1>4, <1>5, <1>6, <2>1 DEF Standing
<1>8. \A g \in Families : g # f => (HasRows(g)' <=> HasRows(g))
  BY <1>3 DEF HasRows, Stored
<1>9. \A g \in Families : g # f => Session(g)' = Session(g)
  <2>1. \A g \in Families : \A t \in Standing(g) : token'[t].user = token[t].user
    BY <1>3, StandingIsOne DEF Stored
  <2>. QED
    BY <1>4, <1>7, <1>8, <2>1, SameSession
<1>10. /\ IssuedIn(n) = None /\ IssuedIn(n)' = f
       /\ \A t \in Tokens : t # n => IssuedIn(t)' = IssuedIn(t)
  BY <1>3 DEF IssuedIn, Stored
<1>11. CASE f \in overlapped
  <2>1. Session(f) = Abstract!Shared /\ Session(f)' = Abstract!Shared
    BY <1>4, <1>11, SessionCasesNext DEF StandsAs
  <2>2. Session(f).state = "shared"
    BY <2>1 DEF Abstract!Shared
  <2>3. \A g \in Families : Session(g)' = Session(g)
    BY <1>9, <2>1
  <2>4. Abstract!Add(f, n)
    BY <1>10, <2>2, <2>3 DEF Abstract!Add, Abstract!Issue
  <2>. QED
    BY <2>4 DEF Abstract!Next
<1>12. CASE f \notin overlapped
  <2>1. n \in Standing(f)'
    BY <1>6 DEF Standing
  <2>2. Session(f)' = Abstract!Opened(n, u)
    BY <1>3, <1>4, <1>12, <2>1, SessionCasesNext DEF StandsAs
  <2>3. CASE call[w].old = None
    <3>1. ~HasRows(f) /\ \A v \in Workers : ~Rotating(v, f)
      BY <1>0, <1>1, <2>3 DEF CallsFit, CallFits, HasRows, Rotating
    <3>2. Standing(f) = {}
      BY <3>1 DEF Standing, HasRows, LiveIn, Live, Stored
    <3>3. Session(f).state = "fresh"
      BY <1>12, <3>1, <3>2, SessionCases DEF StandsAs, Abstract!Fresh
    <3>4. Abstract!Open(f, u, n)
      BY <1>9, <1>10, <2>2, <3>3 DEF Abstract!Open, Abstract!Issue
    <3>. QED
      BY <3>4 DEF Abstract!Next
  <2>4. CASE call[w].old # None
    <3>1. /\ call[w].old \in Stored /\ call[w].old \in Tokens
          /\ token[call[w].old].user = u /\ Rotating(w, f)
      BY <1>0, <1>1, <2>4, BusyFit DEF Rotating, Stored
    <3>2. call[w].old \in Standing(f)
      BY <3>1 DEF Standing
    <3>3. Session(f) = Abstract!Opened(call[w].old, u)
      BY <1>12, <3>1, <3>2, SessionCases DEF StandsAs
    <3>4. Session(f).state = "open" /\ Session(f).user = u
      BY <3>3 DEF Abstract!Opened
    <3>5. Abstract!Exchange(f, n)
      BY <1>9, <1>10, <2>2, <3>4 DEF Abstract!Exchange, Abstract!Issue
    <3>. QED
      BY <3>5 DEF Abstract!Next
  <2>. QED
    BY <2>3, <2>4
<1>. QED
  BY <1>11, <1>12

\* Every step of the service is one of the sessions, or none.
LEMMA SessionStep ==
  IInv /\ IInv' /\ [Next]_vars => [Abstract!Next]_(Abstract!vars)
<1>. SUFFICES ASSUME IInv, IInv', [Next]_vars
              PROVE  [Abstract!Next]_(Abstract!vars)
  OBVIOUS
<1>1. CASE UNCHANGED vars
  BY <1>1 DEF vars, Abstract!vars, Session, Standing, IssuedIn, LiveIn, Live,
              Stored, Rotating, On, Idle
<1>. QED
  BY <1>1, StartSession, EndSession, RestartSession, ExpireSession,
     LogoutSession, RevokeTokenSession, StoreSession DEF Next, Step

\* Logins, rotations in three statements, failures, lost answers and restarts do
\* what sessions with an indivisible exchange would, and a closed session never
\* opens again; only sessions that requests shared are beyond the promise.
THEOREM ExchangesAreAtomic == Spec => ImplementsSessions
<1>1. Init => Abstract!Init
  <2>. SUFFICES ASSUME Init PROVE Abstract!Init
    OBVIOUS
  <2>1. Stored = {} /\ overlapped = {} /\ IInv
    BY InitIInv DEF Init, NoRow, Stored
  <2>2. \A f \in Families, w \in Workers : ~Rotating(w, f)
    BY DEF Init, NoCall, Rotating, On, Idle
  <2>3. \A f \in Families : Standing(f) = {} /\ ~HasRows(f)
    BY <2>1, <2>2 DEF Standing, LiveIn, Live, HasRows, Stored
  <2>4. \A f \in Families : Session(f) = Abstract!Fresh
    BY <2>1, <2>3, SessionCases DEF StandsAs
  <2>5. \A t \in Tokens : IssuedIn(t) = None
    BY <2>1 DEF IssuedIn
  <2>. QED
    BY <2>4, <2>5 DEF Abstract!Init
<1>. QED
  BY <1>1, SessionStep, Invariant, PTL
     DEF Spec, ImplementsSessions, Abstract!Spec

\* A step of the sessions leaves each of them as ClosedForGood says.
LEMMA SessionsKept ==
  ASSUME Abstract!Next, NEW f \in Families
  PROVE  Abstract!Kept(f)
<1>1. ASSUME Session(f)' = Session(f) PROVE Abstract!Kept(f)
  BY <1>1 DEF Abstract!Kept
<1>2. ASSUME NEW g \in Families, NEW t \in Tokens, NEW u \in Users,
             Abstract!Open(g, u, t)
      PROVE  Abstract!Kept(f)
  <2>1. CASE f # g
    BY <1>1, <1>2, <2>1 DEF Abstract!Open
  <2>2. CASE f = g
    BY <1>2, <2>2 DEF Abstract!Open, Abstract!Kept
  <2>. QED
    BY <2>1, <2>2
<1>3. ASSUME NEW g \in Families, NEW t \in Tokens, Abstract!Exchange(g, t)
      PROVE  Abstract!Kept(f)
  <2>1. CASE f # g
    BY <1>1, <1>3, <2>1 DEF Abstract!Exchange
  <2>2. CASE f = g
    <3>1. /\ Session(f).state = "open"
          /\ Session(f)' = Abstract!Opened(t, Session(f).user)
          /\ IssuedIn(t) = None
      BY <1>3, <2>2 DEF Abstract!Exchange, Abstract!Issue
    <3>2. Session(f)'.user = Session(f).user /\ Session(f)'.token = t
      BY <3>1 DEF Abstract!Opened
    <3>. QED
      BY <3>1, <3>2 DEF Abstract!Kept
  <2>. QED
    BY <2>1, <2>2
<1>4. ASSUME NEW g \in Families, NEW t \in Tokens, Abstract!Add(g, t)
      PROVE  Abstract!Kept(f)
  BY <1>1, <1>4 DEF Abstract!Add
<1>5. ASSUME NEW g \in Families, Abstract!Share(g)
      PROVE  Abstract!Kept(f)
  <2>1. CASE f # g
    BY <1>1, <1>5, <2>1 DEF Abstract!Share
  <2>2. CASE f = g
    <3>1. Session(f)' = Abstract!Shared
      BY <1>5, <2>2 DEF Abstract!Share
    <3>2. Session(f)'.state = "shared"
      BY <3>1 DEF Abstract!Shared
    <3>. QED
      BY <3>2 DEF Abstract!Kept
  <2>. QED
    BY <2>1, <2>2
<1>6. ASSUME NEW F \in SUBSET Families, Abstract!Close(F)
      PROVE  Abstract!Kept(f)
  <2>1. CASE f \notin F
    BY <1>1, <1>6, <2>1 DEF Abstract!Close
  <2>2. CASE f \in F
    <3>1. Session(f)' = Abstract!Closed
      BY <1>6, <2>2 DEF Abstract!Close
    <3>2. Session(f)'.state = "closed"
      BY <3>1 DEF Abstract!Closed
    <3>. QED
      BY <3>2 DEF Abstract!Kept
  <2>. QED
    BY <2>1, <2>2
<1>. QED
  BY <1>2, <1>3, <1>4, <1>5, <1>6 DEF Abstract!Next

\* What the refinement gives a client: unless requests shared its family, a
\* session that was logged out or closed for reuse does not come back, whatever
\* was in progress, and an exchange gives its user a token nobody had before.
THEOREM SessionsStayClosed == Spec => Abstract!ClosedForGood
<1>1. [Abstract!Next]_(Abstract!vars) =>
        [\A f \in Families : Abstract!Kept(f)]_(Abstract!vars)
  BY SessionsKept
<1>. QED
  BY <1>1, ExchangesAreAtomic, PTL
     DEF ImplementsSessions, Abstract!Spec, Abstract!ClosedForGood

-----------------------------------------------------------------------------
(* Signup.  SignupIInv is inductive: what a request found out about the     *)
(* organisations stays true while it goes on, since organisations and users *)
(* are only ever added.                                                     *)

\* The invariant holds at the beginning.
LEMMA SignupInitIInv == SignupInit => SignupIInv
<1>. SUFFICES ASSUME SignupInit PROVE SignupIInv
  OBVIOUS
<1>1. SignupTypeOK
  BY DEF SignupInit, SignupTypeOK, SignupCall, NoSignup
<1>2. SignupsFit
  BY DEF SignupInit, SignupsFit, Free, NoSignup
<1>3. CreatedIsTrue
  BY DEF SignupInit, CreatedIsTrue, Accounts
<1>4. OrgsAreUsed
  BY DEF SignupInit, OrgsAreUsed
<1>. QED
  BY <1>1, <1>2, <1>3, <1>4 DEF SignupIInv

\* The lookup of the e-mail changes no table; a request that goes on has none.
LEMMA ReadStep ==
  ASSUME SignupIInv, NEW w \in Workers, SignupRead(w)
  PROVE  SignupIInv'
<1>. USE DEF SignupIInv
<1>1. /\ orgs' = orgs /\ user' = user /\ told' = told /\ cut' = cut
      /\ signup[w].at = "idle"
  BY DEF SignupRead, Free
<1>2. PICK e \in Emails, s \in Slugs, long \in BOOLEAN :
        signup' = [signup EXCEPT ![w] = [at |-> "org", email |-> e, slug |-> s,
                                     long |-> long]]
  BY DEF SignupRead
<1>3. /\ signup' \in [Workers -> SignupCall]
      /\ \A v \in Workers : signup'[v] # signup[v] =>
           v = w /\ signup'[v].at = "org" /\ signup'[v].email \in Emails
                 /\ signup'[v].slug \in Slugs
  BY <1>2 DEF SignupTypeOK, SignupCall
<1>4. SignupTypeOK'
  BY <1>1, <1>2, <1>3 DEF SignupTypeOK, Answer
<1>5. SignupsFit'
  BY <1>1, <1>3 DEF SignupsFit, Free
<1>6. CreatedIsTrue'
  BY <1>1, <1>2 DEF CreatedIsTrue, Accounts
<1>7. OrgsAreUsed'
  BY <1>1, <1>3 DEF OrgsAreUsed, Members, At
<1>. QED
  BY <1>4, <1>5, <1>6, <1>7

\* A request that found its organisation goes on to CreateUser.
LEMMA OrgStep ==
  ASSUME SignupIInv, NEW w \in Workers, GetOrgBySlug(w)
  PROVE  SignupIInv'
<1>. USE DEF SignupIInv
<1>1. /\ UNCHANGED <<orgs, user, told, cut>>
      /\ signup[w].at = "org"
      /\ signup' = [signup EXCEPT ![w].at = IF signup[w].slug \in orgs
                                        THEN "createUser" ELSE "createOrg"]
  BY DEF GetOrgBySlug
<1>2. SignupTypeOK'
  BY <1>1 DEF SignupTypeOK, SignupCall
<1>3. SignupsFit'
  BY <1>1 DEF SignupsFit, Free, SignupTypeOK, SignupCall
<1>4. CreatedIsTrue'
  BY <1>1 DEF CreatedIsTrue, Accounts
<1>5. OrgsAreUsed'
  BY <1>1 DEF OrgsAreUsed, Members, At, SignupTypeOK, SignupCall
<1>. QED
  BY <1>2, <1>3, <1>4, <1>5

\* A new organisation has the request that made it, or is noted as cut off.
LEMMA CreateOrgStep ==
  ASSUME SignupIInv, NEW w \in Workers, CreateOrg(w)
  PROVE  SignupIInv'
<1>. USE DEF SignupIInv
<1>1. /\ user' = user /\ told' = told
      /\ signup[w].at = "createOrg" /\ signup[w].slug \in Slugs
      /\ orgs \subseteq orgs' /\ orgs' \subseteq orgs \cup {signup[w].slug}
      /\ cut \subseteq cut' /\ cut' \subseteq cut \cup {signup[w].slug}
      /\ \/ signup' = [signup EXCEPT ![w] = NoSignup]
         \/ /\ signup' = [signup EXCEPT ![w].at = "createUser"]
            /\ signup[w].slug \in orgs'
      /\ \/ orgs' = orgs
         \/ signup' = [signup EXCEPT ![w].at = "createUser"]
         \/ signup[w].slug \in cut'
  BY DEF CreateOrg, End, EndEarly, SignupsFit, Free
<1>2. SignupTypeOK'
  <2>1. signup' \in [Workers -> SignupCall]
    <3>1. CASE signup' = [signup EXCEPT ![w] = NoSignup]
      BY <3>1 DEF SignupTypeOK, SignupCall, NoSignup
    <3>2. CASE signup' = [signup EXCEPT ![w].at = "createUser"]
      BY <3>2 DEF SignupTypeOK, SignupCall
    <3>. QED
      BY <1>1, <3>1, <3>2
  <2>2. orgs' \subseteq Slugs /\ cut' \subseteq Slugs
    BY <1>1 DEF SignupTypeOK
  <2>. QED
    BY <1>1, <2>1, <2>2 DEF SignupTypeOK
<1>3. SignupsFit'
  BY <1>1 DEF SignupsFit, Free, NoSignup, SignupTypeOK, SignupCall
<1>4. CreatedIsTrue'
  BY <1>1 DEF CreatedIsTrue, Accounts
<1>5. OrgsAreUsed'
  BY <1>1 DEF OrgsAreUsed, Members, At, SignupTypeOK, SignupCall, NoSignup
<1>. QED
  BY <1>2, <1>3, <1>4, <1>5

\* The user of a successful request is the member its organisation waited for;
\* an unsuccessful one notes the organisation.
LEMMA CreateUserStep ==
  ASSUME SignupIInv, NEW w \in Workers, CreateUser(w)
  PROVE  SignupIInv'
<1>. USE DEF SignupIInv
<1>0. PICK e \in Emails, s \in Slugs : signup[w].email = e /\ signup[w].slug = s
  BY DEF CreateUser, SignupsFit, Free
<1>1. /\ orgs' = orgs
      /\ signup' = [signup EXCEPT ![w] = NoSignup]
      /\ signup[w].at = "createUser" /\ signup[w].slug = s /\ s \in orgs
  BY <1>0 DEF CreateUser, End, EndEarly, SignupsFit, Free
<1>2. CASE user' = user
  <2>1. told' = told /\ cut' = cut \cup {s}
    BY <1>0, <1>2, SignupAssumption
    DEF CreateUser, EndEarly, SignupTypeOK, Accounts
  <2>2. SignupTypeOK'
    BY <1>1, <1>2, <2>1 DEF SignupTypeOK, SignupCall, NoSignup
  <2>3. SignupsFit'
    BY <1>1 DEF SignupsFit, Free, NoSignup, SignupTypeOK
  <2>4. CreatedIsTrue'
    BY <1>1, <1>2, <2>1 DEF CreatedIsTrue, Accounts
  <2>5. OrgsAreUsed'
    BY <1>1, <1>2, <2>1 DEF OrgsAreUsed, Members, At, SignupTypeOK
  <2>. QED
    BY <2>2, <2>3, <2>4, <2>5
<1>3. CASE /\ e \notin Accounts
           /\ user' = [user EXCEPT ![e] = s]
           /\ told' \in {told, told \cup {[email |-> e, slug |-> s]}}
           /\ cut \subseteq cut' /\ cut' \subseteq cut \cup {s}
  <2>1. user[e] = None
    BY <1>1, <1>3 DEF Accounts
  <2>2. SignupTypeOK'
    BY <1>1, <1>3 DEF SignupTypeOK, SignupCall, NoSignup, Answer
  <2>3. SignupsFit'
    BY <1>1 DEF SignupsFit, Free, NoSignup, SignupTypeOK
  <2>4. CreatedIsTrue'
    <3>1. \A d \in Emails : user'[d] # None => user'[d] \in orgs'
      BY <1>1, <1>3 DEF CreatedIsTrue, Accounts, SignupTypeOK
    <3>2. ASSUME NEW a \in told'
          PROVE  user'[a.email] = a.slug
      <4>1. CASE a \in told
        <5>1. user[a.email] = a.slug /\ a.slug \in Slugs /\ a.email \in Emails
          BY <3>2, <4>1 DEF CreatedIsTrue, SignupTypeOK, Answer
        <5>2. a.email # e
          BY <5>1, <2>1, SignupAssumption
        <5>. QED
          BY <1>3, <5>1, <5>2 DEF SignupTypeOK
      <4>2. CASE a \notin told
        BY <1>1, <1>3, <4>2 DEF SignupTypeOK
      <4>. QED
        BY <4>1, <4>2
    <3>. QED
      BY <3>1, <3>2 DEF CreatedIsTrue, Accounts
  <2>5. OrgsAreUsed'
    <3>1. \A t \in Slugs : Members(t) \subseteq Members(t)'
      BY <1>1, <1>3, <2>1, SignupAssumption DEF Members, SignupTypeOK
    <3>2. Members(s)' # {}
      BY <1>1, <1>3 DEF Members, SignupTypeOK
    <3>3. \A t \in Slugs, v \in Workers :
            At(v, "createUser", t) => At(v, "createUser", t)' \/ t = s
      BY <1>1 DEF At, SignupTypeOK
    <3>. QED
      BY <1>1, <1>3, <3>1, <3>2, <3>3 DEF OrgsAreUsed, SignupTypeOK
  <2>. QED
    BY <2>2, <2>3, <2>4, <2>5
<1>. QED
  BY <1>0, <1>2, <1>3 DEF CreateUser, EndEarly, End, TellsCreated

\* A request that fails after its organisation was made notes it.
LEMMA SignupFailsStep ==
  ASSUME SignupIInv, NEW w \in Workers, SignupFails(w)
  PROVE  SignupIInv'
<1>. USE DEF SignupIInv
<1>1. /\ UNCHANGED <<orgs, user, told>>
      /\ signup[w].at # "idle" /\ signup[w].slug \in Slugs
      /\ signup' = [signup EXCEPT ![w] = NoSignup]
      /\ cut' = IF signup[w].at = "createUser" THEN cut \cup {signup[w].slug}
                                             ELSE cut
  BY DEF SignupFails, EndEarly, End, Free, SignupsFit
<1>2. SignupTypeOK'
  BY <1>1 DEF SignupTypeOK, SignupCall, NoSignup
<1>3. SignupsFit'
  BY <1>1 DEF SignupsFit, Free, NoSignup, SignupTypeOK
<1>4. CreatedIsTrue'
  BY <1>1 DEF CreatedIsTrue, Accounts
<1>5. OrgsAreUsed'
  BY <1>1 DEF OrgsAreUsed, Members, At, SignupTypeOK
<1>. QED
  BY <1>2, <1>3, <1>4, <1>5

\* So does a restart, for all requests at once.
LEMMA SignupRestartStep ==
  ASSUME SignupIInv, SignupRestart
  PROVE  SignupIInv'
<1>. USE DEF SignupIInv
<1>1. /\ UNCHANGED <<orgs, user, told>>
      /\ signup' = [w \in Workers |-> NoSignup]
      /\ cut' = cut \cup {s \in Slugs : \E w \in Workers : At(w, "createUser", s)}
  BY DEF SignupRestart
<1>2. SignupTypeOK'
  BY <1>1 DEF SignupTypeOK, SignupCall, NoSignup
<1>3. SignupsFit'
  BY <1>1 DEF SignupsFit, Free, NoSignup
<1>4. CreatedIsTrue'
  BY <1>1 DEF CreatedIsTrue, Accounts
<1>5. OrgsAreUsed'
  BY <1>1 DEF OrgsAreUsed, Members, SignupTypeOK
<1>. QED
  BY <1>2, <1>3, <1>4, <1>5

\* Every step keeps the invariant.
LEMMA SignupNextIInv == SignupIInv /\ [SignupNext]_signupVars => SignupIInv'
<1>. SUFFICES ASSUME SignupIInv, [SignupNext]_signupVars PROVE SignupIInv'
  OBVIOUS
<1>1. CASE \E w \in Workers : SignupRead(w)
  BY <1>1, ReadStep
<1>2. CASE \E w \in Workers : GetOrgBySlug(w)
  BY <1>2, OrgStep
<1>3. CASE \E w \in Workers : CreateOrg(w)
  BY <1>3, CreateOrgStep
<1>4. CASE \E w \in Workers : CreateUser(w)
  BY <1>4, CreateUserStep
<1>5. CASE \E w \in Workers : SignupFails(w)
  BY <1>5, SignupFailsStep
<1>6. CASE SignupRestart
  BY <1>6, SignupRestartStep
<1>7. CASE UNCHANGED signupVars
  BY <1>7 DEF signupVars, SignupIInv, SignupTypeOK, SignupsFit, Free, CreatedIsTrue, Accounts,
              OrgsAreUsed, Members, At
<1>. QED
  BY <1>1, <1>2, <1>3, <1>4, <1>5, <1>6, <1>7 DEF SignupNext, SignupStep

\* The invariant holds in every reachable state.
THEOREM SignupInvariant == SignupSpec => []SignupIInv
<1>. QED
  BY SignupInitIInv, SignupNextIInv, PTL DEF SignupSpec

\* Every variable keeps its type.
THEOREM SignupTypeCorrect == SignupSpec => []SignupTypeOK
<1>1. SignupIInv => SignupTypeOK
  BY DEF SignupIInv
<1>. QED
  BY <1>1, SignupInvariant, PTL

\* Whoever was answered "created" has a user, in an organisation that exists
\* and is the one of the request, and an organisation without members has a
\* Signup under way or one that was not answered "created", whatever races,
\* failures and restarts.
THEOREM AccountsMatchAnswers == SignupSpec => []AccountsAreTrue
<1>1. SignupIInv => AccountsAreTrue
  BY DEF SignupIInv, AccountsAreTrue
<1>. QED
  BY <1>1, SignupInvariant, PTL
=============================================================================
