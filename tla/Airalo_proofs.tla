---------------------------- MODULE Airalo_proofs ----------------------------
(***************************************************************************)
(* Theorems about Airalo, for every number of requests and packages, every   *)
(* set of lifetimes and faults, and every time limit of at most half the     *)
(* margin.                                                                   *)
(***************************************************************************)
EXTENDS Airalo, TLAPS

\* A step that touches the call of w only, and leaves the cached token alone,
\* keeps the invariant if it leaves w with a call that is well formed, in time
\* and right about the mutex.
LEMMA OneCall ==
  ASSUME IInv, NEW w \in Workers, NEW c \in Call,
         call' = [call EXCEPT ![w] = c],
         cached' \in [token : Token, left : Nat], CachedInTime',
         offer' \in Catalog, packages' \in Catalog,
         holder' \in Workers \cup {None},
         \A v \in Workers : v # w => (holder' = v <=> holder = v),
         c.at \in {"fetch", "issued"} <=> holder' = w,
         ~c.token.void => /\ c.at = "issued" => c.token.granted <= c.token.life + c.age
                          /\ c.at = "sent" => \/ Short(c.token)
                                              \/ Timeout < c.token.life + c.age
  PROVE  IInv'
<1>1. /\ call' \in [Workers -> Call]
      /\ call'[w] = c
      /\ \A v \in Workers : v # w => call'[v] = call[v]
  BY DEF IInv, TypeOK
<1>2. TypeOK'
  BY <1>1 DEF TypeOK
<1>3. OneFetch'
  <2> SUFFICES ASSUME NEW v \in Workers PROVE Fetching(v)' <=> holder' = v
    BY DEF OneFetch
  <2>1. CASE v = w
    BY <1>1, <2>1 DEF Fetching
  <2>2. CASE v # w
    BY <1>1, <2>2 DEF IInv, OneFetch, Fetching
  <2> QED
    BY <2>1, <2>2
<1>4. CallsInTime'
  <2> SUFFICES ASSUME NEW v \in Workers PROVE InTime(v)'
    BY DEF CallsInTime
  <2>1. CASE v = w
    BY <1>1, <2>1 DEF InTime
  <2>2. CASE v # w
    <3>1. InTime(v) /\ call'[v] = call[v]
      BY <1>1, <2>2 DEF IInv, CallsInTime
    <3> QED
      BY <3>1 DEF InTime
  <2> QED
    BY <2>1, <2>2
<1> QED
  BY <1>2, <1>3, <1>4 DEF IInv

\* An idle call is in order.
LEMMA NoCallFacts ==
  /\ NoCall \in Call
  /\ NoCall.at = "idle" /\ NoCall.token = NoToken /\ NoToken \in Token /\ NoToken.void
BY SMT, ConstantsAssumption DEF NoCall, Call, NoToken, Token, Catalog

\* A request that ends gives the mutex back, if it has it.
LEMMA EndStep ==
  ASSUME IInv, NEW w \in Workers, End(w), UNCHANGED <<offer, cached>>,
         packages' \in Catalog
  PROVE  IInv'
<1>1. /\ call' = [call EXCEPT ![w] = NoCall]
      /\ holder' \in Workers \cup {None}
      /\ \A v \in Workers : v # w => (holder' = v <=> holder = v)
      /\ holder' # w
  BY ConstantsAssumption DEF End, Unlock, IInv, TypeOK
<1>2. /\ cached' \in [token : Token, left : Nat] /\ CachedInTime'
      /\ offer' \in Catalog
  BY DEF IInv, TypeOK, CachedInTime
<1> QED
  BY <1>1, <1>2, NoCallFacts, OneCall

\* What is stored is a catalog.
LEMMA MergedType ==
  ASSUME IInv, NEW got \in Catalog
  PROVE  Merged(got) \in Catalog
BY DEF IInv, TypeOK, Merged, Catalog

\* A request that begins has no token yet.
LEMMA BeginStep ==
  ASSUME IInv, NEW w \in Workers, Begin(w)
  PROVE  IInv'
<1>1. PICK f \in {"catalog"} \cup Packages, s \in Allowances \cup {Gone} :
             call' = [call EXCEPT ![w] = [call[w] EXCEPT !.at = "lock", !.for = f,
                                                         !.shown = s]]
  <2>1. call[w] \in Call
    BY DEF IInv, TypeOK
  <2>2. CASE call' = [call EXCEPT ![w].at = "lock"]
    <3>1. /\ call[w].for \in {"catalog"} \cup Packages
          /\ call[w].shown \in Allowances \cup {Gone}
      BY <2>1 DEF Call
    <3>2. [call[w] EXCEPT !.at = "lock"] =
            [call[w] EXCEPT !.at = "lock", !.for = call[w].for, !.shown = call[w].shown]
      BY <2>1 DEF Call
    <3> QED
      BY <2>2, <3>1, <3>2
  <2>3. ASSUME NEW p \in Packages,
               call' = [call EXCEPT ![w].at = "lock", ![w].for = p,
                                    ![w].shown = packages[p]]
        PROVE  \E f \in {"catalog"} \cup Packages, s \in Allowances \cup {Gone} :
                 call' = [call EXCEPT ![w] = [call[w] EXCEPT !.at = "lock", !.for = f,
                                                             !.shown = s]]
    <3>1. packages[p] \in Allowances \cup {Gone}
      BY DEF IInv, TypeOK, Catalog
    <3> QED
      BY <2>3, <3>1
  <2> QED
    BY <2>2, <2>3 DEF Begin
<1> DEFINE c == [call[w] EXCEPT !.at = "lock", !.for = f, !.shown = s]
<1>2. c \in Call /\ c.at = "lock"
  BY DEF IInv, TypeOK, Call
<1>3. /\ cached' \in [token : Token, left : Nat] /\ CachedInTime'
      /\ offer' \in Catalog /\ packages' \in Catalog
      /\ holder' = holder /\ holder \in Workers \cup {None} /\ holder # w
  BY DEF IInv, TypeOK, CachedInTime, OneFetch, Fetching, Begin
<1> HIDE DEF c
<1> QED
  BY <1>1, <1>2, <1>3, OneCall DEF c

\* A cached token in use outlives the call it is used for.
LEMMA LockStep ==
  ASSUME IInv, NEW w \in Workers, Lock(w)
  PROVE  IInv'
<1>1. call[w] \in Call /\ holder = None /\ cached \in [token : Token, left : Nat]
  BY DEF IInv, TypeOK, Lock
<1>2. /\ cached' \in [token : Token, left : Nat] /\ CachedInTime'
      /\ offer' \in Catalog /\ packages' \in Catalog
  BY DEF IInv, TypeOK, CachedInTime, Lock
<1>3. CASE Usable
  <2> DEFINE c == [call[w] EXCEPT !.at = "sent", !.token = cached.token]
  <2>0. cached.token \in Token /\ call[w].age \in Nat
    BY SMT, <1>1, ConstantsAssumption DEF Call
  <2>1. c \in Call /\ c.at = "sent" /\ c.token = cached.token /\ c.age \in Nat
    BY <1>1, <2>0 DEF Call
  <2>2. ~c.token.void => Timeout < c.token.life + c.age
    BY SMT, <1>1, <1>3, <2>1, ConstantsAssumption
    DEF IInv, CachedInTime, Usable, Token
  <2>3. call' = [call EXCEPT ![w] = c] /\ holder' = None
    BY <1>1, <1>3 DEF Lock
  <2> HIDE DEF c
  <2> QED
    BY <1>1, <1>2, <2>1, <2>2, <2>3, OneCall, ConstantsAssumption
<1>4. CASE ~Usable
  <2> DEFINE c == [call[w] EXCEPT !.at = "fetch"]
  <2>1. c \in Call /\ c.at = "fetch"
    BY <1>1 DEF Call
  <2>2. call' = [call EXCEPT ![w] = c] /\ holder' = w
    BY <1>4 DEF Lock
  <2> HIDE DEF c
  <2> QED
    BY <1>1, <1>2, <2>1, <2>2, OneCall, ConstantsAssumption
<1> QED
  BY <1>3, <1>4

\* A token is issued with all the time it was granted.
LEMMA IssueStep ==
  ASSUME IInv, NEW w \in Workers, Issue(w)
  PROVE  IInv'
<1>1. PICK n \in Lifetimes :
        call' = [call EXCEPT ![w].at = "issued",
                   ![w].token = [life |-> n, granted |-> n, void |-> FALSE]]
  BY DEF Issue
<1> DEFINE c == [call[w] EXCEPT !.at = "issued",
                   !.token = [life |-> n, granted |-> n, void |-> FALSE]]
<1>2. c \in Call /\ c.at = "issued" /\ c.token.granted <= c.token.life + c.age
  <2>1. call[w] \in Call /\ n \in Nat
    BY ConstantsAssumption DEF IInv, TypeOK
  <2>2. [life |-> n, granted |-> n, void |-> FALSE] \in Token
    BY <2>1 DEF Token
  <2>3. /\ c \in Call /\ c.at = "issued" /\ c.age = call[w].age
        /\ c.token.granted = n /\ c.token.life = n
    BY <2>1, <2>2 DEF Call
  <2>4. call[w].age \in Nat
    BY SMT, <2>1, ConstantsAssumption DEF Call
  <2> HIDE DEF c
  <2> QED
    BY SMT, <2>1, <2>3, <2>4
<1>3. holder = w
  BY DEF IInv, OneFetch, Fetching, Issue
<1>4. /\ cached' \in [token : Token, left : Nat] /\ CachedInTime'
      /\ offer' \in Catalog /\ packages' \in Catalog /\ holder' = holder
  BY DEF IInv, TypeOK, CachedInTime, Issue
<1>5. call' = [call EXCEPT ![w] = c]
  BY <1>1
<1> HIDE DEF c
<1> QED
  BY <1>2, <1>3, <1>4, <1>5, OneCall

\* A token is cached when it is at most one time limit old.
LEMMA SendsStep ==
  ASSUME IInv, NEW w \in Workers, NEW t \in Token, Sends(w, t),
         t = call[w].token \/ t = NoToken
  PROVE  IInv'
<1> DEFINE c == [call[w] EXCEPT !.at = "sent", !.token = t, !.age = 0]
<1>1. call[w] \in Call /\ call[w].at = "issued" /\ InTime(w)
  BY DEF IInv, TypeOK, CallsInTime, Sends
<1>2. ~t.void => t.granted <= t.life + Timeout
  BY SMT, <1>1, NoCallFacts, ConstantsAssumption DEF InTime, Call, Token
<1>3. c \in Call /\ c.at = "sent" /\ c.token = t /\ c.age = 0
  <2>1. 0 \in 0 .. Timeout
    BY SMT, ConstantsAssumption
  <2> QED
    BY <1>1, <2>1 DEF Call
<1>4. ~c.token.void => Short(c.token) \/ Timeout < c.token.life + c.age
  BY SMT, <1>2, <1>3, ConstantsAssumption DEF Short, Token
<1>5. cached' = [token |-> t, left |-> t.granted]
  BY DEF Sends
<1>6. cached' \in [token : Token, left : Nat] /\ CachedInTime'
  BY SMT, <1>2, <1>5 DEF CachedInTime, Token
<1>7. /\ call' = [call EXCEPT ![w] = c]
      /\ holder' \in Workers \cup {None}
      /\ \A v \in Workers : v # w => (holder' = v <=> holder = v)
      /\ holder' # w
  BY ConstantsAssumption DEF Sends, Unlock, IInv, TypeOK
<1>8. offer' \in Catalog /\ packages' \in Catalog
  BY DEF IInv, TypeOK, Sends
<1> HIDE DEF c
<1> QED
  BY <1>3, <1>4, <1>6, <1>7, <1>8, OneCall

\* A fetched catalog needs no token any more.
LEMMA FetchStep ==
  ASSUME IInv, NEW w \in Workers, Fetch(w)
  PROVE  IInv'
<1> DEFINE c == [call[w] EXCEPT !.at = "store", !.got = offer, !.token = NoToken,
                                !.age = 0]
<1>1. c \in Call /\ c.at = "store"
  <2>1. 0 \in 0 .. Timeout
    BY SMT, ConstantsAssumption
  <2> QED
    BY <2>1, NoCallFacts DEF IInv, TypeOK, Call
<1>2. /\ cached' \in [token : Token, left : Nat] /\ CachedInTime'
      /\ offer' \in Catalog /\ packages' \in Catalog
      /\ holder' = holder /\ holder \in Workers \cup {None} /\ holder # w
  BY DEF IInv, TypeOK, CachedInTime, OneFetch, Fetching, Fetch
<1>3. call' = [call EXCEPT ![w] = c]
  BY DEF Fetch
<1> HIDE DEF c
<1> QED
  BY <1>1, <1>2, <1>3, OneCall

\* What a tick takes from a token it adds to the age of the call.
LEMMA TickStep ==
  ASSUME IInv, Tick
  PROVE  IInv'
<1>1. \A t \in Token : Older(t) \in Token /\ Older(t).void = t.void
                       /\ Older(t).granted = t.granted /\ Older(t).life = Minus1(t.life)
  BY SMT DEF Token, Older, Minus1
<1>2. \A n \in Nat : Minus1(n) \in Nat /\ Minus1(n) <= n /\ n <= Minus1(n) + 1
  BY SMT DEF Minus1
<1>3. cached \in [token : Token, left : Nat] /\ cached.token \in Token /\ cached.left \in Nat
  BY DEF IInv, TypeOK
<1>4. cached' = [token |-> Older(cached.token), left |-> Minus1(cached.left)]
  BY DEF Tick
<1>5. cached' \in [token : Token, left : Nat]
  BY <1>1, <1>2, <1>3, <1>4
<1>6. CachedInTime'
  <2> SUFFICES ASSUME ~cached'.token.void
               PROVE  /\ cached'.left <= cached'.token.life + Timeout
                      /\ cached'.left <= cached'.token.granted
    BY DEF CachedInTime
  <2>1. /\ cached.left <= cached.token.life + Timeout
        /\ cached.left <= cached.token.granted
        /\ cached'.left = Minus1(cached.left)
        /\ cached'.token.life = Minus1(cached.token.life)
        /\ cached'.token.granted = cached.token.granted
    BY <1>1, <1>3, <1>4 DEF IInv, CachedInTime
  <2>2. cached.token.life \in Nat /\ cached.token.granted \in Nat
    BY <1>3 DEF Token
  <2> QED
    BY SMT, <1>3, <2>1, <2>2, ConstantsAssumption DEF Minus1
<1>7. ASSUME NEW w \in Workers
      PROVE  /\ call'[w] \in Call /\ call'[w].at = call[w].at
             /\ InTime(w)'
  <2>1. call[w] \in Call /\ InTime(w)
    BY DEF IInv, TypeOK, CallsInTime
  <2>2. call[w].token \in Token /\ call[w].age \in 0 .. Timeout
    BY <2>1 DEF Call
  <2>3. CASE OnLine(w)
    <3>1. call'[w] = [call[w] EXCEPT !.age = call[w].age + 1, !.token = Older(call[w].token)]
      BY <2>3 DEF Tick
    <3>2. call[w].age < Timeout
      BY <2>3 DEF Tick
    <3>3. call[w].age + 1 \in 0 .. Timeout
      BY SMT, <2>2, <3>2, ConstantsAssumption
    <3>4. /\ call'[w] \in Call /\ call'[w].at = call[w].at
          /\ call'[w].age = call[w].age + 1 /\ call'[w].token = Older(call[w].token)
      BY <1>1, <2>1, <2>2, <3>1, <3>3 DEF Call
    <3>5. /\ call'[w].token.void = call[w].token.void
          /\ call'[w].token.granted = call[w].token.granted
          /\ call'[w].token.life = Minus1(call[w].token.life)
      BY <1>1, <2>2, <3>4
    <3>6. call[w].token.life \in Nat /\ call[w].token.granted \in Nat /\ call[w].age \in Nat
      BY SMT, <2>2 DEF Token
    <3> HIDE DEF Tick
    <3>7. call[w].token.life + call[w].age <= call'[w].token.life + call'[w].age
      BY SMT, <3>4, <3>5, <3>6 DEF Minus1
    <3>8. Short(call'[w].token) <=> Short(call[w].token)
      BY <3>5 DEF Short
    <3>9. call'[w].token.life + call'[w].age \in Nat /\ call[w].token.life + call[w].age \in Nat
      BY SMT, <3>4, <3>5, <3>6 DEF Minus1
    <3> DEFINE old == call[w].token.life + call[w].age
               new == call'[w].token.life + call'[w].age
    <3> HIDE DEF old, new
    <3>10. /\ call[w].token.granted <= old => call[w].token.granted <= new
           /\ Timeout < old => Timeout < new
      BY SMT, <3>6, <3>7, <3>9, ConstantsAssumption DEF old, new
    <3> QED
      BY <2>1, <3>4, <3>5, <3>8, <3>10 DEF InTime, old, new
  <2>4. CASE ~OnLine(w)
    <3>1. call'[w] = call[w]
      BY <2>4 DEF Tick
    <3> QED
      BY <2>1, <3>1 DEF InTime
  <2> QED
    BY <2>3, <2>4
<1>8. TypeOK'
  <2>1. call' \in [Workers -> Call]
    BY <1>7 DEF Tick
  <2> QED
    BY <1>5, <2>1 DEF IInv, TypeOK, Tick
<1>9. OneFetch'
  BY <1>7 DEF IInv, OneFetch, Fetching, Tick
<1> QED
  BY <1>6, <1>7, <1>8, <1>9 DEF IInv, CallsInTime

\* Of a revoked token nothing is claimed.
LEMMA RevokeStep ==
  ASSUME IInv, Revoke
  PROVE  IInv'
<1>1. \A t \in Token : Revoked(t) \in Token /\ Revoked(t).void
  BY DEF Token, Revoked
<1>2. cached' \in [token : Token, left : Nat] /\ CachedInTime'
  BY <1>1 DEF IInv, TypeOK, CachedInTime, Revoke
<1>3. ASSUME NEW w \in Workers
      PROVE  call'[w] \in Call /\ call'[w].at = call[w].at /\ InTime(w)'
  <2>1. call[w] \in Call /\ InTime(w) /\ call[w].token \in Token
    BY DEF IInv, TypeOK, CallsInTime, Call
  <2>2. CASE OnLine(w)
    <3>1. call'[w] = [call[w] EXCEPT !.token = Revoked(call[w].token)]
      BY <2>2 DEF Revoke
    <3>2. /\ call'[w] \in Call /\ call'[w].at = call[w].at
          /\ call'[w].token = Revoked(call[w].token)
      BY <1>1, <2>1, <3>1 DEF Call
    <3> QED
      BY <1>1, <2>1, <3>2 DEF InTime
  <2>3. CASE ~OnLine(w)
    <3>1. call'[w] = call[w]
      BY <2>3 DEF Revoke
    <3> QED
      BY <2>1, <3>1 DEF InTime
  <2> QED
    BY <2>2, <2>3
<1>4. TypeOK'
  <2>1. call' \in [Workers -> Call]
    BY <1>3 DEF Revoke
  <2> QED
    BY <1>2, <2>1 DEF IInv, TypeOK, Revoke
<1>5. OneFetch'
  BY <1>3 DEF IInv, OneFetch, Fetching, Revoke
<1> QED
  BY <1>2, <1>3, <1>4, <1>5 DEF IInv, CallsInTime

\* A restart forgets the token and ends all requests.
LEMMA RestartStep ==
  ASSUME IInv, Restart
  PROVE  IInv'
<1>1. TypeOK'
  BY SMT, NoCallFacts, ConstantsAssumption DEF IInv, TypeOK, NoCached, Token, Restart
<1>2. \A w \in Workers : call'[w].at = "idle" /\ call'[w].token.void
  BY NoCallFacts DEF Restart
<1>3. OneFetch'
  BY <1>2, ConstantsAssumption DEF OneFetch, Fetching, Restart
<1>4. CachedInTime'
  BY NoCallFacts DEF CachedInTime, NoCached, Restart
<1>5. CallsInTime'
  BY <1>2 DEF CallsInTime, InTime
<1> QED
  BY <1>1, <1>3, <1>4, <1>5 DEF IInv

\* Airalo's catalog is no part of the claims about tokens.
LEMMA OfferStep ==
  ASSUME IInv, OfferChanges
  PROVE  IInv'
<1>1. TypeOK'
  BY DEF IInv, TypeOK, Catalog, OfferChanges
<1> QED
  BY <1>1 DEF IInv, OfferChanges, OneFetch, Fetching, CachedInTime, CallsInTime,
              InTime

\* The invariant holds at the beginning.
LEMMA InitIInv == Init => IInv
<1> SUFFICES ASSUME Init PROVE IInv
  OBVIOUS
<1>1. TypeOK
  BY SMT, NoCallFacts, ConstantsAssumption
  DEF Init, TypeOK, Catalog, NoCached, Token
<1>2. \A w \in Workers : call[w].at = "idle" /\ call[w].token.void
  BY NoCallFacts DEF Init
<1>3. OneFetch
  BY <1>2, ConstantsAssumption DEF OneFetch, Fetching, Init
<1>4. CachedInTime
  BY NoCallFacts DEF CachedInTime, NoCached, Init
<1>5. CallsInTime
  BY <1>2 DEF CallsInTime, InTime
<1> QED
  BY <1>1, <1>3, <1>4, <1>5 DEF IInv

\* Every step keeps the invariant.
LEMMA NextIInv == IInv /\ [Next]_vars => IInv'
<1> SUFFICES ASSUME IInv, [Next]_vars PROVE IInv'
  OBVIOUS
<1>1. ASSUME NEW w \in Workers, Receive(w) \/ Garble(w) PROVE IInv'
  <2>1. call[w].token \in Token
    BY DEF IInv, TypeOK, Call
  <2> QED
    BY <1>1, <2>1, SendsStep, NoCallFacts DEF Receive, Garble
<1>2. ASSUME NEW w \in Workers,
             (\E p \in Packages : Sell(w, p)) \/ Decline(w) \/ Refuse(w)
               \/ Fails(w) \/ TimesOut(w)
      PROVE  IInv'
  BY <1>2, EndStep DEF Sell, Decline, Refuse, Fails, TimesOut, IInv, TypeOK
<1>3. ASSUME NEW w \in Workers, UpsertPackages(w) PROVE IInv'
  <2>1. call[w].got \in Catalog
    BY DEF IInv, TypeOK, Call
  <2> QED
    BY <1>3, <2>1, EndStep, MergedType DEF UpsertPackages
<1>4. CASE UNCHANGED vars
  BY <1>4 DEF IInv, vars, TypeOK, OneFetch, Fetching, CachedInTime, CallsInTime,
              InTime
<1> QED
  BY <1>1, <1>2, <1>3, <1>4, BeginStep, LockStep, IssueStep, FetchStep, TickStep,
     RevokeStep, OfferStep, RestartStep DEF Next

\* The inductive invariant of Airalo holds, for every number of requests and
\* packages, every set of lifetimes and faults and every admissible pair of
\* time limit and margin.
THEOREM Invariant == Spec => []IInv
BY InitIInv, NextIInv, PTL DEF Spec

\* Every variable keeps its type: what is stored and shown of a package is an
\* allowance Airalo has named.
THEOREM TypeCorrect == Spec => []TypeOK
<1>1. IInv => TypeOK
  BY DEF IInv
<1> QED
  BY Invariant, <1>1, PTL

\* Tokens are requested by one request at a time, the one that holds the mutex.
THEOREM OneFetchAtATime == Spec => []OneFetch
<1>1. IInv => OneFetch
  BY DEF IInv
<1> QED
  BY Invariant, <1>1, PTL

\* A margin of twice the time limit is enough: no call is refused because its
\* token expired on the way, unless the token was issued for less than two
\* calls may take.
THEOREM MarginIsEnough == Spec => []TokensAreGood
<1>1. IInv => TokensAreGood
  <2> SUFFICES ASSUME IInv, NEW w \in Workers, call[w].at = "sent",
                      ~call[w].token.void, ~Short(call[w].token)
               PROVE  Good(call[w].token)
    BY DEF TokensAreGood
  <2>1. Timeout < call[w].token.life + call[w].age
    BY DEF IInv, CallsInTime, InTime
  <2>2. call[w].age \in 0 .. Timeout /\ call[w].token.life \in Nat
    BY DEF IInv, TypeOK, Call, Token
  <2> QED
    BY SMT, <2>1, <2>2, ConstantsAssumption DEF Good
<1> QED
  BY Invariant, <1>1, PTL
=============================================================================
