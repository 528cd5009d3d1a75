-------------------------------- MODULE Airalo -------------------------------
(***************************************************************************)
(* svc-aerial-esim as a client of the Airalo API: the OAuth token that all   *)
(* calls share behind a mutex, and the catalog that is fetched with it and   *)
(* kept in esim.packages, which orders are placed from.                      *)
(*                                                                          *)
(* Time is counted in ticks.  A token carries the time it has left instead   *)
(* of the moment it expires, so that nothing needs to bound the clock.       *)
(* What the client does between two calls takes no time; waiting for the     *)
(* mutex and for Postgres takes any.  A package stands for its data          *)
(* allowance, and one region is modelled.                                    *)
(***************************************************************************)
EXTENDS Naturals

CONSTANTS
  Workers,     \* requests the service can be serving at the same time
  Packages,
  Allowances,
  Unreadable,  \* the allowances that parseDataMB does not understand
  Gone,        \* the allowance of a package that is not there
  None,        \* no worker
  Lifetimes,   \* what Airalo may answer as expires_in
  Timeout,     \* the time limit of one HTTP call (15 s in the code)
  Margin,      \* a cached token is used while it has more left (5 minutes)
  Faults       \* "lost", "garbled", "revoked", "crash"

ASSUME ConstantsAssumption ==
  /\ None \notin Workers
  /\ Gone \notin Allowances /\ "catalog" \notin Packages
  /\ Unreadable \subseteq Allowances
  /\ Lifetimes \subseteq Nat
  /\ Timeout \in Nat \ {0}
  /\ Margin \in Nat /\ Margin >= 2 * Timeout
  /\ Faults \subseteq {"lost", "garbled", "revoked", "crash"}

VARIABLES
  offer,     \* Airalo's catalog: the allowance of each package
  packages,  \* esim.packages: the cached allowance of each package
  cached,    \* accessToken and expiresAt
  holder,    \* the worker that holds mu
  call       \* what each worker is doing

vars == <<offer, packages, cached, holder, call>>

-----------------------------------------------------------------------------

Catalog == [Packages -> Allowances \cup {Gone}]

\* `life' is how long Airalo will accept the token, `granted' what it was
\* issued for.  A void token is a revoked one or the empty string.
Token == [life : Nat, granted : Nat, void : BOOLEAN]

NoToken == [life |-> 0, granted |-> 0, void |-> TRUE]

Good(t) == ~t.void /\ t.life > 0

\* Not issued for long enough to be sure to outlive two calls.
Short(t) == t.granted <= 2 * Timeout

Minus1(n) == IF n = 0 THEN 0 ELSE n - 1

Older(t) == [t EXCEPT !.life = Minus1(@)]
Revoked(t) == [t EXCEPT !.life = 0, !.void = TRUE]

\* `left' is time.Until(expiresAt).
NoCached == [token |-> NoToken, left |-> 0]

\* `for' is the purpose: the catalog or an order of a package, of which the
\* cache said `shown'.  `age' is the time since the HTTP call began and `got'
\* the catalog it brought.
Call == [at : {"idle", "lock", "fetch", "issued", "sent", "store"},
         for : {"catalog"} \cup Packages, shown : Allowances \cup {Gone},
         token : Token, age : 0 .. Timeout, got : Catalog]

NoCall == [at |-> "idle", for |-> "catalog", shown |-> Gone, token |-> NoToken,
           age |-> 0, got |-> [p \in Packages |-> Gone]]

\* An HTTP call is under way.
OnLine(w) == call[w].at \in {"fetch", "issued", "sent"}

\* The deferred Unlock, when w holds the mutex.
Unlock(w) == holder' = IF holder = w THEN None ELSE holder

\* Faulty variant: a request that ends early keeps the mutex.
End_Locked(w) == call' = [call EXCEPT ![w] = NoCall] /\ UNCHANGED holder

End(w) == call' = [call EXCEPT ![w] = NoCall] /\ Unlock(w)

-----------------------------------------------------------------------------
(* The token.                                                               *)

\* RefreshCatalog, and Order after GetPackage found its package.
Begin(w) ==
  /\ call[w].at = "idle"
  /\ \/ call' = [call EXCEPT ![w].at = "lock"]
     \/ \E p \in Packages :
          /\ packages[p] # Gone
          /\ call' = [call EXCEPT ![w].at = "lock", ![w].for = p,
                                  ![w].shown = packages[p]]
  /\ UNCHANGED <<offer, packages, cached, holder>>

\* Faulty variants: a cached token is used until it expires, or for ever.
Usable_NoMargin == cached.left > 0
Usable_Forever == cached.token # NoToken

\* accessToken # "" and more than the margin left.
Usable == cached.token # NoToken /\ cached.left > Margin

\* token: the mutex is taken, and released at once if no request is needed.
Lock(w) ==
  /\ call[w].at = "lock" /\ holder = None
  /\ \/ /\ Usable
        /\ call' = [call EXCEPT ![w].at = "sent", ![w].token = cached.token]
        /\ UNCHANGED holder
     \/ /\ ~Usable
        /\ call' = [call EXCEPT ![w].at = "fetch"]
        /\ holder' = w
  /\ UNCHANGED <<offer, packages, cached>>

\* Airalo accepts the credentials.
Issue(w) ==
  /\ call[w].at = "fetch"
  /\ \E n \in Lifetimes :
       call' = [call EXCEPT ![w].at = "issued",
                  ![w].token = [life |-> n, granted |-> n, void |-> FALSE]]
  /\ UNCHANGED <<offer, packages, cached, holder>>

\* The token answered is cached from now on for as long as it was issued for,
\* and returned whatever that is; do sends its call with it.
Sends(w, t) ==
  /\ call[w].at = "issued"
  /\ cached' = [token |-> t, left |-> t.granted]
  /\ call' = [call EXCEPT ![w].at = "sent", ![w].token = t, ![w].age = 0]
  /\ Unlock(w)
  /\ UNCHANGED <<offer, packages>>

Receive(w) == Sends(w, call[w].token)

\* The answer is JSON without an access_token.
Garble(w) == "garbled" \in Faults /\ Sends(w, NoToken)

-----------------------------------------------------------------------------
(* The call made with the token.                                            *)

\* Airalo answers GET /v2/packages.
Fetch(w) ==
  /\ call[w].at = "sent" /\ Good(call[w].token)
  /\ call[w].for = "catalog"
  /\ call' = [call EXCEPT ![w].at = "store", ![w].got = offer,
                          ![w].token = NoToken, ![w].age = 0]
  /\ UNCHANGED <<offer, packages, cached, holder>>

\* Airalo executes POST /v2/orders of a package it has.
Sell(w, p) ==
  /\ call[w].at = "sent" /\ Good(call[w].token)
  /\ call[w].for = p /\ offer[p] # Gone
  /\ End(w)
  /\ UNCHANGED <<offer, packages, cached>>

\* ... and refuses one of a package it no longer has.
Decline(w) ==
  /\ call[w].at = "sent" /\ Good(call[w].token)
  /\ call[w].for # "catalog" /\ offer[call[w].for] = Gone
  /\ End(w)
  /\ UNCHANGED <<offer, packages, cached>>

\* 401: do returns the error like any other, the token stays cached.
Refuse(w) ==
  /\ call[w].at = "sent" /\ ~Good(call[w].token)
  /\ End(w)
  /\ UNCHANGED <<offer, packages, cached>>

\* Faulty variants: what cannot be read is taken for no data at all; and
\* ON CONFLICT (id) DO NOTHING.
Merged_Zero(got) ==
  [p \in Packages |-> IF got[p] \in Unreadable THEN 0
                      ELSE IF got[p] = Gone THEN packages[p] ELSE got[p]]
Merged_KeepsOld(got) ==
  [p \in Packages |->
     IF packages[p] = Gone /\ got[p] \notin Unreadable THEN got[p] ELSE packages[p]]

\* ON CONFLICT (id) DO UPDATE of what was fetched; the Catalog adapter skips
\* what it cannot read, and nothing removes a package.
Merged(got) ==
  [p \in Packages |->
     IF got[p] \in Allowances \ Unreadable THEN got[p] ELSE packages[p]]

\* UpsertPackages: one batch, which Postgres runs as one transaction.
UpsertPackages(w) ==
  /\ call[w].at = "store"
  /\ packages' = Merged(call[w].got)
  /\ End(w)
  /\ UNCHANGED <<offer, cached>>

-----------------------------------------------------------------------------
(* Failures and the environment.                                            *)

\* A call fails, or its answer is no use, at any time; the handler returns.
Fails(w) ==
  /\ "lost" \in Faults
  /\ OnLine(w) \/ call[w].at = "store"
  /\ End(w)
  /\ UNCHANGED <<offer, packages, cached>>

\* The HTTP client gives up at its time limit.
TimesOut(w) ==
  /\ OnLine(w) /\ call[w].age = Timeout
  /\ End(w)
  /\ UNCHANGED <<offer, packages, cached>>

\* Time passes; no HTTP call outlives its limit.
Tick ==
  /\ \A w \in Workers : OnLine(w) => call[w].age < Timeout
  /\ call' = [w \in Workers |->
                IF OnLine(w) THEN [call[w] EXCEPT !.age = @ + 1,
                                                  !.token = Older(@)]
                             ELSE call[w]]
  /\ cached' = [token |-> Older(cached.token), left |-> Minus1(cached.left)]
  /\ UNCHANGED <<offer, packages, holder>>

\* Airalo withdraws the tokens it has issued.
Revoke ==
  /\ "revoked" \in Faults
  /\ cached' = [cached EXCEPT !.token = Revoked(@)]
  /\ call' = [w \in Workers |-> IF OnLine(w)
                                THEN [call[w] EXCEPT !.token = Revoked(@)]
                                ELSE call[w]]
  /\ UNCHANGED <<offer, packages, holder>>

\* Airalo changes, withdraws or adds a package.
OfferChanges ==
  /\ \E p \in Packages : \E a \in Allowances \cup {Gone} :
       offer' = [offer EXCEPT ![p] = a]
  /\ UNCHANGED <<packages, cached, holder, call>>

\* The process ends with its requests and its token.
Restart ==
  /\ "crash" \in Faults
  /\ cached' = NoCached
  /\ holder' = None
  /\ call' = [w \in Workers |-> NoCall]
  /\ UNCHANGED <<offer, packages>>

-----------------------------------------------------------------------------

Init ==
  /\ offer \in Catalog
  /\ packages = [p \in Packages |-> Gone]
  /\ cached = NoCached
  /\ holder = None
  /\ call = [w \in Workers |-> NoCall]

Next ==
  \/ \E w \in Workers :
       \/ Begin(w) \/ Lock(w) \/ Issue(w) \/ Receive(w) \/ Garble(w)
       \/ Fetch(w) \/ (\E p \in Packages : Sell(w, p)) \/ Decline(w) \/ Refuse(w)
       \/ UpsertPackages(w)
       \/ Fails(w) \/ TimesOut(w)
  \/ Tick \/ Revoke \/ OfferChanges \/ Restart

Spec == Init /\ [][Next]_vars

\* Time passes, the HTTP client keeps its time limit, Postgres answers, and the
\* mutex, which is fair to whoever waits for long, passes over nobody for
\* ever.  Of Airalo nothing is assumed.
FairSpec ==
  /\ Spec
  /\ WF_vars(Tick)
  /\ \A w \in Workers : /\ WF_vars(TimesOut(w)) /\ WF_vars(UpsertPackages(w))
                        /\ SF_vars(Lock(w))

-----------------------------------------------------------------------------
(* Properties.                                                              *)

\* The values every variable ranges over.
TypeOK ==
  /\ offer \in Catalog
  /\ packages \in Catalog
  /\ cached \in [token : Token, left : Nat]
  /\ holder \in Workers \cup {None}
  /\ call \in [Workers -> Call]

\* A call that reaches Airalo within its time limit, however late it does and
\* however late the token did, carries a token that has not expired, unless
\* that was revoked, or issued for less than two calls may take.
TokensAreGood ==
  \A w \in Workers :
    LET t == call[w].token IN
    call[w].at = "sent" => Good(t) \/ t.void \/ Short(t)

\* No request waits for ever for the mutex, for Airalo or for Postgres, also
\* when Airalo answers nothing at all.
RequestsEnd == \A w \in Workers : call[w].at # "idle" ~> call[w].at = "idle"

\* Although a 401 leaves the token in the cache, a revocation is overcome: if
\* tokens are revoked or garbled no more, calls are refused no more at some
\* time.
RefusalsEnd ==
  <>[][~Revoke /\ \A w \in Workers : ~Garble(w)]_vars =>
    <>[][\A w \in Workers : Refuse(w) => Short(call[w].token)]_vars

\* If Airalo changes its catalog no more and refreshes go on succeeding, then
\* at some time whatever is sold is what the cache showed, in whatever order
\* overlapping refreshes store what they fetched.  A package that Airalo
\* describes in a way the adapter cannot read keeps its old row and goes on
\* being sold as what it was.
SoldAsShown ==
  (/\ <>[][~OfferChanges]_vars
   /\ []<><<\E w \in Workers : UpsertPackages(w)>>_vars) =>
    <>[][\A w \in Workers, p \in Packages :
           Sell(w, p) => offer[p] = call[w].shown \/ offer[p] \in Unreadable]_vars

-----------------------------------------------------------------------------
(* The inductive invariant behind TokensAreGood.                            *)

\* The mutex is held by the one request that fetches a token.
Fetching(w) == call[w].at \in {"fetch", "issued"}

OneFetch == \A w \in Workers : Fetching(w) <=> holder = w

\* The service overestimates a token by at most the time the answer took.
CachedInTime ==
  ~cached.token.void =>
    /\ cached.left <= cached.token.life + Timeout
    /\ cached.left <= cached.token.granted

\* A token just issued has lost at most the age of the call that asks for it,
\* and a token in use outlives the call that carries it.
InTime(w) ==
  LET c == call[w] IN
  ~c.token.void =>
    /\ c.at = "issued" => c.token.granted <= c.token.life + c.age
    /\ c.at = "sent" => Short(c.token) \/ Timeout < c.token.life + c.age

CallsInTime == \A w \in Workers : InTime(w)

IInv == TypeOK /\ OneFetch /\ CachedInTime /\ CallsInTime
=============================================================================
