------------------------------- MODULE Signup --------------------------------
(***************************************************************************)
(* Signup of svc-aerial-iam: an organisation and its user are made by four  *)
(* repository calls that share no transaction.                              *)
(*                                                                          *)
(* The unique constraints on organizations.slug and users.email arbitrate   *)
(* between requests that passed the same lookups; whoever loses is answered *)
(* an internal error.  A request for a slug that exists joins that          *)
(* organisation.  An e-mail and a slug stand for themselves after           *)
(* normalisation (ToLower and TrimSpace, slugify); of a password only its   *)
(* length matters, since bcrypt refuses more than 72 bytes.                 *)
(***************************************************************************)
EXTENDS Naturals, Iam

CONSTANTS
  Emails,
  Slugs

ASSUME SignupAssumption == None \notin Emails \cup Slugs

VARIABLES
  orgs,       \* iam.organizations: the slugs taken
  user,       \* iam.users: the organisation of each e-mail's user
  signup,     \* what each worker is doing
  told,       \* history: the requests answered 201 "created"
  cut         \* history: the slugs of the Signups that ended without a
              \* "created" between their organisation and their user

signupVars == <<orgs, user, signup, told, cut>>

-----------------------------------------------------------------------------
(* The tables and the requests.                                             *)

Accounts == {e \in Emails : user[e] # None}
Members(s) == {e \in Emails : user[e] = s}

SignupCall == [at : {"idle", "org", "createOrg", "createUser"},
               email : Emails \cup {None}, slug : Slugs \cup {None},
               long : BOOLEAN]
NoSignup == [at |-> "idle", email |-> None, slug |-> None, long |-> FALSE]

Answer == [email : Emails, slug : Slugs]

Free(w) == signup[w].at = "idle"
At(w, place, s) == signup[w].at = place /\ signup[w].slug = s

TellsCreated(w) ==
  told' = told \cup {[email |-> signup[w].email, slug |-> signup[w].slug]}

End(w) == signup' = [signup EXCEPT ![w] = NoSignup]
EndEarly(w) ==
  /\ End(w)
  /\ cut' = IF signup[w].at = "createUser" THEN cut \cup {signup[w].slug} ELSE cut

-----------------------------------------------------------------------------
(* The steps of Signup.                                                     *)

\* GetUserByEmail.  A request for an e-mail that has a user is answered "exists"
\* and changes nothing.  So is one whose lookup fails: the error is dropped, and
\* the repository returns a user with every error but "no rows".
SignupRead(w) ==
  /\ Free(w)
  /\ \E e \in Emails \ Accounts, s \in Slugs, long \in BOOLEAN :
       signup' = [signup EXCEPT ![w] = [at |-> "org", email |-> e, slug |-> s,
                                        long |-> long]]
  /\ UNCHANGED <<orgs, user, told, cut>>

\* Faulty variant: an organisation is always created.
GetOrgBySlug_Skipped(w) ==
  /\ signup[w].at = "org"
  /\ signup' = [signup EXCEPT ![w].at = "createOrg"]
  /\ UNCHANGED <<orgs, user, told, cut>>

\* GetOrgBySlug; only ErrOrgNotFound leads to CreateOrg.
GetOrgBySlug(w) ==
  /\ signup[w].at = "org"
  /\ signup' = [signup EXCEPT ![w].at =
                IF signup[w].slug \in orgs THEN "createUser" ELSE "createOrg"]
  /\ UNCHANGED <<orgs, user, told, cut>>

\* CreateOrg.  A slug taken meanwhile ends the request; so does a lost answer
\* to an INSERT that was done.
CreateOrg(w) ==
  /\ signup[w].at = "createOrg"
  /\ \/ /\ signup[w].slug \in orgs
        /\ EndEarly(w)
        /\ UNCHANGED orgs
     \/ /\ signup[w].slug \notin orgs
        /\ orgs' = orgs \cup {signup[w].slug}
        /\ \/ signup' = [signup EXCEPT ![w].at = "createUser"] /\ UNCHANGED cut
           \/ /\ "unacked" \in Faults
              /\ End(w)
              /\ cut' = cut \cup {signup[w].slug}
  /\ UNCHANGED <<user, told>>

\* Faulty variant: ON CONFLICT (email) DO NOTHING.
CreateUser_Ignores(w) ==
  /\ signup[w].at = "createUser"
  /\ ~signup[w].long
  /\ user' = [user EXCEPT ![signup[w].email] = IF @ = None THEN signup[w].slug ELSE @]
  /\ TellsCreated(w)
  /\ End(w)
  /\ UNCHANGED <<orgs, cut>>

\* Faulty variant: the user is put into any organisation, not the one found.
CreateUser_AnyOrg(w) ==
  /\ signup[w].at = "createUser"
  /\ signup[w].email \notin Accounts
  /\ \E s \in Slugs : user' = [user EXCEPT ![signup[w].email] = s]
  /\ TellsCreated(w)
  /\ End(w)
  /\ UNCHANGED <<orgs, cut>>

\* Faulty variant: the organisation's name, by default the e-mail, for its id.
CreateUser_OrgName(w) ==
  /\ signup[w].at = "createUser"
  /\ signup[w].email \notin Accounts
  /\ user' = [user EXCEPT ![signup[w].email] = signup[w].email]
  /\ TellsCreated(w)
  /\ End(w)
  /\ UNCHANGED <<orgs, cut>>

\* password.Hash and CreateUser.  A password that is too long and an e-mail
\* taken meanwhile end the request, also when it had made an organisation.
CreateUser(w) ==
  /\ signup[w].at = "createUser"
  /\ \/ /\ signup[w].long \/ signup[w].email \in Accounts
        /\ EndEarly(w)
        /\ UNCHANGED <<user, told>>
     \/ /\ ~signup[w].long /\ signup[w].email \notin Accounts
        /\ user' = [user EXCEPT ![signup[w].email] = signup[w].slug]
        /\ \/ TellsCreated(w) /\ End(w) /\ UNCHANGED cut
           \/ "unacked" \in Faults /\ EndEarly(w) /\ UNCHANGED told
  /\ UNCHANGED orgs

\* A statement fails without effect and the handler answers an error.
SignupFails(w) ==
  /\ "lost" \in Faults
  /\ ~Free(w)
  /\ EndEarly(w)
  /\ UNCHANGED <<orgs, user, told>>

\* The process dies with its requests.
SignupRestart ==
  /\ "crash" \in Faults
  /\ signup' = [w \in Workers |-> NoSignup]
  /\ cut' = cut \cup {s \in Slugs : \E w \in Workers : At(w, "createUser", s)}
  /\ UNCHANGED <<orgs, user, told>>

-----------------------------------------------------------------------------

SignupInit ==
  /\ orgs = {}
  /\ user = [e \in Emails |-> None]
  /\ signup = [w \in Workers |-> NoSignup]
  /\ told = {}
  /\ cut = {}

SignupStep(w) == GetOrgBySlug(w) \/ CreateOrg(w) \/ CreateUser(w)

SignupNext ==
  \/ \E w \in Workers : SignupRead(w) \/ SignupStep(w) \/ SignupFails(w)
  \/ SignupRestart

SignupSpec == SignupInit /\ [][SignupNext]_signupVars

\* Somebody without an account sends a Signup, with a password that fits.
Asks(e) ==
  \E w \in Workers : /\ SignupRead(w)
                     /\ signup'[w].at = "org" /\ signup'[w].email = e
                     /\ ~signup'[w].long

\* A request of e's, with a password that fits.
Of(w, e) == signup[w].email = e /\ ~signup[w].long

\* People without an account ask again, and whoever keeps reaching a call of
\* the repository sees it answered at some time; no request hangs.
SignupFairSpec ==
  /\ SignupSpec
  /\ \A e \in Emails :
       /\ SF_signupVars(Asks(e))
       /\ SF_signupVars(\E w \in Workers : Of(w, e) /\ GetOrgBySlug(w))
       /\ SF_signupVars(\E w \in Workers : Of(w, e) /\ CreateOrg(w))
       /\ SF_signupVars(\E w \in Workers : Of(w, e) /\ CreateUser(w))
  /\ \A w \in Workers : WF_signupVars(SignupStep(w))

-----------------------------------------------------------------------------
(* Properties.                                                              *)

\* The values every variable ranges over.
SignupTypeOK ==
  /\ orgs \subseteq Slugs
  /\ user \in [Emails -> Slugs \cup {None}]
  /\ signup \in [Workers -> SignupCall]
  /\ told \subseteq Answer
  /\ cut \subseteq Slugs

\* A user belongs to an organisation that exists, and to the one of the request
\* that was answered "created".
CreatedIsTrue ==
  /\ \A e \in Accounts : user[e] \in orgs
  /\ \A a \in told : user[a.email] = a.slug

\* An organisation without members is one whose Signup is under way or was not
\* answered "created"; nothing else leaves one behind.
OrgsAreUsed ==
  \A s \in orgs : \/ Members(s) # {}
                  \/ \E w \in Workers : At(w, "createUser", s)
                  \/ s \in cut

\* Both: the two tables never contradict what was answered.
AccountsAreTrue == CreatedIsTrue /\ OrgsAreUsed

\* Everybody who keeps asking gets an account, in the end, also when earlier
\* attempts left an organisation without members or lost the race for a slug.
EverybodyGetsIn == \A e \in Emails : <>(e \in Accounts)

-----------------------------------------------------------------------------
(* The inductive invariant behind the safety properties.                    *)

\* A request that goes on to CreateUser has an organisation to put it into.
SignupsFit ==
  \A w \in Workers : ~Free(w) =>
    /\ signup[w].email \in Emails /\ signup[w].slug \in Slugs
    /\ signup[w].at = "createUser" => signup[w].slug \in orgs

SignupIInv == SignupTypeOK /\ SignupsFit /\ CreatedIsTrue /\ OrgsAreUsed

=============================================================================
