------------------------------ MODULE RanControl ------------------------------
(***************************************************************************)
(* svc-aerial-ran-control on top of Service: the connection to the 5G        *)
(* core's MongoDB that is tried once at start-up, the status and the list of *)
(* subscribers that are read through it, and the GNodeB objects that are     *)
(* made and deleted through the Kubernetes API.                              *)
(*                                                                          *)
(* A request for the status asks the network functions one after the other,  *)
(* each within NfLimit, and MongoDB last.  A MongoDB that answers does so    *)
(* before the next tick; one that does not keeps a read waiting for up to    *)
(* Selection, the driver's server selection timeout, which is longer than    *)
(* the time the HTTP server gives a reply.  A call of the Kubernetes API has *)
(* no time limit.                                                            *)
(***************************************************************************)
EXTENDS Service

CONSTANTS
  Workers,      \* requests the service can be serving at the same time
  Imsis,        \* subscribers in MongoDB
  Cells,        \* names of GNodeB objects
  NFs,          \* network functions asked for the status (3 in the code)
  NfLimit,      \* http.Client.Timeout (3 s)
  PingLimit,    \* the time limit of the ping at start-up (5 s)
  WriteTimeout, \* the time a reply may come after its request (15 s)
  Selection     \* the MongoDB driver's time limit (30 s by default)

ASSUME RanAssumption ==
  /\ NFs \in Nat \ {0} /\ NfLimit \in Nat \ {0} /\ PingLimit \in Nat \ {0}
  /\ WriteTimeout \in Nat /\ Selection \in Nat
  /\ NFs * NfLimit < Grace /\ Grace <= WriteTimeout /\ WriteTimeout < Selection

VARIABLES
  mongo,    \* MongoDB answers
  imsis,    \* the subscribers collection
  wired,    \* Service.mongo and Service.counter are set
  ping,     \* time left to the ping of New
  cell,     \* the GNodeB objects: "none", "here", or "going" while finalizers run
  made,     \* history: the creates of a name that succeeded since it was free
  call      \* what each worker is doing, or the reply it gave last

ranVars == <<mongo, imsis, wired, ping, cell, made, call>>
vars == <<serviceVars, ranVars>>

-----------------------------------------------------------------------------

\* A request is for the status, for the list, or for a GNodeB name.  `left' is
\* the time left to the call under way, `age' the time since the request was
\* read, `got' the subscribers counted or listed, and `due' the documents the
\* cursor has yet to return.  The rest is history: the subscribers that were
\* there all the time and at any time, and whether MongoDB was out, or
\* Kubernetes kept the request waiting for Grace.
Call == [at : {"idle", "nf", "count", "find", "next", "create", "delete",
               "answer", "done", "lost"},
         for : {"status", "list"} \cup Cells, nf : 0 .. NFs,
         left : 0 .. Selection, age : 0 .. WriteTimeout + 1,
         got : SUBSET Imsis, due : SUBSET Imsis, err : BOOLEAN,
         always : SUBSET Imsis, ever : SUBSET Imsis, out : BOOLEAN]

NoCall == [at |-> "idle", for |-> "status", nf |-> 0, left |-> 0, age |-> 0,
           got |-> {}, due |-> {}, err |-> FALSE, always |-> {}, ever |-> {},
           out |-> FALSE]

Reads(w) == call[w].at \in {"nf", "count", "find", "next"}
OnMongo(w) == call[w].at \in {"count", "find", "next"}
OnKube(w) == call[w].at \in {"create", "delete", "answer"}
Busy(w) == Reads(w) \/ OnKube(w)

\* The answer is written; the connection takes it for WriteTimeout only.
Reply(w, got, err) ==
  call' = [call EXCEPT ![w].at = IF call[w].age > WriteTimeout THEN "lost"
                                                              ELSE "done",
                       ![w].got = got, ![w].due = {}, ![w].err = err,
                       ![w].left = 0, ![w].age = 0]

-----------------------------------------------------------------------------
(* The start of the service.                                                *)

Start ==
  /\ Boot
  /\ ping' = PingLimit
  /\ wired' = FALSE
  /\ call' = [w \in Workers |-> NoCall]
  /\ UNCHANGED <<mongo, imsis, cell, made>>

\* New: the client is kept only if the ping succeeds in time, and nothing tries
\* again.
New ==
  /\ Serve
  /\ wired' = mongo
  /\ mongo \/ ping = 0
  /\ ping' = 0
  /\ UNCHANGED <<mongo, imsis, cell, made, call>>

-----------------------------------------------------------------------------
(* Requests.                                                                *)

\* A request is read.  Status begins with the first network function,
\* Subscribers with the check for a client, and Create and Delete with the call
\* of Kubernetes; List and Get only wait for its answer.
Request(w) ==
  /\ proc = "serving" /\ ~Busy(w)
  /\ \/ call' = [call EXCEPT ![w] =
            [NoCall EXCEPT !.at = "nf", !.nf = NFs, !.left = NfLimit,
                           !.always = imsis, !.ever = imsis, !.out = ~mongo]]
     \/ call' = [call EXCEPT ![w] =
            [NoCall EXCEPT !.for = "list", !.at = IF wired THEN "find" ELSE "done",
                           !.err = ~wired, !.left = IF wired THEN Selection ELSE 0,
                           !.always = imsis, !.ever = imsis, !.out = ~mongo]]
     \/ \E c \in Cells, step \in {"create", "delete", "answer"} :
          call' = [call EXCEPT ![w] = [NoCall EXCEPT !.for = c, !.at = step]]
  /\ UNCHANGED <<serviceVars, mongo, imsis, wired, ping, cell, made>>

\* Faulty variant: an http.Client without a Timeout.
StatusNF_NoLimit(w) ==
  /\ call[w].at = "nf"
  /\ call' = [call EXCEPT ![w].nf = @ - 1,
                ![w].at = IF call[w].nf = 1 THEN "count" ELSE "nf",
                ![w].left = IF call[w].nf = 1 THEN Selection ELSE WriteTimeout]
  /\ UNCHANGED <<serviceVars, mongo, imsis, wired, ping, cell, made>>

\* Faulty variant: the network functions are counted off by one.
StatusNF_OneMore(w) ==
  /\ call[w].at = "nf"
  /\ call' = [call EXCEPT ![w].nf = @ - 1,
                ![w].at = IF call[w].nf = 0 THEN "count" ELSE "nf",
                ![w].left = IF call[w].nf = 0 THEN Selection ELSE NfLimit]
  /\ UNCHANGED <<serviceVars, mongo, imsis, wired, ping, cell, made>>

\* A network function has answered, or not in time.
StatusNF(w) ==
  /\ call[w].at = "nf"
  /\ call' = [call EXCEPT ![w].nf = @ - 1,
                ![w].at = IF call[w].nf = 1 THEN "count" ELSE "nf",
                ![w].left = IF call[w].nf = 1 THEN Selection ELSE NfLimit]
  /\ UNCHANGED <<serviceVars, mongo, imsis, wired, ping, cell, made>>

\* Faulty variant: a count that failed is reported as 0.
Count_Swallows(w) ==
  /\ call[w].at = "count"
  /\ Reply(w, IF wired /\ mongo THEN imsis ELSE {}, FALSE)
  /\ UNCHANGED <<serviceVars, mongo, imsis, wired, ping, cell, made>>

\* The count, which an unwired service leaves at 0 without an error.
Count(w) ==
  /\ call[w].at = "count"
  /\ Reply(w, IF wired /\ mongo THEN imsis ELSE {}, wired /\ ~mongo)
  /\ UNCHANGED <<serviceVars, mongo, imsis, wired, ping, cell, made>>

\* Find opens the cursor, or fails.
Find(w) ==
  /\ call[w].at = "find"
  /\ IF mongo THEN call' = [call EXCEPT ![w].at = "next", ![w].due = imsis]
              ELSE Reply(w, {}, TRUE)
  /\ UNCHANGED <<serviceVars, mongo, imsis, wired, ping, cell, made>>

\* cur.Next.  The cursor returns what was there when it was opened and stayed,
\* and may return what came later.  Its error is not looked at: a cursor that
\* breaks ends the list.
NextDocument(w) ==
  /\ call[w].at = "next"
  /\ \/ /\ mongo
        /\ \E i \in imsis \ call[w].got :
             call' = [call EXCEPT ![w].got = @ \cup {i}, ![w].due = @ \ {i}]
     \/ /\ ~mongo \/ call[w].due = {}
        /\ Reply(w, call[w].got, FALSE)
  /\ UNCHANGED <<serviceVars, mongo, imsis, wired, ping, cell, made>>

\* Faulty variant: Apply, which also succeeds on an object that is there.
CreateGNB_Applies(w) ==
  /\ call[w].at = "create"
  /\ LET c == call[w].for IN
     /\ cell' = [cell EXCEPT ![c] = IF @ = "none" THEN "here" ELSE @]
     /\ made' = [made EXCEPT ![c] = IF @ < 2 THEN @ + 1 ELSE @]
  /\ call' = [call EXCEPT ![w].at = "answer"]
  /\ UNCHANGED <<serviceVars, mongo, imsis, wired, ping>>

\* Kubernetes makes the object, or finds its name taken (409).
CreateGNB(w) ==
  /\ call[w].at = "create"
  /\ LET c == call[w].for IN
     \/ /\ cell[c] = "none"
        /\ cell' = [cell EXCEPT ![c] = "here"]
        /\ made' = [made EXCEPT ![c] = IF @ < 2 THEN @ + 1 ELSE @]
        /\ call' = [call EXCEPT ![w].at = "answer"]
     \/ /\ cell[c] # "none"
        /\ call' = [call EXCEPT ![w].at = "answer", ![w].err = TRUE]
        /\ UNCHANGED <<cell, made>>
  /\ UNCHANGED <<serviceVars, mongo, imsis, wired, ping>>

\* Kubernetes deletes the object: it goes at once or when its finalizers have
\* run, to which a second Delete adds nothing.  An unknown name is a 404.
DeleteGNB(w) ==
  /\ call[w].at = "delete"
  /\ LET c == call[w].for IN
     \/ /\ cell[c] = "here"
        /\ \/ cell' = [cell EXCEPT ![c] = "none"] /\ made' = [made EXCEPT ![c] = 0]
           \/ cell' = [cell EXCEPT ![c] = "going"] /\ UNCHANGED made
        /\ call' = [call EXCEPT ![w].at = "answer"]
     \/ /\ cell[c] # "here"
        /\ call' = [call EXCEPT ![w].at = "answer", ![w].err = (cell[c] = "none")]
        /\ UNCHANGED <<cell, made>>
  /\ UNCHANGED <<serviceVars, mongo, imsis, wired, ping>>

\* The answer of Kubernetes is passed on; a call that fails, before or after it
\* had its effect, is answered 502.
AnswerGNB(w) ==
  /\ \/ call[w].at = "answer" /\ Reply(w, {}, call[w].err)
     \/ OnKube(w) /\ Reply(w, {}, TRUE)
  /\ UNCHANGED <<serviceVars, mongo, imsis, wired, ping, cell, made>>

-----------------------------------------------------------------------------
(* The end of the process, and its surroundings.                            *)

Terminate ==
  /\ Shutdown
  /\ UNCHANGED ranVars

\* Run returns; requests that were still served get no reply.
Stop ==
  /\ \/ Exit(\E w \in Workers : Busy(w)) \/ EarlyShutdown
  /\ ping' = 0
  /\ call' = [w \in Workers |->
                IF Busy(w) THEN [call[w] EXCEPT !.at = "lost", !.left = 0,
                                                !.age = 0, !.due = {}]
                           ELSE call[w]]
  /\ UNCHANGED <<mongo, imsis, wired, cell, made>>

\* The process dies with its requests, which nobody expects a reply to.
Dies ==
  /\ Crash
  /\ ping' = 0
  /\ call' = [w \in Workers |-> NoCall]
  /\ UNCHANGED <<mongo, imsis, wired, cell, made>>

Postgres ==
  /\ DbChanges
  /\ UNCHANGED ranVars

\* MongoDB goes away or comes back.
MongoChanges ==
  /\ mongo' = ~mongo
  /\ call' = [w \in Workers |->
                IF Reads(w) THEN [call[w] EXCEPT !.out = TRUE] ELSE call[w]]
  /\ UNCHANGED <<serviceVars, imsis, wired, ping, cell, made>>

\* svc-aerial-subscriber and the seed job add and remove subscribers.
Provision ==
  /\ mongo
  /\ \E i \in Imsis :
       imsis' = IF i \in imsis THEN imsis \ {i} ELSE imsis \cup {i}
  /\ call' = [w \in Workers |->
                IF Reads(w) THEN [call[w] EXCEPT !.always = @ \cap imsis',
                                                 !.ever = @ \cup imsis',
                                                 !.due = @ \cap imsis']
                            ELSE call[w]]
  /\ UNCHANGED <<serviceVars, mongo, wired, ping, cell, made>>

\* The operator's finalizers are done.
Reconcile(c) ==
  /\ cell[c] = "going"
  /\ cell' = [cell EXCEPT ![c] = "none"]
  /\ made' = [made EXCEPT ![c] = 0]
  /\ UNCHANGED <<serviceVars, mongo, imsis, wired, ping, call>>

\* A tick passes when nothing is due: a MongoDB that answers has answered.
\* Kubernetes may always take longer.
Tick ==
  /\ Passes
  /\ proc = "mounting" => ~mongo /\ ping # 0
  /\ \A w \in Workers :
       /\ call[w].at = "nf" => call[w].left # 0
       /\ OnMongo(w) => wired /\ ~mongo /\ call[w].left # 0
  /\ ping' = Down(ping)
  /\ call' = [w \in Workers |->
                IF ~Busy(w) THEN call[w]
                ELSE [call[w] EXCEPT !.left = Down(@),
                        !.age = IF @ > WriteTimeout THEN @ ELSE @ + 1,
                        !.out = @ \/ (OnKube(w) /\ call[w].age + 1 >= Grace)]]
  /\ UNCHANGED <<mongo, imsis, wired, cell, made>>

-----------------------------------------------------------------------------

Init ==
  /\ ServiceInit
  /\ mongo \in BOOLEAN
  /\ imsis = {}
  /\ wired = FALSE
  /\ ping = 0
  /\ cell = [c \in Cells |-> "none"]
  /\ made = [c \in Cells |-> 0]
  /\ call = [w \in Workers |-> NoCall]

Check == (CheckStarts \/ CheckEnds) /\ UNCHANGED ranVars

Serves(w) ==
  \/ StatusNF(w) \/ Count(w) \/ Find(w) \/ NextDocument(w)
  \/ CreateGNB(w) \/ DeleteGNB(w) \/ AnswerGNB(w)

Next ==
  \/ Start \/ New \/ Check \/ Terminate \/ Stop \/ Dies
  \/ \E w \in Workers : Request(w) \/ Serves(w)
  \/ \E c \in Cells : Reconcile(c)
  \/ Postgres \/ MongoChanges \/ Provision \/ Tick

Spec == Init /\ [][Next]_vars

-----------------------------------------------------------------------------
(* Properties.                                                              *)

\* The values every variable ranges over.
TypeOK ==
  /\ ServiceTypeOK
  /\ mongo \in BOOLEAN /\ wired \in BOOLEAN
  /\ imsis \subseteq Imsis
  /\ ping \in 0 .. PingLimit
  /\ cell \in [Cells -> {"none", "here", "going"}]
  /\ made \in [Cells -> 0 .. 2]
  /\ call \in [Workers -> Call]

\* A count or a list that is given without an error has every subscriber that
\* was there during the whole request and nobody who was never there.  The
\* exceptions are the count of a service that did not reach MongoDB when it
\* started, and a list during which MongoDB went away.
ReadsAreTrue ==
  \A w \in Workers :
    LET c == call[w] IN
    c.at = "done" /\ ~c.err =>
      /\ c.got \subseteq c.ever
      /\ \/ c.always \subseteq c.got
         \/ c.for = "status" /\ ~wired
         \/ c.for = "list" /\ c.out

\* Of the requests that create a name one succeeds, and no other does before the
\* object was deleted and is gone.
CreatedOnce ==
  \A c \in Cells : made[c] <= 1 /\ (made[c] = 1 => cell[c] # "none")

AnswersAreTrue == ReadsAreTrue /\ CreatedOnce

\* A request is not left without its reply unless the process died, MongoDB was
\* out while the status or the list was read, or Kubernetes took longer over a
\* GNodeB than a graceful shutdown does: neither network functions that do not
\* answer nor a SIGTERM is enough.
RepliesArrive ==
  \A w \in Workers : call[w].at = "lost" => call[w].out

-----------------------------------------------------------------------------
(* The inductive invariant behind these properties.                         *)

\* What is known of the subscribers and of MongoDB while a request is served,
\* and what was read so far.
ReadFits(c) ==
  /\ IF c.at \in {"create", "delete", "answer"}
     THEN c.always = {} /\ c.for \in Cells
     ELSE /\ c.always \subseteq imsis /\ imsis \subseteq c.ever
          /\ ~c.out => mongo
          /\ IF c.at \in {"nf", "count"} THEN c.for = "status"
                                         ELSE c.for = "list" /\ wired
  /\ c.at # "next" => c.got = {}
  /\ c.at = "next" => c.got \subseteq c.ever /\ c.always \subseteq c.got \cup c.due

\* The network functions take their time one by one; after them only a MongoDB
\* that does not answer does, or Kubernetes.  A request under way when SIGTERM
\* came is older than that.
TimeFits(c) ==
  /\ c.at = "nf" =>
       /\ c.nf \in 1 .. NFs /\ c.left <= NfLimit
       /\ c.age + c.left + (c.nf - 1) * NfLimit <= NFs * NfLimit
  /\ c.at # "nf" /\ ~c.out => c.age < Grace
  /\ proc = "draining" => Grace <= c.age + grace

\* Nothing is served before Mount has returned.
CallsFit ==
  /\ \A w \in Workers : Busy(w) => ReadFits(call[w]) /\ TimeFits(call[w])
  /\ proc = "mounting" => \A w \in Workers : call[w] = NoCall

IInv ==
  /\ TypeOK
  /\ ServiceInv
  /\ CallsFit
  /\ AnswersAreTrue
  /\ RepliesArrive
=============================================================================
