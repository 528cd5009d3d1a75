--------------------------- MODULE RanControl_proofs ---------------------------
(* Proofs about Service and RanControl: the health that is reported follows  *)
(* Postgres, what is answered about subscribers and gNBs is true, and replies *)
(* arrive, for any number of requests and for any time limits that are in the *)
(* order of RanAssumption.                                                   *)
EXTENDS RanControl, Integers, TLAPS

-----------------------------------------------------------------------------
(* The service: every step of the process keeps ServiceInv.                  *)

LEMMA Limits ==
  /\ Interval \in Nat /\ ProbeLimit \in Nat \ {0} /\ Grace \in Nat
  /\ ProbeLimit < Interval
  /\ NoProbe = ProbeLimit + 1 /\ Lag = Interval + ProbeLimit
BY ServiceAssumption DEF NoProbe, Lag

LEMMA ServiceStarts == ServiceInit => ServiceInv
<1>. SUFFICES ASSUME ServiceInit PROVE ServiceInv
  OBVIOUS
<1>1. ServiceTypeOK
  <2>1. healthy \in BOOLEAN
    BY DEF ServiceInit
  <2>. QED
    BY <2>1, Limits DEF ServiceInit, ServiceTypeOK
<1>2. ChecksFit /\ LastCheckHolds
  BY DEF ServiceInit, ChecksFit, LastCheckHolds, Watched
<1>. QED
  BY <1>1, <1>2 DEF ServiceInv

LEMMA BootKeeps == ServiceInv /\ Boot => ServiceInv'
<1>. SUFFICES ASSUME ServiceInv, Boot PROVE ServiceInv'
  OBVIOUS
<1>1. ServiceTypeOK'
  <2>1. healthy' \in BOOLEAN
    BY DEF Boot
  <2>. QED
    BY <2>1, Limits DEF Boot, ServiceInv, ServiceTypeOK
<1>2. /\ steady' = 0 /\ CheckAge' = 0 /\ probe' = ProbeLimit /\ Watched'
      /\ ProbeLimit # NoProbe
  BY Limits DEF Boot, CheckAge, Watched
<1>3. ChecksFit' /\ LastCheckHolds'
  BY <1>2, Limits DEF ChecksFit, LastCheckHolds
<1>. QED
  BY <1>1, <1>3 DEF ServiceInv

LEMMA ServeKeeps == ServiceInv /\ Serve => ServiceInv'
BY Limits DEF Serve, ServiceInv, ServiceTypeOK, ChecksFit, LastCheckHolds, Watched, CheckAge

LEMMA OffKeeps == ServiceInv /\ Off => ServiceInv'
<1>. SUFFICES ASSUME ServiceInv, Off PROVE ServiceInv'
  OBVIOUS
<1>1. ServiceTypeOK'
  <2>1. healthy' \in BOOLEAN
    BY DEF Off
  <2>. QED
    BY <2>1, Limits DEF Off, ServiceInv, ServiceTypeOK
<1>2. ChecksFit' /\ LastCheckHolds'
  BY DEF Off, ChecksFit, LastCheckHolds, Watched
<1>. QED
  BY <1>1, <1>2 DEF ServiceInv

LEMMA ShutdownKeeps == ServiceInv /\ Shutdown => ServiceInv'
BY Limits DEF Shutdown, ServiceInv, ServiceTypeOK, ChecksFit, LastCheckHolds, Watched

LEMMA CheckStartsKeeps == ServiceInv /\ CheckStarts => ServiceInv'
BY Limits DEF CheckStarts, ServiceInv, ServiceTypeOK, ChecksFit, LastCheckHolds,
              Watched, CheckAge

LEMMA DbKeeps == ServiceInv /\ DbChanges => ServiceInv'
BY Limits DEF DbChanges, ServiceInv, ServiceTypeOK, ChecksFit, LastCheckHolds,
              Watched, CheckAge

\* What a check finds is so if nothing has changed since it started.
LEMMA CheckEndsKeeps == ServiceInv /\ CheckEnds => ServiceInv'
<1>. SUFFICES ASSUME ServiceInv, CheckEnds PROVE ServiceInv'
  OBVIOUS
<1>1. PICK ok \in Findings : healthy' = ok
  BY DEF CheckEnds
<1>2. /\ probe # NoProbe /\ probe' = NoProbe
      /\ UNCHANGED <<proc, grace, ticker, db, steady>>
  BY DEF CheckEnds
<1>3. /\ probe \in Nat /\ steady \in Nat /\ ticker \in Nat
      /\ Watched /\ ProbeLimit - probe = CheckAge
  BY <1>2, Limits DEF ServiceInv, ServiceTypeOK, ChecksFit
<1>4. ok \in BOOLEAN /\ (IF ok THEN db ELSE ~db \/ steady <= CheckAge)
  BY <1>1, <1>3 DEF Findings
<1>5. ServiceTypeOK'
  BY <1>1, <1>2, <1>4, Limits DEF ServiceInv, ServiceTypeOK
<1>6. CheckAge' = CheckAge /\ CheckAge \in Int
  BY <1>2, <1>3, Limits DEF CheckAge
<1>7. steady > CheckAge => (ok <=> db)
  BY <1>3, <1>4, <1>6, Limits DEF ServiceInv, ServiceTypeOK
<1>8. ChecksFit' /\ LastCheckHolds'
  BY <1>1, <1>2, <1>3, <1>6, <1>7 DEF ChecksFit, LastCheckHolds
<1>. QED
  BY <1>5, <1>8 DEF ServiceInv

LEMMA PassesKeeps == ServiceInv /\ Passes => ServiceInv'
<1>. SUFFICES ASSUME ServiceInv, Passes PROVE ServiceInv'
  OBVIOUS
<1>1. /\ probe # 0 /\ UNCHANGED <<proc, healthy, db>>
      /\ Watched => ticker # 0
      /\ proc = "draining" => grace # 0
      /\ probe' = IF probe = NoProbe THEN NoProbe ELSE probe - 1
      /\ ticker' = IF Watched THEN ticker - 1 ELSE ticker
      /\ grace' = IF proc = "draining" THEN grace - 1 ELSE grace
      /\ steady' = IF steady > Lag THEN steady ELSE steady + 1
  BY DEF Passes
<1>2. ServiceTypeOK'
  BY <1>1, Limits DEF ServiceInv, ServiceTypeOK
<1>3. ChecksFit'
  BY <1>1, Limits DEF ServiceInv, ServiceTypeOK, ChecksFit, Watched, CheckAge
<1>4. LastCheckHolds'
  BY <1>1, <1>3, Limits
  DEF ServiceInv, ServiceTypeOK, ChecksFit, LastCheckHolds, Watched, CheckAge
<1>. QED
  BY <1>2, <1>3, <1>4 DEF ServiceInv

LEMMA ServiceStutters == ServiceInv /\ UNCHANGED serviceVars => ServiceInv'
BY DEF serviceVars, ServiceInv, ServiceTypeOK, ChecksFit, LastCheckHolds, Watched, CheckAge

LEMMA HealthIsSo == ServiceInv => HealthFollows
BY Limits DEF ServiceInv, ServiceTypeOK, ChecksFit, LastCheckHolds, HealthFollows,
              Watched, CheckAge

-----------------------------------------------------------------------------
(* The requests: what has to be known of each.                               *)

Reading == {"nf", "count", "find", "next"}
Serving == Reading \cup {"create", "delete", "answer"}

\* What IInv says of one worker.
CallOK(c) ==
  /\ c \in Call
  /\ c.at \in Serving => ReadFits(c) /\ TimeFits(c)
  /\ c.at = "done" /\ ~c.err =>
       /\ c.got \subseteq c.ever
       /\ \/ c.always \subseteq c.got
          \/ c.for = "status" /\ ~wired
          \/ c.for = "list" /\ c.out
  /\ c.at = "lost" => c.out

\* What IInv says of the GNodeB objects.
CellsOK ==
  /\ cell \in [Cells -> {"none", "here", "going"}]
  /\ made \in [Cells -> 0 .. 2]
  /\ CreatedOnce

\* What IInv says of the rest.
RestOK ==
  /\ mongo \in BOOLEAN /\ wired \in BOOLEAN
  /\ imsis \subseteq Imsis
  /\ ping \in 0 .. PingLimit
  /\ CellsOK
  /\ proc = "mounting" => \A w \in Workers : call[w] = NoCall

LEMMA BusyMeans ==
  ASSUME NEW w \in Workers
  PROVE  /\ Busy(w) <=> call[w].at \in Serving
         /\ Busy(w)' <=> call'[w].at \in Serving
         /\ Reads(w) <=> call[w].at \in Reading
         /\ Reads(w) => Busy(w)
BY DEF Busy, Reads, OnKube, Serving, Reading

LEMMA ByParts ==
  ASSUME IInv
  PROVE  /\ ServiceInv /\ RestOK /\ call \in [Workers -> Call]
         /\ \A w \in Workers : CallOK(call[w])
<1>1. ServiceInv /\ RestOK /\ call \in [Workers -> Call]
  BY DEF IInv, TypeOK, ServiceInv, RestOK, CellsOK, CallsFit, AnswersAreTrue
<1>2. ASSUME NEW w \in Workers PROVE CallOK(call[w])
  <2>1. call[w].at \in Serving => ReadFits(call[w]) /\ TimeFits(call[w])
    BY BusyMeans DEF IInv, CallsFit
  <2>2. call[w] \in Call
    BY <1>1
  <2>. QED
    BY <2>1, <2>2 DEF IInv, AnswersAreTrue, ReadsAreTrue, RepliesArrive, CallOK
<1>. QED
  BY <1>1, <1>2

LEMMA NextParts ==
  ASSUME ServiceInv', RestOK', call' \in [Workers -> Call],
         \A w \in Workers : CallOK(call[w])'
  PROVE  IInv'
<1>1. TypeOK'
  BY DEF TypeOK, ServiceInv, RestOK, CellsOK
<1>2. CallsFit'
  BY BusyMeans DEF CallsFit, CallOK, RestOK
<1>3. AnswersAreTrue' /\ RepliesArrive'
  BY DEF AnswersAreTrue, ReadsAreTrue, RepliesArrive, CallOK, RestOK, CellsOK
<1>. QED
  BY <1>1, <1>2, <1>3 DEF IInv

\* The network functions take less time than a graceful shutdown has, and that
\* less than a reply.
LEMMA TimeLimits ==
  /\ NFs \in Nat \ {0} /\ NfLimit \in Nat \ {0} /\ PingLimit \in Nat \ {0}
  /\ WriteTimeout \in Nat /\ Selection \in Nat /\ Grace \in Nat
  /\ NFs * NfLimit \in Nat /\ NfLimit <= NFs * NfLimit /\ 0 < Grace
  /\ NFs * NfLimit < Grace /\ Grace <= WriteTimeout /\ WriteTimeout < Selection
<1>1. /\ NFs \in Nat \ {0} /\ NfLimit \in Nat \ {0} /\ PingLimit \in Nat \ {0}
      /\ WriteTimeout \in Nat /\ Selection \in Nat /\ Grace \in Nat
      /\ NFs * NfLimit < Grace /\ Grace <= WriteTimeout /\ WriteTimeout < Selection
  BY RanAssumption, ServiceAssumption
<1>2. \A n, k \in Nat \ {0} : n * k \in Nat /\ k <= n * k
  <2>. SUFFICES ASSUME NEW n \in Nat \ {0}, NEW k \in Nat \ {0}
                PROVE  n * k \in Nat /\ k <= n * k
    OBVIOUS
  <2>1. n * k \in Nat /\ n * k = (n - 1) * k + k
    OBVIOUS
  <2>2. (n - 1) * k \in Nat
    OBVIOUS
  <2>. QED
    BY <2>1, <2>2
<1>. QED
  BY <1>1, <1>2

\* One network function less leaves NfLimit less to wait.
LEMMA OneNfLess ==
  ASSUME NEW n \in 1 .. NFs
  PROVE  /\ (n - 1) * NfLimit \in Nat
         /\ (n - 1) * NfLimit = ((n - 1) - 1) * NfLimit + NfLimit
BY TimeLimits

LEMMA Bounds ==
  /\ 0 \in 0 .. Selection /\ NfLimit \in 0 .. Selection /\ Selection \in 0 .. Selection
  /\ 0 \in 0 .. WriteTimeout + 1 /\ 0 \in 0 .. NFs /\ NFs \in 0 .. NFs
  /\ {} \in SUBSET Imsis
BY TimeLimits

LEMMA NoCallOK == CallOK(NoCall)
BY TimeLimits DEF CallOK, NoCall, Call, Serving, Reading

\* A call nothing happens to stays as it was.
LEMMA SameCall ==
  ASSUME NEW v \in Workers, CallOK(call[v]), call'[v] = call[v],
         UNCHANGED <<proc, grace, mongo, imsis, wired>>
  PROVE  CallOK(call[v])'
BY DEF CallOK, ReadFits, TimeFits

\* A step of one request, which may change a GNodeB object.
LEMMA OneCallAndCell ==
  ASSUME IInv, NEW w \in Workers, NEW c, call' = [call EXCEPT ![w] = c],
         CallOK(c), proc # "mounting", CellsOK',
         UNCHANGED <<serviceVars, mongo, imsis, wired, ping>>
  PROVE  IInv'
<1>1. ServiceInv /\ RestOK /\ call \in [Workers -> Call] /\ \A v \in Workers : CallOK(call[v])
  BY ByParts
<1>2. ServiceInv'
  BY <1>1, ServiceStutters
<1>3. UNCHANGED <<proc, grace>>
  BY DEF serviceVars
<1>4. c \in Call
  BY DEF CallOK
<1>5. call' \in [Workers -> Call] /\ call'[w] = c /\ \A v \in Workers \ {w} : call'[v] = call[v]
  BY <1>1, <1>4
<1>6. RestOK'
  BY <1>1, <1>3 DEF RestOK
<1>7. ASSUME NEW v \in Workers PROVE CallOK(call[v])'
  <2>1. CASE v = w
    BY <1>3, <1>5, <2>1 DEF CallOK, ReadFits, TimeFits
  <2>2. CASE v # w
    BY <1>1, <1>3, <1>5, <2>2, SameCall
  <2>. QED
    BY <2>1, <2>2
<1>. QED
  BY <1>2, <1>5, <1>6, <1>7, NextParts

LEMMA OneCall ==
  ASSUME IInv, NEW w \in Workers, NEW c, call' = [call EXCEPT ![w] = c],
         CallOK(c), proc # "mounting",
         UNCHANGED <<serviceVars, mongo, imsis, wired, ping, cell, made>>
  PROVE  IInv'
<1>1. CellsOK'
  BY ByParts DEF RestOK, CellsOK, CreatedOnce
<1>. QED
  BY <1>1, OneCallAndCell

\* Where a request can be while its process is in a given place.
LEMMA ServedOnlyThen ==
  ASSUME IInv, NEW w \in Workers, call[w].at \in Serving
  PROVE  /\ proc # "mounting"
         /\ CallOK(call[w]) /\ call[w] \in Call
         /\ ReadFits(call[w]) /\ TimeFits(call[w])
BY ByParts DEF RestOK, NoCall, Serving, Reading, CallOK

\* A reply is written in time unless MongoDB or Kubernetes kept it.
LEMMA ReplyStep ==
  ASSUME IInv, NEW w \in Workers, OnMongo(w) \/ OnKube(w),
         NEW got \in SUBSET Imsis, NEW err \in BOOLEAN, Reply(w, got, err),
         ~err => /\ got \subseteq call[w].ever
                 /\ \/ call[w].always \subseteq got
                    \/ call[w].for = "status" /\ ~wired
                    \/ call[w].for = "list" /\ call[w].out,
         UNCHANGED <<serviceVars, mongo, imsis, wired, ping, cell, made>>
  PROVE  IInv'
<1>. DEFINE at == IF call[w].age > WriteTimeout THEN "lost" ELSE "done"
            c == [call[w] EXCEPT !.at = at, !.got = got, !.due = {}, !.err = err,
                                 !.left = 0, !.age = 0]
<1>1. call[w].at \in Serving /\ call[w].at # "nf"
  BY DEF OnMongo, OnKube, Serving, Reading
<1>2. call' = [call EXCEPT ![w] = c]
  BY ByParts DEF Reply
<1>3. call[w] \in Call /\ TimeFits(call[w]) /\ proc # "mounting"
  BY <1>1, ServedOnlyThen
<1>5. call[w].age > WriteTimeout => call[w].out
  <2>1. call[w].age \in Nat
    BY <1>3, TimeLimits DEF Call
  <2>. QED
    BY <1>1, <1>3, <2>1, TimeLimits DEF TimeFits
<1>6. /\ c \in Call /\ c.at \in {"done", "lost"} /\ (c.at = "lost" => call[w].out)
      /\ c.got = got /\ c.err = err /\ c.out = call[w].out /\ c.for = call[w].for
      /\ c.ever = call[w].ever /\ c.always = call[w].always
  <2>1. at \in {"done", "lost"} /\ (at = "lost" => call[w].out)
    BY <1>5
  <2>. HIDE DEF at
  <2>2. c \in Call
    BY <1>3, <2>1, Bounds, Zenon DEF Call
  <2>3. /\ c.at = at /\ c.got = got /\ c.err = err /\ c.out = call[w].out
        /\ c.for = call[w].for /\ c.ever = call[w].ever /\ c.always = call[w].always
    BY <1>3 DEF Call
  <2>. HIDE DEF c
  <2>. QED
    BY <2>1, <2>2, <2>3
<1>7. CallOK(c)
  BY <1>6 DEF CallOK, Serving, Reading
<1>. HIDE DEF c
<1>. QED
  BY <1>2, <1>3, <1>7, OneCall

LEMMA RequestStep ==
  ASSUME IInv, NEW w \in Workers, Request(w)
  PROVE  IInv'
<1>. DEFINE out == ~mongo
            err == ~wired
            at == IF wired THEN "find" ELSE "done"
            left == IF wired THEN Selection ELSE 0
            s == [NoCall EXCEPT !.at = "nf", !.nf = NFs, !.left = NfLimit,
                                !.always = imsis, !.ever = imsis, !.out = out]
            l == [NoCall EXCEPT !.for = "list", !.at = at, !.err = err, !.left = left,
                                !.always = imsis, !.ever = imsis, !.out = out]
<1>1. /\ proc = "serving"
      /\ \/ call' = [call EXCEPT ![w] = s]
         \/ call' = [call EXCEPT ![w] = l]
         \/ \E c \in Cells, step \in {"create", "delete", "answer"} :
              call' = [call EXCEPT ![w] = [NoCall EXCEPT !.for = c, !.at = step]]
      /\ UNCHANGED <<serviceVars, mongo, imsis, wired, ping, cell, made>>
  BY DEF Request
<1>2. mongo \in BOOLEAN /\ wired \in BOOLEAN /\ imsis \in SUBSET Imsis
  BY ByParts DEF RestOK
<1>3. /\ out \in BOOLEAN /\ err \in BOOLEAN
      /\ at \in {"find", "done"} /\ left \in 0 .. Selection
  BY Bounds
<1>4. NoCall \in Call /\ NoCall.for = "status" /\ NoCall.age = 0 /\ NoCall.got = {}
  BY NoCallOK DEF CallOK, NoCall
<1>5. CallOK(s)
  <2>1. s \in Call
    <3>. HIDE DEF out
    <3>. QED
      BY <1>2, <1>3, <1>4, Bounds, Zenon DEF Call
  <2>2. /\ s.at = "nf" /\ s.for = "status" /\ s.nf = NFs /\ s.left = NfLimit /\ s.age = 0
        /\ s.got = {} /\ s.always = imsis /\ s.ever = imsis /\ s.out = out
    <3>. HIDE DEF out
    <3>. QED
      BY <1>4 DEF Call
  <2>. HIDE DEF s
  <2>3. ReadFits(s)
    BY <2>2 DEF ReadFits
  <2>4. TimeFits(s)
    <3>1. 0 + NfLimit + (NFs - 1) * NfLimit <= NFs * NfLimit /\ NFs \in 1 .. NFs
      BY TimeLimits
    <3>2. s.nf \in 1 .. NFs /\ s.left <= NfLimit
      BY <2>2, <3>1, TimeLimits
    <3>3. s.age + s.left + (s.nf - 1) * NfLimit <= NFs * NfLimit
      BY <2>2, <3>1
    <3>. QED
      BY <1>1, <2>2, <3>2, <3>3, Zenon DEF TimeFits
  <2>. QED
    BY <2>1, <2>2, <2>3, <2>4 DEF CallOK
<1>6. CallOK(l)
  <2>1. l \in Call
    <3>. HIDE DEF at, left, out, err
    <3>. QED
      BY <1>2, <1>3, <1>4, Bounds, Zenon DEF Call
  <2>2. /\ l.at = at /\ l.for = "list" /\ l.err = err /\ l.age = 0
        /\ l.got = {} /\ l.always = imsis /\ l.ever = imsis /\ l.out = out
    <3>. HIDE DEF at, left, out, err
    <3>. QED
      BY <1>4 DEF Call
  <2>. HIDE DEF l
  <2>3. wired => ReadFits(l)
    BY <1>2, <2>2 DEF ReadFits
  <2>4. wired => TimeFits(l)
    BY <1>1, <2>2, TimeLimits DEF TimeFits
  <2>. QED
    BY <2>1, <2>2, <2>3, <2>4 DEF CallOK, Serving, Reading
<1>7. ASSUME NEW c \in Cells, NEW step \in {"create", "delete", "answer"}
      PROVE  CallOK([NoCall EXCEPT !.for = c, !.at = step])
  <2>. DEFINE g == [NoCall EXCEPT !.for = c, !.at = step]
  <2>1. g \in Call
    BY <1>4, Zenon DEF Call
  <2>2. /\ g.at = step /\ g.for = c /\ g.age = 0 /\ g.got = {} /\ g.always = {}
    BY <1>4 DEF NoCall
  <2>. HIDE DEF g
  <2>3. ReadFits(g)
    BY <2>2 DEF ReadFits
  <2>4. TimeFits(g)
    BY <1>1, <2>2, TimeLimits DEF TimeFits
  <2>5. CallOK(g)
    BY <2>1, <2>2, <2>3, <2>4 DEF CallOK
  <2>. QED
    BY <2>5 DEF g
<1>. HIDE DEF s, l
<1>8. CASE \E c \in Cells, step \in {"create", "delete", "answer"} :
             call' = [call EXCEPT ![w] = [NoCall EXCEPT !.for = c, !.at = step]]
  <2>1. PICK c \in Cells, step \in {"create", "delete", "answer"} :
          call' = [call EXCEPT ![w] = [NoCall EXCEPT !.for = c, !.at = step]]
    BY <1>8
  <2>. DEFINE g == [NoCall EXCEPT !.for = c, !.at = step]
  <2>2. CallOK(g) /\ call' = [call EXCEPT ![w] = g]
    BY <1>7, <2>1
  <2>. HIDE DEF g
  <2>. QED
    BY <1>1, <2>2, OneCall
<1>. QED
  BY <1>1, <1>5, <1>6, <1>8, OneCall

LEMMA StatusNFStep ==
  ASSUME IInv, NEW w \in Workers, StatusNF(w)
  PROVE  IInv'
<1>. DEFINE at == IF call[w].nf = 1 THEN "count" ELSE "nf"
            left == IF call[w].nf = 1 THEN Selection ELSE NfLimit
            c == [call[w] EXCEPT !.nf = @ - 1, !.at = at, !.left = left]
<1>1. /\ call[w].at = "nf" /\ call' = [call EXCEPT ![w] = c]
      /\ UNCHANGED <<serviceVars, mongo, imsis, wired, ping, cell, made>>
  BY ByParts DEF StatusNF
<1>2. /\ call[w] \in Call /\ proc # "mounting"
      /\ ReadFits(call[w]) /\ TimeFits(call[w])
  BY <1>1, ServedOnlyThen DEF Serving, Reading
<1>3. /\ call[w].nf \in 1 .. NFs /\ call[w].nf - 1 \in 0 .. NFs
      /\ call[w].age \in Nat /\ call[w].left \in Nat
      /\ call[w].age + call[w].left + (call[w].nf - 1) * NfLimit <= NFs * NfLimit
  BY <1>1, <1>2, TimeLimits DEF TimeFits, Call
<1>4. at \in {"count", "nf"} /\ left \in 0 .. Selection
  BY Bounds
<1>5. c \in Call
  <2>. HIDE DEF at, left
  <2>. QED
    BY <1>2, <1>3, <1>4, Zenon DEF Call
<1>6. /\ c.at = at /\ c.nf = call[w].nf - 1 /\ c.left = left /\ c.age = call[w].age
      /\ c.for = call[w].for /\ c.got = call[w].got /\ c.out = call[w].out
      /\ c.ever = call[w].ever /\ c.always = call[w].always
  BY <1>2 DEF Call
<1>. HIDE DEF c
<1>7. ReadFits(c)
  BY <1>1, <1>2, <1>4, <1>6 DEF ReadFits
<1>8. TimeFits(c)
  <2>1. CASE call[w].nf = 1
    <3>1. call[w].age < Grace /\ at = "count"
      BY <1>3, <2>1, TimeLimits, OneNfLess
    <3>. QED
      BY <1>1, <1>2, <1>6, <3>1 DEF TimeFits
  <2>2. CASE call[w].nf # 1
    <3>1. at = "nf" /\ left = NfLimit /\ c.nf \in 1 .. NFs
      BY <1>3, <1>6, <2>2
    <3>2. call[w].age + NfLimit + ((call[w].nf - 1) - 1) * NfLimit <= NFs * NfLimit
      <4>. DEFINE rest == ((call[w].nf - 1) - 1) * NfLimit
                  all == (call[w].nf - 1) * NfLimit
      <4>1. all = rest + NfLimit /\ all \in Nat
        BY <1>3, OneNfLess
      <4>2. rest \in Int
        BY <1>3, TimeLimits
      <4>3. call[w].age + call[w].left + all <= NFs * NfLimit
        BY <1>3
      <4>. HIDE DEF rest, all
      <4>4. call[w].age + NfLimit + rest <= NFs * NfLimit
        BY <1>3, <4>1, <4>2, <4>3, TimeLimits
      <4>. QED
        BY <4>4 DEF rest
    <3>. QED
      BY <1>1, <1>2, <1>6, <3>1, <3>2, TimeLimits DEF TimeFits
  <2>. QED
    BY <2>1, <2>2
<1>9. CallOK(c)
  BY <1>4, <1>5, <1>6, <1>7, <1>8 DEF CallOK, Serving, Reading
<1>. QED
  BY <1>1, <1>2, <1>9, OneCall

\* A count that succeeds is the whole collection.
LEMMA CountStep ==
  ASSUME IInv, NEW w \in Workers, Count(w)
  PROVE  IInv'
<1>. DEFINE got == IF wired /\ mongo THEN imsis ELSE {}
            err == wired /\ ~mongo
<1>1. /\ call[w].at = "count" /\ Reply(w, got, err)
      /\ UNCHANGED <<serviceVars, mongo, imsis, wired, ping, cell, made>>
  BY DEF Count
<1>2. ReadFits(call[w]) /\ imsis \in SUBSET Imsis
  BY <1>1, ServedOnlyThen, ByParts DEF Serving, Reading, RestOK
<1>3. got \in SUBSET Imsis /\ err \in BOOLEAN
  BY <1>2
<1>4. ~err => /\ got \subseteq call[w].ever
              /\ call[w].always \subseteq got \/ (call[w].for = "status" /\ ~wired)
  BY <1>1, <1>2 DEF ReadFits
<1>. HIDE DEF got, err
<1>. QED
  BY <1>1, <1>3, <1>4, ReplyStep DEF OnMongo

LEMMA FindStep ==
  ASSUME IInv, NEW w \in Workers, Find(w)
  PROVE  IInv'
<1>1. /\ call[w].at = "find"
      /\ UNCHANGED <<serviceVars, mongo, imsis, wired, ping, cell, made>>
      /\ IF mongo THEN call' = [call EXCEPT ![w].at = "next", ![w].due = imsis]
                  ELSE Reply(w, {}, TRUE)
  BY DEF Find
<1>2. /\ call[w] \in Call /\ proc # "mounting" /\ imsis \in SUBSET Imsis
      /\ ReadFits(call[w]) /\ TimeFits(call[w])
  BY <1>1, ServedOnlyThen, ByParts DEF Serving, Reading, RestOK
<1>3. CASE mongo
  <2>. DEFINE c == [call[w] EXCEPT !.at = "next", !.due = imsis]
  <2>1. call' = [call EXCEPT ![w] = c]
    BY <1>1, <1>3, ByParts
  <2>2. c \in Call
    BY <1>2, Zenon DEF Call
  <2>3. /\ c.at = "next" /\ c.due = imsis /\ c.got = call[w].got /\ c.age = call[w].age
        /\ c.for = call[w].for /\ c.out = call[w].out
        /\ c.ever = call[w].ever /\ c.always = call[w].always
    BY <1>2 DEF Call
  <2>. HIDE DEF c
  <2>4. ReadFits(c)
    BY <1>1, <1>2, <2>3 DEF ReadFits
  <2>5. TimeFits(c)
    BY <1>1, <1>2, <2>3 DEF TimeFits
  <2>6. CallOK(c)
    BY <2>2, <2>3, <2>4, <2>5 DEF CallOK
  <2>. QED
    BY <1>1, <1>2, <2>1, <2>6, OneCall
<1>4. CASE ~mongo
  BY <1>1, <1>4, ReplyStep DEF OnMongo
<1>. QED
  BY <1>3, <1>4

LEMMA NextDocumentStep ==
  ASSUME IInv, NEW w \in Workers, NextDocument(w)
  PROVE  IInv'
<1>1. /\ call[w].at = "next"
      /\ UNCHANGED <<serviceVars, mongo, imsis, wired, ping, cell, made>>
  BY DEF NextDocument
<1>2. /\ call[w] \in Call /\ proc # "mounting" /\ imsis \in SUBSET Imsis
      /\ ReadFits(call[w]) /\ TimeFits(call[w])
  BY <1>1, ServedOnlyThen, ByParts DEF Serving, Reading, RestOK
<1>3. ASSUME NEW i \in imsis,
             call' = [call EXCEPT ![w].got = @ \cup {i}, ![w].due = @ \ {i}]
      PROVE  IInv'
  <2>. DEFINE c == [call[w] EXCEPT !.got = @ \cup {i}, !.due = @ \ {i}]
  <2>1. call' = [call EXCEPT ![w] = c]
    BY <1>3, ByParts
  <2>2. call[w].got \cup {i} \in SUBSET Imsis /\ call[w].due \ {i} \in SUBSET Imsis
    BY <1>2 DEF Call
  <2>3. c \in Call
    BY <1>2, <2>2, Zenon DEF Call
  <2>4. /\ c.at = "next" /\ c.due = call[w].due \ {i} /\ c.got = call[w].got \cup {i}
        /\ c.age = call[w].age /\ c.for = call[w].for /\ c.out = call[w].out
        /\ c.ever = call[w].ever /\ c.always = call[w].always
    BY <1>1, <1>2 DEF Call
  <2>. HIDE DEF c
  <2>5. ReadFits(c)
    BY <1>1, <1>2, <2>4 DEF ReadFits
  <2>6. TimeFits(c)
    BY <1>1, <1>2, <2>4 DEF TimeFits
  <2>7. CallOK(c)
    BY <2>3, <2>4, <2>5, <2>6 DEF CallOK
  <2>. QED
    BY <1>1, <1>2, <2>1, <2>7, OneCall
<1>4. ASSUME ~mongo \/ call[w].due = {}, Reply(w, call[w].got, FALSE)
      PROVE  IInv'
  <2>1. call[w].got \in SUBSET Imsis
    BY <1>2 DEF Call
  <2>2. /\ call[w].got \subseteq call[w].ever
        /\ \/ call[w].always \subseteq call[w].got
           \/ call[w].for = "list" /\ call[w].out
    BY <1>1, <1>2, <1>4 DEF ReadFits
  <2>. QED
    BY <1>1, <1>4, <2>1, <2>2, ReplyStep DEF OnMongo
<1>. QED
  BY <1>3, <1>4 DEF NextDocument

-----------------------------------------------------------------------------
(* Steps that leave the requests alone.                                      *)

\* One name of a gNB changes, or nothing of the service's own but the process.
LEMMA CallsKept ==
  ASSUME IInv, ServiceInv', RestOK', call' = call,
         UNCHANGED <<proc, grace, mongo, imsis, wired>>
  PROVE  IInv'
<1>1. \A v \in Workers : CallOK(call[v])'
  BY ByParts, SameCall
<1>. QED
  BY <1>1, ByParts, NextParts

LEMMA ReconcileStep ==
  ASSUME IInv, NEW c \in Cells, Reconcile(c)
  PROVE  IInv'
<1>1. UNCHANGED <<serviceVars, mongo, imsis, wired, ping, call>>
  BY DEF Reconcile
<1>2. ServiceInv /\ RestOK
  BY ByParts
<1>3. ServiceInv'
  BY <1>1, <1>2, ServiceStutters
<1>4. CellsOK'
  BY <1>2 DEF Reconcile, RestOK, CellsOK, CreatedOnce
<1>5. RestOK'
  BY <1>1, <1>2, <1>4 DEF RestOK, serviceVars
<1>. QED
  BY <1>1, <1>3, <1>5, CallsKept DEF serviceVars

-----------------------------------------------------------------------------
(* The requests that Kubernetes carries out.                                 *)

\* Its answer is on the way.
LEMMA KubeStep ==
  ASSUME IInv, NEW w \in Workers, call[w].at \in {"create", "delete"},
         NEW err \in BOOLEAN, CellsOK',
         call' = [call EXCEPT ![w] = [call[w] EXCEPT !.at = "answer", !.err = err]],
         UNCHANGED <<serviceVars, mongo, imsis, wired, ping>>
  PROVE  IInv'
<1>. DEFINE c == [call[w] EXCEPT !.at = "answer", !.err = err]
<1>1. /\ call[w] \in Call /\ proc # "mounting"
      /\ ReadFits(call[w]) /\ TimeFits(call[w])
  BY ServedOnlyThen DEF Serving
<1>2. c \in Call
  BY <1>1, Zenon DEF Call
<1>3. /\ c.at = "answer" /\ c.for = call[w].for /\ c.got = call[w].got
      /\ c.age = call[w].age /\ c.out = call[w].out /\ c.always = call[w].always
  BY <1>1 DEF Call
<1>4. call' = [call EXCEPT ![w] = c]
  OBVIOUS
<1>. HIDE DEF c
<1>5. ReadFits(c)
  BY <1>1, <1>3 DEF ReadFits
<1>6. TimeFits(c)
  BY <1>1, <1>3 DEF TimeFits
<1>7. CallOK(c)
  BY <1>2, <1>3, <1>5, <1>6 DEF CallOK
<1>. QED
  BY <1>1, <1>4, <1>7, OneCallAndCell

\* What the steps of one name have to keep.
LEMMA CellsFit ==
  ASSUME IInv
  PROVE  /\ CellsOK
         /\ cell \in [Cells -> {"none", "here", "going"}] /\ made \in [Cells -> 0 .. 2]
         /\ \A d \in Cells : made[d] <= 1 /\ (made[d] = 1 => cell[d] # "none")
BY ByParts DEF RestOK, CellsOK, CreatedOnce

LEMMA CreateStep ==
  ASSUME IInv, NEW w \in Workers, CreateGNB(w)
  PROVE  IInv'
<1>. DEFINE c == call[w].for
<1>1. /\ call[w].at = "create" /\ UNCHANGED <<serviceVars, mongo, imsis, wired, ping>>
      /\ call \in [Workers -> Call] /\ call[w].err \in BOOLEAN
  BY ByParts DEF CreateGNB, Call
<1>2. c \in Cells
  BY <1>1, ServedOnlyThen DEF ReadFits, Serving
<1>3. CASE /\ cell[c] = "none"
           /\ cell' = [cell EXCEPT ![c] = "here"]
           /\ made' = [made EXCEPT ![c] = IF @ < 2 THEN @ + 1 ELSE @]
           /\ call' = [call EXCEPT ![w].at = "answer"]
  <2>1. CellsOK'
    <3>. HIDE DEF c
    <3>. QED
      BY <1>2, <1>3, CellsFit DEF CellsOK, CreatedOnce
  <2>2. call' = [call EXCEPT ![w] = [call[w] EXCEPT !.at = "answer", !.err = call[w].err]]
    BY <1>1, <1>3 DEF Call
  <2>. QED
    BY <1>1, <2>1, <2>2, KubeStep
<1>4. CASE /\ call' = [call EXCEPT ![w].at = "answer", ![w].err = TRUE]
           /\ UNCHANGED <<cell, made>>
  <2>1. CellsOK'
    BY <1>4, CellsFit DEF CellsOK, CreatedOnce
  <2>2. call' = [call EXCEPT ![w] = [call[w] EXCEPT !.at = "answer", !.err = TRUE]]
    BY <1>1, <1>4
  <2>. QED
    BY <1>1, <2>1, <2>2, KubeStep
<1>. QED
  BY <1>3, <1>4 DEF CreateGNB

LEMMA DeleteStep ==
  ASSUME IInv, NEW w \in Workers, DeleteGNB(w)
  PROVE  IInv'
<1>. DEFINE c == call[w].for
<1>1. /\ call[w].at = "delete" /\ UNCHANGED <<serviceVars, mongo, imsis, wired, ping>>
      /\ call \in [Workers -> Call] /\ call[w].err \in BOOLEAN
  BY ByParts DEF DeleteGNB, Call
<1>2. c \in Cells
  BY <1>1, ServedOnlyThen DEF ReadFits, Serving
<1>3. CASE /\ \/ cell' = [cell EXCEPT ![c] = "none"] /\ made' = [made EXCEPT ![c] = 0]
              \/ cell' = [cell EXCEPT ![c] = "going"] /\ UNCHANGED made
           /\ call' = [call EXCEPT ![w].at = "answer"]
  <2>1. CellsOK'
    <3>. HIDE DEF c
    <3>. QED
      BY <1>2, <1>3, CellsFit DEF CellsOK, CreatedOnce
  <2>2. call' = [call EXCEPT ![w] = [call[w] EXCEPT !.at = "answer", !.err = call[w].err]]
    BY <1>1, <1>3 DEF Call
  <2>. QED
    BY <1>1, <2>1, <2>2, KubeStep
<1>4. CASE /\ call' = [call EXCEPT ![w].at = "answer", ![w].err = (cell[c] = "none")]
           /\ UNCHANGED <<cell, made>>
  <2>. DEFINE err == (cell[c] = "none")
  <2>1. CellsOK'
    BY <1>4, CellsFit DEF CellsOK, CreatedOnce
  <2>2. /\ call' = [call EXCEPT ![w] = [call[w] EXCEPT !.at = "answer", !.err = err]]
        /\ err \in BOOLEAN
    BY <1>1, <1>4
  <2>. HIDE DEF err
  <2>. QED
    BY <1>1, <2>1, <2>2, KubeStep
<1>. QED
  BY <1>3, <1>4 DEF DeleteGNB

LEMMA AnswerStep ==
  ASSUME IInv, NEW w \in Workers, AnswerGNB(w)
  PROVE  IInv'
<1>1. /\ UNCHANGED <<serviceVars, mongo, imsis, wired, ping, cell, made>>
      /\ OnKube(w)
      /\ Reply(w, {}, call[w].err) \/ Reply(w, {}, TRUE)
  BY DEF AnswerGNB, OnKube
<1>2. /\ call[w] \in Call /\ call[w].always = {}
  BY <1>1, ServedOnlyThen DEF OnKube, Serving, ReadFits
<1>3. call[w].err \in BOOLEAN /\ {} \in SUBSET Imsis
      /\ {} \subseteq call[w].ever /\ call[w].always \subseteq {}
  BY <1>2 DEF Call
<1>4. CASE Reply(w, {}, call[w].err)
  BY <1>1, <1>3, <1>4, ReplyStep
<1>5. CASE Reply(w, {}, TRUE)
  BY <1>1, <1>3, <1>5, ReplyStep
<1>. QED
  BY <1>1, <1>4, <1>5

LEMMA CheckStep ==
  ASSUME IInv, Check \/ Postgres
  PROVE  IInv'
<1>1. /\ UNCHANGED ranVars /\ UNCHANGED <<proc, grace>>
      /\ CheckStarts \/ CheckEnds \/ DbChanges
  BY DEF Check, Postgres, CheckStarts, CheckEnds, DbChanges
<1>2. ServiceInv /\ RestOK
  BY ByParts
<1>3. ServiceInv'
  BY <1>1, <1>2, CheckStartsKeeps, CheckEndsKeeps, DbKeeps
<1>4. RestOK'
  BY <1>1, <1>2 DEF RestOK, CellsOK, CreatedOnce, ranVars
<1>. QED
  BY <1>1, <1>3, <1>4, CallsKept DEF ranVars

-----------------------------------------------------------------------------
(* The life of the process.                                                  *)

\* No request is served while the process starts, or once it has died.
LEMMA NoCalls ==
  ASSUME ServiceInv', RestOK', call' = [w \in Workers |-> NoCall]
  PROVE  IInv'
<1>1. NoCall \in Call /\ NoCall.at = "idle"
  BY NoCallOK DEF CallOK, NoCall
<1>2. call' \in [Workers -> Call] /\ \A v \in Workers : call'[v] = NoCall
  BY <1>1
<1>3. \A v \in Workers : CallOK(call[v])'
  BY <1>1, <1>2 DEF CallOK, Serving, Reading
<1>. QED
  BY <1>2, <1>3, NextParts

LEMMA StartStep == IInv /\ Start => IInv'
<1>. SUFFICES ASSUME IInv, Start PROVE IInv'
  OBVIOUS
<1>1. ServiceInv /\ RestOK
  BY ByParts
<1>2. ServiceInv'
  BY <1>1, BootKeeps DEF Start
<1>3. /\ wired' \in BOOLEAN /\ ping' \in 0 .. PingLimit
      /\ \A w \in Workers : call'[w] = NoCall
  <2>1. PingLimit \in 0 .. PingLimit
    BY TimeLimits
  <2>. QED
    BY <2>1, Zenon DEF Start
<1>4. RestOK'
  BY <1>1, <1>3 DEF Start, RestOK, CellsOK, CreatedOnce
<1>. QED
  BY <1>2, <1>4, NoCalls DEF Start

LEMMA NewStep == IInv /\ New => IInv'
<1>. SUFFICES ASSUME IInv, New PROVE IInv'
  OBVIOUS
<1>1. ServiceInv /\ RestOK /\ call \in [Workers -> Call]
  BY ByParts
<1>2. ServiceInv'
  BY <1>1, ServeKeeps DEF New
<1>3. /\ proc = "mounting" /\ proc' = "serving" /\ call' = call
      /\ wired' = mongo /\ ping' = 0 /\ UNCHANGED <<mongo, imsis, cell, made>>
  BY DEF New, Serve
<1>4. \A w \in Workers : call[w] = NoCall
  BY <1>1, <1>3 DEF RestOK
<1>5. RestOK'
  BY <1>1, <1>3, TimeLimits DEF RestOK, CellsOK, CreatedOnce
<1>6. call' = [w \in Workers |-> NoCall]
  BY <1>1, <1>3, <1>4
<1>. QED
  BY <1>2, <1>5, <1>6, NoCalls

LEMMA DiesStep == IInv /\ Dies => IInv'
<1>. SUFFICES ASSUME IInv, Dies PROVE IInv'
  OBVIOUS
<1>1. ServiceInv /\ RestOK /\ Off
  BY ByParts DEF Dies, Crash
<1>2. ServiceInv'
  BY <1>1, OffKeeps
<1>3. RestOK'
  BY <1>1, TimeLimits DEF Dies, Off, RestOK, CellsOK, CreatedOnce
<1>. QED
  BY <1>2, <1>3, NoCalls DEF Dies

\* From here on a request is at least as old as the shutdown.
LEMMA TerminateStep == IInv /\ Terminate => IInv'
<1>. SUFFICES ASSUME IInv, Terminate PROVE IInv'
  OBVIOUS
<1>1. ServiceInv /\ RestOK /\ call \in [Workers -> Call]
      /\ \A v \in Workers : CallOK(call[v])
  BY ByParts
<1>2. ServiceInv'
  BY <1>1, ShutdownKeeps DEF Terminate
<1>3. /\ proc' = "draining" /\ grace' = Grace
      /\ UNCHANGED <<mongo, imsis, wired, ping, cell, made, call>>
  BY DEF Terminate, Shutdown, ranVars
<1>4. RestOK'
  BY <1>1, <1>3 DEF RestOK, CellsOK, CreatedOnce
<1>5. ASSUME NEW v \in Workers PROVE CallOK(call[v])'
  <2>1. CallOK(call[v]) /\ call[v].age \in Nat
    BY <1>1, TimeLimits DEF CallOK, Call
  <2>2. Grace <= call[v].age + Grace
    BY <2>1, TimeLimits
  <2>3. TimeFits(call[v]) => TimeFits(call[v])'
    BY <1>3, <2>2 DEF TimeFits
  <2>4. ReadFits(call[v]) => ReadFits(call[v])'
    BY <1>3 DEF ReadFits
  <2>. QED
    BY <1>3, <2>1, <2>3, <2>4 DEF CallOK
<1>. QED
  BY <1>1, <1>2, <1>3, <1>4, <1>5, NextParts

\* A worker that serves nothing is not disturbed.
LEMMA QuietCall ==
  ASSUME NEW v \in Workers, CallOK(call[v]), ~Busy(v), call'[v] = call[v],
         UNCHANGED wired
  PROVE  CallOK(call[v])'
BY BusyMeans DEF CallOK

\* Nor is one that reads nothing by what happens to MongoDB.
LEMMA OtherCall ==
  ASSUME NEW v \in Workers, CallOK(call[v]), ~Reads(v), call'[v] = call[v],
         UNCHANGED <<wired, proc, grace>>
  PROVE  CallOK(call[v])'
<1>1. CASE call[v].at \in {"create", "delete", "answer"}
  BY <1>1 DEF CallOK, Serving, Reading, ReadFits, TimeFits
<1>2. CASE call[v].at \notin {"create", "delete", "answer"}
  BY <1>2, BusyMeans, QuietCall DEF Serving
<1>. QED
  BY <1>1, <1>2

\* When the time for the shutdown is up, whoever is still served waits for
\* MongoDB or for Kubernetes.
LEMMA LateMeansOut ==
  ASSUME IInv, NEW w \in Workers, Busy(w), proc = "draining", grace = 0
  PROVE  call[w].out
<1>1. TimeFits(call[w]) /\ call[w] \in Call
  BY ServedOnlyThen, BusyMeans
<1>2. call[w].age \in Nat /\ call[w].left \in Nat
  BY <1>1, TimeLimits DEF Call
<1>3. Grace <= call[w].age
  BY <1>1, <1>2, TimeLimits DEF TimeFits
<1>4. call[w].at # "nf"
  <2>. SUFFICES ASSUME call[w].at = "nf" PROVE FALSE
    OBVIOUS
  <2>1. /\ call[w].nf \in 1 .. NFs
        /\ call[w].age + call[w].left + (call[w].nf - 1) * NfLimit <= NFs * NfLimit
    BY <1>1 DEF TimeFits
  <2>. DEFINE rest == (call[w].nf - 1) * NfLimit
  <2>2. rest \in Nat /\ call[w].age + call[w].left + rest <= NFs * NfLimit
    BY <2>1, OneNfLess
  <2>. HIDE DEF rest
  <2>. QED
    BY <1>2, <1>3, <2>2, TimeLimits
<1>. QED
  BY <1>1, <1>2, <1>3, <1>4, TimeLimits DEF TimeFits

LEMMA StopStep == IInv /\ Stop => IInv'
<1>. SUFFICES ASSUME IInv, Stop PROVE IInv'
  OBVIOUS
<1>. DEFINE cut(w) == [call[w] EXCEPT !.at = "lost", !.left = 0, !.age = 0, !.due = {}]
<1>1. ServiceInv /\ RestOK /\ call \in [Workers -> Call]
      /\ \A v \in Workers : CallOK(call[v])
  BY ByParts
<1>2. /\ Off /\ ping' = 0 /\ UNCHANGED <<mongo, imsis, wired, cell, made>>
      /\ call' = [w \in Workers |-> IF Busy(w) THEN cut(w) ELSE call[w]]
  BY DEF Stop, Exit, EarlyShutdown
<1>3. ServiceInv'
  BY <1>1, <1>2, OffKeeps
<1>4. RestOK'
  <2>1. proc' # "mounting" /\ ping' = 0 /\ UNCHANGED <<mongo, imsis, wired, cell, made>>
    BY <1>2 DEF Off
  <2>. QED
    BY <1>1, <2>1, TimeLimits DEF RestOK, CellsOK, CreatedOnce
<1>5. ASSUME NEW w \in Workers, Busy(w) PROVE call[w].out
  <2>1. proc # "mounting"
    BY <1>5, ServedOnlyThen, BusyMeans
  <2>2. proc = "draining" /\ grace = 0
    BY <1>5, <2>1 DEF Stop, Exit, EarlyShutdown
  <2>. QED
    BY <1>5, <2>2, LateMeansOut
<1>6. ASSUME NEW w \in Workers
      PROVE  /\ cut(w) \in Call
             /\ cut(w).at = "lost" /\ cut(w).out = call[w].out
  <2>1. call[w] \in Call
    BY <1>1
  <2>2. cut(w) \in Call
    BY <2>1, Bounds, Zenon DEF Call
  <2>3. cut(w).at = "lost" /\ cut(w).out = call[w].out
    BY <2>1 DEF Call
  <2>. QED
    BY <2>2, <2>3
<1>. HIDE DEF cut
<1>7. call' \in [Workers -> Call]
  BY <1>1, <1>2, <1>6
<1>8. ASSUME NEW v \in Workers PROVE CallOK(call[v])'
  <2>1. CASE Busy(v)
    BY <1>2, <1>5, <1>6, <2>1 DEF CallOK, Serving, Reading
  <2>2. CASE ~Busy(v)
    BY <1>1, <1>2, <2>2, QuietCall
  <2>. QED
    BY <2>1, <2>2
<1>. QED
  BY <1>3, <1>4, <1>7, <1>8, NextParts

-----------------------------------------------------------------------------
(* The surroundings.                                                         *)

LEMMA MongoStep == IInv /\ MongoChanges => IInv'
<1>. SUFFICES ASSUME IInv, MongoChanges PROVE IInv'
  OBVIOUS
<1>. DEFINE n(w) == [call[w] EXCEPT !.out = TRUE]
<1>1. ServiceInv /\ RestOK /\ call \in [Workers -> Call]
      /\ \A v \in Workers : CallOK(call[v])
  BY ByParts
<1>2. /\ mongo' = ~mongo /\ UNCHANGED <<serviceVars, imsis, wired, ping, cell, made>>
      /\ call' = [w \in Workers |-> IF Reads(w) THEN n(w) ELSE call[w]]
  BY DEF MongoChanges
<1>3. ServiceInv'
  BY <1>1, <1>2, ServiceStutters
<1>4. mongo' \in BOOLEAN
  BY <1>1, <1>2
<1>5. ASSUME NEW w \in Workers
      PROVE  /\ n(w) \in Call
             /\ n(w).out = TRUE /\ n(w).at = call[w].at /\ n(w).for = call[w].for
             /\ n(w).nf = call[w].nf /\ n(w).left = call[w].left /\ n(w).age = call[w].age
             /\ n(w).got = call[w].got /\ n(w).due = call[w].due
             /\ n(w).always = call[w].always /\ n(w).ever = call[w].ever
  <2>1. call[w] \in Call
    BY <1>1
  <2>2. n(w) \in Call
    BY <2>1, Zenon DEF Call
  <2>3. /\ n(w).out = TRUE /\ n(w).at = call[w].at /\ n(w).for = call[w].for
        /\ n(w).nf = call[w].nf /\ n(w).left = call[w].left /\ n(w).age = call[w].age
        /\ n(w).got = call[w].got /\ n(w).due = call[w].due
        /\ n(w).always = call[w].always /\ n(w).ever = call[w].ever
    BY <2>1 DEF Call
  <2>. QED
    BY <2>2, <2>3
<1>. HIDE DEF n
<1>6. call' \in [Workers -> Call]
  BY <1>1, <1>2, <1>5
<1>7. RestOK'
  <2>1. proc = "mounting" => \A w \in Workers : ~Busy(w)
    BY <1>1, BusyMeans DEF RestOK, NoCall, Serving, Reading
  <2>2. proc' = "mounting" => \A w \in Workers : call'[w] = NoCall
    BY <1>1, <1>2, <2>1, BusyMeans DEF RestOK, serviceVars
  <2>. QED
    BY <1>1, <1>2, <1>4, <2>2 DEF RestOK, CellsOK, CreatedOnce
<1>8. ASSUME NEW v \in Workers PROVE CallOK(call[v])'
  <2>1. CASE Reads(v)
    <3>1. ReadFits(call[v]) /\ TimeFits(call[v]) /\ call'[v] = n(v) /\ n(v).out
      BY <1>1, <1>2, <1>5, <2>1, BusyMeans DEF CallOK
    <3>5. call[v].at \in Reading
      BY <2>1, BusyMeans
    <3>2. ReadFits(call[v])'
      BY <1>2, <1>5, <3>1, <3>5 DEF ReadFits, Reading
    <3>3. TimeFits(call[v])'
      BY <1>2, <1>5, <3>1 DEF TimeFits, serviceVars
    <3>4. call'[v].at \in Serving
      BY <1>5, <2>1, <3>1, BusyMeans
    <3>. QED
      BY <1>5, <3>1, <3>2, <3>3, <3>4 DEF CallOK, Serving, Reading
  <2>2. CASE ~Reads(v)
    BY <1>1, <1>2, <2>2, OtherCall DEF serviceVars
  <2>. QED
    BY <2>1, <2>2
<1>. QED
  BY <1>3, <1>6, <1>7, <1>8, NextParts

\* What every request knows of the subscribers follows them.
LEMMA ProvisionStep == IInv /\ Provision => IInv'
<1>. SUFFICES ASSUME IInv, Provision PROVE IInv'
  OBVIOUS
<1>. DEFINE n(w) == [call[w] EXCEPT !.always = @ \cap imsis', !.ever = @ \cup imsis',
                                    !.due = @ \cap imsis']
<1>1. ServiceInv /\ RestOK /\ call \in [Workers -> Call]
      /\ \A v \in Workers : CallOK(call[v])
  BY ByParts
<1>2. /\ UNCHANGED <<serviceVars, mongo, wired, ping, cell, made>>
      /\ call' = [w \in Workers |-> IF Reads(w) THEN n(w) ELSE call[w]]
  BY DEF Provision
<1>3. imsis' \in SUBSET Imsis
  BY <1>1 DEF Provision, RestOK
<1>4. ServiceInv'
  BY <1>1, <1>2, ServiceStutters
<1>5. ASSUME NEW w \in Workers
      PROVE  /\ n(w) \in Call
             /\ n(w).at = call[w].at /\ n(w).for = call[w].for /\ n(w).out = call[w].out
             /\ n(w).nf = call[w].nf /\ n(w).left = call[w].left /\ n(w).age = call[w].age
             /\ n(w).got = call[w].got /\ n(w).due = call[w].due \cap imsis'
             /\ n(w).always = call[w].always \cap imsis'
             /\ n(w).ever = call[w].ever \cup imsis'
  <2>1. call[w] \in Call
    BY <1>1
  <2>2. /\ call[w].always \cap imsis' \in SUBSET Imsis /\ call[w].due \cap imsis' \in SUBSET Imsis
        /\ call[w].ever \cup imsis' \in SUBSET Imsis
    BY <1>3, <2>1 DEF Call
  <2>3. n(w) \in Call
    BY <2>1, <2>2, Zenon DEF Call
  <2>4. /\ n(w).at = call[w].at /\ n(w).for = call[w].for /\ n(w).out = call[w].out
        /\ n(w).nf = call[w].nf /\ n(w).left = call[w].left /\ n(w).age = call[w].age
        /\ n(w).got = call[w].got /\ n(w).due = call[w].due \cap imsis'
        /\ n(w).always = call[w].always \cap imsis'
        /\ n(w).ever = call[w].ever \cup imsis'
    BY <2>1 DEF Call
  <2>. QED
    BY <2>3, <2>4
<1>. HIDE DEF n
<1>6. call' \in [Workers -> Call]
  BY <1>1, <1>2, <1>5
<1>7. RestOK'
  <2>1. proc = "mounting" => \A w \in Workers : ~Busy(w)
    BY <1>1, BusyMeans DEF RestOK, NoCall, Serving, Reading
  <2>2. proc' = "mounting" => \A w \in Workers : call'[w] = NoCall
    BY <1>1, <1>2, <2>1, BusyMeans DEF RestOK, serviceVars
  <2>. QED
    BY <1>1, <1>2, <1>3, <2>2 DEF RestOK, CellsOK, CreatedOnce
<1>8. ASSUME NEW v \in Workers PROVE CallOK(call[v])'
  <2>1. CASE Reads(v)
    <3>1. ReadFits(call[v]) /\ TimeFits(call[v]) /\ call'[v] = n(v)
      BY <1>1, <1>2, <2>1, BusyMeans DEF CallOK
    <3>5. call[v].at \in Reading
      BY <2>1, BusyMeans
    <3>2. ReadFits(call[v])'
      BY <1>2, <1>5, <3>1, <3>5 DEF ReadFits, Reading
    <3>3. TimeFits(call[v])'
      BY <1>2, <1>5, <3>1 DEF TimeFits, serviceVars
    <3>4. call'[v].at \in Serving
      BY <1>5, <2>1, <3>1, BusyMeans
    <3>. QED
      BY <1>5, <3>1, <3>2, <3>3, <3>4 DEF CallOK, Serving, Reading
  <2>2. CASE ~Reads(v)
    BY <1>1, <1>2, <2>2, OtherCall DEF serviceVars
  <2>. QED
    BY <2>1, <2>2
<1>. QED
  BY <1>4, <1>6, <1>7, <1>8, NextParts

\* Only a network function, a MongoDB that does not answer, or Kubernetes lets
\* time pass.
LEMMA TickStep == IInv /\ Tick => IInv'
<1>. SUFFICES ASSUME IInv, Tick PROVE IInv'
  OBVIOUS
<1>. DEFINE older(a) == IF a > WriteTimeout THEN a ELSE a + 1
            slow(w) == call[w].out \/ (OnKube(w) /\ call[w].age + 1 >= Grace)
            n(w) == [call[w] EXCEPT !.left = Down(call[w].left), !.age = older(call[w].age),
                                    !.out = slow(w)]
<1>1. ServiceInv /\ RestOK /\ call \in [Workers -> Call]
      /\ \A v \in Workers : CallOK(call[v])
  BY ByParts
<1>2. /\ Passes /\ ping' = Down(ping) /\ UNCHANGED <<mongo, imsis, wired, cell, made>>
      /\ \A w \in Workers : /\ call[w].at = "nf" => call[w].left # 0
                            /\ OnMongo(w) => ~mongo /\ call[w].left # 0
  BY DEF Tick
<1>3. call' = [w \in Workers |-> IF Busy(w) THEN n(w) ELSE call[w]]
  BY <1>1 DEF Tick
<1>4. proc' = proc /\ grace' = (IF proc = "draining" THEN grace - 1 ELSE grace)
      /\ grace \in Nat
  BY <1>1, <1>2, Limits DEF Passes, ServiceInv, ServiceTypeOK
<1>5. ServiceInv'
  BY <1>1, <1>2, PassesKeeps
<1>6. ASSUME NEW w \in Workers
      PROVE  /\ n(w) \in Call
             /\ n(w).at = call[w].at /\ n(w).for = call[w].for /\ n(w).out = slow(w)
             /\ n(w).nf = call[w].nf /\ n(w).got = call[w].got /\ n(w).due = call[w].due
             /\ n(w).always = call[w].always /\ n(w).ever = call[w].ever
             /\ n(w).left = Down(call[w].left) /\ n(w).age = older(call[w].age)
  <2>1. call[w] \in Call
    BY <1>1
  <2>2. /\ Down(call[w].left) \in 0 .. Selection
        /\ older(call[w].age) \in 0 .. WriteTimeout + 1
    BY <2>1, TimeLimits DEF Call, Down
  <2>5. slow(w) \in BOOLEAN
    BY <2>1 DEF Call
  <2>. HIDE DEF older, slow
  <2>3. n(w) \in Call
    BY <2>1, <2>2, <2>5, Zenon DEF Call
  <2>4. /\ n(w).at = call[w].at /\ n(w).for = call[w].for /\ n(w).out = slow(w)
        /\ n(w).nf = call[w].nf /\ n(w).got = call[w].got /\ n(w).due = call[w].due
        /\ n(w).always = call[w].always /\ n(w).ever = call[w].ever
        /\ n(w).left = Down(call[w].left) /\ n(w).age = older(call[w].age)
    BY <2>1 DEF Call
  <2>. QED
    BY <2>3, <2>4
<1>. HIDE DEF n
<1>7. call' \in [Workers -> Call]
  BY <1>1, <1>3, <1>6
<1>8. RestOK'
  <2>1. proc = "mounting" => \A w \in Workers : ~Busy(w)
    BY <1>1, BusyMeans DEF RestOK, NoCall, Serving, Reading
  <2>2. proc' = "mounting" => \A w \in Workers : call'[w] = NoCall
    BY <1>1, <1>3, <1>4, <2>1 DEF RestOK
  <2>3. ping' \in 0 .. PingLimit
    BY <1>1, <1>2, TimeLimits DEF RestOK, Down
  <2>. QED
    BY <1>1, <1>2, <2>2, <2>3 DEF RestOK, CellsOK, CreatedOnce
<1>9. ASSUME NEW v \in Workers PROVE CallOK(call[v])'
  <2>1. CASE Busy(v)
    <3>1. ReadFits(call[v]) /\ TimeFits(call[v]) /\ call'[v] = n(v) /\ call[v] \in Call
      BY <1>1, <1>3, <2>1, BusyMeans DEF CallOK
    <3>2. ReadFits(call[v])'
      <4>1. n(v).out => call[v].out \/ call[v].at \in {"create", "delete", "answer"}
        BY <1>6 DEF OnKube
      <4>2. call[v].out => n(v).out
        BY <1>6
      <4>. QED
        BY <1>2, <1>6, <3>1, <4>1, <4>2 DEF ReadFits
    <3>3. /\ call[v].left \in Nat /\ (Reads(v) => call[v].left # 0)
          /\ call[v].age \in Nat /\ call[v].age <= WriteTimeout + 1
      BY <1>2, <3>1, TimeLimits DEF Reads, OnMongo, Call
    <3>4. /\ Reads(v) => n(v).left = call[v].left - 1
          /\ n(v).age <= call[v].age + 1
          /\ n(v).age = call[v].age + 1 \/ n(v).age = WriteTimeout + 1
          /\ n(v).age \in Nat
      BY <1>6, <3>3, TimeLimits DEF Down
    <3>5. TimeFits(call[v])'
      <4>1. proc' = "draining" => Grace <= n(v).age + grace'
        BY <1>2, <1>4, <3>1, <3>3, <3>4, TimeLimits DEF TimeFits, Passes
      <4>2. CASE call[v].at = "nf"
        <5>. DEFINE rest == (call[v].nf - 1) * NfLimit
        <5>3. Reads(v)
          BY <4>2 DEF Reads
        <5>1. /\ call[v].nf \in 1 .. NFs /\ call[v].left <= NfLimit
              /\ rest \in Nat /\ call[v].age + call[v].left + rest <= NFs * NfLimit
          BY <3>1, <4>2, OneNfLess DEF TimeFits
        <5>2. n(v).left <= NfLimit /\ n(v).age + n(v).left + rest <= NFs * NfLimit
          <6>. HIDE DEF rest
          <6>. QED
            BY <3>3, <3>4, <5>1, <5>3, TimeLimits
        <5>. QED
          BY <1>6, <3>1, <4>1, <4>2, <5>1, <5>2 DEF TimeFits
      <4>3. CASE call[v].at # "nf"
        <5>1. OnMongo(v) => n(v).out
          BY <1>2, <1>6, <3>1 DEF ReadFits, OnMongo
        <5>2. OnKube(v) /\ ~n(v).out => n(v).age < Grace
          <6>1. n(v).out = slow(v)
            BY <1>6
          <6>2. OnKube(v) /\ ~n(v).out => ~(call[v].age + 1 >= Grace)
            BY <6>1
          <6>. QED
            BY <3>3, <3>4, <6>2, TimeLimits
        <5>3. OnMongo(v) \/ OnKube(v)
          BY <2>1, <4>3 DEF Busy, Reads, OnMongo
        <5>. QED
          BY <1>6, <3>1, <4>1, <4>3, <5>1, <5>2, <5>3 DEF TimeFits
      <4>. QED
        BY <4>2, <4>3
    <3>6. call'[v].at \in Serving
      BY <1>6, <2>1, <3>1, BusyMeans
    <3>. QED
      BY <1>6, <3>1, <3>2, <3>5, <3>6 DEF CallOK, Serving, Reading
  <2>2. CASE ~Busy(v)
    BY <1>1, <1>2, <1>3, <2>2, QuietCall
  <2>. QED
    BY <2>1, <2>2
<1>. QED
  BY <1>5, <1>7, <1>8, <1>9, NextParts

-----------------------------------------------------------------------------
(* The theorems.                                                             *)

LEMMA InitIInv == Init => IInv
<1>. SUFFICES ASSUME Init PROVE IInv
  OBVIOUS
<1>1. ServiceInv
  BY ServiceStarts DEF Init
<1>2. NoCall \in Call /\ NoCall.at = "idle"
  BY NoCallOK DEF CallOK, NoCall
<1>3. wired \in BOOLEAN /\ mongo \in BOOLEAN
  BY DEF Init
<1>4. TypeOK
  BY <1>1, <1>2, <1>3, TimeLimits DEF Init, TypeOK, ServiceInv
<1>5. \A w \in Workers : call[w] = NoCall
  BY DEF Init
<1>6. CallsFit
  BY <1>2, <1>5, BusyMeans DEF CallsFit, Serving, Reading
<1>7. AnswersAreTrue /\ RepliesArrive
  BY <1>2, <1>5 DEF Init, AnswersAreTrue, ReadsAreTrue, CreatedOnce, RepliesArrive
<1>. QED
  BY <1>1, <1>4, <1>6, <1>7 DEF IInv

LEMMA NextIInv == IInv /\ [Next]_vars => IInv'
<1>. SUFFICES ASSUME IInv, [Next]_vars PROVE IInv'
  OBVIOUS
<1>1. CASE Start
  BY <1>1, StartStep
<1>2. CASE New
  BY <1>2, NewStep
<1>3. CASE Check \/ Postgres
  BY <1>3, CheckStep
<1>4. CASE Terminate
  BY <1>4, TerminateStep
<1>5. CASE Stop
  BY <1>5, StopStep
<1>6. CASE Dies
  BY <1>6, DiesStep
<1>7. ASSUME NEW w \in Workers, Request(w) \/ Serves(w) PROVE IInv'
  BY <1>7, RequestStep, StatusNFStep, CountStep, FindStep, NextDocumentStep,
     CreateStep, DeleteStep, AnswerStep DEF Serves
<1>8. ASSUME NEW c \in Cells, Reconcile(c) PROVE IInv'
  BY <1>8, ReconcileStep
<1>9. CASE MongoChanges
  BY <1>9, MongoStep
<1>10. CASE Provision
  BY <1>10, ProvisionStep
<1>11. CASE Tick
  BY <1>11, TickStep
<1>12. CASE UNCHANGED vars
  <2>1. UNCHANGED serviceVars /\ UNCHANGED ranVars
    BY <1>12 DEF vars
  <2>2. ServiceInv' /\ RestOK'
    BY <2>1, ServiceStutters, ByParts DEF RestOK, CellsOK, CreatedOnce, ranVars, serviceVars
  <2>. QED
    BY <2>1, <2>2, CallsKept DEF ranVars, serviceVars
<1>. QED
  BY <1>1, <1>2, <1>3, <1>4, <1>5, <1>6, <1>7, <1>8, <1>9, <1>10, <1>11, <1>12 DEF Next

\* What every step keeps.
THEOREM Invariant == Spec => []IInv
BY InitIInv, NextIInv, PTL DEF Spec

\* Every variable keeps its type; in particular no time limit is overrun.
THEOREM TypeCorrect == Spec => []TypeOK
<1>1. IInv => TypeOK
  BY DEF IInv
<1>. QED
  BY Invariant, <1>1, PTL

\* health.Checker and runner.Run: a serving process whose Postgres has been up,
\* or down, for an interval and a check's time limit says so, whatever the
\* limits are, as long as a check ends before the next is due.
THEOREM HealthIsReported == Spec => []HealthFollows
<1>1. IInv => HealthFollows
  BY HealthIsSo DEF IInv
<1>. QED
  BY Invariant, <1>1, PTL

\* ranctl.Status, ranctl.Subscribers and gnb.Create: counts and lists given
\* without an error are those of the subscribers, but for the two exceptions,
\* and a name is created once, for any number of requests under way.
THEOREM AnswersMatchTheCore == Spec => []AnswersAreTrue
<1>1. IInv => AnswersAreTrue
  BY DEF IInv
<1>. QED
  BY Invariant, <1>1, PTL

\* http.Server and the clients of ranctl and gnb: with time limits in this order
\* every request gets its reply, also during a shutdown, unless MongoDB was out
\* while it read or Kubernetes, whose calls have no time limit, took Grace.
THEOREM RepliesAreInTime == Spec => []RepliesArrive
<1>1. IInv => RepliesArrive
  BY DEF IInv
<1>. QED
  BY Invariant, <1>1, PTL
=============================================================================
