------------------------------ MODULE Messaging ------------------------------
(***************************************************************************)
(* svc-aerial-messaging: Send stores a message and then publishes it, best   *)
(* effort, on the recipient's JetStream subject; Inbox reads the newest      *)
(* stored messages; the stream handler copies what is published from the     *)
(* moment its consumer exists to one WebSocket.                              *)
(*                                                                          *)
(* A message is its position in the table.  A sender has one Send under way  *)
(* at a time.  A viewer is a browser tab: it asks for a stream, may go away  *)
(* without the handler noticing, and may ask again.                          *)
(***************************************************************************)
EXTENDS Naturals, Sequences, FiniteSets

CONSTANTS
  Senders,      \* callers of Send
  Viewers,      \* callers of the stream and of Inbox
  Users,        \* recipients
  MaxMessages,  \* bound on the messages sent
  Limit,        \* how many messages Inbox returns (50 in the code)
  Buffered,     \* bound on the writes a connection takes after its client left
  Chain,        \* the middleware the handler is wrapped in
  Faults        \* "lost", "unacked", "late", "crash"

Wrapping == {"recover", "metrics", "cors", "httplog", "auth", "bodyLimit"}

ASSUME ConstantsAssumption ==
  /\ MaxMessages \in Nat /\ Limit \in Nat \ {0} /\ Buffered \in Nat
  /\ Chain \subseteq Wrapping
  /\ Faults \subseteq {"lost", "unacked", "late", "crash"}

VARIABLES
  log,      \* messaging.messages, in the order of created_at
  subject,  \* what JetStream carried on each recipient's subject
  sending,  \* the stored message each sender is about to publish, or 0
  failed,   \* history: messages that will never be published
  late,     \* messages whose publish timed out; they may arrive yet
  conn,     \* the stream handler of each viewer
  pending,  \* what each handler's consumer holds
  got,      \* what each viewer received on its stream
  page      \* what each viewer saw of its inbox since it opened its stream

vars == <<log, subject, sending, failed, late, conn, pending, got, page>>

-----------------------------------------------------------------------------

Ids == 1 .. MaxMessages

Message == [from : Senders, to : Users]

\* `since' is how much the subject had carried when the consumer was made,
\* `here' whether the client is still at the other end, and `unread' how many
\* messages were written after it had left.
Conn == [at : {"closed", "opening", "live"}, user : Users, since : Nat,
         here : BOOLEAN, unread : 0 .. Buffered]

\* `polled' says that the inbox was read since the consumer exists, `crowded'
\* which messages had left the inbox by then.
Page == [polled : BOOLEAN, seen : SUBSET Ids, crowded : SUBSET Ids]

NoPage == [polled |-> FALSE, seen |-> {}, crowded |-> {}]

To(u) == {i \in 1 .. Len(log) : log[i].to = u}

Newer(i, u) == {k \in To(u) : k > i}

\* Faulty variant: ORDER BY created_at without DESC.
Newest_Oldest(u) == {i \in To(u) : Cardinality(To(u) \ Newer(i, u)) <= Limit}

\* ORDER BY created_at DESC LIMIT.
Newest(u) == {i \in To(u) : Cardinality(Newer(i, u)) < Limit}

\* A response writer wrapped by metrics or httplog has no Hijack, which the
\* upgrade needs.
Hijackable == Chain \cap {"metrics", "httplog"} = {}

-----------------------------------------------------------------------------
(* Send.                                                                    *)

\* The INSERT.  If its answer is lost, Send returns the error and publishes
\* nothing.
Store(w, u) ==
  /\ sending[w] = 0
  /\ Len(log) < MaxMessages
  /\ log' = Append(log, [from |-> w, to |-> u])
  /\ \/ sending' = [sending EXCEPT ![w] = Len(log) + 1] /\ UNCHANGED failed
     \/ "unacked" \in Faults /\ failed' = failed \cup {Len(log) + 1}
                             /\ UNCHANGED sending
  /\ UNCHANGED <<subject, late, conn, pending, got, page>>

\* JetStream takes message i and hands it to the consumers of its subject.
Carry(i) ==
  LET u == log[i].to IN
  /\ subject' = [subject EXCEPT ![u] = Append(@, i)]
  /\ pending' = [v \in Viewers |->
       IF conn[v].at = "live" /\ conn[v].user = u THEN Append(pending[v], i)
                                                  ELSE pending[v]]

\* Faulty variant: a publish whose answer was lost is sent once more.
Publish_Again(w) ==
  /\ sending[w] # 0
  /\ Carry(sending[w])
  /\ \/ sending' = [sending EXCEPT ![w] = 0]
     \/ "unacked" \in Faults /\ UNCHANGED sending
  /\ UNCHANGED <<log, failed, late, conn, got, page>>

\* js.Publish, answered; Send returns.
Publish(w) ==
  /\ sending[w] # 0
  /\ Carry(sending[w])
  /\ sending' = [sending EXCEPT ![w] = 0]
  /\ UNCHANGED <<log, failed, late, conn, got, page>>

\* Faulty variant: a publish also fails for a Send that stored nothing.
PublishFails_Idle(w) ==
  /\ \/ "lost" \in Faults /\ failed' = failed \cup {sending[w]} /\ UNCHANGED late
     \/ "late" \in Faults /\ late' = late \cup {sending[w]} /\ UNCHANGED failed
  /\ sending' = [sending EXCEPT ![w] = 0]
  /\ UNCHANGED <<log, subject, conn, pending, got, page>>

\* js.Publish fails: the error is dropped and Send returns all the same.
PublishFails(w) ==
  /\ sending[w] # 0
  /\ \/ "lost" \in Faults /\ failed' = failed \cup {sending[w]} /\ UNCHANGED late
     \/ "late" \in Faults /\ late' = late \cup {sending[w]} /\ UNCHANGED failed
  /\ sending' = [sending EXCEPT ![w] = 0]
  /\ UNCHANGED <<log, subject, conn, pending, got, page>>

\* A publish that timed out reaches JetStream after all.
Arrive(i) ==
  /\ i \in late
  /\ \A u \in Users : \A k \in 1 .. Len(subject[u]) : subject[u][k] # i
  /\ Carry(i)
  /\ UNCHANGED <<log, sending, failed, late, conn, got, page>>

-----------------------------------------------------------------------------
(* The stream.                                                              *)

\* The handler returns: the consumer and the connection are closed.
Close(v) ==
  /\ conn' = [conn EXCEPT ![v].at = "closed", ![v].here = FALSE, ![v].unread = 0]
  /\ pending' = [pending EXCEPT ![v] = <<>>]
  /\ page' = [page EXCEPT ![v] = NoPage]

\* websocket.Accept.  The client knows of its stream from here on.
Open(v) ==
  /\ conn[v].at = "closed"
  /\ Hijackable
  /\ \E u \in Users :
       conn' = [conn EXCEPT ![v] = [at |-> "opening", user |-> u,
                                    since |-> Len(subject[u]), here |-> TRUE,
                                    unread |-> 0]]
  /\ got' = [got EXCEPT ![v] = <<>>]
  /\ UNCHANGED <<log, subject, sending, failed, late, pending, page>>

\* OrderedConsumer with DeliverNew: it holds what is published from now on.
Subscribe(v) ==
  /\ conn[v].at = "opening"
  /\ conn' = [conn EXCEPT ![v].at = "live",
                          ![v].since = Len(subject[conn[v].user])]
  /\ UNCHANGED <<log, subject, sending, failed, late, pending, got, page>>

\* The consumer cannot be made: the handler closes the WebSocket.
SubscribeFails(v) ==
  /\ conn[v].at = "opening"
  /\ "lost" \in Faults
  /\ Close(v)
  /\ UNCHANGED <<log, subject, sending, failed, late, got>>

\* Faulty variant: a message that cannot be written is skipped.
Push_Skips(v) ==
  /\ conn[v].at = "live" /\ pending[v] # <<>>
  /\ pending' = [pending EXCEPT ![v] = Tail(@)]
  /\ \/ conn[v].here /\ got' = [got EXCEPT ![v] = Append(@, Head(pending[v]))]
     \/ (~conn[v].here \/ "lost" \in Faults) /\ UNCHANGED got
  /\ UNCHANGED <<log, subject, sending, failed, late, conn, page>>

\* it.Next returns the next message and c.Write sends it; if it cannot be
\* written, the handler returns.  Nothing reads the connection: after its client
\* left it takes a message or more, which nobody receives, before a write fails.
Push(v) ==
  /\ conn[v].at = "live" /\ pending[v] # <<>>
  /\ \/ /\ conn[v].here
        /\ got' = [got EXCEPT ![v] = Append(@, Head(pending[v]))]
        /\ pending' = [pending EXCEPT ![v] = Tail(@)]
        /\ UNCHANGED <<conn, page>>
     \/ /\ ~conn[v].here /\ conn[v].unread < Buffered
        /\ conn' = [conn EXCEPT ![v].unread = @ + 1]
        /\ pending' = [pending EXCEPT ![v] = Tail(@)]
        /\ UNCHANGED <<got, page>>
     \/ /\ ~conn[v].here \/ "lost" \in Faults
        /\ Close(v)
        /\ UNCHANGED got
  /\ UNCHANGED <<log, subject, sending, failed, late>>

\* The client goes away.  The handler waits in it.Next and does not notice.
Leave(v) ==
  /\ conn[v].at # "closed" /\ conn[v].here
  /\ conn' = [conn EXCEPT ![v].here = FALSE]
  /\ UNCHANGED <<log, subject, sending, failed, late, pending, got, page>>

\* The viewer reads its inbox.
Inbox(v) ==
  /\ conn[v].at # "closed" /\ conn[v].here
  /\ LET u == conn[v].user IN
     page' = [page EXCEPT ![v] =
       [polled  |-> page[v].polled \/ conn[v].at = "live",
        seen    |-> page[v].seen \cup Newest(u),
        crowded |-> IF page[v].polled \/ conn[v].at # "live" THEN page[v].crowded
                    ELSE {i \in To(u) : ~(Cardinality(Newer(i, u)) < Limit)}]]
  /\ UNCHANGED <<log, subject, sending, failed, late, conn, pending, got>>

\* The process dies with its handlers and requests.
Restart ==
  /\ "crash" \in Faults
  /\ conn' = [v \in Viewers |->
       [conn[v] EXCEPT !.at = "closed", !.here = FALSE, !.unread = 0]]
  /\ pending' = [v \in Viewers |-> <<>>]
  /\ failed' = failed \cup ({sending[w] : w \in Senders} \ {0})
  /\ sending' = [w \in Senders |-> 0]
  /\ page' = [v \in Viewers |-> NoPage]
  /\ UNCHANGED <<log, subject, late, got>>

-----------------------------------------------------------------------------

Init ==
  /\ log = <<>>
  /\ subject = [u \in Users |-> <<>>]
  /\ sending = [w \in Senders |-> 0]
  /\ failed = {} /\ late = {}
  /\ \E u \in Users : conn = [v \in Viewers |->
       [at |-> "closed", user |-> u, since |-> 0, here |-> FALSE, unread |-> 0]]
  /\ pending = [v \in Viewers |-> <<>>]
  /\ got = [v \in Viewers |-> <<>>]
  /\ page = [v \in Viewers |-> NoPage]

Next ==
  \/ \E w \in Senders : \/ \E u \in Users : Store(w, u)
                        \/ Publish(w) \/ PublishFails(w)
  \/ \E i \in Ids : Arrive(i)
  \/ \E v \in Viewers : \/ Open(v) \/ Subscribe(v) \/ SubscribeFails(v)
                        \/ Push(v) \/ Leave(v) \/ Inbox(v)
  \/ Restart

Spec == Init /\ [][Next]_vars

\* A handler that can go on does so, and viewers without a stream ask for one.
FairSpec ==
  /\ Spec
  /\ \A v \in Viewers : WF_vars(Push(v)) /\ WF_vars(Open(v)) /\ WF_vars(Subscribe(v))

-----------------------------------------------------------------------------
(* Properties.                                                              *)

\* The values every variable ranges over.
TypeOK ==
  /\ log \in Seq(Message) /\ Len(log) <= MaxMessages
  /\ subject \in [Users -> Seq(Ids)]
  /\ sending \in [Senders -> {0} \cup Ids]
  /\ failed \subseteq Ids /\ late \subseteq Ids
  /\ conn \in [Viewers -> Conn]
  /\ pending \in [Viewers -> Seq(Ids)]
  /\ got \in [Viewers -> Seq(Ids)]
  /\ page \in [Viewers -> Page]

\* What a viewer received, followed by what waits for it, is what its subject
\* carried since its consumer was made: nothing skipped, nothing twice, nobody
\* else's.  A viewer that left or was cut off has a beginning of it, and what was
\* taken from the consumer and not delivered is gone: there is no redelivery.
NoGaps ==
  \A v \in Viewers :
    LET u == conn[v].user
        all == IF conn[v].here THEN got[v] \o pending[v] ELSE got[v] IN
    /\ conn[v].since + Len(all) <= Len(subject[u])
    /\ \A k \in 1 .. Len(all) : /\ all[k] = subject[u][conn[v].since + k]
                                /\ log[all[k]].to = u
    /\ conn[v].at = "live" /\ conn[v].here =>
         conn[v].since + Len(all) = Len(subject[u])

\* The messages of one sender arrive in the order they were sent and once,
\* unless a publish timed out: a Send is answered after its publish.
SenderOrder ==
  \A v \in Viewers : \A j, k \in 1 .. Len(got[v]) :
    /\ j < k
    /\ log[got[v][j]].from = log[got[v][k]].from
    /\ {got[v][j], got[v][k]} \cap late = {}
    => got[v][j] < got[v][k]

\* A viewer that read its inbox since its consumer exists knows or will be told
\* of every message to it, except those that had left the inbox by then and
\* those whose publish failed or has not been answered.
NothingMissed ==
  \A v \in Viewers :
    conn[v].at = "live" /\ conn[v].here /\ page[v].polled =>
      \A i \in To(conn[v].user) :
        \/ i \in page[v].seen \cup page[v].crowded \cup failed \cup late
        \/ \E w \in Senders : sending[w] = i
        \/ \E k \in 1 .. Len(got[v]) : got[v][k] = i
        \/ \E k \in 1 .. Len(pending[v]) : pending[v][k] = i

\* A handler whose client went away ends, at the latest with the first message
\* that its connection no longer takes.
HandlersEnd ==
  \A v \in Viewers :
    (conn[v].at = "live" /\ ~conn[v].here
       /\ conn[v].unread + Len(pending[v]) > Buffered)
      ~> conn[v].at = "closed"

-----------------------------------------------------------------------------
(* The inductive invariant behind these properties.                         *)

\* What is being sent or was carried is in the table, under its sender and its
\* recipient: the row comes first.
StoredFirst ==
  /\ \A w \in Senders : sending[w] # 0 =>
       sending[w] \in 1 .. Len(log) /\ log[sending[w]].from = w
  /\ late \subseteq 1 .. Len(log)
  /\ \A u \in Users : \A k \in 1 .. Len(subject[u]) : subject[u][k] \in To(u)

\* Element by element, what a handler wrote and holds is a piece of its subject,
\* less what it wrote after its client had left.
Copies ==
  \A v \in Viewers :
    LET s == subject[conn[v].user]  n == conn[v].since  g == Len(got[v])
        x == conn[v].unread  p == Len(pending[v]) IN
    /\ n + g + x + p <= Len(s)
    /\ \A k \in 1 .. g : got[v][k] = s[n + k]
    /\ \A k \in 1 .. p : pending[v][k] = s[n + g + x + k]
    /\ conn[v].here => x = 0
    /\ conn[v].at = "live" => n + g + x + p = Len(s)
    /\ conn[v].at # "live" => p = 0 /\ ~page[v].polled
    /\ conn[v].at = "opening" => g = 0 /\ x = 0

\* A sender's messages were carried in the order of the table, and the one it
\* is about to publish comes after them, but for those that timed out.
CarriedInOrder ==
  \A u \in Users : \A k \in 1 .. Len(subject[u]) :
    LET i == subject[u][k] IN
    i \notin late =>
      /\ \A w \in Senders : sending[w] # 0 /\ log[i].from = w => i < sending[w]
      /\ \A j \in 1 .. k - 1 :
           subject[u][j] \notin late /\ log[subject[u][j]].from = log[i].from
             => subject[u][j] < i

IInv ==
  /\ TypeOK
  /\ StoredFirst
  /\ Copies
  /\ CarriedInOrder
  /\ NothingMissed

-----------------------------------------------------------------------------
(* What the repository says of the stream, and the deployed service does not *)
(* do.                                                                      *)

\* README: messages reach family members "live via WebSocket".  A viewer who
\* keeps asking for a stream has one in the end.
StreamOpens == \A v \in Viewers : <>(conn[v].at = "live")
=============================================================================
