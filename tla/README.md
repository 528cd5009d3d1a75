# Verification of the aerial RAN platform

This directory holds TLA+ specifications of the platform's services, the TLC
configurations that model-check them, and proofs that TLAPS checks. The code is
the reference: every action names the function or statement it translates, and
`PROJECT.json` maps each definition to its lines.

## 1. The system

Seven Go services behind one nginx gateway, each with its own schema in one
PostgreSQL database and one replica in Kubernetes. `lib-aerial-go/runner` is
their common `main`: a pgx pool, a health checker that probes every five
seconds, and a middleware chain (recover, metrics, CORS, log, JWT, body limit)
with 15 s read and write timeouts. The services do not call each other; what
they share is the database server, the JWT key, and the organisation and user
ids in the tokens. Every request runs in its own goroutine, so any two requests
on the same row interleave between two statements, and unless stated otherwise
each statement is autocommitted.

| Component | State | Operations | Interacts with |
|---|---|---|---|
| SIM lifecycle, `svc-aerial-subscriber` | rows of `subscriber.sims`; whether the Open5GS hook was wired at start-up | Create, Suspend, Resume, Terminate, Get, ListByOrg | PostgreSQL and the MongoDB the 5G core reads; no transaction spans them |
| Seed job, `infra/k8s/seed-ues.yaml` | none of its own | two upserts, whenever the manifest is applied | the same MongoDB |
| Sessions, `svc-aerial-iam` | `iam.refresh_tokens` (families, revocation, expiry) | Login, Refresh, Logout | PostgreSQL; clients hold the tokens |
| Signup, `svc-aerial-iam` | `iam.organizations`, `iam.users` | Signup | PostgreSQL, bcrypt |
| eSIM orders, `svc-aerial-esim` | rows of `esim.esims`; the mock provider's orders, in memory | Order, RefreshUsage, MarkActivated, Cancel, Get, ListByOrg | the mock or the Airalo API |
| eSIM catalog and Airalo token, `svc-aerial-esim` | cached packages; a cached OAuth token | RefreshCatalog, ListPackages, `token` | Airalo |
| Usage billing, `svc-aerial-billing` | `usage_events`, `usage_rollups` | Ingest, MyMonth, OrgMonth | PostgreSQL transactions and row locks, the clock |
| Plans and subscriptions, `svc-aerial-provision` | `plans`, `subscriptions` with a partial unique index | ListPlans, CreateSubscription, ListByOrg, Cancel | PostgreSQL |
| Messaging, `svc-aerial-messaging` | `messages`; a JetStream stream | Send, Inbox, WebSocket stream | PostgreSQL, NATS |
| RAN control, `svc-aerial-ran-control` | a MongoDB client wired once at start-up; GNodeB objects in Kubernetes | Status, Subscribers, GNodeB Create, List, Get, Delete | MongoDB, the core's functions, Kubernetes |
| Migrations, `scripts/migrate.sh` | `schema_migrations` of each schema | apply and record each file in order | PostgreSQL; the services may already be running |
| Runner and health, `lib-aerial-go` | the process, the health flag | Run, Start, check, Handler | PostgreSQL, the cluster's probes |
| JWT and HTTP plumbing, `lib-aerial-go` | counters | JWT, metrics, logging, recover | all services |
| Web console, deployment | none | calls the services | - |

What is hard, per component, is the list `hazards` of `PROJECT.json`, each at
its line. In short:

- **SIM lifecycle.** Two stores written one after the other, with nothing that
  orders two requests on one line and nothing that repairs a half-done one. Its
  promise is that a line shown as cut cannot attach, and that the core holds
  the keys of a SIM only under that SIM's number. IMSIs are numbered by a count
  read in one statement and used in another.
- **Sessions.** Refresh checks, revokes and stores in three statements. The
  promise is that a token and its successor are never both good, that reuse of
  a token closes its family, and that a client that plays by the rules keeps
  its session.
- **eSIM orders.** The provider's order and the row are two things; the order
  comes first and costs money. No order may be stored twice or dropped without
  an error, and the usage shown must be the order's own.
- **Billing.** A transaction per event, row locks on a hot rollup, integer
  totals, and a report that reads the clock twice.
- **Signup.** Four calls without a transaction; unique constraints decide races.
- **Subscriptions and migrations.** A request never checks whether its user is
  subscribed already; one migration file, applied statement by statement by a
  script that may be cut off, misled or run twice, is all that keeps
  duplicates out. The promise is order, and uniqueness once the file is in.
- **Messaging.** A row, then a best-effort publish, then a consumer that only
  holds what comes after it. The promise is that a viewer who reads its inbox
  and its stream misses nothing.
- **Airalo client and catalog.** Time limits, a token that expires on two
  clocks, a mutex held during a call, overlapping refreshes.
- **RAN control and the runner.** A connection tried once, four time limits in
  one request, a sampled health flag, a shutdown that waits for a while.

## 2. The modules

| Module | What it models |
|---|---|
| `SimLifecycle` | the requests on SIMs over both stores, the seed job, restarts |
| `SimLifecycle_proofs` | its theorems |
| `Iam` | what the two parts of `svc-aerial-iam` share: workers and faults |
| `Sessions` | what iam promises: a session is opened, exchanged in one indivisible step, and closed for good |
| `RefreshTokens` | Login, Refresh, Logout over the token table; implements `Sessions` |
| `EsimOrders` | orders, usage, activation and cancellation at either provider |
| `EsimOrders_proofs` | its theorems |
| `Airalo` | the OAuth token behind its mutex, the catalog cache, and the orders placed from it |
| `Airalo_proofs` | its theorems |
| `UsageLedger` | what billing promises: each event is booked in one indivisible step |
| `Billing` | Ingest as overlapping transactions, MyMonth with two clock reads; implements `UsageLedger` |
| `Billing_proofs` | its theorems, the refinement among them |
| `Signup` | the calls of a Signup and the unique constraints |
| `Iam_proofs` | the theorems about `RefreshTokens`, the refinement among them, and about `Signup` |
| `Migrations` | the loop of `migrate.sh`, pods of the Job that overlap and fail |
| `Subscriptions` | CreateSubscription and Cancel; extends `Migrations`, which brings the index |
| `Subscriptions_proofs` | the theorems about both |
| `Messaging` | Send, Inbox and the WebSocket stream over JetStream |
| `Messaging_proofs` | its theorems |
| `Service` | the runner's process and its health checker |
| `RanControl` | Status, Subscribers and GNodeB objects; extends `Service` |
| `RanControl_proofs` | the theorems about both |
| `MC*` | symmetry sets, and the values a configuration file cannot spell |

`Subscriptions` composes with `Migrations` through the table: whether the index
can be made depends on the rows the service has written, and whether a row is
refused on how far the migration is. `RanControl` composes with `Service`: its
requests exist only while the process does, and a tick is one step of both.

Conventions that all of them follow:

- **A worker is one request being served.** `call[w]` (`tx[w]` in `Billing`,
  `signup[w]` in `Signup`) says which statement or external call the request makes next and what it has
  read so far. One call of a store or a provider is one step; everything a
  handler does between two calls is part of the step that precedes it. The
  first step of a request also takes its inputs with `\E`.
- **`Faults`** names what may go wrong. `"lost"`: the next call fails without
  effect and the handler returns its error (`Fails`). `"unacked"`: the call
  took effect and its answer did not arrive, so the handler returns an error
  for something that happened. `"crash"`: the process dies with its requests
  (`Restart`). `"misread"` (`Migrations`): a lookup fails and reads as not
  applied. `"late"` (`Messaging`): a publish times out and may arrive later.
  `"garbled"` and `"revoked"` (`Airalo`): an answer without a token, and a
  token withdrawn before its time. In `RanControl` these things are actions of
  the surroundings that may happen at any moment.
- **Time** is counted in ticks in `Airalo`, `Service` and `RanControl`, and only
  there. What passes is a countdown or an age, never a clock, so the state
  space is finite without a bound on time. A step that is due blocks the tick.
- **History variables** (marked so at their declaration: `settled`,
  `overlapped`, `ended`, `cut`, `accepted`, `told`, `steady`, `made` and others)
  record what happened for the properties to speak about.
  No guard reads them.
- **`..._Variant` operators** marked "Faulty variant" are plausible bugs of the
  operation they precede. They are not part of any specification: each one
  shows that a property would notice that bug.
- Every invariant or step property is stated with its exact exceptions, for
  example "unless requests on it overlapped". Section 3 says for each of them
  what the code does there.

### SimLifecycle

`sim` is the table, `core` the Open5GS collection as a set of documents, each an
IMSI and whose keys it holds. `hook` is whether the service got a
`Provisioner` at start-up: when MongoDB does not answer the ping in `main`, the
service runs without one and Suspend, Resume and Terminate only set the status.
`Create` reads `NextMSIN` (a count) and goes to `Insert`, where `UNIQUE(imsi)`
arbitrates; then `Upsert` and `MarkProvisioned`. `Begin` is `ownedByOrg`, after
which Suspend and Terminate `Delete` from the core and `UpdateStatus`, Resume
`Upsert`s and `UpdateStatus`es. Left out: keys, APN, slice and PLMN as data (a
document's key is the SIM it belongs to), the reads Get and ListByOrg, a write
that reaches MongoDB after the client gave up on it, and duplicate documents
from two first upserts of one IMSI (the collection's index is made by the core,
not here).

### Sessions and RefreshTokens

`token` is the table plus `parent`, the token a row was exchanged for. `Refresh`
is `FindRefreshToken`: a revoked token goes to `RevokeFamily`, a live one to
`RevokeToken` and `StoreRefreshToken`. `known` are the tokens whose answer
reached a client, the only ones that can be presented. `Expire` lets any token
pass its time at any moment. Access tokens, device rows and passwords are left
out: no later step reads them.

`Sessions` is the same for somebody who sees no statements: a family is fresh,
open with one good token, closed, or shared. In `RefreshTokens` a family stands
on its live token, or, from `RevokeToken` to the INSERT of a rotation, still on
the token being exchanged (`Standing`): that is what makes the three statements
one exchange, whose moment is the INSERT. A rotation that fails or is cut off
after its first statement closes the session, and so does a logout. A family on
which two requests overlap is shared from then on; the code promises little
about it (section 3), and neither does `Sessions`.

### EsimOrders

`provider` is the mock or Airalo, chosen at start-up. `order` is what the
provider knows of each reference. The mock keeps orders in memory, so `Restart`
closes them all, and its usage grows with each query; Airalo's orders survive,
their usage grows by itself (`Consume`), its Cancel does nothing, and it may
execute an order whose answer comes too late. `PlaceOrder` is Order up to the
provider's answer, `CreateESIM` the INSERT, `Begin` the ownership lookup of the
other three, `UsageMB` and `UpdateUsage` the two halves of RefreshUsage, `Close`
and `SetStatus` those of Cancel. Left out: QR codes, LPA strings, labels, prices.

### Airalo

`offer` is Airalo's catalog, `packages` the cache, `cached` the token with the
time the service believes it has left, next to the time Airalo will really
accept it. `Lock` takes the mutex, or a usable token; `Issue` and `Receive` are
the two ends of the token request, made with the mutex held; `Fetch`, `Sell`,
`Decline` and `Refuse` are Airalo's answers to the call made with the token,
`UpsertPackages` the batch. A call in flight ages and `TimesOut` at its limit;
Airalo may take it at any moment before. An order is one of the package as
GetPackage `shown` it.

### UsageLedger and Billing

A key is an account and a month. `Ingest` draws an id of the sequence and
inserts the event; `Upsert` waits until no other transaction holds the rollup
row, adds to the committed total and fails if the sum leaves the range of
INTEGER; `Commit` publishes both; every error path is `Rollback`. Nothing a
transaction wrote is visible before its commit, so events and totals of running
transactions live in `tx`. The four counters of an event are one `amount`,
which may be negative or out of range, since nothing in the code excludes that.
`ReadYear`, `ReadMonth` and `Query` are MyMonth; OrgMonth is the same over more
accounts. `now` is the server's month.

### Signup

`SignupRead` is the lookup of the e-mail, `GetOrgBySlug` and `CreateOrg` find or
make the organisation, `CreateUser` is the password hash and the INSERT. E-mails
and slugs are taken as normalised; of a password only whether bcrypt accepts its
length. A lookup that finds a user, or fails, ends the request and is no step:
the error of `GetUserByEmail` is dropped (`iam.go:60`) and the repository returns
a user with every error but "no rows", so during an outage people are told that
they have an account already (`model/user.go:12`: user already exists) and are
not given one.

### Migrations and Subscriptions

The files of all schemas are one sequence, in the script's order, with a number
of statements each. A pod (`job[j]`) looks a version up, applies the file
statement by statement, and records it; any failure ends the pod, which starts
again from the first file. `Reapply` is somebody applying the Job once more,
while an old pod may still be running. Every statement in the repository is
idempotent (`IF NOT EXISTS`, `ON CONFLICT DO NOTHING`); only `CREATE UNIQUE INDEX`
can be refused, by the rows of `subscriptions` (`Admitted`). `Create` is
CreateSubscription up to the INSERT, `Insert` and `InsertConflict` the INSERT,
`Cancel` the UPDATE by a caller of the row's organisation.

### Messaging

`log` is the table, `subject` what JetStream carried for each recipient.
`Store`, `Publish` and `PublishFails` are Send. `Open` is the WebSocket upgrade,
which the client sees; only `Subscribe` makes the consumer, so `since` may lag
behind. `pending` is what the consumer holds and `Push` what the handler writes. Nothing
reads the connection, so a client that left (`here`) is noticed by a write that
fails, and the connection may take messages before (`unread`, up to `Buffered`)
that nobody receives. The consumer is ordered and asks for no acknowledgements:
`msg.Ack` is no step, and what was taken from it does not come again.
`Inbox` is the newest `Limit` messages. `Chain` is the middleware around the handler, which decides
whether an upgrade is possible at all (section 3).

### Service and RanControl

`Service` is `Run`: `Boot`, `Serve`, SIGTERM (`Shutdown`, `EarlyShutdown`), `Exit`
when no request is left or `Grace` is over, `Crash`; and the checker: a check at
the start and every `Interval`, given up after `ProbeLimit`, whose result is
`healthy`. `RanControl` adds `New` (the ping, kept only if it succeeds within
`PingLimit`), the status (`StatusNF` for each function in turn, then `Count`), the
list (`Find`, then `NextDocument`, whose error the code does not look at), and
the GNodeB objects: a request for one waits for Kubernetes, which has its effect
(`CreateGNB`, `DeleteGNB`) and answers (`AnswerGNB`) at any time, since the client
has no time limit (`gnb.go:84`); List and Get are such requests without an effect.
A reply after `WriteTimeout` is lost; the MongoDB driver's 30 s are an assumption about the
library's default, since neither the code nor the deployment's URI sets it.
What a network function answers, the fields of a GNodeB, what List and Get return
and the cluster client that may be missing (every GNodeB call is then
answered 503 at once and changes nothing) are left out.

## 3. The runs

Every run lists its bounds in its `.cfg`. A pass means that TLC explored all
reachable states of the instance.

| Run | Shows | Instance |
|---|---|---|
| `SimLifecycle_faults` | types, numbering, no stray keys, both stores agree on a line after a call that had it to itself, tenants do not touch each other's lines | 2 requests, 2 SIMs, 2 tenants, all faults, one IMSI chosen by callers and one seeded, boot with and without MongoDB |
| `RefreshTokens_sessions` | types, rotation is safe (one owner, an exchanged token is dead, a chain with one good token, none after reuse), sessions survive, refinement of `Sessions` | 3 requests, 2 families, 2 users, 3 tokens, all faults |
| `EsimOrders_providers` | types, no order is stored twice or dropped silently, usage is the order's own, the latest, and never falls, cancelled means closed and live means open | both providers, 2 requests, 2 orders, 2 organisations, all faults |
| `Airalo_calls` | types, no call carries an expired token, every request ends, revocations are overcome, the cache settles on what is sold | 2 requests, 1 package with 3 allowances, tokens of 2 and 4 ticks, a time limit of 1 and a margin of 2, all faults |
| `Billing_ledger` | types and range, no answer ahead of its commit, refinement of `UsageLedger`, reports answer what is billed, every Ingest ends | 2 transactions, 1 reader, 1 account, 3 months with the turn of a year, 3 events, an amount that fits into an INTEGER twice and one that does not fit at all, all faults |
| `Signup_faults` | the tables match the answers, everybody who keeps asking gets an account | 2 requests, 2 e-mails, 2 slugs, all faults |
| `Subscriptions_migrating` | types, migrations applied and recorded in order, uniqueness once the index is recorded, the job ends unless it keeps meeting duplicates, whoever asks is subscribed | 2 pods, 3 files, 2 requests, 2 subscriptions, 2 organisations, 1 user and plan, all faults |
| `Messaging_delivery` | types, streams have no gaps, senders' order, what can be missed, abandoned handlers end with a write that fails | 2 senders, 1 viewer, 2 recipients, 3 messages, an inbox of 1, a connection that takes 1 message after its client left, all faults |
| `RanControl_requests` | types, health follows Postgres, what is read is true, replies arrive | 1 request at a time (status, list or GNodeB), 2 subscribers, 1 GNodeB name, 2 network functions, Kubernetes as slow as it likes, MongoDB, Postgres and process going up and down freely |

Why the bounds are enough to be interesting: every hazard in these components is
a race of two requests on one row, a third one that observes them, or a failure
between two calls of one request. Two or three workers on one or two rows make
all of those happen, with a second row and a second tenant where a property is
about mixing them up. The counters that would grow for ever are bounded by a set
of names (`Sims`, `Tokens`, `Ids`, `Refs`, `Families`) or a number (`MaxEvents`,
`MaxMessages`, `LastMonth`, `Cap`). `IntMax` is 4 so that a few events reach it:
TLC sees every order of two additions that pass the limit. `MonthsPerYear` is 2,
so that three months cross a year. `Limit` is 1, so that a second message pushes
the first out of the inbox. `Buffered` is 1, so that a message is lost to a client
that left before the next one ends its handler. One request at a time is enough
in `RanControl`: requests share nothing there but the client that is wired before
the first one, and the GNodeB objects, which Kubernetes changes in one step.
The time limits of that run keep the order of the real ones (3 functions of 3 s
< 10 s < 15 s < 30 s; checks of 3 s every 5 s), which is what `RanAssumption` and
`ServiceAssumption` ask for. Symmetry is used for sets whose
elements the specification treats alike, and only in runs of safety properties
(the step properties and the refinement among them are safety properties too).

Three runs find a behaviour that a document of the repository excludes:

| Run | Statement of the repository that does not hold | What happens |
|---|---|---|
| `SimLifecycle_race` | `model/sim.go:18-20`: reporting "suspended" while the UE can attach would be a dangerous lie | a Resume's upsert lands between the removal and the status of a Suspend |
| `RefreshTokens_double` | `docs/SECURITY_REVIEW_2026-09.md:151-154`: no check-then-act, RowsAffected arbitrates | two overlapping Refreshes of one token are both answered |
| `Messaging_upgrade` | `README.md:145`: live via WebSocket | metrics and httplog wrap the response writer and hide `Hijack`, so every upgrade behind them is refused |

`Messaging_delivery` therefore runs the handler without the chain, as the
package's own tests do: it says what the stream does once upgrades work. A
second obstacle is outside the model: the console offers its token as a
WebSocket subprotocol only (`web/index.html:374-375`), while the JWT middleware
asks for an `Authorization` header.

Behaviours the exceptions in the passing properties allow for, without a run of
their own:

- A Resume whose `UpdateStatus` fails has put the SIM back into the core while
  the row still says suspended (`sim.go:191`): a line is only `settled` after a
  call's last write.
- An IMSI of a caller's choice ahead of the count makes `NextMSIN` return a
  taken number (`postgres.go:28`): `DenseMsins` is exact only for services without
  chosen IMSIs. The first automatic IMSI is also the first seeded one:
  `CoreIsTrue` leaves out seeded IMSIs.
- A Refresh that passed its check before a reuse was detected stores its
  successor after the family was revoked: `ReuseClosesFamily` (in `RotationIsSafe`)
  leaves out families with overlapping requests.
- Of two overlapping RefreshUsage requests the older answer can be stored last:
  `UsageIsTrue` and `UsageNeverFalls` leave out orders with overlapping requests.
- A Signup with a password of more than 72 bytes, or one that loses the race for
  an e-mail, leaves an organisation without a user: `AccountsAreTrue` finds the
  slugs of such Signups in `cut`.
- MyMonth reads the clock once for the year and once for the month
  (`billing.go:92`): on the two sides of midnight it asks for January of the year
  that ends and answers no usage. `ReportIsTrue` makes an exception of that.
- A table with duplicate subscriptions, which the service can write before the
  index exists, stops the migration of every schema that comes later, until
  somebody cancels one: `MigrationEnds` names the case.
- A message that was published between the upgrade and the consumer is on
  neither the stream nor an inbox read before: `NothingMissed` is about viewers
  that read their inbox after the consumer exists, and about the messages that
  were still among the newest 50. The client has no way to know when that is.
- A client that leaves is noticed when a write fails, and the first write
  afterwards normally succeeds (`messaging.go:248`: nothing reads the connection, and
  the kernel takes it). `HandlersEnd` claims no more than that the first message
  the connection does not take ends the handler.
- A message that was taken from the consumer and not delivered is gone from that
  stream. `docs/ERROR_SWALLOW_SWEEP.md:38-39` says of the dropped error of `msg.Ack`
  (`messaging.go:251`) that JetStream is at-least-once and a missed ack means
  redelivery, not loss. The code does not have that: an ordered consumer
  (`messaging.go:219-222`) acknowledges nothing, it starts with new messages, and a
  handler whose write fails closes it, so a stream opened again begins after the
  message. `NoGaps` is about this code: nothing comes twice, and what a viewer
  has is a beginning of what was carried, which may end before the last message
  that was taken. The message is still in the table for the inbox.
- An order is of the package as the cache showed it, which may not be what
  Airalo sells; `SoldAsShown` is about a catalog that has come to rest. A package
  that was withdrawn stays in the cache for ever, and its orders are declined.
- A service that did not reach MongoDB when it started reports 0 subscribers,
  without an error, until it is restarted, although `ranctl.go:66-68` says that
  Status and Subscribers report the outage and
  `docs/ERROR_SWALLOW_SWEEP.md:50-52` that the count path does
  (`TestStatusNoCounter` asks for the 0). `AnswersAreTrue` makes an exception of
  it, and of a list during which the cursor breaks.
- When MongoDB goes away later, the driver's error comes after the write
  timeout: the client gets no reply at all. `RepliesArrive` makes an exception of
  requests for the status or the list during which MongoDB was out.
- A GNodeB request waits for Kubernetes without a limit of its own (`gnb.go:84`,
  `:144`, `:174`), whatever MongoDB does: past 15 s its reply is lost, and a
  shutdown waits 10 s for it. The object may have been made or deleted all the
  same. `RepliesArrive` makes an exception of GNodeB requests that Kubernetes kept
  waiting for as long as a graceful shutdown takes.
- `MigrationEnds` has Kubernetes start a failed pod again for ever; the Job gives
  up after ten failures (`infra/k8s/platform/10-migrate-job.yaml:11`,
  `backoffLimit`) and goes on when somebody applies it again, for which `Start`
  stands as well.
- Airalo's usage answer without data reads as a usage of 0 (`airalo.go:224`):
  `UsageNeverFalls` and `UsageIsTrue` rest on answers that have it.
- The health of `svc-aerial-ran-control` is that of Postgres, which it does not
  use; `HealthFollows` says nothing of MongoDB.

### Fairness

- `Billing!FairSpec`: strong fairness of every transaction's step. PostgreSQL
  grants a row lock in the order of arrival, so a waiting upsert is not
  overtaken for ever. `MaxEvents` bounds the traffic: the run shows that
  no lock is leaked and no waiting is circular, not throughput.
- `Signup!SignupFairSpec`: people without an account ask again, no request hangs, and
  whoever keeps reaching a call of the repository sees it answered at some time.
  Without the last part a database that fails every time would be a
  counterexample, about the database and not about Signup.

- `Subscriptions!FairSpec`: faults cease in the end (`<>[][Calm]_vars`), since a
  job that fails every time never gets through; a pod that can go on does, and
  Kubernetes starts a failed one again; users keep asking (strong, since
  the plans they ask for need a migrated table and a free worker); an INSERT is
  answered.
- `Messaging!FairSpec`: handlers that can go on do (`Push`, `Subscribe`), and a
  viewer without a stream asks for one. Nothing is assumed of senders,
  publishes or clients that leave.
- `Airalo!FairSpec`: time passes, the HTTP client keeps its time limit, Postgres
  answers, and a mutex that keeps being released passes over nobody for ever
  (Go's mutex hands over to whoever has waited for a millisecond). Nothing is
  assumed of Airalo, which may answer nothing at all; what `SoldAsShown` and
  `RefusalsEnd` need of it is their premise.

The other properties need no fairness.

## 4. What is proved

The theorems hold for every value of the constants that satisfies the module's
assumptions. `ConstantsAssumption` and its like (`SignupAssumption`,
`FaultsAssumption`) only say that the kinds of values do not mix and that bounds
are numbers. `ServiceAssumption` and `RanAssumption` say which time limit is
shorter than which, as in the code. Each proof goes through an inductive
invariant `IInv` of the module, which TLC checked first: `Init => IInv`, one
lemma per action for `IInv /\ [Next]_vars => IInv'`, and the theorem from `IInv`.

- **`SimLifecycle_proofs`**: `TypeCorrect`, `ImsisAreUnique`, `CoreAgrees`,
  `TenantsAreIsolated`, and `MsinsAreDense` (from `IInv` and `CountsNotAhead`). The
  properties are not inductive: that stores agree after a call is known only
  from what a request that had its line to itself knew at each of its steps
  (`AloneKnows`), from there being one such request (`AloneIsAlone`), and from
  each request working on the row it read (`CallsFit`).
- **`Iam_proofs`**, about sessions: `TypeCorrect`, `RotationsAreSafe`,
  `SessionsSurvive`, and `ExchangesAreAtomic`:
  `RefreshTokens` implements `Sessions`. `CallsFit` carries what a request learned
  from the table over to its later statements: from its first write on its old
  token is revoked, and a login has its family to itself. That a token of an
  unshared family is not exchanged for two others rests on a second layer,
  `ChainInv`, which is inductive together with `IInv`: such a token is good when
  `RevokeToken` comes to it (`AloneKnows`), a good token has no successor
  (`ExchangedIsRevoked`), and there is none until its exchange ends
  (`ExchangesAreOpen`). For the refinement, `IInv` implies that an unshared family
  stands on one token at most (`StandingIsOne`), so what its session is follows
  from that token (`SessionCases`); every step that stores no token then leaves
  the sessions alone, takes what they stand on from some (`ClosingStep`) or
  begins to share one (`SharingStep`), and the INSERT is `Open`, `Exchange` or `Add`.
  `SessionsStayClosed` draws from it what a client is interested in
  (`Sessions!ClosedForGood`): a closed session never opens again, whatever was in
  progress.
- **`Iam_proofs`**, about Signup: `SignupTypeCorrect` and `AccountsMatchAnswers`.
  `SignupsFit` says that a request that goes on to CreateUser has an organisation
  to put its user into; nothing takes it away.
- **`EsimOrders_proofs`**: `TypeCorrect`, `OrdersAreNotLost`, `UsageIsNotInflated`,
  `StatusesAreExplained`, `UsageGrows`, for both providers at once. The key part of
  `IInv` is that a usage on its way to a row is between the row's and the
  order's.
- **`Airalo_proofs`**: `TypeCorrect`, `OneFetchAtATime` (the mutex is held exactly
  by the request that fetches a token) and `MarginIsEnough`. The invariant
  bounds the error of the service's clock: it believes a cached token to last at
  most one time limit longer than it will (`CachedInTime`), because the countdown
  starts when the answer arrives; so a token with more than the margin left is
  good for one more time limit if the margin is at least two of them, which is
  the module's assumption (5 minutes against 15 s).
- **`Billing_proofs`**: `TypeCorrect`, `AcceptedEventsAreBilled`, and
  `Implementation`: `Billing` implements `UsageLedger`. The step that matters is
  `Commit`: it is a booking because a transaction that is ready to commit holds
  the lock of its rollup and its total is still the committed one plus its
  amount (`CommitIsCurrent`), which only holds since locks exclude each other
  (`LocksExclude`), and because ids are fresh (`IdsAreFresh`).
  `ReportsAreTrue` is about sums: a report answers the total of the events booked
  for its month. Its invariant is that each rollup row is that total
  (`RollupsAddUp`), and its lemmas say that the total of a finite set of integers
  is a number, does not depend on the order of addition (`TotalOfOther`) and
  grows by the amount of a new event (`TotalAdds`). The induction they need is
  spelled out in each of them: were the claim false for a finite set, it would be
  false for a smallest subset of it (`SmallestSubset`), which has a member to take
  away.
- **`Subscriptions_proofs`**: `TypeCorrect`, `MigrationsInOrder` and
  `SubscriptionsAreUnique`, for every number of files, statements, pods and
  requests. `JobsFollow` is what a pod knows at each point of the script, and
  `IndexExcludes` that the index, once made, keeps live rows apart, also those of
  requests that were under way when it was made.
- **`Messaging_proofs`**: `TypeCorrect`, `StreamsHaveNoGaps`, `SendersKeepOrder`,
  `NothingIsMissed`. `Copies` states the gapless piece element by element, and
  `CarriedInOrder` that a sender's next message comes after all those of its own
  that were carried. They hold for any number of messages that a connection takes
  after its client left.
- **`RanControl_proofs`**: `TypeCorrect`, `HealthIsReported`, `AnswersMatchTheCore`,
  `RepliesAreInTime`, for `Service` and `RanControl` together, any number of
  requests, and all time limits in the assumed order. `ServiceInv` relates the age
  of the check under way to the ticker (`ChecksFit`) and says from when on the
  last check's finding still holds (`LastCheckHolds`); `CallsFit` says what each
  request has read so far, and that the time it still needs is less than what its
  reply and the shutdown leave it. `RepliesAreInTime` is about requests of every
  kind, those for a GNodeB as long as Kubernetes answers in time.

Only model-checked: the liveness properties (`IngestEnds`, `EverybodyGetsIn`,
`MigrationEnds`, `WhoAsksSubscribes`, `HandlersEnd`, `RequestsEnd`, `RefusalsEnd`,
`SoldAsShown`), since liveness under fairness is out of the prover's reach, and
the violated statements, which are false. Every invariant and every step
property of a passing run is proved.

## 5. What is not modelled

`PROJECT.json` lists every component with its status. Not modelled: issuing and
checking JWTs, the HTTP plumbing, the console and the deployment files, which
keep no state that a property here would speak about; their effects (concurrent
requests, arbitrary clients, restarts, one replica per service) are in the
models. Not in any model: two replicas of a service during a rolling update, a
changed PLMN, packages of a provider that was configured before, reads that no
later step depends on (Get, List), and the pure conversions `slugify`,
`ParseNFList` and `OriginHostsFromCSV`; of `parseDataMB` only whether it
understands its input. `svc-aerial-iam`, `svc-aerial-subscriber` and
`svc-aerial-esim` have a `main` of their own instead of the runner, and their
models know a shutdown only as a `Restart`.

## 6. Plan

1. **An abstract specification of a line** (what Suspend and Resume promise), and
   that `SimLifecycle` implements it as long as requests on a line do not overlap.
2. **A composition of the SIM lifecycle and RAN control** over one MongoDB: what
   the status says of the lines that are being provisioned.
3. **The pure conversions** as operators against reference definitions.
