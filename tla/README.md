# Formal models of the relay platform

This directory holds TLA+ models of the platform in this repository, the TLC
configurations that check them on small instances, and TLAPS proofs of the
properties that matter most for instances of every size. Every definition is
translated from the TypeScript under `services/` and `packages/`;
`PROJECT.json` says which lines each one stands for.

To check a model: `tlc -config MCStreams.cfg MCStreams.tla`.
To check the proofs: `tlapm Streams_proofs.tla`, and likewise each of the other
modules whose name ends in `_proofs`.

## 1. The system

The platform is a multi-tenant chat backend. The **api** owns PostgreSQL and is
the only writer; the **gateway** terminates WebSockets, keeps connections in
memory and never writes to it; the **dispatcher** posts webhooks to customers'
endpoints; the **ingester** copies events into ClickHouse; the **media-worker**
inspects uploaded objects. They meet through four media with four different
guarantees, and most of what is hard in this code is at those seams:

| medium | guarantee | used for |
|---|---|---|
| PostgreSQL (READ COMMITTED, row locks) | transactions | all state |
| NATS JetStream (`EVENTS`, `DELIVERIES`) | at least once, with a duplicate window per msgID and `MAX_DELIVER` | outbox events, webhook jobs |
| Redis pub/sub (the fabric) | at most once, only to those subscribed at that moment | live messages, revisions, membership, presence, typing |
| HTTP between services | an answer, an error, or nothing | sends, session lookup, backfill, reread, dispatch reports |

### Components

| component | state it keeps | operations | how it meets the others | hard behaviour | what makes it correct | model |
|---|---|---|---|---|---|---|
| Transactional outbox and event relay (`api/src/outbox`, `drainOutbox`) | `outbox` rows, `published_at`; a relay's row locks; the broker's duplicate window | write an event with its state change; claim, publish, mark | every writing transaction; JetStream | competing relays, late commits with early timestamps, a publish that throws, a crash between publish and mark | nothing marked is lost, nothing uncommitted escapes, duplicates are paid for by failures, every commit arrives | `Outbox`, `EventSpine` |
| Event expansion (`expandEventToDeliveries`, `claimEvent`, `dispatcher/src/expand.ts`) | `consumed_events`, `webhook_deliveries`; pool connections | claim an event, read endpoints, insert one row each | dispatcher → api; pg pool | redelivery while the first call runs; claim and rows on different connections; the pool as a resource | an acknowledged event is claimed; a claimed event reached everyone | `Expansion` |
| Webhook delivery (`drainDueDeliveries`, `recordAttemptOutcome`, `dispatcher/src/deliver.ts`) | a delivery row: state, attempt, `next_attempt_at`, `dispatched_at`; dead letters; stream jobs | publish due rows, fetch material, POST, report, acknowledge, replay, switch endpoints | api ↔ JetStream ↔ dispatcher ↔ customer | two workers on one job, redelivery after the report, switches under way, replays inside the duplicate window | rows move only as the lifecycle allows; every row settles; one dead letter per life | `WebhookDelivery`, `DeliveryLifecycle` |
| Gateway delivery and resume (`session.ts`, `resume.ts`, `fanout.ts`, `registry.ts`) | per connection: phase, buffer, marks; per channel: reference count, subscription | commit, announce, open, subscribe, backfill, complete, degrade, close | fabric, api backfill | frames before, during and after the backfill, in any order; lost frames; a page or buffer too small | an acknowledged resume has no gap, nothing is shown twice, no handshake hangs | `GatewayResume` |
| Gateway membership changes (`membership.ts`, `deliverMembership`, `reread`) | `channelIds` of a connection, reference counts, re-reads in flight | add, remove, ban, unban, publish, hear, re-read, open, close | fabric, api | a change before the subscription, two changes overlapping, an answer older than the state it is compared with | a held channel stays subscribed; the re-read makes connections agree with the database | `GatewayMembership` |
| Presence, typing, connection slots (`presence.ts`, `typing.ts`, `connections.ts`) | Redis keys with TTLs, in-process timers | claim, renew, release, expire; announce on- and offline | Redis | a renewal racing the close handler; an expired key whose owner lives; a request executed whose answer is lost; a timer of one gateway racing an arrival at another | no connection loses its place to another, each that counts on a place has one of its own in the end; a steady user is never found absent, one who has gone is announced | `ConnectionSlots`, `GatewayPresence`; typing not modelled |
| Connection metering (`gateway/src/meter.ts`, `creditConnectionMinutes`) | cumulative minutes per connection and period | report, credit the difference, flush at shutdown | gateway → api | replayed, overlapping and late reports; connections closing during a report; deadlocks between reports | a replay is free, figures do not walk back, no threshold unnoticed, a closed connection's minutes get recorded | `ConnectionMetering` |
| Endpoint health (`applyFailureRun`, `disableEndpoint`, `sweepDisabledEndpoints`, notification relay) | failure run, `disabled_at`, notification rows | record, disable by either path, notify, re-enable | delivery reports, mail | the two disablement paths racing each other and a customer's switch | the run is what was recorded; disabled only for cause, and then mailed if there is anybody to mail; a long run ends | `EndpointHealth` |
| Messages (`sendMessage`, `editMessage`, `deleteMessage`, history) | messages, `last_sequence`, idempotency keys, `message_edits`; row locks of channels and messages | send, edit, delete, page | everything above hangs off its transaction | a retried send racing itself; two revisions of one message; an archive racing a send; three lock orders | dense sequences, one message per key, no text lost, tombstones stay, no write into an archived channel, no circular wait | `MessageWrites` |
| Quotas and their notifications (`quotas/`) | `usage_periods`, crossings, mail rows | check, count, cross, mail | the send transaction, mail | sends in different channels reading one usage; a mail sent and not marked | the overshoot is bounded; no threshold is passed in silence; every crossing is mailed | `UsageQuota` |
| Hosted media and retention (`media/`, `retention/`, `internal/media.controller.ts`, `media-worker`) | `media_objects`, objects in the store, the storage meter | reserve, upload, judge, render, attach, sweep, destroy | object store, worker, analytics stream | the store, the database and the meter commit separately; two workers on one object; a verdict after destruction | the cap is kept; what is ready has its bytes; a verdict is heard once; only a late attachment dangles | `HostedMedia` |
| Api consumer (`consumer/`) | the durable consumer's position | fetch, claim, acknowledge | JetStream | as expansion | as expansion | shares `claimEvent` with `Expansion` |
| Analytics (`ingester`, `metering/`, `analytics/`) | batches, ClickHouse tables, rollups | fetch, insert, acknowledge, reconcile | JetStream, ClickHouse | a batch inserted and not acknowledged; one record that spoils its batch | what is acknowledged is stored and counted; what the tables accept lands | `AnalyticsIngest` |
| Channels, users, memberships (`users.service.ts`, `channels.service.ts`, their queries) | `users`, `channel_members`, `read_positions` | create, revive, change, add, remove, delete, erase, read | the outbox, the gateways' re-read | a call that found a row another one then erased; two transactions that delete the same two rows in opposite orders | an erasure leaves nothing; positions go with memberships; the events tell who is a member | `UserRecords` |
| Rate limits (`api/src/limits/`, `gateway/src/limits.ts`) | counters in Redis keyed by window, `downUntil` and a fallback map in each process | check, count, expire, give up | Redis, shared by apis and gateways | INCR and PEXPIRE apart, answers lost, an empty Redis, logins counted after the check | failed logins stay bounded through every outage; what is counted is within its limit | `RateLimits` |
| Authentication, tenancy, environments | stored credentials | check one request | Postgres | little interleaving of their own | pure checks | not modelled |
| Audit and request logs, isolation gauntlet, media inspection, protocol schemas, packages, scripts | append-only records; none | pure functions, test apparatus | | | | not modelled |

## 2. The modules

| module | models | main source |
|---|---|---|
| `EventSpine` | what the outbox promises: commit, then deliver at least once, and nothing else | header of `drainOutbox` |
| `Outbox` | writers, relay passes, throwing publishes, crashes, the duplicate window | `drainOutbox`, `outbox/relay.ts`, `jetstream.publisher.ts` |
| `AnalyticsIngest` | the ingester's batches, table by table, and what is acknowledged when | `ingest.ts`, `ingester/src/main.ts`, `clickhouse.ts`, the publishers' subjects |
| `Expansion` | the dispatcher's call, the claim's transaction, the effect beside it, the pool | `expandEventToDeliveries`, `claimEvent`, `expand.ts` |
| `DeliveryLifecycle` | what a delivery row may do | headers of `recordAttemptOutcome`, `schedule.ts` |
| `WebhookDelivery` | delivery relay, stream, dispatcher, outcome, operator, customer, clock | `drainDueDeliveries`, `delivery-relay.ts`, `dispatcher/src/main.ts`, `deliver.ts`, `recordAttemptOutcome`, `replayDeadLetter` |
| `EndpointHealth` | the failure run under the endpoint's lock, both ways of switching off, the customer's switch, the notification relay | `applyFailureRun`, `disableEndpoint`, `sweepDisabledEndpoints`, `setEndpointEnabled`, `drainDisableNotifications` |
| `GatewayResume` | commits, announcements, connections, buffering, backfill, marks, revisions | `session.ts`, `resume.ts`, `fanout.ts`, `backfill.controller.ts` |
| `GatewayMembership` | membership changes, their publication, subscriptions, additions that await, re-reads | `deliverMembership`, `reread`, `membership.ts`, `membership/publisher.ts`, `banUser` |
| `ConnectionSlots` | a user's places as Redis keys that expire: walk, renewal, release, outage | `connections.ts`, the claim and the timers of `session.ts` |
| `GatewayPresence` | the presence key and the marker that elects an announcer, the grace window, refreshes | `presence.ts` |
| `ConnectionMetering` | the meter, overlapping reports, the crediting transaction with its row locks and deadlocks, the crossings | `meter.ts`, `creditConnectionMinutes`, `quotas/credit.ts`, `quotas/policy.ts` |
| `UsageQuota` | the quota check, the counting and the crossings of a send, the relay that mails them | `assertWithinQuota`, `sendMessage`, `drainQuotaNotifications`, `quota-relay.ts` |
| `MessageWrites` | the send, edit and delete transactions statement by statement, row locks, archiving, bans, removals | `sendMessage`, `editMessage`, `deleteMessage`, `channelVisibleTo`, `archiveChannel`, `banUser` |
| `UserRecords` | one user's row, membership and read position under the calls that write them | `upsertUser`, `createUser`, `updateUserProfile`, `addMember`, `removeMembers`, `setReadPosition`, `deleteUser`, `eraseUser` |
| `RateLimits` | what a login, a call and a message count, the store that fails and the processes that count for themselves | `limits/store.ts`, `auth-limiter.ts`, `fallback.ts`, `rate-limit.middleware.ts`, `authenticate.middleware.ts`, `gateway/src/limits.ts` |
| `HostedMedia` | slot, upload, verdict, rendition, attachment, destruction over database, store and meter | `reserveMediaSlot`, `recordMediaVerdict`, `assertAttachableMedia`, `destroyMediaObjects`, `media-worker/src`, `retention/sweep.ts` |
| `Streams_proofs` | the theorems about `Outbox`, `AnalyticsIngest` and `ConnectionMetering` | |
| `Expansion_proofs`, `WebhookDelivery_proofs`, `GatewayResume_proofs`, `UsageQuota_proofs`, `EndpointHealth_proofs` | the theorems about the model each is named for | |
| `Records_proofs` | the theorems about `MessageWrites`, `UserRecords`, `ConnectionSlots` and `GatewayPresence` | |
| `Platform_proofs` | the theorems about `HostedMedia`, `GatewayMembership` and `RateLimits` | |

Each `MC…` module gives a model its small instance; each `.cfg` is one run. Three
of them explore several models side by side: `MCStreams` (the outbox and the
ingester), `MCGatewaySockets` (places and presence) and `MCMessageWrites`
(messages, users and rate limits, logins apart from requests). The parts share no
state, so combining their steps would multiply the states and show nothing; the
variable `half` or `part` leaves all but one of them at rest while that one is
explored in full, from every initial state.
Operators named `X_Something` and marked *Wrong* are variants of `X` with a
plausible bug; they are never used by a specification, and substituting one for
`X` must break the property `PROJECT.json` lists it for.

### How state and actions correspond to the code

**Outbox.** `row[e]` is a row of `outbox` (with "open" for a row its transaction
has not committed), `stamp` its `created_at`. `created_at` defaults to `now()`,
the *start* of the transaction, so `CommitWrite` can make visible a row older
than rows already drained. `todo[r]` and `done[r]` are the rows relay `r` has
locked in its current pass. `Claim` is the `SELECT … FOR UPDATE SKIP LOCKED`,
`Publish` one turn of the loop, `MarkPublished` the UPDATE and commit, and
`PublishThrows` the error path: the `finally` block marks, the error leaves the
transaction callback, and the transaction takes the marks with it
(`RowsAfterThrow(r) == row`).

**Expansion.** A worker is a message in a dispatcher's hands together with the
api request it became. `Begin` takes a pool connection; `Claim` is the
`INSERT … ON CONFLICT DO NOTHING`, blocked while another transaction's row is
open; `ReadEndpoints` and `InsertRows` need a *second* connection and commit at
once, because `claimEvent`'s effect is given no transaction.

**WebhookDelivery.** `wait[d]` counts down to `next_attempt_at`, `window` what
is left of the broker's memory of a msgID (delivery id and attempt). A worker
goes fetched → posting → posted → handled → idle, and may `Abandon` anywhere.
`RecordOutcome` is the body of `recordAttemptOutcome` under the row lock, which
`Report` waits for. `MaterialAttempt` is what the dispatcher reports: the
attempt the row is at when the material is read, not the job's.

**GatewayResume.** Node runs one callback at a time, so what stands between two
awaits is one action: `Register` is everything `open` does before its first
await, `Complete` is ack, page, flush, marks and live together. A message is
committed by `Commit` and published by `Announce` at some later time, in any
order, or never (`LoseAnnouncement`). `waiting[k]` are the channels whose
SUBSCRIBE `k` issued itself and must await; for every other channel the
reference count answers at once. `ReadPage` reads one channel per step because
the api runs one query per channel.

**GatewayMembership.** `news` holds the publishes a commit still owes: two for
an addition, one for a removal, one for a ban. `Deliver` is `deliverMembership`
for a set of channels: reference counts, the SUBSCRIBE that is awaited, the
channels inserted at once. `ReadMemberships` is the moment the api answers a
re-read and `ApplyReread` the code after the await, which compares that answer
with `channelIds` as they have become.

**MessageWrites.** A request is one transaction, and a step of it is one SQL
statement together with what needs no further waiting: PostgreSQL runs it at READ
COMMITTED, so a plain SELECT sees what had been committed when it ran, and an
UPDATE or a SELECT FOR UPDATE waits for the row lock and then looks at the row as
it has become. `ReadSender` is the ban, `LockChannel` the channel's row FOR
UPDATE with the sequence computed from it, `Permit` the refusals after it,
`CommitSend` or `AnswerDuplicate` the insert and what follows. `BeginEdit` and
`BeginDelete` are the visibility check and the first SELECT, whose text goes into
`prior[r]`; `UpdateForEdit` is the compare-and-set on `deleted_at IS NULL`,
`UpdateForDelete` the UPDATE by id alone, `CommitRevision` the channel's
revision counter, the history row and the commit. `Refuse` is every throw. What a
transaction has written is visible to others from its last step on, which is
also where its locks go; `text` holds the committed text, and the lock stands
for the uncommitted one.

**ConnectionMetering.** A report is a slot: `SendReport` takes an idle one for
`reportOnce`, with what `closedEntries` holds (`retained`) and then the open
connections, each with its total so far; the api takes what its schema takes (`Parses`). Its
transaction goes through `toCredit[r]` entry by entry: `ReadEntry` is the SELECT
FOR UPDATE, which sees what the transaction itself has written (`Sees`) and locks
nothing where there is no row, `WriteEntry` the upsert of the figure computed from
that read, `AddToPeriod` the increment of `usage_periods`, `CommitReport` the
crossings and the commit. `AnswerArrives` is the code after the await, `LoseAnswer`
its catch, `GatewayDies` a process that goes with all it had retained. `Threshold` holds thresholds as minutes, not as percentages of a cap.
Three history variables serve the properties only: `final` (the minutes with which
a connection closed), `gone` (keys the gateway lost, at its cap or with its process)
and `overlapped` (connections whose first report overlapped another).

**UsageQuota.** The statements that read the usage take no lock, so each of them
is a step of its own: after `LockChannel`, which takes the channel's row,
`CheckMessages` reads the messages counted so far, `CheckActive` whether the
sender is counted already, and `CheckCeiling` how many users are. From the upsert of `usage_periods` on everybody
who counts waits, so the upsert, the crossings computed from what it returned and
the commit are one step. A relay claims a batch, mails one recipient of a row per
step (`reached`), keeps the marks of its transaction in `marked` and commits them
together.

**EndpointHealth.** `LockEndpoint` is the SELECT ... FOR UPDATE with the run it
reads (`seen`), `CommitReport` everything `applyFailureRun` does with it, up to and
including `disableEndpoint`. A sweep finds the endpoint in one step and locks it,
SKIP LOCKED, with the condition evaluated again, in another. `streak` is history:
the failures really recorded since the last success or switching on. `notices` are
the notification rows, named by the streak they tell of; a pass has `handled` some of
them when it marks them. `told` and `unaddressed` are history: which were mailed, and
for which nobody in the organisation had an address. A tick is long against a
transaction, so the clock moves only while none is open.

**HostedMedia.** A row is a state and, with `thumb`, the rendition it names;
`stored` is what the object store has, `meter` the deltas published. Each of the
three changes in steps of its own because the code never commits over two of
them. `SumCommitted` holds the environment's row until the slot's insert. A
worker's job goes judged → rendered → applied → settled, one call to the api or
the store each, and two workers may have the same object and judge it
differently. A retention sweep goes destroyed → checked → read → deleted and may
crash between any two. `late` are the messages whose check of an attachment
lies around the sweep's check of references.

**ConnectionSlots.** `holder` and `left` are the Redis keys and their TTLs; a tick
is the renewal interval, within which Redis answers or fails. `walk` is where a
claim's walk over the places is, one SET NX per step; `won` is a place a walk has
won at Redis although the gateway has not heard of it yet. `due` are the
connections whose timer has fired. Renewal and
release compare the key's value with the connection's id and write in one step,
because Redis does both in one command (`IFEQ`). `failable` says "unenforced" of a
request that was not executed (`WalkFails`) and of one that was, its answer lost
(`LosePlace`); a renewal or a release that was executed has done what it does when it
is answered, and the gateway does nothing with either answer. `since` and `unheard`
are history: how long ago Redis last confirmed a connection, and the places that are
under its id although its gateway never heard of them.

**GatewayPresence.** `key` and `marker` are what is left of the two TTLs: the
presence of a user, and the marker whose SET NX elects the one gateway that
announces. `arrival`, `departure` and `check` are how far `connected`,
`disconnected` and the check after the grace window have come, each a request to
Redis per step. Each request may fail, executed or not, and is then null to its
caller: `ArriveFails`, `PinFails`, `CheckFails`, `RefreshFails`, `PutBackFails`. For the
properties: `said` is what watchers have heard last, `steady` the open
connections whose gateway has refreshed the key since they opened and has not found
it gone, `missed` how many refreshes of a gateway have failed in a row, `cut` whether
since the last departure a check was cut off, by a failed request or with its process.

**AnalyticsIngest.** An ingester fetches a batch, inserts it table by table
(`table`), and acknowledges afterwards; anything that throws on the way leaves the
batch to the broker, which hands it out again. `inserts` counts how often a
record's row reached ClickHouse: the tables replace a row by its id, the rollups
count each insert.

**UserRecords.** A call finds the row by the external id in one statement and
writes it by the row's id in another; in between any other call may have run. The
transactions take two rows, `removeMembers` the membership and then the position,
`deleteUser` and `eraseUser` the position and then the membership; `took` are the
rows an open one has deleted, for which others wait. The last statement of a
transaction is one step with its commit. `told`, `silent` and `late` are history:
what the events in the outbox last said of the membership, which rows left
without an event, and what a call wrote that the leaving had overtaken.

**RateLimits.** A tick is a window; a login comes from one source address and
fails, everything else is of one environment. A request is `Check` (`isOverThreshold`, before
the credential is verified), then for each operation in `todo` an INCR (`Count`)
and, if that returned 1, a PEXPIRE (`Expire`), each a step, because they are two
commands. A failed command closes the store to its process until `AsksAgain`
(`down`, for `downUntil`); a login then counts in `local` and other requests not
at all. A login's key is that of the window in which it fails, a request's that of
the window in which it came. Three history variables: `passed` and `served`, what
was let through, and `wiped` and `broken`, what is to be allowed for it.

## 3. The runs

`CHECK_DEADLOCK FALSE` is set in all but one of them: the inputs are bounded, so a
model stops when they are used up and nothing is left to do. What must not stop is
a liveness property instead. In `sockets` time goes on, and deadlock is checked.
Each model has a type invariant, `TypeOK`; where its type is not proved
(section 4) it has been checked with TLC, outside the listed runs.

| run | instance | asks |
|---|---|---|
| `streams` | 3 events, 2 relays, batch 2, 1 throwing publish, 1 crash; 5 records (one refused by its table, one malformed, one nobody claims), 2 tables, batch 3, 2 ingesters, 2 troubles; fair | nothing marked is lost, nothing uncommitted escapes, every commit is published: the refinement of `EventSpine` with its fairness; what is acknowledged is stored and counted, what the tables accept lands |
| `delivery` | a real and a test delivery, 2 tiers, 1 relay, 2 workers, 1 trouble (a redelivery, a rolled-back pass, a switch or a replay), fair | one dead letter per life, the row refines `DeliveryLifecycle`, both rows settle |
| `expansion` | 2 events, 2 endpoints, 2 calls, pool 3, 2 redeliveries, 1 crash, 1 switch, fair | acknowledged means claimed, claimed means every steady endpoint has its row, every event is handled if nothing crashes |
| `resume` | 1 channel, 2 connections, 2 messages, page 1, buffer 1, 1 loss or revision, 2 handshakes, fair | no gap after an acknowledged resume, nothing shown twice, every handshake ends |
| `membership` | 1 user, 2 connections, 1 channel, 2 changes, 1 ban, 1 fault, fair | a held channel stays subscribed; the re-read converges |
| `writes` | 1 private channel, 1 user with a send, its retry and an edit, 1 bot with a send, 2 deletions by the tenant, 1 lost transaction, 1 act of administration; 3 callers, 5 calls on a user, 2 rows, 1 lost request; 7 logins or 3 other requests, 2 at a time, limits of 1, 2 windows, 1 api, 1 gateway, 1 outage, restart or lost answer | dense sequences, one message per key, the tombstone stays, an archived channel takes no message; an erased row is empty, positions go with memberships, events tell who is a member; failed logins and counted requests stay within their bounds |
| `metering` | 2 connections, 2 reports at once, 2 minutes of one period, retention 1, 1 trouble (a crash, a lost answer or a lost transaction), fair | a period is billed what is on record, thresholds are noticed, the minutes of a closed connection are on record in the end unless the gateway lost them |
| `metering_overlap` | 1 connection, 2 reports at once | *violated*: two first reports of a connection are both credited in full |
| `quota` | 5 sends (two persons, a bot, two channels, one a retry), caps 2, one threshold, 2 relays, 1 recipient, batch 2, 1 rollback, 1 trouble, fair | the message cap is overshot by less than the number of channels, no mark on the way to the users' ceiling is passed in silence, every crossing is mailed |
| `health` | 4 reports of three attempts, 2 of them enough, an hour of 1 tick, 4 ticks, 2 sweeps, 2 relays, 3 switches, 2 troubles, fair | the run is what was recorded, disabled only for cause, a long run ends with no report to end it, every disablement is mailed or found to have nobody to mail |
| `media` | 2 objects, cap 2, 2 workers, 2 messages, 3 rendition keys, 2 troubles, workers and messages symmetric | the cap is kept, what is ready has its bytes, a verdict is heard once, only a late message loses its object |
| `sockets` | 2 places, 3 connections, a TTL of 2 renewals, 2 outages or lost answers; 2 gateways, 3 visits, TTL and grace 3, 1 trouble (a failed request, a process, the keys), fair | nobody's place is taken, who counts on a place has one of its own in the end, places come back; a steady user is never found absent, one who has gone is announced |

Statements of the repository's comments and tests that the models refute have
configurations of their own beside these runs; each one checks one property, and
TLC's counterexample shows the behaviour section "What the runs show" describes
(four more, of `MCGatewaySockets`, are refuted when they are added to its
configuration: `CapIsRestored`, `ExactlyOnePlace`, `FullIsOthers`, `ConnectedIsHeard`):

| configuration | module | property |
|---|---|---|
| `MCMeteringOverlap` | `MCConnectionMetering` | `BillIsExact` (the run `metering_overlap`) |
| `MCDeliveryRedelivered` | `MCWebhookDelivery` | `TierNotCutShort` |
| `MCExpansionTorn` | `MCExpansion` | `RowsCommitWithTheClaim` |
| `MCMembershipBan` | `MCGatewayMembership` | `BanSilences` |
| `MCWritesHistory` | `MCMessageWrites` | `HistoryIsComplete` |
| `MCUsersTombstone` | `MCMessageWrites` | `TombstoneHoldsNothing` |
| `MCRatesPerInstance` | `MCMessageWrites` | `AllowedPerInstance` |
| `MCRatesKeys` | `MCMessageWrites` | `KeysDie` |
| `MCQuotaRefused` | `MCUsageQuota` | `RefusedIsNoticed` |
| `MCMediaMeter` | `MCHostedMedia` | `MeterIsTheQuota` |
| `MCIngestRollup` | `MCStreams` | `RollupIsExact` |

### Why the bounds are enough

Every bound is a constant named for what it limits, and each is at least what the
behaviour it is there for needs. Two relays and a batch smaller than the table
are what competing claims need, a third event what an old row appearing after
younger ones have been drained needs. Two workers are what two reports of one
attempt need; two tiers are a retry and the last attempt, and a tier skipped over
needs three, which `delivery_redelivered` has. A duplicate window of two ticks is
shorter than the last of three tiers and longer than the others. Everything that
may go wrong in a delivery (`MaxTrouble` in `WebhookDelivery`) or around a
handshake (`MaxTrouble` in `GatewayResume`: a lost announcement or a revision)
shares one bound: one of them at a time, with all the interleavings of two
workers or two connections, is what fits. In
`resume` a page of one and two messages make truncation happen, a buffer of one
overflow, two handshakes a connection that comes back, or two that overlap. In `membership` two changes are an addition and a removal that overlap,
and two connections of one user are what shared counts, double insertion and a
closed connection's late re-read need. In `writes` two sends with one key are a
retry that overlaps its original, a third one without a key what the sequence
could be wrong for, and an edit with two deletions what the three lock orders and
a repeated deletion need; of the calls on a user, one creates, one that has found
the row waits, one erases, one may create the row again, and the fifth adds or
removes, three of them at a time because two rows in two orders and a bystander
are what a deadlock and an overtaken write need; seven logins, two of them at a
time, are more than the bound for one outage, so that it could be broken, and three
other requests what a limit of one needs with two operations in the first. In `metering` two reports are what an overlap, a late
report and a deadlock need, two minutes what a total that has grown needs, and a
retention of one is full with the first of two closed connections; the boundary
of a period, where a connection sends an entry for each side, is in the module
but not in the run. In `streams` a batch of three rows
out of five records holds the refused one together with good ones or not, and
two ingesters have a record at the same time. In `quota` two persons and a bot in
two channels reach caps of two with one send in flight per channel, the
largest overshoot there can be; two relays and one recipient are what mails sent
twice need; a throw between two recipients of one notice is in the module but not in
the run. In `health` three attempts with one of them reported twice overlap,
two of them make the run long enough, two ticks make it old enough, and three
switches are off, on and a deletion. In `media` two slots race for a cap of two in
which a thumbnail counts, and three rendition keys are one per judgement. Two
objects under a cap of two cannot overshoot by their number; what catches a race there
is the comparison of each slot's sum with what is charged. In
`sockets` a third connection finds the places taken, an outage lets it in all the
same; a second one, or a lost answer, meets the renewals that follow the first, and a
place taken while its connection was not confirmed makes a renewal walk whose answer
can then be lost. Two ticks of TTL leave a renewal to be missed (the code's three are
among the values the proof covers). The connections of the user are numbered in the
order in which they open (`InOrder`), because to the places one is as good as another.
A grace window as long as presence's TTL meets an expiry at the same tick. The two
halves share no state and each is explored with the other at rest. The mutants show that the
instances reach
what they are meant for: each property is violated on its own run by a variant
of the code.

### Fairness

- `Outbox`: `createRelay` loops until stopped, after failed passes too: weak
  fairness of each relay's steps, none of writers, failures or crashes.
- `AnalyticsIngest`: the ingester's loop never ends (weak fairness of its steps),
  and the broker offers a waiting record again and again (strong fairness of
  fetching each record that can be stored: it may go out in a batch which fails).
- `WebhookDelivery`: both loops poll for ever, the broker offers what nobody
  holds, time passes. `Post` always ends because the request has a timeout. No
  fairness of customers or operators. `EverySettles` is conditioned on
  `Undisturbed`: a switched-off endpoint and a replay inside the duplicate window
  both strand a row.
- `Expansion`: the dispatcher polls and the api runs what it was given.
- `GatewayResume`: only the handshake's own steps; the subscribe deadline is a
  timer and the backfill answers or fails. The fabric is given no fairness.
- `GatewayMembership`: the re-read timer fires as long as the connection is open
  and the api keeps answering it (a re-read that fails is logged and the next one
  asks again); a SUBSCRIBE lands or fails.
- `EndpointHealth`: a transaction under way ends, the sweep and the notification
  relay are loops. No report and no customer owes anything, so `LongRunsEnd` is
  the sweep's achievement; the clock owes nothing either, the run must be old
  enough already.
- `UsageQuota`: the notification relay loops. Nobody is forced to send.
- `ConnectionSlots`, `GatewayPresence`: requests to Redis are answered or fail (each
  failure is an action, none is owed), timers fire, Redis comes back. Nobody has to
  open or close a connection.
- `MessageWrites`, `UserRecords`, `HostedMedia`, `RateLimits`: none, their properties
  are safety (`KeysSpec`, for `KeysDie`: the store answers or fails, Redis comes back,
  keys with an expiry expire).
- `ConnectionMetering`: the timer ticks and answers arrive, both weakly fair; the
  api's steps are strongly fair, because PostgreSQL hands a released row lock to
  whoever is waiting for it, so that a report cannot be overtaken for ever by
  reports that were started later. Connections, crashes and losses have none.

### What the runs show

The properties that pass are the ones in the table of components. Where they are
qualified, the qualification is a behaviour of the code. A name in brackets is
the property whose configuration (table above) shows it:

- **The outbox** resends a whole pass after one publish throws: the marks that
  the `finally` block writes are rolled back with the transaction, contrary to
  the comment at `repository.ts:1261`. `CopiesPaidByFailures` (proved) bounds the
  damage and the broker's duplicate window hides most of it.
- **Expansion** is not atomic: the delivery rows commit on another connection
  than the claim (`repository.ts:1527`), where `expand.ts:10-11` and the comment at
  `repository.ts:1482` promise one commit [`RowsCommitWithTheClaim`]. A claim that
  rolls back leaves rows which make every further attempt fail on the UNIQUE
  constraint; `EveryEventHandled` therefore assumes
  that no transaction is lost with its process. It also needs a pool larger than
  the number of concurrent calls: with as many calls as connections every call
  holds one and waits for a second one.
- **Webhook delivery** reports the row's attempt and not the job's
  (`deliver.ts:123`), so a job the broker hands out again after its report runs the
  next tier at once, which is what `repository.ts:1557` ("the SCHEDULE must not advance
  twice for one attempt") and `dispatcher/src/main.ts:61` mean to exclude
  [`TierNotCutShort`]. The
  lifecycle is respected (each tier is used once); the schedule is not.
  `MAX_DELIVER` hand-outs exhaust a job whose row goes on waiting for it. Work
  skipped because its endpoint is off is acknowledged while the row keeps its
  mark, so it is not taken up when the endpoint is back.
- **Resume** has no gap except on a channel whose SUBSCRIBE *another* connection
  is awaiting (`shared`): the reference count answers at once and the backfill
  can run before the subscription has landed. An edit that commits after the page was read and is announced
  before the connection is live is in neither the page nor a frame.
- **Membership** converges to the `members` table, and a ban is not in it
  (`memberships.controller.ts:71`): the backstop undoes what the ban did within one
  interval [`BanSilences`]. Reference counts are
  incremented for every addition heard, also by a connection that holds the
  channel, so they are never too low (`HeldIsSubscribed`) but do not return to
  zero. A SUBSCRIBE that fails leaves its count behind, and the addition the
  backstop repeats is then inserted on an instance that is not subscribed.
- **Messages** keep what they promise under every interleaving except one: a
  revision's history row holds the text its unlocked SELECT returned, and the
  UPDATE may wait for another revision to commit before it overwrites. The text
  in between is then nowhere, although `schema.ts:510` and `repository.ts:5673` speak
  of every prior text [`HistoryIsComplete`]. The text a message was *sent* with is never lost
  (`OriginalIsKept`), because whoever revised first had read it. A second deletion
  that read the message before the first one committed writes a second event and
  moves `deleted_at`; a send that read its sender before a ban commits after it.
- **Users**: an erasure empties the row, unless a call that had found the row
  before writes after it. `upsertUser` updates by id alone: it puts a name and an
  avatar back on an erased row and clears its `deleted_at`, where `eraseUser`
  speaks of "a tombstone holding nothing" [`TombstoneHoldsNothing`]; `addMember`
  and `setReadPosition` leave a membership or a position in the same way. A
  deletion or an erasure removes memberships without an event (`silent`).
  `removeMembers` and `deleteUser` delete the same two rows in opposite orders, so
  that PostgreSQL ends one of two such calls that overlap; the caller sees an
  error and nothing is half done.
- **Rate limits** are bounded through outages, but not by so many per window per
  instance, as `auth-limiter.ts:23` has it [`AllowedPerInstance`]: a login is
  checked before it is verified and counted after that, so that those under way
  together all pass, and a process whose store fails starts its own count at
  nothing. A key whose INCR was answered 1 has no expiry yet; if the process or the
  store goes before the PEXPIRE nobody sets one, although `store.ts:20` and
  `bucket.ts:19` say that nothing accumulates [`KeysDie`].
- **Metering** bills every minute once from a connection's second report on. Two
  first reports that overlap are both credited in full [`BillIsExact`, the listed
  finding], and the later one may leave a lower figure on record, from which the
  next report is credited once more. `BilledOnce` and `ClosedIsRecorded` hold for
  all other connections: the total with which a connection closed is on record in the
  end, past lost answers and aborted transactions, unless the gateway's crash or its
  full retention has lost it (`gone`). That is lost to the bill, never added to it.
- **Quotas** are checked against a usage that sends of other channels raise
  meanwhile: the cap is overshot by at most one message per further channel. The
  crossing that `assertWithinQuota` writes because "the email has to survive the
  send that did not" (`repository.ts:6341`) is in the transaction that the refusal rolls
  back. It is needed: two sends that read the same usage both record the crossing
  of the same message, and the one that really reached the cap records none, so that
  the next one is refused and nobody was told [`RefusedIsNoticed`]. The crossings of
  the users' ceiling are computed after the lock and miss nothing.
- **Endpoint health** holds throughout. What a reader may not expect: the
  notification of an organisation none of whose members has an address is marked
  delivered with nothing mailed and a log line (`notification-relay.ts:78`; the quota
  relay does the same, `quota-relay.ts:53`, so that `NoticesAreMailed` speaks of the
  recipients there are); switching an
  endpoint on clears the run, a report for a deleted endpoint still counts, and
  the notification of a disablement stays when the customer has switched the
  endpoint on again in the meantime.
- **Media**: a message keeps its object unless its own check and commit lie around
  the sweep's check of references. The meter is not the quota
  [`MeterIsTheQuota`], as `storage-event.ts:20` has it: destroying a ready object
  publishes no delta for its rendition, and destroying a rejected one subtracts
  bytes its verdict had subtracted already.
- **Connection slots**: the connections that renew a place end with one of their own,
  or closed, whatever Redis lost (`CountedHavePlaces`). The cap is not restored: a
  connection accepted "unenforced" gets no renewal timer (`session.ts:1230`), so it is
  never counted and never closed, and more connections than places stay open for as
  long as they like (`CapIsRestored`). A walk whose SET was executed and whose answer
  was lost is "unenforced" too: the place stays under the connection's id although its
  gateway believes in another one or in none. It then holds a second place, where
  `session.ts:944` says that "a connection occupies exactly one place for its lifetime"
  (`ExactlyOnePlace`), or it is closed with 4004 because a place it holds itself is not
  free (`FullIsOthers`). Such a place, like that of a process that died, comes back
  when its bound has passed (`PlacesComeBack`).
- **Presence**: nobody with a steady connection is announced offline, unless their
  gateway has missed every refresh the key has room for. That is one fewer than
  `presence.ts:40` says ("two consecutive misses do not expire a live user", and
  `connections.ts:21` of a place): with three
  refreshes per TTL the one after two misses is due at the instant the key expires,
  and the model lets the expiry win. A user who
  arrives while another gateway is between its check of the key and its
  announcement can stay announced as offline although connected, until the next
  change (`ConnectedIsHeard` in the module states the contrary and does not
  hold); the refresh puts an absent key back without announcing it. A user who has gone
  stays online for ever if a request of the check fails: null from EXISTS is not 0
  and is read as a connection that is still open (`presence.ts:356`), and the timer is
  not armed again. `GoneIsHeard` excepts that case (`cut`).
- **Analytics**: what is acknowledged is stored once. `ingest.ts:149` calls a
  second insert harmless because the tables replace rows; the materialised views
  that feed the rollups run on each insert [`RollupIsExact`]. One record its table
  refuses makes its whole batch come back after every wait, and `EveryRecordLands`
  assumes that records the tables refuse are not handed out for ever.

## 4. The proofs

`Streams_proofs` proves of the outbox, for every set of events and relays, every batch size and
any number of failures and crashes (`BatchSizeAssumption`, `BoundAssumption`):
`TypeOK`, `MarkedImpliesInStream`, `OnlyCommittedInStream`, `HeldByOneRelay`,
`CopiesPaidByFailures`, and that `Outbox` implements the safety part of
`EventSpine`.

None of the safety properties is inductive. A marked row is in the stream because
it was in `done` when it was marked, so the invariant must say that rows in
`done` are in the stream (`DoneInStream`); `done` shrinks when a pass fails, so
the window is needed to know what the broker has seen (`WindowInStream`). Two
relays cannot hold one row because a held row stays pending and claimable rows
are held by nobody (`HeldArePending`, `HeldByOneRelay`). The bound on copies
needs the sharper `UnpublishedPaid`: a row that no pass has yet published has at
most one copy per failure or crash, so that one successful publish leaves it
within the bound. `IInv` is the conjunction; `LocksPreserved`, `StreamPreserved`
and `PaidPreserved` each preserve their part under every action, and
`ImplementsSpine` maps each action to a step of `EventSpine` or to a stutter:
`CommitWrite` to its namesake, the first accepted copy of an event to
`DeliverEvent`.

Of `AnalyticsIngest` the module proves the types and `AckedIsCounted`, for every set of
records, tables and finitely many ingesters, any assignment of records to tables and
any number of troubles (`IngestAssumption`). That what is acknowledged is in its
table follows from the order of a batch (`PastInv`: what an ingester is past, it has
inserted); that no record is inserted more often than there were troubles needs to
count the ingesters that still have its insert before them, each of which may add one
(`PaidRowsInv`), and to know that a record nobody holds, and that is in the stream
again, was paid for in advance (`WaitingInv`).

Of `ConnectionMetering` it proves `BillsAreRight`, for every set of connections,
periods and thresholds, any number of overlapping reports, finitely many, and of
mishaps (`MeterAssumption`). What is on record for a period is counted as a set, the
minutes of its connections, each connection's from 1 (`OnRecord`), so that the proof
adds disjoint sets and needs no sum over the connections. The argument is in two
layers. A transaction relies on its locks: what it has written is locked until it
ends, and the figure it has read is what it sees, under its lock or because there was
no row (`ReadInv`). Therefore the minutes that its writes will add to those on record
(`Added`) are exactly what it has credited to the period or is about to
(`CreditIsAdded`), and a commit moves the bill and the record by the same number
(`BillInv`). All of this is claimed of a period for as long as no two first reports of
a connection have overlapped in it (`Clean`), because that is where the code breaks it.
`ThresholdsNoticed` needs only that the crossings are computed from the two figures
between which the commit moves the bill.

`Records_proofs` proves of `MessageWrites`, for every set of channels, users and requests,
every assignment of senders and keys and any number of lost transactions and
administrative acts (`RequestsAssumption`, `ParametersAssumption`,
`BoundAssumption`): `TypeOK`, `DenseSequences`, `AnswersFollowKeys`,
`OriginalIsKept`, `TombstoneStays` and `ArchiveStopsWrites`. They rest on one
invariant, whose parts say what a transaction may rely on. Between its SELECT ...
FOR UPDATE and its commit a send holds the channel's row, and the sequence it
computed is still the next one (`HoldsChannel`); so the row it inserts is new
(`NextRow`, from `RowsAreDense`), and the archive flag it looked at is still what
it was (`PermittedIsOpen`). An edit that has passed its UPDATE holds the
message's row and the text is no tombstone (`HoldsMessage`, `EditsTheLiving`).
What a revision has read without a lock is either the original text or a later
one, and then the original is in the history already (`ReadOrKept`): that is why
`OriginalIsKept` survives the race that `HistoryIsComplete` loses. Even the type
of `last_sequence` needs an argument, `RoomForOneMore`: the rows of a channel have
as many different makers, all of them sent, so a send that has not committed has
room for one more. The steps that several statements share (a transaction that
ends in vain, a first read, an UPDATE that takes its row) are lemmas of their own.

Of `UserRecords` it proves, for any numbers of callers, rows, calls and lost
requests: its types, `EventsTellMembership`, `PositionsFollowMembership` and
`ErasedIsGone`. They are inductive with the types, but for the one thing a call under
way relies on (`OvertakenInv`): a deletion or an erasure that has passed its read
positions has left none but those written since, and those are in `late`.

Of `ConnectionSlots` it proves the types and `NoPlaceIsTaken`, for every set of
connections, any number of places, any bound and any number of outages and lost
answers (`SlotsAssumption`). The invariant follows one connection through its life, and
excepts the places under its id that it never heard of (`unheard`): a walk
is made by a connection with no other key of its own and no fresh confirmation
(`WalkersInv`), a place won is the only other one under its id before the gateway has
heard of it and after (`WinnersInv`, `PlacedInv`), a connection that is still claiming
is walking or has won (`ClaimingInv`), and a confirmation younger than the bound means
that the key is still there for exactly the rest of it (`Keeps`).

Of `GatewayPresence` it proves the types and `SteadyIsOnline`, for any gateways and
connections, any number of crashes, restarts of Redis and failed requests, and every TTL
and grace window of two ticks or more (`PresenceAssumption`). The property speaks of a
check, but the invariant of the key alone (`KeyLives`): for every steady connection the
ticks the key has left, the refreshes its gateway has missed in a row and the one that
is due add up to the shorter of TTL and grace window at least. A tick takes one from the
key and makes a refresh due, a failed refresh is counted as missed, and a refresh, a pin
or an arrival gives the key that much, whatever checks, elections and departures do
meanwhile.

`Expansion_proofs` proves `AckedMeansClaimed`, that a claim is under way at most
once for an event, and `ClaimedReachesEveryone`, for every pool, every set of
events, endpoints and workers. `ClaimInv` relates the worker to the open row: its
holder is the transaction that is open, there is one, and an answered call found the
claim committed. `RowsInv` adds what the holder has read (`ReadIsComplete`: every
endpoint steady so far) and inserted (`InsertedIsComplete`).

`WebhookDelivery_proofs` proves the types, `DeadLettersMatch` and the refinement of
`DeliveryLifecycle` for every number of tiers, workers, relays and troubles. A
row that is pending has no more dead letters than there were replays
(`LettersPaid`). The refinement
maps the relay's, broker's and clock's steps to stutters and an outcome, a replay
and an insertion to their namesakes.

`GatewayResume_proofs` proves the types, `NoRepeat` and `NoGap` for every set of
channels and connections, every page and buffer size and any number of losses,
revisions and handshakes. The invariants build upon each other: a referenced channel
is subscribed or somebody awaits it (`SubscribedInv`); a connection's page and buffer
are of its own channels (`ScopeInv`); what a connection has been shown, holds in
its buffer or page, and may suppress fits together (`OnceInv`: only what was sent is
known, what is not announced is unheard, what is known is suppressed), which gives
`NoRepeat`; and a page and a buffer that were not cut short hold everything that was
committed and announced since (`GapInv`), so that at the completion nothing is
missing, which gives `NoGap`.

`UsageQuota_proofs` proves, for every cap, threshold set, number of channels, sends
and relays: `UsageIsExact`, `OvershootIsBounded`, `CeilingIsForPersons`,
`UserMarksAreNoticed` and that a mail is repeated only for a throw or a crash. The
overshoot is the argument of the locks: a send past its check holds its channel, so
there is at most one per channel, each counted once in the slack between the usage
read and the cap (`MessageSlack`, `UserSlack`).

`EndpointHealth_proofs` proves, for every set of reports, sweeps and relays:
`RunIsTheStreak`, `OncePerRun`, that a disabled endpoint has a notification
(`FingerprintIsOwed`) and `DisabledForCause`. They rest on the lock: who is past its
SELECT holds the row (`HolderHasLock`), the run it read is still the run
(`SeenIsTheRun`), and what a sweep found is still true when it writes
(`SweepIsSure`).

`Platform_proofs` proves of `HostedMedia` the types, `CapIsKept`, `ReadyHasBytes`,
`HeardOnce` and `DanglesOnlyWhenLate`, for finitely many objects, every cap and any
number of workers, messages and troubles (`MediaAssumption`; `KeyAssumption`: the key
of a rendition is the key of no object). The cap is kept because whoever has summed
holds the environment's row (`LockInv`), so that the sum it read is not too low when it
inserts (`CountInv`). A ready object has its bytes because a worker that has not
applied its verdict to a pending row still finds them (`JobInv`, `BytesInv`), whatever
another worker judged. A verdict is heard once because at most one worker at an
object has had its verdict recorded, and nothing was announced before (`VerdictInv`).
A message that is not late keeps its object: what a sweep has checked for references
is attached by nobody in good time until it is deleted (`SweepInv`, `AttachedInv`).

Of `GatewayMembership` it proves the types and `HeldIsSubscribed`, for all users and
channels and finitely many connections (`UserAssumption`, `ChangesAssumption`). The
invariant is that a channel's count covers the connections which hold it *and* the
additions to it that await a SUBSCRIBE, a closed connection's included
(`CountsCover`); that the instance listens while it counts anybody and no SUBSCRIBE
has failed (`ListensInv`), and that the subject is asked for while somebody waits
(`AwaitedInv`). `DeliverKeepsFabric` shows that `deliverMembership` keeps it, for all
its channels at once.

Of `RateLimits` it proves the types and `LimitsHold`, for any processes and windows,
any number of requests at a time and any outages, restarts and lost answers
(`RatesAssumption`). For requests, each one that was served, or has a place
in a budget and may be served yet (`Books`), has a count of its own within the limit,
and each loss of Redis's keys allowed as many again (`ServedInv`). For logins the
invariant (`PassInv`) is an account. `Share == Allowed - 1 + |Slot|` is what may pass
by one counter: what it counts below its threshold, and what is being verified by
then. The store has a line, `shared`, and each process whose breaker is open has one
of its own, `own[p]`; as long as a counter is below the threshold, its line has let
through no more than it has counted and what is still to be counted there
(`ToStore`, `ToItself`). What has passed in the window is at most the open lines and
a whole `Share` for each wipe, restart and breaker that has closed again. A breaker
that opens moves the logins under way in its process from the store's line to the
new one; each process has a breaker paid for (`FallenInv`).

Only model-checked: everything under fairness (`EveryRecordLands`, the fairness
half of `SpineSpec`, `EverySettles`, `EveryEventHandled`, `EveryResumeEnds`,
`Converges`, `ClosedIsRecorded`, `NoticesAreMailed`, `LongRunsEnd`,
`DisablesAreMailed`, `CountedHavePlaces`, `PlacesComeBack`, `GoneIsHeard`), because TLAPS
does not handle liveness. Every safety property that a passing run checks is a theorem.

## 5. What is left out, and the plan

In all models: the text and layout of messages, event payloads, signatures, HTTP
status codes except as answer or failure, logging; tenants (every query is scoped to
one environment, and the models are of one); heartbeats and frame parsing in the
gateway. Per model:

- `GatewayResume`: memberships do not change while a connection is open; in
  `GatewayMembership` messages do not appear. A re-read that overlaps the previous
  one of its connection and the expiry of its token are left out.
- `MessageWrites`: attachments and pages; usage counters are in `UsageQuota`, the
  event row of each transaction in `Outbox`. The visibility check of an edit or a
  deletion and the SELECT after it are one step.
- `UserRecords`: roles, kinds, bans, the limit on members (which is counted without
  a lock), the media an erasure destroys, the analytical half of the erasure, the
  creation of channels. Every upsert and every patch brings profile data.
- `RateLimits`: the limits on signups and handshakes, overrides of an environment's
  limits, what a full fallback map answers, a failure recorded late in another
  window (which starts the process's count again), logins that succeed.
- `ConnectionMetering`: the number of entries in one request (the schema allows
  5000, and the meter does not split its report).
- `UsageQuota`: environments with soft caps only, which refuse nothing.
- `EndpointHealth`: the batch limits of sweep and relay, with the rows of one
  endpoint, are never reached.
- `HostedMedia`: objects destroyed with an erased user, the worker's memory of
  objects the api refused, the order and pages of the list of pending objects, and
  storage records the broker does not take.
- `ConnectionSlots`: a Redis slower than the renewal interval, which could make
  two renewals of one connection overlap; a tombstone counts as a free place.
  `GatewayPresence` has one channel and one tenant: the keys carry the environment
  (`presence.ts:177`), the maps `held` and `pending` of a gateway do not, so that two
  tenants' users with one external id share a refresh and a pending check there.
- `AnalyticsIngest`: the stream's own limit of age; the shapes of the records and the
  arithmetic of the reconciliation.

Not modelled: typing (a throttle that keeps nothing), the api consumer (it takes `claimEvent`, modelled in `Expansion`; a failed effect is
handed back without a delay, so that `MAX_DELIVER` hand-outs can pass within one
short outage), authentication and tenancy, audit and request logs, media inspection,
the protocol's schemas, the tests and scripts. They are pure checks, append-only
records or apparatus.

Next, in this order:

1. A composition of outbox, expansion and delivery: one event from its commit to the
   customer's endpoint.
2. The api consumer.
