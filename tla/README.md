# codeNXT backend: a verification project in TLA+

This directory models the parts of the backend in which several handlers, worker
processes and outside services act on the same records, and says what TLC checks about
them and what TLAPS proves. Paths are relative to the repository's source; `vc/`
abbreviates `verticals/codeclip/`.

## 1. The system

The backend is a Node.js server (`server.js`, HTTP), a PostgreSQL database (`db.js`), a
Redis (`redis.js`) and worker scripts (`scripts/`) that may run as any number of
processes. It serves three verticals, *codePerks*, *codePod* and *codeClip*, which give
visitors benefits for a scan; codeClip also takes messages and videos from Meta, TikTok
and YouTube. Nothing but the two stores is shared: no lock outlives a transaction and no
messages pass between processes. What can go wrong between two actors goes wrong through
a record one of them read a while ago.

| component | state | operations | meets | hard because |
|---|---|---|---|---|
| **Limited benefits, certificates** (`server.js`, `vc/assignment.js`, `verticals/codepod/service.js`) | Redis counters, stored outcomes, sets, lists | POST /scan of three verticals, POST /inner-circle | other handlers | one Redis command at a time; INCR first, DECR if it was too much |
| **Coupons and redemption** (`server.js`, `db.js`, `mailer.js`) | Redis documents and tokens, Postgres rows | claim, redeem, change status | partners, handlers | read, test and write without a lock; two copies |
| **Core persistence and outbox** (`vc/service.js`, `vc/outbox-worker.js`) | interaction, assignment, reward, outbound and outbox rows | one transaction per scan; batch claim, recovery, dead letter | scans, intake, completion | writes after the failing one were never tried |
| **Webhook intake and bindings** (`server.js`, `vc/provider-account-*.js`) | ledger rows, Redis claim and cached response, bindings | post of a message; bind, disable, reactivate | providers' redeliveries, core | three records that no step changes together |
| **Meta Messenger outbound** (`vc/meta-messenger-*.js`) | outbound rows: status, attempts, owner token, schedule | create, list, claim, record, hold; cycle with a pool | Graph API | SELECT and conditional UPDATE; a send cannot be undone; stale takeover |
| **Provider polling** (`vc/provider-poll-sources.js`, `vc/provider-polling/`) | poll sources: schedule, lease, version, checkpoint | list, claim, complete, release; loop with stop | ledger, credentials | leases run out during a poll; checkpoint and ledger must agree |
| **TikTok adapter** (`vc/tiktok/poll-adapter.js`) | the checkpoint | one page for each poll | Display API | a walk over several polls while videos come and go |
| **Delivery completion** (`vc/provider-polling/delivery-completion.js`) | `processing_state` of deliveries | list, claim, commit, fail | core, polling | updates by identity alone; crash after the claim |
| **Credentials, refresh, TikTok OAuth** (`vc/provider-credential*.js`, `vc/tiktok/oauth-*.js`, `vc/tiktok/credential-refresh.js`) | OAuth states, tokens, refresh claim | callback, exchange, connect, activate; inspect, refresh | TikTok rotates tokens | leases; the provider acts before the row is written |
| **YouTube WebSub and connection** (`vc/youtube-websub-*.js`, `vc/youtube-connection.js`) | subscription rows, consumed states | create, renew, unsubscribe, recover, connect; verify | the hub | hub callbacks in any order |
| **YouTube notifications, reconciliation** (`vc/youtube-websub-notification.js`, `vc/youtube-reconciliation-*.js`) | deliveries, channel claims | notification, worker run, operator recovery | hub, core | three ways to find one video |
| **Diagnostic probes** (`vc/youtube-websub-diagnostic-*.js`) | probes, observations | create, unsubscribe, verify, observe | the hub | the hub answers before or after itself |

What makes each correct:

- *Benefits*: no pool gives more than it has, nobody falls past a pool with units left,
  one certificate and number for each member.
- *Coupons*: used once; a certificate leads to one claim.
- *Persistence*: no write vanishes; each outbox event settles, in the hands of one worker.
- *Intake*: a message is run once, under one row, and what the provider is told is so.
- *Meta outbound*: an attempt has one owner and one send; a final row is final; no reply
  is left where it is without a fault.
- *Polling, completion*: one holder for each claim version; no video passed without a
  delivery; a delivery claimed once, and called completed only when it is stored.
- *Credentials*: the stored token is the one the provider takes, every loss has a cause,
  a completion belongs to the last claimant.
- *WebSub, probes*: what a row says is what the hub does; a consent counts once;
  cleanup is asked for exactly when it is needed.
- *YouTube*: a video is activated once, and one that the hub missed is found.

The hazards, line by line, are in `PROJECT.json`.

## 2. The modules

| module | what it is |
|---|---|
| `TierInventory` | the pools, stored outcomes, members and certificates, command by command |
| `TierInventoryProofs` | theorems about it |
| `Redemption`, `RedemptionProofs` | coupons of the three verticals, from claim to use, and theorems |
| `ClipPersistence`, `ClipPersistenceProofs` | the core transaction and the outbox worker, and theorems |
| `ProviderIntake`, `ProviderIntakeProofs` | one keyword message, its ledger rows, Redis claim and cached response, and the account's bindings; theorems |
| `MetaOutbound` | outbound rows, worker processes, dispatches, requests on the wire and Graph |
| `OutboundLedger` | the abstract life of a reply, which `MetaOutbound` implements |
| `MetaOutboundProofs` | theorems about `MetaOutbound`, and the refinement |
| `TikTokPaging` | the adapter's walk over the pages, as operators on a checkpoint |
| `PollSource` | poll sources, leases, polling workers and the ledger; EXTENDS `TikTokPaging` |
| `DeliveryCompletion` | the completion cycles of a poll's deliveries |
| `PollingProofs` | theorems about `TikTokPaging`, `PollSource` and `DeliveryCompletion` |
| `TikTokConnect`, `TikTokConnectProofs` | OAuth states, callbacks, credential, binding, activation, polls and refreshes; theorems |
| `YouTubeBase` | the value for what is not there and the counted faults, which the next three share |
| `WebSub` | subscription rows of one channel, operators, the hub, the creator's connection |
| `YouTubeIngest` | notifications, reconciliation workers and operator recovery over one channel |
| `DiagnosticProbe` | diagnostic probes and their observations |
| `YouTubeProofs` | theorems about `WebSub`, `YouTubeIngest` and `DiagnosticProbe` |
| `MC*` | constants and symmetry for TLC |

Throughout, a step is what the code does between two awaits that matter: one Redis command,
one SQL statement, or one transaction where the code locks its rows (`SELECT ... FOR
UPDATE`). Between two steps any other actor may act. A statement that raises, a commit whose
answer is lost and the death of a process are actions of their own, counted by
`MaxFaults` (in `TierInventory` and `Redemption` they may happen at any time and are bounded by
the requests). Values, names, wording, validation and logs are abstracted. Variables called history
are read by properties only.

**TierInventory.** `Ladders` gives the order in which each vertical tries its pools; all share
`AskStored` (GET), `TakeUnit` (INCR), `GiveBack` (DECR) and `StoreOutcome` (SET). `Uncounted`
and `Unlimited` are the two readings of a missing quantity. `CheckRepeat`, `EnterScan` and
`Refused` are what each vertical does before; `CheckMember`, `Enrol` (SADD),
`NumberCertificate` (INCR) and `IssueCertificate` are /inner-circle, which assigns without
storing. `Abort` ends a handler anywhere, `XtraFails` is codePod's swallowed error.

**Redemption.** A codePerks claim is reserved (SET NX), saved, linked, mailed and saved again;
using it reads the document, tests and writes it back. A codePod GoldXtra is decided by its row
and copied to Redis. A codeClip ClipXtra is decided by its row, or by the Redis copy
when there is no row yet; the outbox may insert the row late.

**ClipPersistence.** `PersistAll`, `PersistFails` and `CommitFails` are the transaction's
outcomes, with the writes before, at and after the failing one; `QueueAction` saves the outbox
event. A worker claims a batch (SKIP LOCKED), makes the listed writes up one by one, and
marks the event; the outbound step has no recovery. Rows bear the version of the scan that wrote them and are upserted without a
comparison (`Upserted`), except the outbound row, which is inserted once per message (`Stored`); `late` and `overlapped` are the ways in which an older
version comes last.

**ProviderIntake.** A post looks up rows and binding, inserts its row, claims (SET NX with expiry), runs
the core, records and answers; each is a step. Operators rebind the account meanwhile.

**MetaOutbound.** `rows` is the table, `worker` the loop of each process, `task` the locals of the
dispatch an attempt id stands for, `wire` its Graph request. A claim is `ClaimRead` and
`ClaimWrite`, a record `RecordRead` and `RecordWrite`, and the hold after a confirmed send
passes through the same two steps. `BeginCycle` fixes the cycle's one reading of the clock, which
listing, claims and records all use. `GraphAccepts`, `GraphRefuses` and `RequestLost` are the
world; a request the dispatcher gave up on may be taken later. An attempt id is a UUID; the model
reuses one that nothing refers to any more (`Fresh`).

**OutboundLedger.** Store, try, hear of a success, end. The mapping reads a row's status as the
reply, its attempt count as the tries, the confirmed answers as what we were told, and its
schedule as the earliest next try.

**TikTokPaging, PollSource.** A video stands for its high-water mark, so videos are naturals;
a checkpoint is cutoff, pending mark and cursor. Claim, complete, release and the ingest of
detections with its completion are transactions. All queries of a cycle get the instant the
cycle began, and `Fence` is evaluated at that instant, as in the code. `failures` stops where the
backoff becomes constant. The sources of a cycle may be begun in any order.

**DeliveryCompletion.** The claim tests the row; the last updates find it by identity and write all
columns. `Take` and `ReadSource` are the two readings of the source. `Abandon` is a
death or a raised statement, which ends the cycle.

**TikTokConnect.** States are claimed under a lease; a callback exchanges its code, persists credential,
binding and completion in one transaction, and activates polling after it. A poll inspects the
credential, reads it, and refreshes it once: claim, call, complete or release. TikTok's rotation of the
refresh token is external. Callbacks and refreshers use the instant they began; `SetStatus` and
`ToggleBinding` are the operator. `inspection` says who answers whether the credential is usable: the service takes it as a
parameter (`service.js:400`). `"default"` is what the program runs (`service.js:279`), which calls an expired token unusable; `"injected"`, the one of the service's
tests, looks at the status only, and no other gets as far as the refresh (theorem `NoRefreshByDefault`).

**WebSub.** Create, renew and unsubscribe claim the dispatch, send it and record the answer; a verification
callback reads the row, decides and writes. A subscription ends at the hub and on the row when its lease does
(`LeaseEnds`). The recovery of a renewal compares the row with a mapped copy of it, from which the dispatch is gone (`MappedDispatch`), and so never
puts anything back. The connection takes an open
row or inserts one, once per OAuth state (`ConsumeState`, `ExchangeCode`, `AttachReads`, `AttachInserts`).

**YouTubeIngest.** The three ways end in `processEntry`: find or create the delivery, commit, settle.
A worker claims the channel under a lease and works through its targets. `undelivered` is what the hub still has to
tell, `missed` what it gave up, `hurt` the videos whose processing was cut short.

**DiagnosticProbe.** The repository's operations lock the row: each is one action, with the hub's request
between two of them (`doing` is what an operation holds in memory, `notifies` what the hub does).
The entries of a notification are recorded one by one under savepoints, but of
one transaction that any refused entry rolls back as a whole, with 503 for the answer (`youtube-websub-diagnostic-callback.js:226-248`): `RecordObservations` is one action, which
stores all entries or none.

## 3. What TLC checks

| run | instance | checks |
|---|---|---|
| `inventory` | 3 handlers, 4 requests, 2 scans, 2 members, one unit per limited pool, each vertical | `UnitsAreExact`, `SecondUnitNeedsTrouble`, `CertificatesMatchMembers` |
| `redeem` | 3 handlers, 5 requests, 2 coupons, 2 certificates, each kind | `UsesAreAccountedFor`, `UseForgottenOnlyByStaleCopy`, `CertificateHasOneClaim` |
| `clip` | 2 handlers, 2 workers, 2 scans of one id, 2 attempts, 2 faults, fair | `NoWriteVanishes`, `OneWorkerPerEvent`, `EventSettles` |
| `intake` | 3 posts, 2 at once, 2 events, 2 operators, 1 rebind, 1 fault | `AnswersAreTrue`, `SecondRunNeedsExpiry`, `OneRowPerMessage` |
| `race` | 2 workers, 1 reply, 2 attempts, stale after 1, 2 faults, fair | `RowsStayAuthoritative`, `AttemptHasOneOwner`, `AttemptSentOnce`, `OverlapNeedsStaleCycle`, `ConfirmedNotResentByItsProcess`; refinement `ImplementsLedger`; liveness `NothingStaysPut` |
| `poll` | 2 workers, 1 source, 3 videos in pages of 1, lease 1, 1 event, fair | `PollsAreFenced`, `NothingMissed`; steps `CheckpointNeverRegresses`; liveness `DueIsPolled` |
| `delivery` | 2 workers, 3 deliveries of 2 accounts (one unreadable), lists of 2, 1 fault, 2 changes, fair | `OneClaimant`, `CompletedHasInteraction`; steps `NeverClaimableAgain`; liveness `ClaimableIsTaken` |
| `connect` | 2 callbacks, 2 refreshers, 1 OAuth state, 2 events, 1 fault, either inspection | `LossesHaveACause`, `StoredTokenIsCurrent`; steps `LastClaimantCompletes`, `TokenWritesAreFenced` |
| `expiry` | as `connect`, no fault, the program's own inspection | *violated:* `ExpiryDoesNotPause` |
| `websub` | 3 requests, 2 checks, 2 rows, 2 OAuth states, 2 faults | `ChannelIsConsistent`, `DispatchesAreAccountedFor` |
| `youtube` | 1 new and 1 historical video, 1 notifier, 2 workers, 1 operator, 1 fault, fair | `ActivationIsExact`, `OneWorkerPerChannel`; liveness `MissedIsFound` |
| `diagnostic` | 3 requests, 2 probes, 2 notifications, 2 entries, 1 fault | `CleanupIsExact`, `EndedProbesStayQuiet`, `AcceptedBodyIsObserved` |

`UnitsAreExact` and the other properties of this shape conjoin a module's types with the invariants that say one thing together.

*Bounds.* Every race here is between two actors over one record, with a third that finds what they left; so two or three
actors, one or two records. One unit per pool makes each pool contended, exhausted and exceeded at once. One fault meets
every point of the code; a second one can hit the handling of the first (the hold after a failed record, the outbox after a
failed transaction). Leases and stale limits are one unit of time and clocks run one or two units, so that each actor may
outlast its lease. Three videos with pages of one make a walk of two pages after a baseline. Three deliveries and lists of two: the two of one account can fill a list
and keep the third off it, which is what the LIMIT does before sources are looked at. In `expiry` and
`connect` the first credential may expire at the first tick, and no request lasts as long as an access token lives. Time does not run on for ever in any run; symmetry is used only where nothing is
said about liveness. Deadlock is checked where processes loop for ever (`race`, `poll`, `delivery`); elsewhere requests are
bounded and the system really stops.

*Fairness.* All of it is weak, on the disjunction of the steps of one actor.

- `race`: each worker's loop, each dispatch and each Graph request goes on, and time passes: a supervisor restarts workers, and
  every await ends since the HTTP call has a timer. Nothing is assumed of Graph's verdicts.
- `poll`, `delivery`: the worker's loop, its polls (each ends: the HTTP client has a timer) and its completion cycle go on.
- `clip`: the outbox worker runs on `setInterval`, handlers' statements end, retry delays pass.
- `youtube`: workers are started again and again by their scheduler, and a claim's age grows.
- The other runs state safety only and have no fairness.

### What the runs show about the code

*The disagreement, `expiry`.* The poll service asks whether a credential is usable before it reads it (`vc/provider-polling/service.js:400`), and an
expired access token is not. So it pauses the source, and the refresh that follows further down is never reached. The
service's test (`codeclip-provider-polling-service.test.js:319`, "service refreshes expired provider token once before polling")
passes a usability check of its own, which does not look at the expiry. `connect` has both checks: with the program's own, `LossesHaveACause` allows
a pause by expiry; with the other the refresh protocol is reached, and it holds what its properties say.

Two more places where the tests say one thing and the code does another, because a stub stands for what the code would do. The models have the code's
behaviour, and a property names the second as its exception:

- *Recovery of a renewal* (`vc/youtube-websub-subscriptions.js:799`). "YouTube WebSub renew recovers its own active-to-pending transition when claim is not won"
  (`codeclip-youtube-websub-operations.test.js:1372`). The UPDATE compares `metadata->'dispatch'` with the dispatch of the marked row, which was mapped by a function that leaves
  metadata out (`:768`, `:422-447`): the comparison is with JSON `null`, which no row has. So a renewal that cannot claim its dispatch, say
  because the answer to the create is not recorded yet, leaves the row in `pending_renewal`, where notifications are refused, until another request moves it (`Recover`).
- *Unsubscribe verified before its 202* (`vc/youtube-websub-diagnostic-probe-repository.js:1416`). "diagnostic cleanup reconciles unsubscribed probe when GET verification wins the Hub 202
  race" (`codeclip-youtube-websub-diagnostic-operations.test.js:371`). The acceptance requires `lastVerification.mode` to be `unsubscribe`, which the verification does not
  write (`youtube-websub-diagnostic-probe.js:523-539`): the operator is told `diagnostic_cleanup_pending` of a probe that has ended. `CleanupHasACause` lists that answer beside
  faults and replaced dispatches, as the only one without either.

Limits the code has, which the properties state as the exact condition under which they occur:

- *Outbound:* a worker whose cycle outlasts `staleAfterSeconds` loses its claim to another, and a reply that Graph confirmed to the
  first may be sent again by the second (`OverlapNeedsStaleCycle`); never by the process that was told
  (`ConfirmedNotResentByItsProcess`). After a crash or a failed record a row may wait in `claimed` until an operator acts.
- *Polling:* since all instants of a cycle are its beginning, a poll that outlasts its lease is still completed unless another worker took the
  source; owner and version fence that (`PollsAreFenced`).
- *Completion:* a second worker's failure, decided from an older list, may overwrite a completion (`db.js:4059`); it takes two workers
  (`AloneCompletedStays`). The LIMIT is applied before sources are looked at, so as many deliveries of paused sources as a list holds keep all later ones waiting (`ClaimableIsTaken`, whose
  exception is exactly that).
- *Benefits:* the counter of a pool stays too high when a handler ends before its DECR, which takes no unit from anybody (`UnitsAreExact`); a second
  unit goes to overlapping requests (`SecondUnitNeedsTrouble`); a member whose handler ends before the certificate never gets one (`CertificatesMatchMembers`).
- *Coupons:* a codePerks coupon can be used again after a handler has written back a copy from before the use (`UseForgottenOnlyByStaleCopy`); a
  certificate reserved by a handler that ended stays taken.
- *Persistence:* writes after the failing step are not in the outbox event and are never made up; events with an outbound step end in the dead
  letter; a row left in `processing` by a dead worker stays; and since rows are upserted as they come, the recovery of an older scan, or the slower of two handlers of one id, writes
  over the row of a newer one (`NoWriteVanishes`, `EventSettles`).
- *Intake:* a post that waits through the claim's 300 s runs a committed message again (`SecondRunNeedsExpiry`); a row left in processing answers every later post with 202.
- *TikTok:* tokens rotated by a refresh whose completion fails are lost, and polling that was not activated after a connection is not activated by a reload (`LossesHaveACause`).
- *YouTube:* an entry whose processing failed is a duplicate for ever after (`ActivationIsExact`); a channel whose row under its derived
  callback id was unsubscribed cannot be connected again, and each attempt uses up an OAuth state (`AttachInserts`; no property speaks of it). After a callback that was
  overtaken, or whose answer was lost, a row and the hub may differ until the next callback that is answered alone (`ChannelIsConsistent`). After a probe's
  unsubscribe was dispatched once no other one ever is: each is attempt 1 under an id of its own and conflicts with the first
  (`vc/youtube-websub-diagnostic-operations.js:381`), although a refusal is answered as retryable; the probe goes on saying that its subscription may exist.

## 4. What is proved

For every value of the constants that satisfies the modules' assumptions (which TLC evaluates in every run):

| theorem | property |
|---|---|
| `TierInventoryProofs!UnitsStayExact` | `UnitsAreExact` (and types) |
| `TierInventoryProofs!SecondUnitsAreTroubled` | `SecondUnitNeedsTrouble` |
| `TierInventoryProofs!CertificatesStayMatched` | `CertificatesMatchMembers` |
| `RedemptionProofs!CertificatesHaveOneClaim` | `CertificateHasOneClaim` (and types) |
| `RedemptionProofs!UsesStayAccountedFor` | `UsesAreAccountedFor` |
| `RedemptionProofs!UsesAreForgottenByStaleCopies` | `UseForgottenOnlyByStaleCopy` |
| `ClipPersistenceProofs!EventsHaveOneWorker` | `OneWorkerPerEvent` (and types) |
| `ClipPersistenceProofs!WritesAreAccountedFor` | `NoWriteVanishes` |
| `ProviderIntakeProofs!AnswersStayTrue` | `AnswersAreTrue` (and types) |
| `ProviderIntakeProofs!SecondRunsNeedExpiry` | `SecondRunNeedsExpiry` |
| `ProviderIntakeProofs!MessagesHaveOneRow` | `OneRowPerMessage` |
| `MetaOutboundProofs!TypeCorrect` | types |
| `MetaOutboundProofs!RowsRemainAuthoritative` | `RowsStayAuthoritative` |
| `MetaOutboundProofs!AttemptIsFenced` | `AttemptHasOneOwner` |
| `MetaOutboundProofs!FinalRowsStayFrozen`, `!TableIsFollowed` | a final row does not change; every change is in the published transition table |
| `MetaOutboundProofs!OutcomesMatchAnswers` | sent and held rows were confirmed for that attempt, failed ones were not |
| `MetaOutboundProofs!LedgerIsImplemented` | `ImplementsLedger` |
| `MetaOutboundProofs!OverlapIsStale` | `OverlapNeedsStaleCycle` |
| `MetaOutboundProofs!SentOnce` | `AttemptSentOnce` |
| `MetaOutboundProofs!ConfirmedNotResent` | `ConfirmedNotResentByItsProcess` |
| `PollingProofs!TypeCorrect` | types |
| `PollingProofs!PollsStayFenced` | `PollsAreFenced` |
| `PollingProofs!NothingIsMissed` | `NothingMissed` |
| `PollingProofs!CheckpointAdvances` | `CheckpointNeverRegresses` |
| `TikTokConnectProofs!TypeCorrect` | types |
| `TikTokConnectProofs!StoredTokenStaysCurrent` | `StoredTokenIsCurrent` |
| `TikTokConnectProofs!CodesAreUsedUp` | `CodeIsUsedUpForAReason`, the first half of `LossesHaveACause` |
| `TikTokConnectProofs!LossesAreCaused` | `LossesHaveACause`, with either inspection |
| `TikTokConnectProofs!NoRefreshByDefault` | with the program's own inspection no poll claims a refresh |
| `TikTokConnectProofs!LastClaimantsComplete` | `LastClaimantCompletes` |
| `TikTokConnectProofs!TokenWritesStayFenced` | `TokenWritesAreFenced` |
| `PollingProofs!CompletionTypeCorrect` | types |
| `PollingProofs!ClaimIsExclusive` | `OneClaimant` |
| `PollingProofs!ClaimedAtMostOnce` | `NeverClaimableAgain` |
| `PollingProofs!CompletionIsTrue` | `CompletedHasInteraction` |
| `PollingProofs!CountsAddUp` | each stored delivery is in one of the operator's counts |
| `PollingProofs!AloneCompletedStays` | with one worker nothing undoes a completion |
| `YouTubeProofs!ChannelAgrees` | `ChannelIsConsistent` (and types) |
| `YouTubeProofs!DispatchesAreTheHubs` | `DispatchesAreAccountedFor` |
| `YouTubeProofs!ActivationIsOnce` | `ActivationIsExact` (and types) |
| `YouTubeProofs!OneWorkerAtATime` | `OneWorkerPerChannel` |
| `YouTubeProofs!CleanupCorrect` | `CleanupIsExact` (and types) |
| `YouTubeProofs!EndedProbesAreQuiet` | `EndedProbesStayQuiet` |
| `YouTubeProofs!NotificationsAreKept` | `AcceptedBodyIsObserved` |

An inductive invariant was an invariant of a TLC run before it was proved: `WebSubInv`, `IngestInv` and `ProbeInv`, for one, on the instances of `websub`, `youtube` and
`diagnostic` (1.4, 1.5 and 1.7 million states).

**Inventory.** Assumed: finitely many handlers, natural quantities, known verticals, and that `None` is neither a scan nor an outcome.
That no pool is oversold is not inductive, for the counter alone does not say how many units are out. `Account` says of each limited pool: up to its
quantity the counter is what was handed out and nobody is about to give back; from then on the quantity is handed out and the counter is at
least the quantity plus the handlers at their DECR. So a DECR never opens the pool again, and a crash before one only leaves
the counter higher. `Passed` keeps what a handler knows: the pools it fell past are handed out. That a grant takes nothing from this
knowledge needs that no pool stands twice in a vertical's ladders and that only the last of a ladder is unlimited (`PoolsAreDistinct`, `UpperPoolsAreLimited`). For the
certificates `OwnersAgree` and `NumbersAgree` follow the handler that SADD answered to; for second units `ScanIsSingle` says that an untroubled scan
has one handler, and that a unit of it is stored or about to be.

**Coupons.** Assumed: the kinds are known, and `None` is neither a coupon nor a document. Handlers work from what they read, so the invariant is
mostly what a program counter tells (`Knows`): a handler that makes a coupon is the only one that does, and until it has saved the document nobody
has; a copy is of an earlier version than the stored document, or agrees with it about the use (`CopyOf`). Versions only grow, so a
stale copy shows by its version when it is written. `Claims` and `Taken` follow a certificate to its coupon, `Uses` counts
uses against the mark or the row, with `stale` and `bycache` as the only exceptions, and `Refreshed` says who still owes Redis the used GoldXtra.

**Persistence.** Assumed: the optional steps are steps without the interaction, bounds are natural. The outbox is a prefix: `queued` events are rows. `Hands`
says that an event in processing is in one pair of hands or stranded, never both, and that a worker is busy exactly with the event it holds; batches are disjoint, since
the claim takes only rows that nobody processes. That `Init /\ [Next]_vars` never asks for more rows than the outbox has is itself
a fact to prove: scans have distinct versions (`Versions`), a pigeonhole argument on them gives `RoomInOutbox`. `Writes` keeps what
a request knows of its version's writes after the failure, what a row lists, and that a step off a recovering worker's list is saved, each time unless
its row was replaced by an older one (`late`). `Overtaking` gives that exception its cause: in `late` are only versions that overlapped another handler of their id, or
that an older scan's event was recovered over.

**Intake.** Assumed only that `NoEvent` is no event. Three records that no step changes together are related by what a handler's program counter knows
of them (`Requests`): at its row it exists, with the claim it was won, past the core the interaction is stored. `Records` says what a row,
a cached response and the claim say of each other. A row in processing has a holder, or nobody has won its claim yet and somebody goes for it (`Worked`); a post that
lost the claim lost it to somebody (`Refused`), which is what makes its 202 true. `RunsOnce` is that before the claim runs out one
handler stands at the core and it has not run. `Bindings` says that one binding is active at a time and that, until it moves, every row is under its event.

**Outbound.** Assumed: ids are naturals, limits positive, backoffs natural, NULLs no times or attempts. Between its SELECT and its UPDATE a
dispatch acts on a row it remembers. `TaskShape` says what its program counter tells of its locals; `SeenFence` relates the remembered row to the
present one: the attempt count never falls, and while the four columns of the optimistic lock agree with what was remembered, the
rest (the token above all) agrees too. `Unclaimed` adds that an id still at its claim is on no row. The lemma `RowChange` then says that each step leaves
a row alone, inserts it, claims it with count + 1, or records a claimed row as its owner. For the refinement the invariant also says
what a dispatch was told by Graph, and that a confirmed answer belongs to the attempt that is on the row or to one taken over since; each action is then
shown to be one step of the ledger or a stutter. `Staleness` adds the clock: all instants of a cycle are its beginning, so a claim that was taken
over is at least the stale limit older than its successor's cycle, over any chain of takeovers (two workers, as in `race`, cannot show a takeover of a
takeover). `Requests` adds the wire: no request bears a number above its row's count, and before a dispatch sends nobody has sent its number.

**Polling.** Assumed: sources are naturals; lease, interval, page size and widths are positive, as the code validates; delays are naturals; NULLs are no times or workers.
Owner and version are the fence. `HolderIsNamed` says that a worker with a source's present version is the one its row names until the row is
settled, and that one with an older version was superseded when its lease had run out (`SupersededAt`). What a worker read, however late it writes, then
either fails the fence or is the row's own checkpoint (`ReadIsCurrent`). The walk is proved from lemmas about the operators of `TikTokPaging`: a page holds the newest videos below the
cursor without a gap (`PageIsNewest`), the next checkpoint is `Sound` and does not fall (`NextIsSound`), and what it passes was passed before or stood on the page or above the cursor
(`NothingSkipped`). `Covers` carries this over polls: what the checkpoint has passed and is still up is known to the ledger.

**Completion.** Assumed: deliveries are numbered, each has an account, the limit is positive. `RowChange` says what a step does to one row; no outcome is
claimable, so being out of reach of claims is for ever. `OneClaimant` becomes inductive with `HeldIsStored` (a held delivery is in the ledger), `CompletedHasInteraction` with
`CommittedIsStored`. For one worker `PendingNotCompleted` says that what it listed or holds is not completed, by `TodoIsAhead`; a second worker is exactly what breaks it.

**Connection.** Assumed: the lifetimes are positive, an access token outlives every callback, bounds are natural, and `None` is nobody. `Knows` is
what requests and rows know: every token in the system is one TikTok gave out (`GivenOut`), the grant of a callback is its own until it is stored
(`OwnGrant`), no two refreshers hold the same answer, and a refresher under the claim read the stored token, unless a connection with a
grant of its own replaced it since (`ReadIsStored`); generations only grow, so no token is written twice. `Connecting`: while nothing has gone wrong on the
callbacks' side, who works under a state's claim owns it, and a spent code has a callback on its way to the completion. `Refreshing`: on the refreshers' side the claim has one
holder, only its call makes TikTok rotate, and what it will send or has got is the latest. `Undisturbed`: without a fault TikTok then never refuses, so no claim is released, the
credential stays active, and what a refresh wrote is good for the poll that wrote it. The last part is true because no request
lasts as long as an access token lives (`InTime`: hours in the provider's answers, against HTTP timers of ten seconds); with shorter lives TLC finds a poll that pauses its
source with a token it has just refreshed. Each bound of `Tick` is implied by the clock's own in the run. All this is independent of the inspection. For the
program's own, `Unrefreshed` says that no poll comes as far as the claim: a credential that passed the inspection is usable at the poll's own
instant, and its expiry is only ever written later; so `PausedByExpiry` has to look at the inspection alone.

**Subscriptions.** Assumed: `None` is no request, no row and no word a row holds in its place. No lock joins a row, the request that
dispatches it, the callback that verifies it and the hub; each knows something of the others. `RequestsHold` and `ChecksHold` are
what program counters tell. `HubFollowsRow`: of the callbacks of a row one at most stands between its write and its answer, and that one holds
what the hub is about to be told; with nobody there the hub does what the row and its lease say. Only a write over another's answer, a lost answer and the mark of
an ended row put a row in `apart`, and the next write with no answer on its way takes it out again; an overtaken reading does not, since the hub is told
what was written. `raced`, which does not lapse, excuses dispatches only. `StartedIsExplained` makes the cause of a dispatch left started inductive: as long as
its request may still record, the row is where the dispatch or its verification put it, or another operation moved it (`Excused`), and that
excuse does not lapse, since a request that marked a row never changes its kind. `OneSpeaker` says that outside `stolen` the request at the hub is the row's,
so two of them are one. `StatesAreUsedOnce` follows an OAuth state from its one consumption to the connection that it made.

**Videos.** Assumed: `None` is no video and no worker; notifiers, workers and operators are different processes. `EntryIsHeldByOne`: the insert has one winner, who alone is past it, so an activation is counted once; `RowActivates`
says that a row whose processing was not cut short has activated or its winner is about to, and `HubIsToldOfRows` carries it to the hub: a request that answers well
found or made a row for each video it is through with. `ClaimIsHeld` is the fence of the workers, with the lapse of a lease as the only exception.

**Probes.** Assumed: `None` is no operation, probe or body, and no word that stands in its place. The invariant says when an operation may still act on a probe it made or asked about. `OneCreator`
and `LeavesOpen` keep a closed probe closed: only its creator fails it, and its unsubscription finds it past its creation.
`ForgottenEnds` is that a subscription the row does not remember any more is one the hub was not told of or is being told to end; `FailuresHaveACause` that
without a fault or a stale takeover a creator and an unsubscriber find their dispatch as they left it, verified in the meantime or not; `ToldOfTheEnd` that whoever
was told of an unsubscription was told after the probe took no observation.

*Only model-checked:* the liveness properties (`NothingStaysPut`, `DueIsPolled`, `ClaimableIsTaken`, `EventSettles`, `MissedIsFound`), since liveness under fairness and
ENABLED are out of the prover's reach, as is induction over data: nothing is proved of a recursive definition for every input. Every safety property of
the passing runs, invariant or step, has its theorem.

## 5. The plan

Done: all modules of section 2, with the refinement of the outbound ledger, and a theorem for every safety property the passing runs check. Left:

1. An abstract leased row (claim, settle, takeover), which poll sources, OAuth states, refresh claims and reconciliation channels implement.
2. The composition of `PollSource` with `DeliveryCompletion`, whose `StoreDetected` stands for it.

## 6. What is not modelled

- *Provider request verification, registries:* pure functions of one request and tables frozen at start.
- *Operator views of deliveries:* read-only.
- *The remaining server and verticals* (pages, logins, administration of events, reports): handlers over single statements; the process shell.
- *Left out of the parts that are modelled:* the branches of the benefit handlers without Redis, and codePerks' /claim, which shares the join
  counter; rate limits; encryption, key versions and audit rows of credentials; feeds, signatures and listings of WebSub; quotas and
  uploads paging of reconciliation; test envelopes of the intake; the start and the status page of the YouTube connection, and the binding it makes (`ProviderIntake` has bindings); `stop()`'s
  timeout promise and marks of one second compared as text in polling; codePod's branch of /inner-circle (`server.js:5435-5439`); videos of an event without an activation
  (`vc/youtube-websub-notification.js:270-276`), whose delivery is finished without one; the operator resolutions the comments announce for held outbound rows, which no code implements.
- *Narrower than the code in a run:* `race` has one reply and `poll` one source, so `NothingStaysPut` and `DueIsPolled` do not show what the LIMIT of those lists does to rows behind
  it; `SecondUnitNeedsTrouble` counts units of /scan (the certificates of /inner-circle are `CertificatesMatchMembers`).
- Values, formats and validation throughout.
