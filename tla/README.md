# Verification of kamod-tracking

TLA+ models of the tracking SDK in `src/packages/core`, checked by TLC on small
instances and, for the parts where a result matters for every size of the
system, proved with TLAPS. Paths below are relative to `src/packages/core/src/`
unless they start with `src/`.

Contents: [the system](#the-system), [the modules](#the-modules),
[the runs](#the-runs), [fairness](#fairness),
[what is assumed of the host](#what-is-assumed-of-the-host),
[findings](#findings), [the proofs](#the-proofs),
[what is not modelled](#what-is-not-modelled), [the plan](#the-plan).

## The system

The SDK moves *tracking events* from a web page or a server process into
Postgres and summarises them per day.

| Part | Source | State it keeps | Operations |
| --- | --- | --- | --- |
| Browser client | `browser/client.ts` | event queue, consent store, sending switch, destroyed flag, retry timer, promise chain of flushes | `capture`, `track`, `pageView`, `flush`, `setConsent`, `revokeCapture`, `adoptExternalConsent`, `configureCapture`, `destroy`, retry timer, unload hook |
| Event queue | `browser/event-queue.ts` | array of entries | `enqueue`, `takeBatch`, `requeue`, `removeByIds`, `removeByPurpose`, `clear` |
| Collector transport, legacy adapter | `browser/collector-transport.ts`, `browser/client.ts` | none | `sendBatch` |
| Abort registry, unload hooks, backoff | `browser/abort-registry.ts`, `browser/unload-hooks.ts`, `browser/backoff.ts` | abort controllers, listeners | `abortAll`, `install`, `remove` |
| Session store, view state | `browser/session-store.ts`, `browser/view-state.ts` | session id with two clocks in `sessionStorage`; the paths marked in none mode | resolve or clear a session; ask, mark, reset |
| View lifecycle | `browser/view-lifecycle.ts` | current view, subjects counted in it | begin, end or reset a view |
| Visibility observer | `browser/visibility-observer.ts` | observed elements, pending timers, subjects under way | observe, intersection callbacks, page visibility, confirm, cancel |
| Contract ingest, registry, pipeline | `core/*.ts` | event definitions, in-memory stores | validate, build and store an envelope |
| Browser collector | `server/browser-collector.ts` | none of its own | handle one HTTP batch: judge every item, store, merge outcomes |
| Request guards, rate limiter, site registry | `server/*.ts` | counters per key | admit or refuse a request |
| Batch and single acceptance | `postgres/scoped-batch-acceptance.ts`, `scoped-accept-write.ts`, `scoped-store.ts`, `server/memory-batch.ts` | `sites`, `event_inbox`, `events`, `ops_counters` | accept each envelope at most once |
| Server collector and outbox | `server/server-collector.ts`, `server/outbox*.ts`, `src/examples/server-outbox-postgres` | an outbox table of the host, with a status and a lease per row | answer one posted server event; create a job with its row; claim, deliver, acknowledge, retry or quarantine |
| Aggregation and retention | `postgres/daily-aggregate.ts`, `postgres/retention.ts`, `aggregation/*` | `daily_aggregates`, dirty days, recompute floor, coverage gaps | rebuild a day, purge by purpose |
| Operations metrics | `postgres/ops-metrics.ts` | counters, gauges | increment, read |
| Preact bindings | `preact/*` | refs of components | mount, unmount |

How they interact. The page calls the client; a handler that awaits (validation,
the local pipeline, the transport) suspends, and any other handler may run
there. The client's flushes are links of one promise chain, so at most one batch
is under way. A batch is a POST to the collector, which judges each item on its
own, hands the fit ones to `acceptBatch()` and merges the answers; the client
settles its batch by what the answer says of each event. Several requests share
one Postgres: they meet at the unique key of `event_inbox`, at row locks, and at
the connections of one pool. The host marks the days of stored events dirty and
runs the rebuild job, whose transactions share the tables with retention. The
visibility observer calls back into the host, which captures an event and
confirms or cancels the impression later; the view may have changed by then.
A server does not use the client: it writes a row to an outbox in the transaction
of its own work, workers build the envelope and store it with `acceptBatch()`, and
the server collector does the same for records that are posted to it.

What is hard, and what makes each part correct:

| Part | Hard behaviours | Correct when |
| --- | --- | --- |
| Browser client | revocation, `destroy()` or another capture between the awaits; aborts, beacons, partial answers; one retry timer for all purposes | every event is in one place at a time, is sent a bounded number of times, nothing goes out after `destroy()`, and nothing is left in the queue with no one to send it |
| Event queue | expiry, eviction and requeueing in one pass | order and capacity are kept, and the evicted are the ones reported |
| Acceptance | two transactions with the same events in different order, an error after COMMIT, a retry of a batch that was stored, a pool with no connection left | an event is stored once, a batch takes effect as a whole, every verdict is true when it is given, every call ends |
| Browser collector | a store read before an await and used after it; a failing adapter; two windows of the limiter | an item reported accepted is stored; a request is refused only for a cause |
| Aggregation | an event that comes in between the rebuild's statements; retention between the job's reads and its writes; a policy that deletes rows others refer to | no stored event is forgotten, the floor is honest, a rebuild does not lose history |
| Sessions | consent, mode, storage or page change between the look at a session or a mark and its use; a session read from a storage that a reload does not clear | no id lives past either limit, an erased session stays erased, a path counts once unless page views of it overlap, and only what was queued is marked |
| Outbox | a worker that stops or is late while another has its row; storage that fails before or after COMMIT; a post, a deployment or retention in between | one worker delivers at a time, "published" is written only for what is stored, only bad entries are quarantined, every status code is true, every entry is settled |
| Impressions | a late timer, a capture that ends in the next view, elements that are remounted | one second without a break, once per view and subject, and not stuck |

The hazards behind this table, each at its line, are in `PROJECT.json`.

## The modules

Each module keeps the names of the source. One action is what the code does
between two awaits (browser, collector) or one SQL statement (Postgres).

| Module | Models | Composes |
| --- | --- | --- |
| `EventQueue` | `browser/event-queue.ts` as operators on sequences | |
| `EventQueueLoops` | the same methods as the loops they are in the code | extends `EventQueue` |
| `BrowserClient` | `browser/client.ts`, both transports, consent, the retry timer | extends `EventQueueLoops` |
| `BestEffortDelivery` | what the client promises per event | implemented by `BrowserClient` |
| `ScopedAcceptance` | `acceptBatch()`, `acceptEnvelope()`, the shared writes, ops counters | |
| `FirstWriteWins` | what storing a batch promises, as one atomic step | implemented by `ScopedAcceptance` |
| `BrowserCollector` | the collector's handler, the rate limiter, the in-memory acceptance | |
| `Aggregation` | the rebuild job, dirty days, purpose retention | |
| `Impressions` | view lifecycle, visibility observer, a host that captures | |
| `Sessions` | session store, page impressions, and the handlers of `browser/client.ts` that use or reset them | |
| `Outbox` | the outbox worker, the server collector, the preparation they share | takes acceptance as one step, with the verdicts of `FirstWriteWins` |
| `TransactionalOutbox` | what the outbox promises, as atomic steps | implemented by `Outbox` |
| `MC*` | constants for TLC | |
| `EventQueueProofs`, `BrowserClientProofs`, `AggregationProofs`, `ImpressionsProofs`, `OutboxProofs`, `SessionsProofs`, `ScopedAcceptanceProofs`, `BrowserCollectorProofs` | theorems and proofs | extend their module and `TLAPS` |

### EventQueue

A queue is a sequence of entries `[id, at, attempt]`. `Enqueue` and `Requeue`
return the queue and `Evicted` the ids that its capacity pushes out;
`Batch`, `Expired` and `Remaining` are the three results of the one pass of
`takeBatch()`. These are closed forms. `EventQueueLoops` writes the methods again
as the loops that the code runs (functions of the number of iterations done).
That both give the same (`QueueIsItsLoops`) is checked in every state of the client and proved
of every queue, so the closed forms, which the handlers and the other proofs use, are tied to the code.

### BrowserClient

State: `queue`; `consent` per purpose; `sending` (`networkSendingEnabled`);
`destroyed`; `timer` (whether `retryTimer` is armed); `flushChain` (flushes
waiting on the promise chain, each with its unload flag); `inFlight`, `unloading`
and `response` of the running flush; `call`, where each capture or legacy call
stands between its awaits. `sends` and `fate` are history.

| Action | Code |
| --- | --- |
| `CaptureBegin`, `CaptureBuild`, `CaptureFinish` | `capture()` up to, inside and after the await of `prepareContractEnvelope()`; consent is checked in all three, `destroyed` only in the first |
| `LegacyBegin`, `LegacyFinish` | `legacyTrack()` / `legacyPageView()` around `store.append()`; consent is checked only before it |
| `SetConsent`, `AdoptExternalConsent` | `setConsent()`, `revokeCapture()`, `adoptExternalConsent()` with `revokeSideEffects()`: drop queued events, clear the timer, abort |
| `ConfigureCapture`, `Flush`, `Destroy` | the functions of these names; `Flush(TRUE)` is the unload hook |
| `RunFlush`, `Respond` | `runOneFlush()` up to the await of `sendBatch()`, and its answer |
| `SettleVerified`, `SettleBeacon`, `SettleRetryable`, `SettleFatal`, `SettleThrown` | the branches of `runOneFlush()` after it, requeueing and `scheduleRetry()` included |
| `TimerFires`, `Tick` | the retry timer; the clock |

`Answers` says which answers each of the three transports can come to.
`BestEffortDelivery` sees of each event a stage (new, validating, held, sending,
gone) and a number of tries: an event is sent at most `MaxSends` times and never
comes back once it is gone. The mapping is `Stage(e)` and `sends`.

### ScopedAcceptance

State: the committed tables `registered`, `inbox`, `events`; per request its
`pc`, `batch`, the `outcomes` so far, the rows it has written and not committed
(`ownInbox`, `ownEvents`) and the rows it holds `FOR UPDATE` (`locked`); the ops
counters. A connection is held from `Start` to the end of the `finally` block.

| Action | Code |
| --- | --- |
| `Start` | `pool.connect()`, `BEGIN`, `siteIsRegistered()` |
| `TakeEnvelope` | scope check and `batchPayloadHashById` |
| `InsertInbox`, `SelectExisting`, `InsertEvent` | the statements of `scoped-accept-write.ts`, with their waiting; savepoints give locks up |
| `Commit`, `CommitUnacknowledged` | `COMMIT`, and one whose answer is lost |
| `StatementFails`, `DeadlockVictim`, `Interrupted` | the catch block; the deadlock detector; a broken connection or process |
| `CountOutcome`, `CountFails`, `CountFailure`, `CountFailureFails` | `recordBatchIngestOps()` and `recordIngestStorageFailureOps()`, which take a second connection |
| `RegisterSite`, `PurgeEvent`, `PurgeInbox` | the host and retention |

Postgres is taken at READ COMMITTED, as the module's head comment says.
`FirstWriteWins` is the promise: one step decides a whole batch, the first
payload of an id becomes the fact, and each verdict is true of the facts of that
step. `Verdicts(r)` shows nothing of a request until its COMMIT took effect.

### BrowserCollector

State: the limit (`maxRequests`) and the `bucket` of the rate limiter, the `store` of envelopes, and per request the
items, outcomes so far, envelopes for `acceptBatch()` and the value of its last
`get()`. Actions: `Refuse` (the guards, which touch no state), `Limit`, `Admit`,
the walk over the items with the awaits of the lookup, the in-memory acceptance
await by await, and the Postgres acceptance as one atomic step (what
`ScopedAcceptance` is shown to implement). `lookup` says whether the host's
`envelopeStore.get()` sees the stored envelopes or is a stub; the code takes both.

### Aggregation

State: `raw` (`tracking.events`), `inbox`, `rows` (the events that
`daily_aggregates` count per day), `dirty` generations, `floor`, `gaps`, and per
job the day it is at and what it has read. A civil day is an interval of ticks, of
any length. `BucketInstant` is `selectBucketInstant()` with the producer-time
trust of the ingest contract.

| Action | Code |
| --- | --- |
| `Ingest`, `MarkDirty` | a stored event; `markAggregateDirtyDay()` by the host |
| `StartJob`, `ReadGaps` | `readRecomputeBoundary()`, `readCoverageGapDates()`: once per job, before its transactions |
| `NextDay`, `ReadDirty`, `SelectEvents`, `CommitDay` | skip or lock a day, read the marker `FOR UPDATE`, select candidates, replace the rows and clear the marker by its generation |
| `FinishJob`, `FailJob` | the job returns or throws |
| `RejectPolicy`, `RunRetention` | `validateSiteRetentionPolicy()`; the three phases of `runPurposeRetention()` with the foreign key between them |

### Impressions

State: the view and the subjects `counted` in it; per element the observation
that `observe()` made; per observation its last `ratio` (above the threshold or
not), `since` (ticks since `pendingSinceMs`) and whether its timer is `armed`;
`inflight` subjects; the browser (`watched`, `unreported`, `shown`, `visible`); the
host's captures under way. `lit` and `accepted` are history. Actions: `BeginView`, `EndView`, `Observe`, `Disconnect`, `DisconnectAll`, `Report` and
`Scroll` (`onIntersection()`), `Hide` and `Show` (`onDocumentVisibilityChange()`),
`TimerFires`, `Tick`, `Succeed` (`confirmImpression()`) and `Fail`
(`cancelImpression()`).

### Sessions

State: what the client holds in memory (`granted`, `mode`, `seen`, `destroyed`) and
what outlives a reload (`stored`, the record in `sessionStorage`, and whether that
`storage` works, rejects writes or throws); where each `pageView()` stands. `last`,
`erased` and `troubled` are history, and so is what a page view knows of others
(`over`) and of changes since it began (`intact`).

| Action | Code |
| --- | --- |
| `Refuse` | `pageView()` of a marked path; `capture()` without consent or after `destroy()` |
| `CaptureBegin`, `CaptureBuild`, `CaptureFinish` | `pageView()` with a registry: up to, inside and after the awaits of `capture()`; the session is resolved before the first |
| `LegacyBegin`, `LegacyFinish` | `legacyPageView()` around `store.append()`; the session is resolved before consent is looked at |
| `Return` | `pageView()` marks the path if the mode is none by now |
| `Track` | `track()`, which resolves a session for its own purpose and marks nothing |
| `Grant`, `Unset`, `RevokeCapture`, `AdoptExternalConsent` | `setConsent()` with its three values, `revokeCapture()`, a snapshot; `Withdraw` holds the side effects, `clearBrowserSession()` among them |
| `ConfigureCapture`, `Destroy`, `Reload` | a switch of the identity mode, teardown, a new client over the same storage |
| `StorageBreaks`, `StorageLost`, `Tick` | the storage fails or is cleared by others; the clock |

### Outbox

State: the table (`outbox` in the order of insertion, and per entry a `row` with its
payload, status and the worker whose lease has not ended); the envelopes stored
(`fact`); what a host's writer has taken (`handed`); consent and the collector
context; per worker and request its `task`; per request the `post` and the
`response`. `ever`, `overran` and the counters of trouble are history.

| Action | Code |
| --- | --- |
| `CreateJobWithOutboxEntry` | the domain transaction, job and row together |
| `ClaimNext`, `LeaseEnds` | the `UPDATE` over the first row that may be claimed; `leaseUntil` goes by |
| `Look`, `Build` | `prepareContractEnvelope()` before and after the await of `envelopeStore.get()` |
| `AcceptBatch`, `AcceptBatchFails` | `acceptBatch()` as one step, and a storage error before or after its COMMIT |
| `Publish`, `Fail`, `Quarantine` | the end of `deliverEntry()`, written to the row whoever holds it by now |
| `Crash` | the process ends, or an awaited call throws, anywhere |
| `Receive`, `Write`, `WriteFails`, `Respond`, `Throw` | `createServerCollectHandler()`, with or without an `OutboxEventWriter` |
| `Revoke`, `Grant`, `Redeploy`, `Purge` | `recordConsent()`, other rule or policy versions, retention |

`TransactionalOutbox` is the promise: a job or an authorised post asks for a payload,
only what was asked for is stored, the first fact stays until it is forgotten, and an
entry is acknowledged only if its own payload has been a fact. An acknowledgement may be
taken back, since a late worker can write its row after another has.

## The runs

| Run | What it shows | Bounds |
| --- | --- | --- |
| `browser_client` | `Accounted`, `QueueBounded`, `QueueIsItsLoops`, `AttemptsCounted`, `UnsentHaveConsent`, `QuietOnceDestroyed`, and the refinement `ImplementsDelivery`. | 3 events (analytics, measurement, legacy measurement), queue and batch of 2, 1 retry, collector transport with a beacon, measurement toggled |
| `browser_client_drains` | `NotStranded` and `Drains` (liveness), with the answers that only a custom transport gives. | 2 events of one purpose (one legacy), custom transport, clock to 1 |
| `scoped_acceptance` | `StoredOnce`, `CountersMatchFacts`, `NoStandstill`, the refinement `ImplementsFirstWriteWins`, and `EveryRequestEnds` (liveness). | 2 calls out of two batches and one single envelope, 4 batches over 2 events and 2 payloads, an empty or a used database, pool of 3, 1 failure, 1 purge |
| `browser_collector` | `AcceptedIsStored`, `OneRequestIsFirst`, `RefusedForCause`, `AdmissionsBounded`. | 3 requests of which the limiter lets 1 or 2 run in a window, 4 batches, both adapters, lookup or stub, 1 failure, window and clock of 2 |
| `aggregation` | `NothingMissed`, `FloorComplete`, `HistoryKept`, `EventuallyCounted` (liveness), with retention outside rebuilds. | 2 events, 2 days of 2 ticks, skew 1, 1 job, 4 policies (one not valid), clock to 3, 1 failure |
| `impressions` | `OneImpressionPerView`, `PendingHasTimer`, `OneSecondUninterrupted`, `VisibleIsCounted` (liveness). | 2 elements, 2 observations, an eligible subject and another, dwell 2, 2 views, 1 failure |
| `sessions` | `ErasedUntilGranted`, `OneImpression`, `MarkedWasRecorded`, `SessionsEnd`. | 2 page views of a path, inactivity 1, age 2, clock to 3, 2 ids, 2 changes |
| `outbox` | `OneDeliverer`, `NoFalseQuarantine`, `AnswersTrue`, `SettledStays`, the refinement `ImplementsTransactionalOutbox`, and `EventuallySettled` (liveness). | 2 workers, 1 request, 2 entries of which one is not registered, 4 posts, 1 crash, failure, purge, revocation or deployment |
| `revocation_drops_retries`, `commits_are_counted`, `history_kept`, `one_second_uninterrupted` | Each shows a sentence of the documentation violated: see [findings](#findings). | the smallest that shows it |

Why the bounds are enough for what is asked:

- Queue: two places give entries that come back into a full queue, and that are looked at before
  and after they expire. A remainder of `takeBatch()`, and expired entries between live ones, need
  more; the proofs take any size.
- Client: two places for three events give eviction by a requeued batch; one retry gives
  the first, the last and the exhausted attempt; a toggled and an untoggled
  purpose show a revocation that must leave the other purpose's events alone. An
  age limit of 0 with a clock of 1 makes expiry and retry meet. `MaxChain`
  bounds only the flushes the host piles up; flushes of the code are not bounded.
- Acceptance: a deadlock needs two transactions and two events in opposite
  order; a conflict needs two payloads; a call that is refused because the row
  went away needs one purge. Two calls run out of three so that a single envelope
  meets a batch. Three connections leave one for the counters.
- Collector: the races are between one request's look at the store and another's
  append, so two at once; the third is the one the limiter refuses or the next
  window lets in. A limit of one request makes the second half of `AdmissionsBounded`
  say something of three requests: two within one window's length would violate it.
- Aggregation: one event can bucket by occurrence and one by reception, on either of
  two days; the clock reaches past the end of both days, so that a purge can cut
  through a day. The three valid policies purge raw
  rows before, after and without their inbox rows. One job does not meet another; the
  safety properties are proved for any set of jobs, and for any skew and clock.
- Impressions: two elements of one subject (a card rendered twice) and two views
  give a capture that ends in the wrong view; two ticks of dwell give a timer that is
  restarted half-way.
- Sessions: two page views of one path are what `OneImpression` compares; the clock
  passes either limit with the other one not reached, and two changes are a withdrawal or
  a switch and one that undoes it or comes in a suspended call. `MaxIds` only keeps ids few.
- Outbox: two workers for a stolen lease, a request for the race with them, an entry that
  is fine and one that cannot be. One trouble at any point is what a liveness counterexample would
  use; the safety properties are proved for any number.

`CHECK_DEADLOCK FALSE` is set where the system really may stop: all calls of
acceptance and of the collector are answered, the bounded clock of the
aggregation or of the sessions has run out and nothing is left to do, or every row of the
outbox is settled.

## Fairness

- Client: weak fairness of the promise continuations (`CaptureBuild`,
  `CaptureFinish`, `LegacyFinish`, `RunFlush`, `Settle`) and of the due timer: an
  event loop runs what is ready. `Respond` is fair too. That is an assumption on
  the network: the code sets no timeout on `fetch`, so a request that is never
  answered holds the flush chain for ever. Nothing is assumed of the host.
- Acceptance: weak fairness of each request's next statement. Postgres answers, by
  the deadlock detector if need be, and the pool hands out free connections in
  order. A statement that waits is disabled, so no lock is assumed to be released.
- Aggregation: strong fairness of marking, starting a job over all days and of its
  steps: the host marks and runs the job again and again, and a failed job or
  a held marker does not stop it for ever. Nothing makes retention or a failure happen.
- Outbox: weak fairness of each worker, which polls and whose awaits are answered, and of
  the end of a lease, since time passes. Jobs, posts and troubles are not forced; a crash is one of
  the bounded troubles, so a worker that always crashes is not a counterexample.
- Sessions: none; its properties are safety properties.
- Impressions: weak fairness of time, of due timers and of the observer's report.
  The host need do nothing.

## What is assumed of the host

The code leaves some things to its host; they are constants, so that each claim says
what it needs.

- `RetentionAlone` (`Aggregation`): retention never runs while a rebuild job does. The
  code does not see to it: the two take different advisory locks. `HistoryKept` needs it
  and fails without; `NothingMissed`, `FloorComplete` and `EventuallyCounted` do not.
- `Remounts` (`Impressions`): the host disconnects its elements before the view
  changes, as an application that unmounts a page does. `OneSecondUninterrupted` needs it.
- `Recycles`: the host observes an element again without disconnecting it. It is
  FALSE in the runs: the replaced observation's timer is orphaned (see below).
- `Waits`: the host lets its captures end before it changes the view.
  `OneImpressionPerView` needs it; `OneSecondUninterrupted` and `PendingHasTimer` do not.
- `OneBatchOnePurpose` (client): a batch holds the whole queue, and no purpose is revoked
  but the one all events have. `NotStranded` and `Drains` need it.
- More connections than calls (acceptance): `NoStandstill` and `EveryRequestEnds` need it, since
  a request asks for a second connection while it holds its own (finding 2).

## Findings

Each has a run that finds a counterexample; the quotations are in `PROJECT.json`.

1. **Events of a denied purpose wait for a retry** (`revocation_drops_retries`).
   `revokeSideEffects()` aborts the fetch; the abort is an ordinary network error,
   so `runOneFlush()` requeues the batch and arms the timer. The documentation says
   that revocation drops in-flight retry state.
2. **A pool used up by commits** (`commits_are_counted`). `recordBatchIngestOps()`
   asks the pool for a second connection before the first is released. As many
   concurrent batches as there are connections commit and then wait for each other.
3. **A rebuild can lose history** (`history_kept`). The job reads floor and gaps once,
   before its transactions; a purge in between makes it replace a day by the
   events that are left.
4. **A card that has been scrolled away can be counted** (`one_second_uninterrupted`). After
   `confirmImpression()` the target stays in the map with its last ratio, and is
   no longer observed; in the next view a tab switch evaluates that ratio.

Seen while modelling, part of the models, without a run of their own:

- Legacy `track()` and `pageView()` enqueue after their await without looking at
  consent again (`LegacyFinish`; hence `UnsentHaveConsent` speaks of captured events).
- Revoking one purpose clears the one retry timer, so requeued events of other
  purposes wait for the next capture or flush (hence the condition on `NotStranded`).
- An event is sent up to `maxRetries + 1` times; the documentation can be read as
  `maxRetries`.
- An exception of a custom or legacy transport loses its batch without a report
  (`SettleThrown`).
- A failing counter after COMMIT is answered with storage-error, although the batch is stored.
- In `mergeOutcomes()` a stored event may be answered storage-error when its envelope was a
  duplicate at the first look and the batch holds others to store
  (`RefusedForCause` says it is stored then); and the item that repeats an event
  within a batch gets the outcome of the first one.
- `reset()` in the in-memory acceptance is not reached: nothing in these stores throws.
- A retention policy that deletes inbox rows of events it keeps fails at the foreign key.
- In `canFullyRecomputeLocalDay()` the test of the floor implies the test of the gaps:
  the proof of `HistoryIsKept` never uses the gaps.
- A host that confirms or cancels after the view has changed acts on the
  new view's subject (`Waits`), and one that observes an element anew leaves the
  replaced timer armed (`Recycles`).
- `revokeSideEffects()`, `destroy()`: a capture that was suspended still enqueues
  after `destroy()`; it is never sent (`QuietOnceDestroyed`).
- A worker that delivers again after a crash, or a retry after a revocation or a
  deployment with other versions, looks at consent and context of that moment: an entry that
  is stored already may be quarantined (the exceptions in `NoFalseQuarantine`).
- A worker that outlived its lease writes the row without looking at it: a published row
  may be failed and delivered again (`SettledStays` holds while no lease ends under its worker).
  The envelope store makes that harmless (`ImplementsTransactionalOutbox`).
- The first failing row is the first to be claimed again, at once: there is no backoff.
- Legacy `pageView()` marks its path after the whole flush, so it can mark it after a revocation
  has reset the marks; `OneImpression` speaks of page views with no such change since they began.
- Two page views of a path that overlap are both recorded in none mode.
- A session is cleared when neither analytics nor measurement is granted; a grant for what is
  necessary then lets legacy `track()` make a new one, and `setConsent("unknown")` takes consent
  back without clearing anything.
- A destroyed client's legacy calls still touch the session; a `clear` that the storage rejects keeps the
  id; with a storage that throws, every event has an id of its own.

## The proofs

TLAPS checks 40 theorems, for every value of the constants that the modules'
assumptions admit (`QueueAssumption`, `ClientAssumption`, `AcceptanceAssumption`,
`CollectorAssumption`, `AggregationAssumption`, `ImpressionsAssumption`, `OutboxAssumption`,
`SessionsAssumption`; TLC evaluates all of them in the runs). `TypeOK` of the client, the impressions and the sessions is proved and
not part of a run.

| Module | Theorems | Host assumption |
| --- | --- | --- |
| `EventQueueProofs` | `QueueMethodsAreLoops` (any queue within the capacity, any entries that come back, any time) | none |
| `BrowserClientProofs` | `TypeCorrect`, `NothingLostOrDoubled`, `RetriesBounded`, `QueueWithinCapacity`, `QueueOpsAreLoops`, `UnsentWithConsent`, `DestroyIsFinal`, `ClientKeepsPromise` (the refinement) | none |
| | `NoneStranded` | `OneBatchOnePurpose` |
| `ScopedAcceptanceProofs` | `TypeCorrect`, `EachStoredOnce`, `FirstWriteIsKept` (the refinement), `CountersAreTrue`, `OnlyThePoolStands` | none |
| | `SomebodyGoesOn` | `MaxCalls < PoolSize` |
| `BrowserCollectorProofs` | `TypeCorrect`, `AcceptedMeansStored`, `RefusalsHaveCause`, `FirstIsOne`, `AdmissionsAreBounded` | none |
| `AggregationProofs` | `TypeCorrect`, `FloorIsComplete`, `NoEventMissed` | none |
| | `HistoryIsKept` | `RetentionAlone` |
| `ImpressionsProofs` | `TypeCorrect`, `QualificationNotStuck` | none |
| | `OneImpression` | `Waits` |
| | `OneSecond` | `~Recycles`, `Remounts` |
| `OutboxProofs` | `TypeCorrect`, `OneWorkerDelivers`, `SettledIsFinal`, `OnlyBadEntriesQuarantined`, `AnswersAreTrue`, `OutboxKeepsItsPromise` (the refinement) | none |
| `SessionsProofs` | `TypeCorrect`, `SessionsDoEnd`, `ErasureHolds`, `MarksAreEarned`, `ImpressionsAreSingle` | none |

*Client.* The invariant is `IInv`: `TypeOK`, `Accounted`, `QueueBounded`,
`AttemptsCounted` and `FlightTracked`. `Accounted` alone is not inductive: a
verified answer would settle events that are not of the batch, and
an idle flush would be settled; `FlightTracked` excludes both. The retry counts need
the accounting (an entry that came back is the one that was sent). `EventQueueProofs`
holds what the queue's operators do, starting from how `At` picks the entries at
a set of positions: `RequeueProperties`, `TakeBatchProperties`,
`RemoveByIdsProperties`, `RemoveByPurposesProperties`. It also proves the closed forms equal to
the loops (`RequeueIsLoop`, `TakeIsLoop`, `WalkBackIs`): a function gives what a loop should have
after `i` iterations, one iteration takes its value at `i - 1` to that at `i`, and `FromZero`, an
induction over the set of good `i`, makes it the function that the loop is defined by. For
`removeByPurpose()` that function says that the last `i` entries have been looked at, so that splicing out
the next one back moves none that is still to be seen. `UnsentWithConsent` adds that
events between the awaits of the legacy calls are legacy events (`LegacyCalls`). For the
refinement `StepShape` says of every step, whichever handler took it, that it sends nothing or takes one
batch off the queue, and that no call and no fate is undone; with `StageIsPlace` (the stage of an event
is the place where `Accounted` has it) that is a step of the promise or a stutter. `NotStranded` is
not inductive: the answers that schedule nothing rely on what was pending while the batch
was out. `ComesForQueue` therefore demands the flush or the timer even while a batch is in flight.

*Acceptance.* `IInv` has three parts. `TypeInv` adds to the types how far a request is in its
batch at each label (`Bounded`). `WriteInv` is about rows: those a request has not committed come
in pairs, an inbox row and its event row, but for the one being inserted (`Paired`); nobody
else has a row for the same event, committed or not (`Exclusive`, from the wait of the
insert); a committed row's payload is in `ever` (`Known`). So a commit adds as many inbox rows as
event rows, and `StoredOnce` follows by counting disjoint sets. `TruthInv` says what each verdict of an
open transaction rests on (`Grounded`): its own row, a row it holds locked, a
fact of the past, or an item before it. Locked rows cannot change and `ever` only grows, so all
verdicts are still true at COMMIT, whatever other requests and retention did since. For the
refinement a request is decided at COMMIT, at a site that is not registered, and where a single
envelope is refused; every other step is a stutter, and the purge of an inbox row is `Forget`.
`CountersMatchFacts` compares a sum over requests with a set of rows; `TallyInv` says what each
request has still to count, and that what has been counted and what is pending make up the rows
stored. `NoStandstill` is an argument on waits: `LockInv` says that who is not in a transaction
holds no rows and no locks, so who waits, waits for a request in one. If all of those wait, a smallest
nonempty set of them in which each waits for a member is one that Postgres finds: each of its
members is waited for, or there would be a smaller one (`CycleFound`). What is left is a pool whose
connections are all held by requests that ask for another (`PoolExhausted`, finding 2).

*Collector.* `TypeInv` adds to the types how far a request is in its batch at each label
(`Placed`), and that an event is at most once among its envelopes (`Distinct`), so the look at
`batchPayloadHashById` never finds anything. `TruthInv` says what every answer rests on before the
browser sees it: each judged item has a reason that stays one while others store (`Settled`,
`ReadTrue`; the store only `Grows`), an envelope about to be added was not accepted by an earlier
item without one (`FirstOfBatch`), and what the adapter has said so far is true (`StoredTrue`). The merge then turns
these into `AnswerTrue`, from which `AcceptedIsStored` and `RefusedForCause` are read off.
`ClaimInv` says that whoever has been told "new" was alone in it: a claim needs an event that was
not stored and is now. For the limiter, a window's bucket counts everybody since its `Start`, and the request
that opened the window is one of them; it came at least a window's length before the next window
starts. So fewer than the limit can be within one window's length before a window (`WindowInv`), and fewer than twice
the limit across its start (`CrowdInv`). The clock moves by ticks and is bounded by the constant `MaxNow`, of any value.

*Aggregation.* Types come with two facts on locks: a job that has a lock is at a day, and
no two are at the same one. `MissedInv` adds to `NothingMissed` that what a job has
selected covers the rows it will replace, and, if it will delete the marker, every
event of the day but those yet to be marked (`SelectionCovers`). A purge in the middle only
shrinks `raw`, so nothing is needed of retention. `KeptInv` adds that counted
events are of their day, and that a job's floor is still the floor (this is where
`RetentionAlone` is used); the events of a recomputable day were received at or
after the floor and `FloorIsComplete` says that they are still there.

*Impressions.* `Typed` adds that what is watched has an observation, which knows its
element. `CallsAreCurrent` counts captures under way and accepted per view and
subject. `NothingBroken` ties what the observer remembers to what the browser
shows: the timers are those of current observations, and a sample that counts is no older
than the element has been visible (`Unbroken`), for elements that are watched or
already counted.

*Outbox.* `IInv` has three parts. `TypeInv` adds to the types what a task holds at each
label. `LeaseInv` ties the table to the workers: only the rows of jobs are listed, a
worker delivers the payload of its row, and, while no lease has ended under its worker, whoever
delivers an entry has its lease and its row is in processing. `TruthInv` says what
is true when it is carried around: facts are in `ever` and were asked for, what a process has read
was stored, what it carries was asked for, and its verdict has its cause. `ever`, the posts
and the counters only grow (`Grows`), so that a cause stays a cause until the row or the answer is
written. For the refinement every step is a stutter but those that commit a job, receive a
post, store, forget, publish or take back; `Acknowledge` needs that a "new" or "duplicate" verdict is
one about the row's own payload, which is `VerdictTrue` with `DeliversItsRow`.

*Sessions.* `SessionsEnd` is an action property, so `IdsKnown` says what the history `last` has to
do with the stored record: the record is never younger than the last use of its id. A storage that
rejects writes makes it older, which ends a session sooner. `ErasedInv` adds that nothing is
granted while the session is erased. `LiveInv` says that of a path that has an
undisturbed recorded page view in none mode the mark is still there, and that a page view under way overlaps
those that ended since it began; the actions are sorted into four kinds (`Begins`,
`Continues`, `Fails`, `Disturbs`), each treated once.

Model-checked only: liveness (`Drains`, `EveryRequestEnds`, `EventuallyCounted`,
`VisibleIsCounted`, `EventuallySettled`), which is beyond the prover, though `NoneStranded` and
`SomebodyGoesOn` prove the safety half of the first two.

## What is not modelled

- `ingestContractEvent()`: it looks at the stored envelope and appends, with an await in between, and
  takes no notice of what `append()` says of a duplicate. Planned.
- Legacy ingest handler: one request, one event, no state of its own.
- Registry, schema fields, sanitising, serialising, backoff, the pure visibility
  timer: functions without state.
- Identity modes and legal bases: they decide what an envelope says, not
  whether it is delivered.
- Preact bindings: effects that call the client and the observer, whose host
  `Impressions` models.
- Migrations: their keys are part of the statements that meet them; their steps are not.
- Metrics but the ingest counters; dimensions of an aggregate row; time-zone
  arithmetic (days are given, of any length); the checkpoints and watermark hints, which
  nothing reads; hash collisions.

## The plan

1. The client against the collector: `Respond` answered by `BrowserCollector`, with
   lost answers, so that "sent again" meets "stored once".
2. `ingestContractEvent()` over the in-memory stores, two calls of one id at once.
3. The Preact host of `Impressions`: mount and unmount as effects.
