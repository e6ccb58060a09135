# Verification of Savia's delivery and consistency protocols

TLA+ modules, TLC runs and TLAPS proofs about the parts of Savia that decide
whether work is lost, done twice or seen half done: the ways from a changed
record and from a cron occurrence to a workflow run, the quotas and the passes
that execute native runs, the replica that a browser edits offline, and the
barrier that makes a backup of several stores one moment. Paths are relative to
the repository.

## The system and its parts

Savia is a multi-tenant back office (records, forms, messaging, bookings,
insurance solutions) on Cloudflare Workers, D1 and R2, with a workflow engine,
Savia Flows, as a separate application. State lives in D1 tables; nearly every
protocol is a sequence of single SQL statements from concurrent isolates, with
leases, fencing tokens and retries around calls to other services.

| Part | State it keeps | Operations | Interacts with | What makes it correct |
|---|---|---|---|---|
| Collection event outbox (`packages/studio-server/src/collection-event-outbox.ts`, `apps/api/src/savia-flows/event-dispatch.ts`) | one row per event: status, attempts, lease | capture (trigger), claim, complete, retry, retention | posts events to the admission | nothing settled that Flows has not admitted; stale passes write nothing; every event settles |
| Event admission (`apps/flows/api/src/routes/savia-collection-events.ts`) | one admission per event and subscription | per subscription: reject, enqueue a receipt, or claim, authorize, run, mark | outbox, batches, executor, the host's authorization | one form of delivery per event; answered means decided |
| Event batches (`apps/flows/api/src/services/collection-event-batches.ts`, `queue.ts`, the retry route) | groups, items, execution ids, queue messages | enqueue, wake, claim, authorize, pack, submit, mark, complete, retry, defer, reset | admission, queue, cron, executor | no event under two executions; limits hold; no event left behind |
| Scheduled trigger claims (`apps/flows/api/src/services/scheduled-trigger-claims.ts`, `scheduled.ts`) | one row per occurrence: status, lease, fingerprints | claim, reclaim, mark, renew, release, complete, repair | workflow store, executor | Worker runs at most once; one definition per occurrence; closing is honest |
| Execution policy (`apps/flows/api/src/services/execution-policy.ts`) | reservations with leases, step counts, pause flag, policy generation | admit, consume a step, release, sync | every executor | quotas and pause hold under concurrency |
| Native runtime with webhooks (`apps/flows/packages/native`, `apps/api/src/workflows.ts`) | executions with a lease, job receipts, webhook attempts | claim, reserve, run a node, send, settle, cancel, retry | execution policy over a bridge, receivers, users | a node is checkpointed once and in order; sends are bounded; slots are returned; an outcome stays |
| Flows runtime (`apps/flows/packages/runtime`) | node graph of an execution | schedule nodes, replay | policy, stores | a node runs when its inputs are done; replay repeats nothing |
| Realtime hub and outbox (`apps/api/src/realtime`) | socket sessions, pending hints | publish, subscribe, recover | records, browsers | no hint lost for a live subscriber |
| Local-first sync (`apps/admin/src/local-data`, `packages/studio-server/src/local-sync.ts`) | browser: replica, outbox of edits, cursor, policy; server: versions, receipts, journal, deliveries | edit, push, pull, acknowledge, reject, resolve, quarantine, revoke | records, access policies, tabs over a Web Lock | no edit is lost, hidden or applied under another policy; the replica is complete up to its cursor |
| Notifications, WhatsApp, bookings, companion | job tables with claims | claim, send, confirm | providers | as for the outbox |
| Backup gate (`packages/backup-gate`, `scripts/production-backup-gate.mjs`) | one lease, the permits of writes in flight | enter, leave; acquire, drain, renew, capture, release | every D1 and R2 mutation of every worker | no write inside a backup; the gate reopens; permits come back |
| Records, plugins, authentication, connectors, user interfaces, insurance packages, infrastructure | rows and files | CRUD, adapters, presentation | - | - |

PROJECT.json lists every component with its sources and says which are
modelled.

What is hard here, and hard to test: passes, requests, flushes and cron
invocations overlap; each reads its clock once or now and then and keeps using
that value; isolates die between two statements; answers and queue messages
are lost, repeated and late; subscriptions and workflows are edited between
two statements of a delivery; D1 and R2 are written one after the other;
leases run out under a slow owner; requests are handled after their sender has
gone on; several tabs edit one replica while a pass pushes it and permissions
change. PROJECT.json lists these hazards by line.

## Modules

| Module | What it is |
|---|---|
| `CollectionEventOutbox` | the outbox table, its trigger, any number of dispatch passes |
| `CollectionEventOutboxProofs` | proofs about it and about the composition |
| `EventPipeline` | the outbox composed with `EventDelivery` |
| `ScheduledTriggerClaims` | the occurrences of one workflow, any number of cron invocations, its editors |
| `OccurrenceLedger` | abstract specification: what the claims promise |
| `ScheduledTriggerClaimsProofs` | proofs, with the refinement of the ledger |
| `EventDelivery` | abstract specification: what Flows promises about the delivery of events |
| `CollectionEventAdmissions` | requests for one event, over all subscriptions of the tenant |
| `CollectionEventAdmissionsProofs` | proofs, with the refinement of the delivery |
| `CollectionEventBatches` | the minute groups of one batched subscription, with queue, cron and manager |
| `CollectionEventBatchesProofs` | proofs, with the refinement of the delivery |
| `ExecutionPolicy` | the calls of the quota service, statement by statement, from callers of any kind |
| `ExecutionPolicyProofs` | proofs about it |
| `NativeWorkflows` | the passes that execute native runs; extends `ExecutionPolicy`, whose callers are the passes |
| `NativeWorkflowsProofs` | proofs, with the refinement of the policy |
| `BackupGate` | the coordinator, guarded writes, backup runs, late requests |
| `BackupGateProofs` | proofs about it |
| `LocalSync` | one collection's server, one browser's outbox and replica, its pass and its users |
| `LocalSyncProofs` | proofs about it |
| `MC...` | symmetry sets and function constants for TLC, where a module needs them |

Conventions. One SQL statement, or one D1 batch, is one action; so is one call
to another service together with what its answer decides. A process that died
is back at `idle`, its locals reset, what it had stored kept. Deadlines are
modelled by what comparisons can tell apart. Definitions whose name ends in a
word after an underscore are mutated forms of the definition below them, kept
to test that the properties notice; no specification uses them.

### CollectionEventOutbox

Each column is a function of the event. `StartPass` takes the clock once
(`at[d]`) and removes delivered rows past their retention. `Claim` leases up
to `ClaimLimit` rows, oldest first, under a fresh token. `Send` is one POST:
Flows may or may not admit the event, and the answer may be lost either way.
`Complete` and `CompleteLost` are the UPDATE with and without effect, each
possibly followed by an error, `ReadAttempts` and `Retry` the two statements
of a retry, `Crash` a dying isolate. Time is an absolute clock up to `Horizon`;
deadlines beyond it are clamped to it.

### ScheduledTriggerClaims

A handler runs `Begin`, `Load` (definition and fingerprint), then the claim
statement by statement: `Insert`; or `Look`, `Check` (the configuration may
make it obsolete), `Recheck`, `Settle` or `Reclaim`, `Adopt`; then `Mark`,
`Run`, `Complete`. `Renew`, `Release` and the errors are separate. `WriteRow`
and `WriteData` are the two writes of a save. Time is relative: `left[o]` is
what remains of a lease, `age[h]` how old a handler's clock value is, so that
no horizon is needed. A lease token is identified with the attempt that wrote
it. `MaxAttempts` is a bound of the model: the code has no such limit.

`OccurrenceLedger` has an outcome and a sanction for each occurrence. A Worker
run is sanctioned once, a durable run may be sanctioned again because it keeps
its execution id, and an outcome is written once and agrees with the sanction.
The mapping makes the outcome from the status, and the sanction from the mark
and the recorded fingerprint.

### EventDelivery

A delivery is one event for one subscription. It is taken in once and in one
form (`TakeIn`): inside the host's request, or as a durable receipt. Runs begin
and deliveries are accepted (`Run`) or skipped (`Skip`), the host is told
(`Tell`), and a changed subscription loses its claim to earlier events
(`Withdraw`). No request, flush, lease or queue appears. The outcome of a
receipt is final; inline requests that overtake each other may replace theirs
(the UPDATE to `skipped`, `savia-collection-events.ts:179`, asks for no status),
but never reopen it. Both the admissions and the
batches implement it, each through `DeliveryForm`, `DeliveryOutcome`,
`DeliveryBegun` and what was told.

### EventPipeline

The outbox meets Flows in one place, the POST of a pass. `EventPipeline` joins
`CollectionEventOutbox` and `EventDelivery`, for all events and subscriptions,
there: in `Admit` a `Send` that Flows admits for the first time is also the
`Tell` of all deliveries of the event that have a claim. All other steps of the
outbox (`HostStep`) and of the delivery (`FlowsStep`) are independent.
`withdrawn` records the deliveries without a claim, because the subscription was
changed, deleted, or made after the event. `SettledIsHandled` is the promise from
end to end: a row that is settled, and that retention may purge, leaves nothing
undelivered. That Flows is an `EventDelivery` is what the next two modules
show, the admissions only while no subscription watches fields (finding 1).

### CollectionEventAdmissions

A request reads the active subscriptions and visits them one by one. A batched
one is rejected at once (`RejectedUnseen`) or gets its receipt (`Enqueue`, one
step here, in detail in `CollectionEventBatches`); an inline one goes through
`Insert`, `Look`, `Claim`, `Authorize`, `Reread`, `Run`, `Accept` or `Skip`.
A refusal ends the request, and the host delivers again. `Configure` saves or
deletes a subscription, `GrowStale` lets a minute pass. The verdict of the
host's authorization is a choice. That a deleted trigger which is saved again
may carry an older time is left out. For `EventDelivery` the deliveries are the
subscriptions; one is begun when its run has started or its receipt was
accepted, and it is told when the request was answered while the subscription
expects the event.

### CollectionEventBatches

Posts store an admission with its group and item (`Store`), decide whether a
wake-up must be sent (`Look`, `Adopt`, `SendWakeup`) and confirm it. A flush is
started by a wake-up or the cron, claims a group, reads its items, rejects
some, reads the subscription again, fixes execution ids (`Pack`, `Assign`),
renews, submits, marks, counts, completes; `Retry` is the catch block. An
execution id is a hash of the events packed under it and is modelled by that
set. The lease condition of a statement compares with the clock of that
statement: it may hold as long as the row carries the flush's token (`Holds`)
and fail as soon as the lease has run out (`Lost`). A wake-up redelivered
after a failure waits at least as long as the group does; one redelivered
after a deferral or a crash does not. For `EventDelivery` the deliveries are the
events, all with receipts; begun are those of any run, told the acknowledged.

### ExecutionPolicy and NativeWorkflows

The policy keeps a row per run: `reserved`, `active` and the lease, which is
`leased` as long as it lies in the future, and the counted `steps`. A call is
two to four statements, and `call[c]` says between which of them it is. It
reads the clock once; `aged` holds the leases that ran out afterwards and that
the call still takes for live. `PolicyNext` lets callers make any calls in any
order.

`NativeWorkflows` is the composition: a pass is a caller. `Claim` takes a due
run under a fresh lease, `StartAdmit` and `StartStep` start the policy's calls,
`PolicyStatement` lets them run, `Denied` and `StepRefused` take their refusals,
`RunNode`, `Record`/`SendWebhook`/`RecordAnswer` and `CompleteEmpty` are the
transactions of a node, `Fenced` and `AnswerFenced` what happens when the lease
was lost, `Look` and `ReturnSlot` the end of a pass. A lease that has run out is
in `overdue`: the fence then may shut (it compares with a time read before) and
another pass may claim. The refusal codes are kept because they decide: a pause
or an unreachable policy requeues with the attempts reset, a full policy
requeues until the attempts are used up, a spent budget blocks, and the rest is
final. `workflow_jobs` has a primary key that also refuses a second receipt of a
node; it is left out, so `NodesOnceInOrder` shows that the fence suffices.

### BackupGate

The coordinator is a durable object and handles one request at a time. A
request whose caller has given up was handled, or is lost, or is in `late` and
may be handled at any later time. A write is `enter`, the mutation, `leave`,
each request with its attempts; `adrift` is a mutation whose isolate died after
sending it. A mutation whose call is rejected may have been stored or not. A backup run verifies the writers, acquires, drains, copies twice
(`first` stands for the databases, `second` for the buckets), checks its lease
and the permits, releases. `Renew` runs beside it. The script compares its own
clock with the lease's end; since clocks are not compared across machines,
`Abort` may happen at any time instead.

### LocalSync

The server has a document per record with its version, the journal's latest
sequence, receipts by mutation id, a policy revision and the `delivered` set of
the revision. `Check` is what a push tests before its transaction, `Commit` the
transaction with its guards and receipt. The browser's `box` is the outbox with
the conflicts; a pass is `FetchManifest`, `AcceptPolicy`, `RefreshManifest`,
`ListOutbox`, then `Push` and an answer for each listed edit, then pages of
`Pull` and `ApplyPull`. Users of any tab act between its steps: `Mutate`,
`AcceptMaster`, `RetryWithLocal`, `RetryMutation`, `Discard` (of an error or a
conflict), `DiscardQuarantined`. What an aborted
pass had sent is still handled (`late`). The fields of a document are abstracted
to the set of edits it contains (`has`), each edit setting a field of its own, so
that an edit that goes missing from a document is seen.

## Runs

Bounds are the constants of each cfg.

| Run | Instance | Shows |
|---|---|---|
| `outbox_safety` | 2 events, 2 passes, 2 attempts, clock to 2, 1 crash | no event under two live leases; settled means received; stale passes fenced |
| `outbox_liveness` | 2 events, 1 pass at a time, claim limit 1, clock to 3, 2 crashes | every captured event settles, though one may fail for ever ahead of it |
| `claims` | 2 handlers, 1 occurrence, a Worker and a durable version, 3 leases, stalls as long as a lease, 1 edit, 1 fault | at most one Worker run, one definition, one run per lease, honest closing, the ledger, and that a claim is closed in the end |
| `batches_safety` | 2 flushes, 2 events in one group, 1 stall, 1 error, 1 deferral, a subscription that is disabled | no event under two ids; accepted means run; decisions only under the lease; the abstract delivery |
| `batches_recovery` | chunk and backlog limit 1, 1 flush, 1 crash, 1 error, 1 manager's retry, cron | limits; acknowledged means durable; events are handled |
| `admissions` | 2 overlapping requests, an inline and a batched subscription, 1 change, 2 errors | receipts own their event; accepted means started; delivered means decided; decisions stay; the abstract delivery; admission ends |
| `native` | 2 passes, a run with a webhook and a delay, a run of one write, 1 slot, 2 runs a day, 3 steps, 2 attempts, 2 sends, 1 event | nothing admitted beyond the slots, but a slow step may renew its own lapsed lease; steps keep their limit; nodes once and in order; sends bounded; slots come back; outcomes stay; runs end |
| `backup` | 1 write, 2 backup runs, 3 attempts, a lease of 2 ticks, 3 faults | a successful backup is one moment; a write in flight has its permit; the gate reopens; permits come back |
| `local_sync` | a record that exists and one to be created, 3 mutation ids, 1 change by another writer, 1 event, pages of one row | no edit lost; edits stay in view; the replica complete up to its cursor; applied as made; the outbox drains |
| `admissions_watched` | a batched subscription with watched fields | violated, finding 1 |
| `batches_stranded` | 2 events, 1 flush, no failure | violated, finding 2 |
| `batches_deferred` | 1 event, 1 deferral, no cron | violated, finding 3 |

Why these bounds. The properties of the outbox and the claims are about two
owners of one row, so two processes show every race; a third repeats one of
them (the proofs hold for any number). Two events give a batch that is packed
differently the second time, and with limits of one an admission beyond each
limit. In `backup` one write shows what a permit protects, the second
backup run what a lapsed lease lets in, and three faults are the attempts of one
request. In `native` two passes overtake each other, the single slot makes them
wait for it, and the step quota of three is what the longer run needs, so that
one repeated step exhausts it. In `local_sync` three ids are an edit, one that
follows it, and a retry; one event per behaviour keeps it within minutes.
Counters of crashes, errors, stalls and edits are at the smallest value
for which the mutants of PROJECT.json are caught and every disjunct of the next-state relations is taken.

Two properties reach further than their runs. In `native` one event leaves no
room for a manual retry together with the faults that would use up the sends of
two generations: that part of `SendsBounded` rests on the proof
`RequestsAreBounded`. And `AckedIsKept` looks at receipts and groups, not at the
queue: a wake-up that was announced and never sent is what `EventsHandled` excludes.

Deadlock checking is off: each model may stop, when every event is settled and
the bounded faults are used up.

### Fairness

* Outbox: the API's cron starts a pass every minute and awaits it
  (`apps/api/src/runtime.ts`), and time passes. Overlapping passes that always
  outlive their leases could starve an event; the liveness run has one pass at
  a time.
* Claims: the Flows cron calls the handler, which first lists what expired; a
  live handler moves on. If leases are lost again and again the model stops at
  `MaxAttempts`, and the property says so.
* Admissions: the outbox delivers until it is answered. The property excepts
  an admission that was begun in one delivery mode when the subscription is
  changed to the other (`Crossed`): each later request refuses it. A batch
  receipt whose wake-up failed is not taken by the inline claim
  (`savia-collection-events.ts:152-177`), and an inline admission whose request
  died is not taken by the receipt.
* Batches: requests and flushes move on, queued messages are delivered, time
  passes, the cron fires where there is one (`CronRecovers`; cloud deployments
  configure `crons: []`). Executions are not paused for ever. That a lease ends
  under a live flush is possible, never assumed.
* Native runs: passes are started by every tick and a living pass goes on. Due
  runs are claimed oldest first, so a run that is due again and again is claimed
  in the end (strong fairness of `Claim`, per run). Leases that nobody works
  under run out. `RunsEnd` excepts a pause.
* Backup gate: a living writer and a living run go on (the script's drain has a
  timeout, its capture a deadline), and the lease's time passes. Dying and
  failing are never assumed.
* Local sync: the coordinator of a tab starts passes for ever, at most a minute
  apart (`apps/admin/src/local-data/sync.ts:344`), and the server handles
  what it has received. Users and sign-ins are not assumed: an edit that waits
  for the user waits.

## Findings

1. **Watched fields and grouping** (`admissions_watched`). The dispatcher
   empties `changedFields`, the batch branch filters by it: a grouped
   subscription that watches fields never runs, and its events are answered as
   admitted. Inline subscriptions get the fields from the host and are not
   affected.
2. **Events stranded in a completed group** (`batches_stranded`). Items are
   counted and the group completed in two statements, and an item may be added
   to a group in any status. A pass that outlives its minute is enough: the
   request takes its minute from a clock read before it stores.
3. **Deferred groups lose their wake-up** (`batches_deferred`). A pause or quota
   defers a group by an hour and its message by a minute; the message finds
   nothing due and is acknowledged. Without a cron nothing comes after it.

Further disagreements, described here and visible in the models, without a run
of their own:

* **Manual retry of a native run.** A pass whose run failed completes the run's
  reservation (`apps/flows/packages/native/src/runtime.ts:282`), and `admit`
  answers a completed reservation with "Execution has already finished"
  (`apps/flows/api/src/services/execution-policy.ts:285`). A run that is retried
  by hand is therefore blocked, although `docs/workflows.md:179` says "Manual
  retry resumes the failed step, never prior jobs."
* **Deletions that no pull had delivered.** A pull sends the deletion of a
  record only if an earlier pull under the same policy delivered it
  (`packages/studio-server/src/local-sync.ts:238-266`). A record created in this
  browser, acknowledged, and deleted by somebody else before the next pull stays
  in the replica while the cursor passes over it; `ReplicaCurrent` excepts it.
* **Resolutions show an old version.** `acceptMaster` and `discardMutation`
  restore a document as it was when the edit was rejected or made; `applyPull`
  had passed over newer ones because the edit protected the record.
  `ReplicaCurrent` excepts these records until their next download (`byHand`).
* **Edits of one record out of order.** A pass works on the list it made at its
  start. An edit that is retried meanwhile gets a new id, is not in the list and
  no longer stops the record, so later edits of it are pushed before it; the
  server then rejects one of them by its version, and the user decides.

* **Refused submissions that are taken for accepted.** The submission of a group
  recognises refusals by the words of their error
  (`apps/flows/api/src/services/collection-event-batches.ts:1052-1061`). One that
  they do not cover, such as the node limit
  (`apps/flows/api/src/services/execution-policy.ts:273-275`), leaves its events
  accepted though no node ran. In the model a submission that returns has run;
  `AcceptedRan` says which run an accepted event belongs to, not what came of it.

The guide names one more gap itself (a manager's retry that dies before it
sends its wake-ups); it is in the model as a bounded failure but no run
restates it.

## Proofs

`CollectionEventOutboxProofs`, for every number of events, passes and tokens and
all limits, from `OutboxAssumption`: `TypeCorrect`, `LeaseIsExclusive`,
`DeliveredWasReceived`, `WritesAreFenced`, `SettledRowsStay`, `GivenUpLast`.
None of the first three safety properties is inductive. `IInv` adds what the
locals of a pass are in each phase (`PassShape`), that passes do not share tokens
(`DistinctTokens`), and the heart of it, `LeaseKnown`: the row of an event that
a pass still works on is leased to it until the deadline that the pass's own
clock value gives, or that deadline has passed, or the pass itself settled it.
Two passes that both work under running leases would then both own the row's
one token. `CompletesReceived` carries the receipt from `Send` to `Complete`.
`SeenCounts` says that the count which a retry has read is never ahead of the
row's. In the composition each part keeps its specification by the way it is
built (the lemma `PipelineComposes`); `SettledAreHandled` then follows from `NoEventLost`, from
`Promise`, an inductive invariant of `EventDelivery` alone (what the host was told
is durable or decided, what is accepted has run), and from `Answered`, which ties
the two: each delivery of a received event was told or withdrawn.

`ScheduledTriggerClaimsProofs`, for every number of handlers, occurrences and
versions of the data, every lease time and stall, from `ClaimsAssumption`:
`TypeCorrect`, `WorkerAtMostOnce`, `RunsShareDefinition`, `LeaseStartsOneRun`,
`CompletionIsEarned`, `WorkerIsAccountedFor`, `TakeoverAfterExpiry`,
`Refinement`. The invariant says what a handler knows in each step
(`HandlersOK`), how the columns of a row agree (`RowsOK`), that a running
handler marked its token alone and has not run yet (`RunnersOK`), and what the
recorded runs are (`RanOK`); `RunsCounted` ties their number to them. The
argument is that a token is marked at most once, because the mark asks for
`claimed` and each new claim comes with a new token; that a marked Worker
occurrence never becomes claimed again; and that a row keeps its fingerprint.
`Refinement` maps each step to `Sanction`, `Close`, `CloseAll` or a stutter.

`BackupGateProofs`, for every number of writes and backup runs, every number of
attempts, every lease time and any number of faults, from `GateAssumption`:
`TypeCorrect`, `WritesAreCovered`, `BackupIsOneMoment`, `LeasesAreHonoured`.
`OneMoment` is not inductive: its run may lose the lease between the copies, and
notices only at its check or its release. `IInv` says what a lease that is still
held implies (`Sealed`: no permit exists, and the storage is what the run has
copied so far), that a run which passed its check copied one state (`Checked`),
that every write in flight has its permit (`PermitCoversWrite`), that capturing
runs have verified every writer (`Covered`, `UngatedPass`), and that late
requests can neither give a capturing run a second lease (`LateOwners`) nor
return the permit of a mutation that has not landed (`LateLeaves`). So either
the lease was held throughout, and nothing could be stored, or the check fails.

`ExecutionPolicyProofs`, for any number of callers, runs and generations and all
quotas, from `PolicyAssumption`: `PolicyTypes`, `ConcurrencyIsBounded`,
`LimitIsExact`, `BudgetIsKept`, `PauseIsSticky`. What a call counts with its outdated clock
includes every live reservation (`CountsLive`), so room that it finds is room
there is (`OneMore`, `RoomIsEnough`). The only step that makes a reservation live
without counting is the renewal of a run's own lease by a clock value read before
that lease lapsed (`Renews`): its slot may have been given away meanwhile, so
live reservations can exceed the limit. `ConcurrencyBounded` is therefore a
property of steps: no other step adds to more than the limit, so an excess ends
before anything is admitted. `LimitIsExact` states the limit itself, where no step
is that slow (`Prompt`).

`NativeWorkflowsProofs`, for every set of passes and runs, every flow and all
limits, from `PolicyAssumption` and `NativeAssumption`:
`NativeImplementsPolicy` (each step of a pass is a step of `PolicyNext` or
leaves the policy alone, so `PolicySpec` is implemented and
`ConcurrencyIsBounded`, with its exception, carries over as `NativeConcurrency`), `NativeTypes`,
`NodesAreOnceInOrder`, `EndedRunsStay`, `SlotsAreAccounted`,
`RequestsAreBounded`, `WorkIsAlwaysMetered`. For the
nodes the invariant adds `Current` (a pass that still holds its run was claimed
at the run's present node) and `Sending` (a pass that sends is at a webhook);
for the slots `Owned` (a live reservation belongs to a pass between its
admission and its release, or is in `leaked`) and `Calling` (where a pass is
when one of its calls is under way). The requests are paid for by attempts:
`SendsCounted` says that what left for a webhook node, with the passes that are
about to send for it, is within what was recorded at the run's node and three
per earlier generation; only a pass whose node is the run's records, by
`Current`. `Metered` does the same with steps: each one counted is in the hands
of one pass until it becomes a checkpoint or a request, or is spent for nothing.

`CollectionEventAdmissionsProofs`, for every set of subscriptions and of
overlapping requests and any number of changes and failures, from
`AdmissionsAssumption`: `TypeCorrect`, `ReceiptsOwnEvents`,
`AcceptedMeansStarted`, `DecisionsStay`, `DeliveredMeansDecided`,
`DeliveryIsImplemented`. `IInv` says that a request past its claim works on an
inline admission which nothing turns into a receipt, and has started the run when it is
about to accept (`HandOK`), that the form of an admission fits its status
(`FormOK`), and that what has started is no receipt (`StartedOK`). `Covered`
carries the answer: each subscription that expects the event is decided, in the
request's hands, or still before it, and the configuration that the request read
at its start is not newer than the event. The last two theorems assume `NoneWatches`, that no subscription
watches fields; finding 1 is what happens otherwise.

`CollectionEventBatchesProofs`, for every number of events, posts and flushes,
every limit and any number of failures and lost leases, from
`BatchesAssumption`: `TypeCorrect`, `AcknowledgedIsKept`, `BacklogIsBounded`,
`ChunksAreBounded`, `EventsRunOnce`, `AcceptedEventsRan`,
`DecidedUnderTheLease`, `DeliveryIsImplemented`. `Receipts` ties admissions to
items and items to groups; only `Store` enlarges the backlog, and it counts in
the same statement. `FilledUpTo` says that the chunks of a minute are filled one
after the other, so that the quotient of the bucket's count names the one with
room. The heart is `Work`. `IdsOK` says that an id stands for events of one group
and that the run of an id has only its events and all that are pending.
`HeldOK` says that a flush that still holds its lease knows every id in its
group, because nobody else gives any there; `HandOK` what a flush keeps in hand
even when it was overtaken: the chunk that it submits is all of its id that is
pending. So an overtaken flush that submits late submits the same run, and
accepts only events that are in it.

`LocalSyncProofs`, for every finite set of records and any number of edits,
faults and policy changes, from `LocalSyncAssumption` and `NoneIsNoDocument`:
`TypeCorrect`, `EditsKept`, `EditsAppliedAsMade`, `EditsStayInView`,
`ReplicaIsCurrent`. For the first safety property
`Conserved` follows an edit from the outbox to the document: numbers are never
used again (`Numbered`), a request, on its way or late, asks for what is queued
under its number (`Faithful`), and a receipt means that the server has the
edits of its number (`ReceiptsTrue`); so what an acknowledgement removes from the outbox is not lost. For the second, `Made`
says under which revision a request or queued edit was made, `OneCall` that a
pass waits for one answer at a time, and `Revisions` that the browser never knows
a newer policy than the server. `retryWithLocal` alone re-creates old edits under
a new number; `YoungIsOwn` shows that the only time it can happen to a record the
server never had, all edits shown are the browser's own of the current policy.
The first and last edit of a record are least and greatest elements of a set of
numbers; that they exist is the lemma `Extremes`.

`EditsStayInView` rests on `LaidOut`, which relates the queued mutations of a
record to one another: an edit of one is in view and in the document that any
later one was laid over (`before`), and what is in view, or in a later `before`,
was in the `before` of an earlier mutation or is an edit queued at or after it.
The first half alone is not inductive, because `discardMutation` and
`retryMutation` lay the later mutations over the `before` of the one resolved
and forget what was shown. Edits that the user gave up are excepted: when
`acceptMaster` has accepted that the record is gone, a later `retryWithLocal`
re-creates all that is shown, edits given up included, and a retry or discard
of another mutation takes them from view again. `Tidy` says that documents are
put aside exactly while the collection is not known. `ReplicaIsCurrent` rests on
`Current`: later changes have greater numbers than the cursor and the end of a
page (`Reached`), a page has all records numbered between the two unless they
change again (`PageCurrent`), and a positive answer is what the server has unless
the journal is past the cursor (`AnswerCurrent`).

The type invariants of these modules, `BudgetKept`, `PauseSticks`,
`SettledStays`, `WorkerNeverDropped`, `LiveLeaseKept` and `LeaseHonoured` are
proved and for that reason have no run, and so is `GivenUpAfterLimit`. The
refinement of the policy and the composition `EventPipeline` are proved only.

Every leaf of the proofs is kept small enough to be found in about a tenth of the
provers' default time, so that a slower machine finds them too. That is why the
typing of a large step is split into lemmas named for their action (`MarkType`,
`ClaimType`, `SettleType`...).

Only model-checked: every liveness property (temporal reasoning under fairness
is out of the prover's reach).

## Simplifications

* One event (admissions), one workflow (claims), one batched subscription
  (batches); these do not share rows with others except through the
  organization's backlog limit, which the batches' `Capacity` stands for.
* The queue's five deliveries and dead-letter queue, the concurrency of its
  consumer (one in the cloud, where leases then guard against cron, restarts
  and timeouts), and payload size limits are left out. A chunk closed early by
  its size is a smaller set in `Pack`.
* A repeated submission of an execution id finds the first run. A Worker run
  that died before it was stored is repeated by the executor; which nodes
  then run again is the runtime's matter.
* Execution policy: the day stands for both budget windows, the node limit is a
  property of the definition. An `INSERT` under way over midnight counts into the
  day it has read.
* Native runs: a pass leaves a policy call only when the call has ended or the pass
  has died (the bridge in `apps/api/src/workflows.ts` sets no timeout). An `inner` node stands for every kind whose effect is in the
  transaction of its checkpoint; wake-up times are waits without a length. New
  runs from the schedule, publication, inbound webhooks and the task inbox are
  left out.
* Backup gate: a storage call that was rejected is not executed after its rejection
  (one whose isolate died is: `adrift`). The capture is two copies. The script's own comparison of D1
  bookmarks and bucket inventories, a second and independent check, is left out,
  so `OneMoment` does not lean on it.
* Local sync: one writable collection and one browser. Left out are bundles of
  related records, link snapshots, read-only and remote collections, rows or
  single fields that a policy hides, hard deletes, the automation that a
  committed edit triggers, and what happens when storage is full or the browser
  has no Web Locks (synchronization stops). A sequence number of the journal is
  taken to become visible in its order, as D1 serializes; on PostgreSQL a
  number is given out before its transaction commits, and a cursor could pass
  over it.
* Not modelled in these components: retention sweeps of occurrences, admissions
  and groups, cron expressions, before and after conditions.

## Not modelled

PROJECT.json gives the reason for each component. Most of the repository's
lines are user interface, translations, generated API descriptions, insurance
forms and calculations, provider adapters, tests and provisioning: presentation
or request-and-response code without a protocol of its own. Of the rest, the
realtime outbox, notifications, bookings, companion and WhatsApp jobs, and the
Flows node graph are protocols that later work may take up.

## Plan

1. Done: outbox, claims with ledger, admissions and batches with the abstract
   delivery, execution policy, native runs, backup gate, local sync, the
   outbox composed with the delivery, and proofs of each.
2. The realtime outbox and the queue's delivery limit.
