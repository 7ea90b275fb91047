# A verification development for MAXIM

MAXIM is a moderation and publishing bot for the MAX messenger: a NestJS API
(`apps/api`), two web clients (`apps/miniapp`, `apps/admin`), PostgreSQL for durable
state, Redis with BullMQ for queues, and a dozen processes that run the same image in
different roles (ingress, enqueue, moderation shards, action, publisher, background).
A MAX webhook is verified and stored by the ingress, turned into jobs by the enqueue
role, evaluated by the moderation workers, and ends in *actions*: requests to the MAX
API that other people see. `docs/project-description.md` promises that an action is
executed through a ledger and protected against an ambiguous repetition. This directory
models that promise and the protocols it stands on: how an update is delivered to its
handler, which process consumes a shard of updates, how sanctions of one member are
serialized, and how media preparation is admitted.

Contents: [inventory](#inventory), [modules](#modules), [send path](#the-send-path),
[member actions](#member-actions), [webhook delivery](#webhook-delivery),
[shard leases](#shard-leases), [lease plan](#the-lease-plan),
[sanction lock](#the-sanction-lock), [media admission](#media-admission),
[runs](#runs-and-bounds), [fairness](#fairness), [proofs](#proofs),
[not modelled](#not-modelled), [plan](#plan).

## Inventory

| Component | State it keeps | Operations | What is hard | What makes it correct |
|---|---|---|---|---|
| Action ledger (`max/max-action-ledger.service.ts`) | one row per action key: status, ambiguous, terminal, attempts, dispatch fence (token, bot), remote message id, last error | enqueue, start, prepare, claim, complete, release, quarantine, fail, clear, repair | every statement may commit and still report an error; statements of overtaken workers arrive late | a fence covers every request that may succeed; a receipt is real and permanent; a quarantine is not forgotten |
| Client and queued send (`max/max-client.service.ts`) | nothing durable of its own | enqueue with a repeated `Queue.add`, immediate execution, POST, classification of the answer | timeouts, 5xx and replies without an id say nothing about delivery | at most one message per key; an unknown outcome is never called a failure |
| Action dispatch and workers (`max/max-action-dispatch.service.ts`, `max-action.processor.ts`) | the BullMQ job | take, check, candidate loop, settle, stall | a stalled job runs beside its replacement; failover to another bot with the same key | the next bot is tried only after proof of no effect |
| Ledger watchdog (`system/max-action-ledger-watchdog.service.ts`) | none | select stale rows, observe the queue, compare-and-set an outcome, requeue member actions | acts on a row and a queue read at two earlier moments | never takes a fence or a receipt; every row settles |
| Member actions (same ledger) | rows of KICK, BAN, UNBAN for one member | start under an advisory lock, settle, watchdog requeue | exclusion through the *other* rows' statuses | no two conflicting member actions under way |
| Webhook outbox (`webhook/webhook-outbox.service.ts`) | webhook event rows, BullMQ jobs | activate, add, handle an existing job, back off, repair | crash between the activation and `Queue.add` | no event is lost, no activation survives without a job |
| Default webhook leases (`moderation/default-webhook-lease-manager.service.ts`) | Redis claims, handoffs, heartbeats; local workers | claim, renew, release, hand off, plan, close | late closes, stale plans, death between handoff and release | one consumer per shard generation; an orphaned shard is taken over |
| Canonical execution (`moderation/webhook-canonical-execution.service.ts`) | business leases of webhooks | acquire, heartbeat, complete, reject, quarantine | a timed-out handler finishing late | one business effect per event |
| Command notices (`common/group-command-notice-recovery.ts`) | a journal in the claim, one ledger row | certify after a failed handler, recover: send, book, expire | a second lease holder beside the one that failed; answers and settlements that are lost | the command is never applied again; an attempt is never booked as a message |
| Delete intents (`moderation/moderation-delete-intent*.ts`) | intent rows with leases | claim, dispatch, settle, reconcile | a lease proof that runs out between check and request | no delete after a lost lease |
| Sanction state lock (`moderation/moderation-sanction-state-lock.service.ts`, `redis-counter.service.ts`) | Redis key and a local deadline | acquire, renew, assert, release | a renewal answered late or not at all | two holders never both believe |
| Admission (`common/media-byte-admission.ts`, `prisma/connection-admission-pool.ts`) | budget and waiter queue | acquire, abort, expire, release | releases inside the callbacks of other waiters | the budget is never exceeded, no waiter is stranded |
| Shutdown (`runtime/runtime-worker-shutdown.ts`) | a registry of workers | pause, close, force | the grace deadline races pauses still settling | every registered worker is closed |
| Night mode, suggestions, broadcasts, publisher | rows of their own | schedules and publications | repairs that reopen a ledger row | a repair only reopens what was provably not delivered |
| Rules and content analysis, statistics, authentication, caches, clients, infrastructure | | | data transformation, CRUD, UI | |

Interaction on the action side: producers call `MaxClientService`; it adds a BullMQ job and writes the
ledger; action workers read the ledger, call MAX and write the ledger; the watchdog
reads both; repairs of night mode, suggestions and broadcasts rewrite the ledger row
without going through the queue. All of them share only the row and the job, so every
protection is a condition in a SQL statement.

On the delivery side: the ingress stores a receipt; outbox pollers turn receipts into
BullMQ jobs; the group that holds the lease of a shard runs the BullMQ worker that takes
them; the worker runs the handler under a business lease and settles receipt and claim
in one transaction. Pollers and workers share the receipt, the claim and the jobs.

`PROJECT.json` lists the hazards with the line where each bites, and the properties that
would catch it going wrong. Two have none, with the reason there: the lease of a delete
intent, and the connection pool.

## Modules

| Module | Models | Proofs |
|---|---|---|
| `MaxActionLedger` | the ledger row of one key and the statements on it: `XxxWhere(r)` is the WHERE clause of a statement, `XxxSet(r)` the row it leaves | |
| `MaxSendDispatch` | one `SEND_MESSAGE` key: producer, workers, job, MAX, watchdog, repairs (EXTENDS the ledger) | `MaxSendDispatchProofs` |
| `SendOutcome` | the abstract specification of a key: what a caller may believe about it | refinement in `MaxSendDispatchProofs` |
| `MaxMemberAction` | the member actions of one member of one chat (EXTENDS the ledger) | `MaxMemberActionProofs` |
| `WebhookState`, `WebhookOutbox`, `WebhookExecution`, `GroupCommandNotice`, `WebhookDelivery` | one received update: the shared receipt, claim and jobs; the pollers; the workers; the recovery of a command notice; their composition and its properties | `WebhookDeliveryProofs` |
| `DefaultWebhookLease` | who consumes one shard: claim, handoff and heartbeat keys, the sync pass, the workers of every group, the shutdown | `DefaultWebhookLeaseProofs` |
| `DefaultWebhookLeasePlan` | the planning loop over all shards | `DefaultWebhookLeasePlanProofs` |
| `SanctionStateLock` | `runExclusive` with its Redis lock and clocks | `SanctionStateLockProofs` |
| `MediaByteAdmission` | the byte budget with its queue of waiters | `MediaByteAdmissionProofs` |
| `FoldFacts` | no code: lemmas on sums over finite sets, largest elements, recursion over subsets | itself |

An `MC...` module adds symmetry sets and constant functions for TLC; its `.cfg` files
choose the constants. Definitions headed "Fault variant" in the modules are plausible
bugs; `PROJECT.json` pairs each with the definition it replaces and the property that
then fails. They are used nowhere else.

## The send path

One `SEND_MESSAGE` key, from enqueue to settlement.

### State

* `row` – the ledger row. `token`/`bot` stand for `dispatchToken`,
  `dispatchStartedAt` and `dispatchBotId`, which the same statements write; `remote` is
  `remoteMessageId`; `attempted` is attempt count and dates. A token also names the
  message that MAX creates for its request, which is how a receipt is told to be real.
  Status "ABSENT" is a key without a row.
* `seen` – the row's `updatedAt` is still the one the watchdog read, so its
  compare-and-set will match. Every statement that matches a row resets it (`Write`).
* `job` – the BullMQ job: state, attempts made, stalls, lock owner, and whether it
  failed ambiguously (the producer may not remove such a job).
* `wk` – executions. The program counter is the await point the code is at. An execution
  is `queued` (BullMQ) or immediate (`executeImmediateActionJob`).
* `inflight`, `accepted`, `rejected` – requests at MAX. MAX is external: a request in
  flight becomes a message or is refused, whether or not anyone still waits.
* `prod`, `wd`, `used` – the producer's position, what the watchdog observed, and the
  spent bounds.

### Actions

One action per SQL statement, queue command or HTTP exchange, with everything the code
does before the next await.

* Producer: `AssertCanEnqueue`, `RemoveRetainedFailedJob`, `AddActionJob`,
  `ObserveFailedAdd`, `RetryAddActionJob`, `RecordEnqueueOutcome`, `ProducerFails`. An
  add may take effect and still throw; the evidence that the job started may be
  unreadable.
* Start: `TakeJob`, `StartImmediate`, `AssertCanExecute`, `FailBeforeStart`,
  `RecordStarted`, `StartAnswerLost`.
* Attempt with a candidate bot: `RecordPrepared`, `RecoverReceipt`, `FailBeforeClaim`,
  `ClaimSendDispatch`, `ClaimAnswerLost`, `InspectLostClaim`, `QuarantineForeignFence`,
  `LostClaimUnreadable`.
* Under the fence: `GuardRejects`, `PostMessage`, `ReceiveReply`,
  `CompleteSendDispatch`, `ReleaseSendDispatch`, `ThrowAmbiguousSend`,
  `AfterCompletion`.
* End: `NextCandidate`, `RecordFailed`, `SettleJob`, `Crash`; BullMQ's `StallJob` and
  `ExpireFailedJob`.
* Watchdog: `WatchdogRead`, `WatchdogObserve`, `WatchdogDefers`, `WatchdogApplies`.
* Repairs: `NightModeRetry`, `ReleasePreDispatchPublication`; the clearing of a legacy
  broadcast row is part of the two checks that perform it.

### Abstractions

* `Family` separates the keys that a condition treats differently: broadcast (legacy
  rows are cleared), night (repair of a definitive rejection), suggestion (row deleted,
  watchdog defers), and all the others.
* Errors are classes, by what the code tells apart: certified guard rejection, open
  circuit or quota, 429, access denied, missing upload, other definitive rejection,
  unknown outcome, outcome already recorded. Which class an error falls into is a
  nondeterministic choice at the places where the code can throw it.
* Time is not counted. The watchdog's cutoff is the nondeterminism of when it reads; an
  active job may be deferred or not.
* The message body, its upload, quotas, circuits and routing are left out except for
  their way of failing.

### Properties

* `AtMostOneMessage` – MAX never holds or expects two messages of a key.
* `FenceCoversDispatch` – the row keeps token and bot of every request that is in
  flight or became a message. This is what makes "no fence" a proof of non-delivery,
  which the repairs rely on.
* `SuccessIsDelivered`, `OwnerKeepsFence`, and the action properties `ReceiptIsForever`,
  `QuarantineIsSticky`, `SettledKeyIsSilent`.
* `ImplementsOutcome` – refinement of `SendOutcome`, with `Verdict` (what a row says)
  and `Effect` (what MAX holds) as the mapping.
* `RowsSettle` – every existing row becomes terminal or is cleared. It needs the
  watchdog in its enforcing mode; with it off, a crash after the start leaves an open
  row for ever.

One observation about the code shapes `Verdict`. `recordProtectedSendFailure` does not
look at the fence, so a worker that only lost the answer to its claim can mark a fenced
row `FAILED_TERMINAL`. Such a status alone does not say that nothing was delivered; the
empty fence does. `Verdict` is therefore "unknown" for a terminal row with a fence, and
every repair in the code does check the fence.

## Member actions

`MaxMemberAction` has several keys of one member: `BAN_MEMBER`, `KICK_MEMBER`,
`TRY_UNBAN_MEMBER`. They have no dispatch fence; the row is the fence.

* State: `row[k]`, `job[k]`, `wk[w]`, `prod`, `wd` as on the send path; `wire`, the
  requests at MAX with the worker that sent them; `effects[k]`, how often MAX applied the
  key since its row exists; `clr`, a presence probe that may retire BAN rows.
* Actions: the producer (`AssertCanEnqueue` to `RecordEnqueueOutcome`), `RecordStarted`
  under the advisory lock with its three sets of blocking rows, `SendRequest`,
  `GiveUp`, `NextCandidate`, `RecordSucceeded`, `RecordFailed`, `SettleJob`, crashes and
  stalls, the watchdog (`WatchdogRead`, `WatchdogObserve`, `WatchdogDefers`,
  `WatchdogRequeues`, `WatchdogBooks`, `WatchdogApplies`), and
  `ClearTerminalBanState` after `ProbePresence`.
* `MemberExclusion`: nobody is past a start while another execution of the member is,
  nor while a request that timed out or whose process died may still take effect.
  `BanIsFinal`, `AppliedOnce`, `OutcomeTruthful`, `FanoutKeepsNewerBans`,
  `MemberRowsSettle`.

Three things a reader should know:

* After a BAN row is retired, a job of it that BullMQ delivers again finds no row and is
  executed. `AppliedOnce` counts from the creation of the row, so this is outside it.
* The unguarded clear of a manual unban can retire a BAN that was applied after its
  presence read; the code says so and only the guarded fan-out promises otherwise, which
  is `FanoutKeepsNewerBans`.
* The watchdog is conservative: an attempted row with a 429 or an unclassified error,
  a TRY_UNBAN row that a guard refused, or a blocked row whose job failed, become
  `AMBIGUOUS` although nothing was sent.

Left out: delayed jobs (a kick scheduled for later), targets of runtime bots, the branch
that books a row whose jobs all completed (jobs are removed on completion), and the
decision to sanction. One producer call is under way at a time.

## Webhook delivery

`WebhookDelivery` composes the outbox and the executions of one update.

* State: `receipt` (the row of `webhook_events`: status, error class, queue, attempts,
  whether another attempt is due, timeout marker), `claim` (the business lease and what
  is recorded of the handler), `job[q]`, `poll[p]`, `exec[w]`, `handler` (how often it
  started, whether it returned, and the state of its command notice: certified and not
  attempted, attempted, sent, expired), `fresh` (processes whose snapshot still equals
  the receipt). An execution keeps the columns it will compare (`Compared`).
* Pollers: `Select`, the preparation (`PrepareReady`, `PrepareSettled`,
  `PrepareDeferred`, `PrepareFails`), `Lookup`, `Inspect`, `Exhaust`, `Activate`, `Add`
  with its refusals and lost answers, `Link`, `Vanished`, `Retry`, `Undo`, and
  `RecoverFinishedHead`. Every write compares all columns with the snapshot.
* Executions: `Take` (`processWebhookEvent` first looks for a pending notice,
  `NoticePending`), `Read`, the branches of `prepareExecution` (`RepairReceipt`,
  `RecoverFinished`, `StartedElsewhere`, `KeepFirstError`, `AwaitStarted`, `Disown`,
  `AcquireLease`, `AwaitPredecessor`, `AwaitExecutor`, `Expire`), `Start`, the end of the
  handler, `Checkpoint`, `Settle`, the certification of a notice after a handler that
  threw (`RecordNotice`, `RecordFails`), `Reject`, which sets `nextEnqueueAt` only for a
  recorded notice whose failure is not terminal (`Retries`), the timeout path (`Quarantine`,
  `QuarantineFails`, `Heartbeat`, `HandlerEnds`, `SettleTimedOut`), storage failures,
  lease expiry, stalls, evictions and crashes.
* Command notices (`GroupCommandNotice`, `recoverGroupCommandNotice`): `AcquireNotice`
  takes the free or expired lease, `SendNotice` renews it and makes the request after the
  last check, `NoticeSent` has the answer, `BookNotice` settles claim and receipt on a
  completed send, `ExpireNotice` settles an unattempted notice whose deadline passed,
  `NoticeThrows` is every way to fail, with or without a message left behind.
* `ProcessedIsProven`: a processed update was handled to the end, or never started, or
  lacked only a notice that is sent or expired. `FirstErrorStays`: the first error of a
  failed handler is neither replaced nor enqueued again *unless* the execution certified
  a command notice, the one case in which `settleRejectedStartedExecution` asks for
  another attempt. That this attempt does not run the handler is `HandlerStartsOnce`.
* `SettledTogether`, `DetachedIsFenced`, `SettledStays`, `AttemptsAreKept`,
  `EventSettles` and `JournalSettles` are stated in the module.

Observations:

* A receipt that is deferred to `RECEIVED` while its handler runs makes the settlement
  lose its comparison; the update ends in the "unaccounted" quarantine. This is safe, the
  work was done, and the update is not booked as processed unless the journal was saved.
* The number of enqueue attempts may exceed its cap by one, because the check and the
  increment are two statements, and by two when a certified notice sets a retry for a
  receipt beyond the cap. `TypeOK` states the exact bound; it is reached.
* A redelivered job that looked for a notice before its journal was saved goes on to
  `prepareExecution`, finds a started handler without a live lease and puts the receipt
  into the "unaccounted" quarantine. The fence of that quarantine then keeps the notice
  from being recovered.
* A notice whose request was made and not answered is never sent again; the next
  job of the receipt finds no pending notice and quarantines it, unless the attempts are
  exhausted before.
* An execution slot stands for the lease token it draws. Slots are used again, which is
  sound because every step that compares a token is behind a fresh `AcquireLease`.
* A lost or stalled lease of a worker that still runs spends the crash bound.

Left out: mirrored receipts and semantic owners (`DUPLICATE`), dependency quarantine,
legacy holds, unenforced claims, Publisher receipts, the command claim and the peer bot
of a notice (reasons for `NoticeThrows`; a claim whose command was completed by somebody
else without a message is like a notice that was attempted), the column `processedAt`,
ordered heads among several updates, the fairness lanes of polling, failures of contexts
that never started, and the close of the persistence layer. The inside of a preparation
is one of ready, settled, deferred or failed; the activation of OCR work after a
settlement only shows as a job that failed.

## Shard leases

`DefaultWebhookLease` is one shard. A fencing token is compared for equality only, so
`INCR` is a token that is in use nowhere, and `Tokens` is just large enough that one
exists (a proved fact, not an assumption).

* State: the three Redis keys, and for every group its process, its local token, the
  token a keepalive renews, the worker in the map, the state of every worker instance,
  closes under way and late, and where its sync pass stands with what it read.
* Actions: the boot steps, `ReadClaims`, `ReadHandoffs`, `MakePlan`, `Turn`, the close
  for a handoff, `IssueHandoff`, `ReleaseClaim`, `Claim`, `Ensure`, the sweep,
  `SyncError` at every await, `Keepalive`, `KeepaliveRenews`, `LateClose`,
  `CooldownEnds`, expiry of each key, `Shutdown`, `Exit`, `Restart`.
* `OneConsumer`: two groups work on a shard together only after the lease of one of them
  ran out under it. `lapsed` is the history variable for "ran out": no protocol can
  prevent this overlap, and the webhook delivery tolerates it. `NoForgottenWorker`,
  `StoppedStaysStopped`, `ShardIsServed`.

The plan is a nondeterministic choice here, restricted by what `PlanIsLeasable` of the
plan module guarantees. Left out: the shadow and canary rollout, the statistics.

## The lease plan

`DefaultWebhookLeasePlan` makes one iteration of `buildDefaultWebhookLeasePlan` one step,
for all shards, with the counters, live groups, cooldowns and lag suppression chosen once.
`NextPlan` adopts a finished plan as the claimed owners of the next one.

* `PlanIsLeasable`: a finished plan gives every dynamic shard to a live group and takes
  none from a live owner that is busy with it or cooling down.
* `MaxLoadNeverGrows`: the code's claim "move a shard only when it lowers the current max
  load", for every iteration.
* `PlanSettles`: under constant counters shards do not wander for ever.

## The sanction lock

`SanctionStateLock` is `runExclusive` for one subject: a Redis key with a TTL, a
heartbeat, a guard before writes, and a local estimate of the expiry. A request is sent,
served and answered at three moments, and the caller may see an error instead of the
answer at any of them; the request may then still be served (`stray`).

* `BeliefIsOwnership`: a call that believes in its lease has the lock in Redis.
* `SuccessWasExclusive`: a result is returned only if nobody else got the lock meanwhile.
* `AbandonedLockEnds`: a command its caller gave up on leaves no lock beyond the caller's
  deadline plus one TTL.

Redis and the callers share one clock: the code compares only differences of its own
clock with TTLs, and clock drift is not part of its protection either.

## Media admission

`MediaByteAdmission`: JavaScript runs each method to its end, so every call and every
timer or abort callback is one action, drain included. `expired[c]` says that the clock
passed the deadline of `c`, which its timer notices later.

* `ReservationExact`: the reserved bytes are those of the permits that are out, and never
  more than the budget.
* `NoStrandedHead`: the head of the queue does not fit, or is about to be rejected.
* `GrantsInOrder`: no grant overtakes a caller that came before and still waits.
* `WaitersSettle`: large reservations are not starved by a stream of small ones.

## Runs and bounds

| Run | Instance | Distinct states | Checks |
|---|---|---|---|
| `send_suggestion` | 2 workers, 2 bots, 3 claims, 2 immediate executions, 1 deletion of the row, watchdog | 641 thousand | `TypeOK`, `AtMostOneMessage`, `FenceCoversDispatch`, `SuccessIsDelivered` |
| `send_orphan` | 2 workers, 2 enqueues, watchdog, broadcast key | 1.3 million | `OwnerKeepsFence`, `SettledKeyIsSilent` |
| `send_live` | 1 worker, 2 attempts, 1 stall, 1 repair, watchdog, fairness | 625 thousand | `RowsSettle`, `ReceiptIsForever`, `QuarantineIsSticky`, `ImplementsOutcome` |
| `member_race` | 2 workers; a ban, a kick and an unban; 3 calls, 1 crash, 1 clear | 1.1 million | `MemberExclusion`, `BanIsFinal`, `FanoutKeepsNewerBans` |
| `member_live` | a queued ban, 2 bots, 2 attempts, a stall, an outage, a crash, fairness | 316 thousand | `AppliedOnce`, `OutcomeTruthful`, `MemberRowsSettle` |
| `webhook_race` | 2 pollers, 2 executions, 2 crashes | 1.9 million | the safety properties of the delivery |
| `webhook_delivery_live` | 1 poller, 2 executions, 2 queues, two of a crash, an outage and a deferral, fairness | 244 thousand | `TypeOK`, `EventSettles`, `JournalSettles` |
| `webhook_lease` | 2 groups, 2 worker slots, 1 move, 1 fault of any kind | 2.0 million | `OneConsumer`, `NoForgottenWorker`, `StoppedStaysStopped` |
| `webhook_lease_live` | 2 groups, 1 move, a crash or a hung close, fairness | 545 thousand | `ShardIsServed` |
| `webhook_lease_plan` | 3 dynamic shards and a static one, 3 groups, backlogs 0, 5, 7 | 551 thousand | `PlanIsLeasable`, `MaxLoadNeverGrows`, `PlanSettles` |
| `sanction_lock` | 2 calls, TTL 2, clock to 3 (1.5 TTLs) | 945 thousand | `BeliefIsOwnership`, `SuccessWasExclusive`, `AbandonedLockEnds` |
| `media_admission` | 4 callers, 2 units, 2 waiters, fairness | 74 thousand | all four properties |

Why these bounds are enough to be of interest, and what removes them:

* Two workers (or pollers, groups, calls) are what a conflict needs: they meet only in
  one row, receipt or key. The proofs hold for any number.
* Two or three claims of a send give one claim per worker and a retry after a release;
  two attempts pass through the retry of a job.
* One fault (two in the webhook delivery runs, `MaxTroubles`) may fall between any two steps. The lease run has two
  worker slots, so that a late close meets the instance that replaced it.
* Backlogs 0, 5 and 7 are below the rebalance threshold, above it, and different, so that
  ties and near ties occur; the live groups are any nonempty subset.
* TTL 2 with one tick between request and answer is the least in which an answer can come
  late and still be believed.
* In `media_admission` four callers are two holders and a full queue.

Deadlock is not checked where the bounds stop the system: when calls, attempts and faults
are spent and all is settled, nothing is left to do. The lease and media runs check it.

## Fairness

Always weak for the next step of a process that runs, and for the delivery by BullMQ of
what waits or has stalled; nothing forces MAX to answer, a process to die, or a producer
to ask. In detail:

* Send and member rows: the watchdog reads, observes and defers every minute (weak). Its
  reading of a member row is strong, because the scan pages through all stale rows in
  turn. Applying an outcome is strong, because an active job defers it only while it
  became active after a cutoff that moves with the clock.
* Webhook delivery: pollers and executions go on; the poll comes back to the receipt and
  to finished claims; a stalled job whose worker is gone is found; a lease without a
  holder expires.
* Shard leases: both intervals run while a process is up; a pass goes on; a closing
  worker finishes; keys that nobody renews expire; a stopping process exits (its hard
  deadline) and is restarted by the supervisor.
* Lease plan: the loop goes on, and the next plan is made.
* Media: `Release`, because the VK publisher releases in a `finally` block.

## Proofs

TLAPS proves every safety property of the runs, invariants and action properties alike,
and the refinement of `SendOutcome`, for all values of the constants. For every module
type correctness is proved as well.

Assumptions on constants are what the code gives: bounds are numbers, a NULL or "nobody"
value is no member of the set it is missing from, key sets are disjoint, sets of
processes, callers, shards and groups are finite where something is counted or summed
over them, reservation sizes lie between one and the budget (`assertReservation`), lock
times are positive.

### The inductive invariants

*Send* (`DispatchInv`). `AtMostOneMessage` does not say why a second worker cannot claim.
The invariant adds: `SoundRow` (completed, ambiguous and terminal agree with the status);
a row the watchdog may still overwrite is not terminal; `ReceiptIsReal`;
`TokensAreFresh`; `OwnersHoldFence` and `OneOwner` (a worker between claim and settlement
has its token in the row, and there is one); `FenceCoversDispatch`, `PostsAreDisjoint`;
`PhasesAreSound` (what each program counter knows about MAX). `StepKinds` sorts every
step into *quiet* steps, a *claim*, a step of the *owner*, and a decision of *MAX*; the
action properties and the refinement reuse this classification.

*Member* (`Inv`). `RowInv` ties a row to what MAX did, `EngInv` what an engaged worker
and its pc imply for its row, for other bans and for the wire, `Exclusive` says there is
one engaged worker in one key, `WatchdogInv` that a fresh snapshot is the row, `ClearInv`
that a BAN applied after the presence read is known to be later. The exclusion comes from
`RecordStarted`: a row that is open for somebody blocks every other start.

*Webhook* (`Inv`). `Sound` relates the columns of a receipt; `PollerInv` and `SourceInv`
say that a fresh snapshot is the receipt and still eligible; `StartedInv` that an
execution past its start is the one the claim names; `ClaimInv` has the settled and the
started facts. A notice, once `Certified`, means that the handler started and saved no
journal of success; a failed receipt is due again (`Retrying`) and an execution is in a
recovery or a rejection with a retry (`Recovering`) only behind it. `Capped` and `Fits`
bound the attempts of the receipt and of every snapshot. The lemma `Writers` classifies
who may write the receipt; the action properties follow from it and from `NoticeSteps`.

*Shard lease* (`Inv`). Per group: a close under way belongs to the step of the pass that
waits for it; a running worker is the mapped one; from the close to the release of a
handoff no worker runs; a stopping process admits nothing; and whoever consumes, or is
about to create a worker, owns the claim or has lapsed. `OneConsumer` follows because the
claim has one owner. `FreshTokenExists` shows by counting that the token pool never runs
out.

*Lease plan* (`Inv`). The loads are exactly those of the desired owners (`LoadsAccount`),
a pending shard is where it was, a planned one has a live group, and a shard taken from a
live owner was idle. The account makes the clamp at zero unnecessary, the type correct
and `NextPlan` neutral for the loads, and with the condition of `shouldRebalanceQueue` it
gives `MaxLoadNeverGrows`. That the two CHOOSE expressions have a witness, the shard with
the highest pressure and the least loaded live group with its three tie-breaks, is proved
from `ArgMax` and `ArgMin`.

*Sanction lock* (`Inv`, one `CallInv` per call). `RequestsFollowPhase`,
`EstimatesCovered` (a local estimate, and every answer still on its way, is covered by
the key in Redis), `IntrusionNoticed`, `UnconfirmedLockEnds`.

*Media* (`Inv`). The queue is exactly the waiting callers, each once; nobody waits after
close; the reservation is the sum over the holders and within the budget; the head has a
reason to wait. `DrainLeaves` says what drain does to any queue: a prefix leaves, those in
time with their bytes, and the next one neither is late nor fits. `QueueWithoutFacts` says
that `indexOf` and `splice` keep the order. All callbacks that drain share
`DrainFromFacts`.

### Folds and sums

The models use the folds of the community modules. Their definition is a CHOOSE of a
recursive function, and the induction theorems of the library take an operator, which the
installed provers cannot instantiate. `FoldFacts` works around that with sets:
`NatSetInduction` (a set of numbers with zero and closed under successor has all numbers)
from the well-foundedness of subset inclusion, `RecursionExists` (the recursive function
that CHOOSE asks for exists), and from these `SumFacts`, `SumAgrees` and `MaxFacts`.
`DrainRecursion` and `LoadIsSum` connect them with the models.

### Only model-checked

* Liveness: `RowsSettle`, `MemberRowsSettle`, `EventSettles`, `JournalSettles`,
  `ShardIsServed`, `PlanSettles`, `WaitersSettle`. TLAPS has no support for ENABLED, on
  which fairness rests. `PlanSettles` would need a decreasing measure on load vectors on
  top.
* That `DefaultWebhookLease` is right to let the plan be a choice restricted by
  `PlanIsLeasable`: the two modules are connected by that property, not by a refinement,
  because the first has one shard and the second all of them.

## Not modelled

* Delete intents: their protocol (lease, dispatch marker, settlement) is interleaved with
  eligibility rules over ten thousand lines; a model of the lease alone would leave out
  the conditions that make a late delete harmless. With them, `DELETE_MESSAGE` rows.
* The connection pool (`prisma/connection-admission-pool.ts`): what it counts depends on
  connect callbacks inside the pg library.
* The half-open route probe and the circuit breaker: they only decide which error an
  attempt ends with, which is already nondeterministic.
* The claim of a suggestion and the schedule of the night mode: only what they do to the
  ledger row.
* Executions of different `SEND_MESSAGE` keys share nothing the ledger conditions read, so
  one key is modelled; member actions of different members likewise.
* The counters and sets of `redis-counter.service.ts`, message retention, the application
  of group commands and their claims (only their notice is modelled), the publisher, administration, bot routing: see the notes in `PROJECT.json`.
* Content analysis, statistics, authentication, read models, web clients, deployment:
  no protocol to check.

## Plan

1. An abstract specification of one update (received, started, settled) that
   `WebhookDelivery` implements, as `SendOutcome` is for the send path, and the
   refinement as a theorem.
2. The same for the sanction lock: an exclusive section that ends.
3. Delete intents with the conditions of `moderation-delete-intent.service.ts` that guard
   the request, on the pattern of `SanctionStateLock`.
