# TLA+ models of the BoardReadyOps control plane

BoardReadyOps checks hardware releases of GitHub repositories. The rules themselves run in a
single process on a runner; what is concurrent, retried and crash-prone is the hosted control
plane: PostgreSQL tables with transition functions (`packages/db/migrations`), web routes and any
number of worker processes (`apps/web/worker.ts`) that share them, and GitHub on the other side.
This directory models that control plane in TLA+, model-checks it with TLC on small instances and
proves the central safety properties with TLAPS for every instance.

## 1. Inventory

How a pull request travels: GitHub posts a webhook; the route stores it in the inbox with a
lifecycle job in one transaction and answers 202. A worker leases the job and plans a release run;
the plan writes the run and its first outbox effect in one transaction and retires runs of other
commits. A worker leases the effect, creates the check run, and the completion writes the next
effect: a workflow dispatch, or the conclusion of the check run when nothing is to be executed.
The runner reports a signed result; reconciliation looks for runs whose result never came.

| Component | State | Operations | What is hard | What makes it correct |
| --- | --- | --- | --- | --- |
| Webhook inbox and job queue (0015, 0019) | `webhook_inbox`, `control_plane_jobs`, replay operations | accept, claim (recovers expired leases), complete, fail, purge, replay | stale handlers, crashes with leases, retried operator calls, two tables written by seven functions | the tables agree; executions stay within budget; stale handlers change nothing; accepted deliveries settle |
| Transactional outbox and worker (0016, 0024, 0025) | `control_plane_outbox`, handlers in flight | claim, mark delivery, GitHub call, guarded completion, fail, replay | GitHub calls cannot be rolled back; answers get lost; leases expire under slow calls | a dispatch is not repeated unknowingly; completed effects happened; a queued run leaves the queue |
| Release-run lifecycle (0023, 0027, 0070, 0043) | `release_runs`, `release_run_attempts` with versions | enqueue with supersession, bind, dispatch, skip, runner result | worker, runner and newer commit race for one run | one active commit; run and attempt agree; terminal states are final |
| Result route and GitHub reconciliation (0020, 0021, 0042, 0043, 0046) | result rows, reconciliation items, the check run | persist, publish, record; detect, claim, observe, re-check, infer, repair | the observation is stale when applied; late, repeated and contradicting results; budgets; crashes between persisting and publishing | one verdict, and a reported one stands; green is signed; every run is decided or in front of the operator |
| Runner leases (0011, 0029, 0034) | `runner_job_leases`, attempts | claim, heartbeat, relinquish, expire, authorize and persist a result | expiry races heartbeat and result; two records of the same rows; requests for leases long lost | one holder; a running run is held; only the latest holder decides; a finished run stays finished; nobody holds a run for ever |
| Artifact deletion (0030, 0104, 0110) | artifact rows and files, deletion jobs, unlink fences, holds, copy reservations | store, expire, claim with recovery, fence, unlink, complete, fail, settle, hold, copy | the unlink is outside the database and its failure ambiguous; rows of several runs and tenants may name one file | no unlink under a hold of its tenant or during a copy; records agree with the files; a file that a stored row needs is not queued |
| Worker process (`worker.ts`, `control-plane-worker-runtime.ts`) | loops, concurrency gate, shutdown | poll, claim, run, drain, release, shut down, fail | slots returned after the caller was answered; a pass of drain that changes what it tests; signals and rejections with work in flight | limits hold; waiting work starts; leased work drains before the pool closes |
| Stripe billing (0060, 0107) | events, customers, subscriptions, the plan of installations | record, claim, project, defer, dead-letter, wake; install, rename | events out of order with a resolution of a second; two locks; a link that comes last | newest event wins; one subscription decides the tier, and an installation shows that tier or the free plan; no event sleeps for a link that exists |
| Notifications (0066) | channels, deliveries | fan out, claim, send, complete, fail | outcomes are not fenced; the lease is shorter than a batch; the claim does not check the budget | attempts stay bounded; delivered means received; deliveries settle |
| Data export, enrollment, setup, protected releases, remote MCP, retention, supply and advisory watch, reviews, uploads, Marketplace | one or two tables each | mostly single statements | claims without reclaim, insert-once rows | section 6 and PROJECT.json give the reason they are left out |
| Rule pipeline, CLI, action, reports, UI, MCP server | none shared | pure or presentational | none of the above | the repository's own tests |

Interaction is through tables only: job handlers call the enqueue function, completions write
further effects, the result route and the reconcilers write the run rows the outbox guards read.

## 2. Plan

Modules are written in the order of what a mistake would cost: first what starts, repeats or loses
work, then what decides a verdict, then what is irreversible outside the database, then the two
side channels. All of them are done.

| Order | Module | Composes | Promise shown to be implemented |
| --- | --- | --- | --- |
| 1 | `ControlPlaneJobs` | | `WebhookIntake` |
| 2 | `ReleaseRunOutbox` | | `ReleaseRunLifecycle` |
| 3 | `ScopedConcurrencyGate`, `WorkerRuntime` | `WorkerRuntime` extends the gate | |
| 4 | `RunnerResults`, `RunVerdict` | `RunVerdict` extends `RunnerResults` | |
| 5 | `RunnerLeases` | extends `RunnerResults` | `RunCustody` |
| 6 | `ArtifactDeletion` | | |
| 7 | `EntitlementLedger`, `StripeEntitlement` | `StripeEntitlement` extends the ledger | `EntitlementLedger`, the serial specification |
| 8 | `NotificationOutbox` | | |

Modules with proofs have a `...Proofs` module; `MC...` modules hold the values TLC needs. What
would come next: runner enrollment, upload capabilities composed with `RunnerLeases`, and
Marketplace composed with `StripeEntitlement`.

## 3. Modules and the code

### ControlPlaneJobs, WebhookIntake

`job` and `inbox` are the two tables (one row per delivery id), `batch` the handlers each worker
process has in flight, `ops` the table of replay operations. `accepted` and `claims` are history.
Each SQL function is one action, because it is one transaction: `Accept`, `AcceptDuplicate`,
`Claim`, `CompleteJob`/`CompleteStale`, `FailJob`, `Purge`, `Replay`, `ReplayAgain`. A handler is
several steps: `RunActions` (which may throw), the completion, whose answer may be lost after it
committed (`CompleteThrows`), and the failure report. Time is one bit per row, `ripe`: the only
comparison the code makes with `available_at` and `lease_expires_at`. `SKIP LOCKED` is the free
choice of the subsets that a claim recovers and leases. `Crash` ends a process and its handlers;
leases stay. `WebhookIntake` is the promise behind the 202 answer.

### ReleaseRunOutbox, ReleaseRunLifecycle

`run` joins `release_runs` with its one execution attempt, including both version columns;
`outbox` holds one row per run and effect type, with the versions bound at insertion; `checks`,
`concluded` and `dispatches` are what GitHub has. `lost` is history: ordinary errors raised after
GitHub accepted a dispatch.

* `Request`, `Rerun` — `boardreadyops_enqueue_release_run_with_outbox`. The advisory lock per pull
  request makes it one step. Requests for different commits come in any order, because lifecycle
  jobs are executed and retried in any order.
* `Claim`, `MarkDeliveryStarted`, `FailEffect`, `ReplayEffect` — migration 0016.
* `ListCheckRuns`, `CreateCheckRun`, `CompleteCheckRunCreate` — lookup, creation and guarded
  completion are three steps. The completion writes the following effect in the same transaction.
* `DispatchWorkflow`, `DispatchUnreachable`, `CompleteWorkflowDispatch` — the client reports a
  missing or unusable answer as `deliveryUncertain`; an unreadable body or a server error is an
  ordinary error.
* `ConcludeCheckRun`, `CompleteEffect` — the conclusion of a skipped run's check run.
* `CallFails` — a call that throws without effect. The failure of the completion after an accepted
  dispatch is one of them.
* `RunnerReports` — migration 0043 for a run whose workflow was started. The route may be called
  before the worker has recorded the dispatch; nothing in the code orders the two.
* `TimePasses`, `Crash`, `Restart` — as above.

GitHub is external: it creates a check run or starts a workflow for each accepted request and
keeps no identity of its own for a dispatch. The list request sees all check runs of the commit.

`ReleaseRunLifecycle` is the promise: the state graph of
`boardreadyops_release_run_transition_allowed`, final terminal states, one version per change,
supersession of the other commits' active runs in the step that starts a commit.

### ScopedConcurrencyGate, WorkerRuntime

The gate's variables are the closure's: `waiting`, the two counter maps, `active`, `draining`, and
the index of `drain`; `op` says where each operation is and `calls` which `run()` calls the current
continuation still makes. JavaScript runs a continuation to its end, so `Submit` (the `map` over a
claimed batch), `Run`, `DrainSkip`, `DrainStart` and `DrainEnd` follow one another with nothing in
between: every other action waits for `Idle`. `Settle` and `Release` are two actions, because
`drain` answers the caller before its `finally` callback returns the counters. A map entry that is
missing is a counter at zero; an undefined key is `NoKey` and is never limited.

`WorkerRuntime` extends the gate with the scopes of `workerScopeFrom...` (`ScopeAssumption`) and
adds the queue loops (`loop`, `batch`), the top level (`main`), the shutdown promise and the pool. A
loop waits for its whole batch; a rejected claim or handler rejects the loop, `Promise.all` rejects
with the first of them, and the catch block closes the pool (`Fatal`, `FatalClose`) while the other
handlers go on. `Signal`, `HealthServerClosed` and `ShutdownClose` are the graceful path. A signal
may also come while the process waits for its health server to start; the loops then find it
stopped. Handlers are opaque here; what they do is `ControlPlaneJobs` and `ReleaseRunOutbox`, where
the end of a process is `Crash`.

### RunnerResults, RunVerdict

`RunnerResults` is the decision of `persistRunnerResult` and the state function of migration 0043 as
operators on rows: how a signed result is classified, when it may move the run, and what run and
attempt become. A result is its own digest.

`RunVerdict` follows one dispatched run to its verdict. `run`, `attempt` and `row` are the rows,
`check` is what GitHub shows, `handler` holds requests between persisting and publishing, `item` and
`loop` the two kinds of reconciliation item and the loops that work on them.

* `Persist`, `Answer`, `CrashHandler` — the result route: one transaction, then the call that
  completes the check run, then the record of the publication. A request may be repeated with the
  same result, and contradicted by another.
* `Detect`, `Claim` — detection takes a snapshot of both versions; a claim spends one of twelve
  checks, recovers expired leases and gives up items whose budget is spent.
* `Work` — the loops. Workflow: read the workflow run (any state may be observed), then re-check,
  infer a verdict, or complete; each write is guarded by the snapshot. Check: read the expected
  conclusion from the rows, then look at and repair the check run, then finalize.
* `Supersede`, `PassDeadline`, `CrashLoop` — a newer commit, the observation deadline, a dead
  process.

### RunnerLeases, RunCustody

One run, its attempts, one lease per attempt. `seen` is the lease's own record of the versions and
states of run and attempt (`expected_...`), which every operation compares before it writes.

* `Claim`, `Heartbeat`, `Relinquish`, `Expire` — migrations 0029 and 0034. A holder may ask for
  anything about any lease it was ever given, at any time.
* `Authorize`, `Persist`, `Drop` — a result is authorized by one statement and persisted by another;
  `Persist` is `RunnerResults` again, followed by the completion of the lease. `Drop` is every way
  a request ends in between.
* `Tick` — time, in ticks: `left` counts to `expires_at`, `most` to `maximum_expires_at`. In the
  code expiry runs ahead of every call of the protocol; here it is an action of its own.
* `RunCustody` is the promise without leases, times and versions: a run is granted to numbered
  holders, given back, decided by the latest holder, or retired. `Phase` reads it from the current
  attempt and its lease. A holder whose lease expired decides nothing; one that gave the run back
  with `job_error` may still report that failure until the next claim (`yielded`).

### ArtifactDeletion

`file` is the disk, `row`, `job`, `fence`, `hold` and `copy` the tables, `handler` the deletion
workers. An artifact has at most one job, but a storage path may be named by rows of several runs
and tenants (no constraint forbids it, and runners choose the paths): files and reservations belong
to a path, jobs and fences to an artifact. A row is `absent`, `live`, `gone`, or `late` if it was
stored when a job for its path existed already.

* `StoreResult` — a result inserts its artifacts and deletes those of the run's earlier result it
  does not repeat; a dropped file is queued unless another row names it (`Referenced`).
* `ExpireRows` — retention deletes rows of one path whose tenants are under no hold and queues the
  file once, unless another row names it.
* `Claim` — one poll: expired leases without a fence go back (or become dead letters once their
  budget is spent), then due jobs are leased; the driver and the storage root decide how the
  handler starts.
* `BeginUnlink` (`boardreadyops_begin_artifact_unlink`), `Unlink`, `CompleteDeletion`,
  `FailDeletion`, `SettleUnlink` — the handler. `BeginUnlink` looks at the fence and the tenant of
  its own job and at the reservations of the path (0110:150-161). Only a completion, or a refusal
  before the unlink, is followed by a settlement; an unlink that failed ambiguously leaves its
  fence.
* `CallFails` and the lost answers in `Answer` — a database call that is rejected before or after
  it took effect. `Crash` loses the handlers and leaves leases and fences.
* `CreateLegalHold`, `ReleaseLegalHold`, `BeginCopy`, `FinishCopy`, `StrandCopy` — what excludes an
  unlink, and a copy that dies with its reservation.

### EntitlementLedger, StripeEntitlement

`EntitlementLedger` is what Stripe's events mean, one event at a time. `inbox` holds the verified
events, `account`, `sub` and `installation` what they are projected on. The plan of a tenant is
mirrored onto the installations that carry its login at that moment, which may be none. A projection
has two halves, as in the code: what its statement reads (`TenantOf`, and `Clash`, which forbids the
write) and what it writes given that (`ApplyCheckout`, `ApplySubscription`, `ApplyInvoice`,
`ApplyOther`). `Settle` does both in one step; `Record` is the webhook route, `PutOff` a failed
attempt that is counted, `Upsert` GitHub reporting an installation: a new row starts on the free
plan, a renamed one keeps its plan (`kept`). A checkout links the customer and wakes the events that
waited for the link.

`StripeEntitlement` is how the worker replicas do it: `pass` is the transaction each is in.
`ClaimEvent` locks the row. `Project` tries the advisory lock of the customer: if it is busy the
event is put off, otherwise the projection's statement takes its snapshot. `CommitCheckout`,
`CommitSubscription`, `CommitInvoice` and `CommitOther` commit the ledger's writes with what the
snapshot showed, possibly long after; a checkout waits for the rows of its customer that other
passes have locked. A commit's answer may be lost (`Committed`). `Abort` rolls back, `CountFailure`
then counts the attempt outside the transaction, if the event is still due; `Crash` only releases
the locks. `UpsertInstallation` waits for the rows a projection has written. `ImplementsLedger` says
that nobody can tell: the concurrent passes do what some order of single settlements does.

### NotificationOutbox

`channel` and `delivery` are the tables, `pass` the claimed batch a replica works through, `received`
what destinations got. `EnqueueEvent` fans out with deduplication; `ClaimDeliveries` claims what is
pending or has lost its lease, without looking at the budget; `Send` is the call and its outcome,
unknown answers included; `CompleteDelivery` and `FailDelivery` name the delivery only and therefore
write whatever happened in between; `LosePass` is a crash or a rejected call.

## 4. Runs

| Run | Shows |
| --- | --- |
| `jobs` | inbox and job agree; a settling call that finds its row runs under the row's latest lease; executions are bounded per acceptance and replay operation; the queue implements `WebhookIntake`; every accepted delivery is processed or dead-lettered |
| `outbox_dispatch` | each workflow beyond a run's first is paid for by an ordinary error after an accepted dispatch; completed effects happened at GitHub, and a run is bound or dispatched by a completed effect only; a queued run leaves the queue or its effect is in front of the operator; a skipped run's check run is concluded or the failure surfaced |
| `outbox_supersede` | two commits in any order: one active commit, run and attempt agree, the state graph is implemented |
| `gate` | five operations of overlapping scopes, submitted again and again: limits hold, an idle gate holds back nothing that could start, overtaking is fair, nobody starves |
| `worker` | two loops, rejected claims and handlers, a signal at any moment: graceful shutdown drains before the pool closes, and every way down ends |
| `verdict` | run, attempt and result row tell one verdict; green comes from a signed success only; a reported verdict is immutable and an inferred one yields only to a report; every run is decided or its item says that reconciliation gave up; the check run of a decided run is concluded or its item says that publication failed |
| `leases` | a running run is held by one live lease that describes it; at most one lease is in use; the protocol implements `RunCustody`; a verdict is the current attempt's and ends its lease; no run is held for ever |
| `artifacts` | a removed file has a completed job or an open fence, and a completed job removed its file; two tenants' rows share a path, and one that was stored in time keeps its file; no file is removed under a hold of its job's tenant or during a copy; every job ends or leaves its fence to the operator |
| `stripe` | two overlapping replicas implement the serial ledger; a subscription shows its newest event; the tier is that of the one open subscription, and installations show it or the free plan; no event sleeps for a link that exists; the inbox drains |
| `notifications` | attempts stay bounded although the claim does not check the budget, and receipts with them; delivered means received; every delivery settles |

Two further runs state a sentence of the documentation that the code does not keep; TLC shows how.

| Run | Documentation | Counterexample |
| --- | --- | --- |
| `doc_single_dispatch` | `docs/architecture/transactional-outbox.md`: dispatch is "non-idempotent after delivery begins" | an ordinary error after GitHub accepted the dispatch is retried like any other, and a second workflow starts |
| `doc_signed_verdict` | a published signed verdict is what the check run shows (quoted in PROJECT.json) | the repair reads the inferred failure, a signed success is published, and the repair overwrites it |

`DispatchesAccountedFor` is the property that does hold in place of the first sentence,
`GreenIsSigned` and `CheckConcluded` in place of the second.

**Observations.** Further differences between code and documentation met while modelling. They are
visible in the models but are not runs of their own.

* Two handlers can look for a check run before either creates one, once the first one's lease has
  expired (`github-app-check-run-client.js:328`, `transactional-outbox.md:28`).
* The late job of an older commit supersedes the newer commit's run (migration 0070:150,
  `docs/product/run-lifecycle.md:20`); the superseded run's check run is never concluded, and its
  lease stays active until it expires.
* A re-run finds the idempotency key of the finished run taken and starts nothing
  (`github-command.ts:228`, `docs/product/zero-touch-github-ux.md:48`).
* A check-run completion is counted under the repository's full name, every other item under
  GitHub's number, so one repository can use two scopes (`control-plane-worker-runtime.ts:95`,
  `docs/deployment/self-hosted.md:397`).
* An inferred time-out sets the attempt to `timed_out`, which the result route classifies as
  `stale_attempt`: a signed result corrects an inferred failure, not an inferred time-out, although
  the comment at 0043:112 speaks of both.
* Twelve checks at sixty seconds end after 720 of the 1800 seconds of the deadline
  (`docs/operations/control-plane-reconciliation.md:121`), and a progress report after detection
  makes the item `context_stale` for good. Both are why `EveryRunDecided` counts an item that gave
  up as an end.
* The check run of a run decided without a result row is repaired, but the finalization without a
  row answers stale, and the item ends as a dead letter.
* Re-claims of a relinquished or expired run have no limit (0029 calls the retry bounded). A
  `failed` result that was authorized before a relinquishment and persisted after it turns the
  re-queued run into a failed one (0043:198).
* A hold does not always protect a shared file.
  `docs/security/artifact-hold-unlink-coordination.md:20` and item 6 at line 58 ask it to, across
  tenants, but `begin_artifact_unlink` reads the holds of its job's tenant only (0110:157). The
  tenant of another row is protected by that row as long as it was stored before the deletion was
  queued (`RetainedFilesExist`); not if it was stored later (`late`), or has been deleted itself.
  `FilesSurvive` therefore speaks of the job's tenant. Conversely, two results that are dropped at
  the same time can each see the other's row and queue nothing; the model makes them two steps, so
  it does not show the file that stays.
* An installation does not always show the plan its account subscribes to: the projection updates
  the rows there are (`billing-store.ts:210`), a later install or reinstall starts at `free`
  (`lifecycle-store.ts:264`, 0001:16), a workspace id as tenant matches no login
  (`checkout/route.ts:105`), and a renamed account keeps its plan even after that subscription ends.
  `EntitlementAgrees` says which of these can be wrong, and in which direction.
* After a progress report with conclusion `neutral`, an inferred failure shows as neutral: the check
  is concluded from `coalesce` of the row's conclusion and the run's (0042:160).
* An event of an unmapped price is dead-lettered after twelve attempts although the projection's
  comment asks never to terminalize it; an event that waited for a link and then met a database
  error is dead-lettered under another class and not woken; a late older event of another
  subscription may leave the status `canceled` beside an open subscription.
* The notification lease of 120 seconds is shorter than twenty calls of ten seconds
  (`notification-store.ts:374`, `self-hosted.md:412`). A stale pass can turn a delivered or a
  permanently failed delivery into a pending one, which is then sent again.

**Bounds.** Two workers are the least with which a lease can move to another process, and enough
for the stale handler, the new owner and the recovery in between; the proofs remove the bound. Two
attempts instead of eight, twelve or six reach the first try, the retry and exhaustion. One crash,
one replay and one re-run each happen at every point of a behaviour; requests, re-runs, replays,
submissions, edits and faults are bounded by constants named `Max...`.

* `jobs`: two deliveries, accepted twice in all, so one may also be purged and accepted again;
  `ClaimLimit` 2, so that one claim can both recover and lease.
* `outbox_dispatch`: one run suffices for delivery (effects of different runs share no rows);
  `outbox_supersede`: two runs of different commits.
* `gate`: two repositories of one installation, an operation without a repository and one without
  any scope, under limits two and one, give every combination of full and free scopes.
* `verdict`: one loop of the workflow kind, two of the check kind (whose writes go to GitHub and can
  race), two requests out of a neutral progress report and two verdicts that differ, two checks per
  item.
* `leases`: three claims, a lease of two ticks that renewals extend to three at most, two result
  requests in flight; that reaches a result that overtakes two changes of the holder.
* `artifacts`: two tenants with a run each, whose artifacts share one path; one export, one fault.
  One artifact without sharing is what remains when the other row is never stored.
* `stripe`: eight histories of up to four events each, chosen so that links come last, two
  subscriptions compete, two events share a second, invoices contradict subscriptions, and one names
  no subscription; one installation, installed before, between or after them and then renamed. Each
  history arrives in every order. All events together do not fit in five minutes.
* `notifications`: an event on two channels, two replicas, one lost pass, one channel edit.

Runs whose system really comes to rest (a process that ended, a run that is decided, an inbox that
is drained, or used-up bounds) do not report deadlock; `jobs` and `gate` do. Symmetry of worker names
is used in `outbox_supersede` and `doc_single_dispatch`, which check no liveness.

**Fairness.** Weak fairness for a worker's claim and handler steps (the polling loops of
`apps/web/worker.ts` run while the process does, and each awaited call returns, throws or times
out), for the restart of a dead worker (the orchestrator), and for time. Nothing is assumed of
requests, operators or crashes.

* Gate: handlers and the continuations that release their slots are strongly fair: they are queued
  and the event loop takes them in order, but they are disabled while another continuation runs.
  `EveryCallStarts` also needs that a repository key occurs under one installation key, as it does
  in the scopes of one worker's loop. The worker process as a whole is only weakly fair: it goes on
  while anything is left to do. A rejected claim ends the process (the promise is returned without
  `await` in `claimAvailableJobs` and its siblings); this is covered by `Crash` and `Restart`.
* Verdict: the loops' work, detection, and for each kind some claim. Neither the runner nor the
  request handlers are fair; that is what reconciliation is for.
* Leases: time and expiry, in which some runner that polls executes the expiry statement (claims
  poll every fifteen seconds). Holders are not fair.
* Artifacts: for each artifact, a claim that takes or recovers it; a claim that skips it for ever
  would contradict the order by `available_at`. Expiry of leases is time.
* Stripe: some claim and the work of each pass; `CommitCheckout` is strongly fair because the
  waiters of a row lock are queued by PostgreSQL.
* Notifications: a pass goes on, some replica claims, leases run out.

## 5. Proofs

`tlapm` checks the following for any values of the constants, under the named `ASSUME`s only, which
TLC evaluates in every run. Each module proves its type invariant first; the other proofs use it.
These type invariants are theorems and therefore not listed in the configurations.

`ControlPlaneJobsProofs`
* `TypeCorrect`, `InboxNeverDrifts`, `AttemptsBounded`.
* `StaleHandlersFenced`: the guard compares the owner's name, not a lease number. The inductive
  invariant adds that no handler was started under a claim later than the current one, and that a
  worker claims only when it has no handler in flight, so its own earlier lease cannot be confused
  with a later one.
* `ExecutionsBounded` (`ExecutionBudget`): `GrantsCover` says that the claims made plus the attempts
  a row has left never exceed the attempts granted by acceptances and distinct replays. That the
  operations are a finite set is needed to count the replays.
* `QueueImplementsIntake`: every step moves each delivery along an edge of the promise or not at all.

`ReleaseRunOutboxProofs`
* `DispatchAccounting` (`DispatchesAccountedFor`). The statement mentions neither leases nor
  handlers, so it is not inductive. `DispatchInv` adds, per run: a worker between its call and its
  last statement holds the marked lease or the row is parked (`DeliveryFenced`); at most one worker
  is (`OneDelivery`); a claimed lease is unmarked until its owner marks it (`ClaimedUnmarked`); and
  wherever a dispatch may still be made, all accepted ones so far were counted as lost (`Counted`).
  `NoEarlyDispatch` excludes that a second dispatch effect overwrites the first. Steps that do not
  touch the dispatch are handled once (`UntouchedStep`); the ten that do have a lemma each.
* `EffectsMatch` (`EffectsMatchRuns`): a handler about to complete has its GitHub call behind it
  (`HandlersKnow`); with it the match of effect and run is preserved run by run.
* `ParkedStays` (`ParkedForGood`), from the fact that only dispatches are ever parked.
* `OneCommitActive`, `AttemptsAgree`: `RunSteps` shows that only four kinds of step write a run.
* `OutboxImplementsLifecycle`: every step is an abstract step or a stutter; `AbsentFresh` (a run
  that was never enqueued has version 0) is the one fact needed beyond types.

`WorkerRuntimeProofs`. First the gate, for any finite set of operations, any scopes and positive
limits
* `GateTypeCorrect`, `CountersAccurate`, `LimitsRespected`, `NoLostWakeup`, `OvertakingIsFair`, from
  one inductive invariant, `GateInv`: the lists hold distinct operations in the right state; the
  counters are the cardinalities of the holders and within the limits; and whatever `drain` has
  passed over cannot start (`Scanned`), which survives because starting an operation only fills
  scopes and every release scans from the front.

  Then the process around it
* `GateHoldsInWorker`: the gate's safety properties hold in the process, whose steps run the gate or
  leave it alone (lemma `WorkerUsesGate`); with its invariant, `TypeCorrect`.
* `GracefulShutdownDrains` (`DrainsBeforeClose`): `LoopsHoldWork` adds that an unanswered item is in
  the batch its loop waits for unless that loop was rejected, and that no loop runs once the
  graceful path has closed the pool.

`RunVerdictProofs`, for any results and any number of requests and loops
* `TypeCorrect`, `RowsTellOneStory` (`VerdictIsTheReported`), `ReportsAreFinal`
  (`ReportedVerdictIsFinal`), `GreenOnlySigned` (`GreenIsSigned`). The inductive invariant adds what
  the writers carry between two statements: a request on its way to GitHub holds the very result
  that is the digest of the run (`RequestsTell`), a loop that is going to paint the check run green
  read a signed success (`LoopsTell`), and a detected item remembers a live run (`DetectedLive`).
  A reported verdict is immutable, which is why these survive whatever the others do.

`RunnerLeasesProofs`, for any number of claims and any durations
* `LeaseTypes`, `RunningHeld`, `OneHolderOnly`, `VerdictEndsLease`, `FinishedIsFinal`. Types,
  `RunningIsHeld` and `OneHolder` are not inductive alone: that a decided run accepts nothing more
  needs `DecidedHasDigest` (a run is decided exactly if it has a digest), and that a waiting run is
  decided only by the attempt that gave it back needs `GivenBack` (that attempt is stale, or failed
  under a relinquished lease).
* `LeasesImplementCustody` (`ImplementsCustody`): a claim is a `Grant`, because a waiting run has no
  lease in use (`OneHolder`); an expiry or relinquishment that moves the run is a `GiveBack` of the
  holder (`RunningIsHeld`); an accepted result is a `Decide` of the latest holder, after it gave the
  run back only with the failure it stands for (`GivenBack`); whatever else happens moves nothing.

`ArtifactDeletionProofs`
* `TypeCorrect`; `RecordsTrue` (`RecordsMatchFiles`); `HoldsAndCopiesProtect` (`FilesSurvive`), for
  any sharing of paths. A handler from the answer of `BeginUnlink` to its settlement owns the fence
  (`StagesFenced`) and, once it has unlinked, the file is gone (`StagesKnow`; the converse fails when
  another job of the path is under way). An open fence excludes holds of its job's tenant and
  reservations of its path (`FenceExcludes`). A missing file is accounted for by a completed job or
  by a fence that its handler is not about to settle without an unlink (`GoneAccounted`). Fences
  outlive leases, which is why a stalled handler needs no lease to be safe.
* `StoredRowsKeepFiles` (`RetainedFilesExist`): a job exists only for the artifact of a deleted row
  (`RowsUnqueued`), and never on the path of a row stored in time (`LiveUnqueued`), which the guard
  of both writers preserves; so a missing file would have no account.

`StripeEntitlementProofs`, for any events, any order of delivery and any number of workers
* `LedgerIsSound` is about the serial ledger. `LedgerInv` has three layers, each proved from the one
  before: types with the attempt budget of due events; links, where a customer has one tenant
  (`OneTenant`) and a subscription belongs to the tenant of the customer its events name
  (`SubscriptionOwned`); and the promises, per event (`AwakeFor`, `NewestFor`) and per tenant
  (`EntitlementAgrees`). `NewestFor` survives because subscriptions and accounts only `Advance`;
  `EntitlementAgrees` because an event is projected only while no other subscription of its tenant
  is open, and writes only its own tenant's account and the installations with that tenant's login,
  which is what `SubscriptionOwned` is for.
* `SerializesEvents` (`ImplementsLedger`) is an argument about two locks. `RowLocks`: a pass that
  holds an event holds it alone, and the event is still due. `CustomerLocks` and `SnapshotLasts`:
  one pass evaluates events of a customer, and would read again what it read. The second follows
  from `SettleIsLocal`: settling an event leaves what is read of other customers' events as it was.
  So every commit is a `Settle` of the ledger, whether its answer arrives or not, and every other
  step a `Record`, an `Upsert`, a `PutOff` or none.
  `SnapshotsLast` states the locks as a result of their own.
* `CustomersAwake`, `NewestWins`, `OneEntitlement` (`LinkedCustomersAwake`, `NewestEventWins`,
  `EntitlementAgrees`), `TypeCorrect`, `LinksArePermanent` and `ProgressIsPermanent` are then facts
  of the ledger that hold for the workers.
* `OneCustomerAssumption` (Stripe never moves a subscription to another customer) is needed and is
  not enforced by the code: the upsert keeps the tenant of an existing row, while the search for
  conflicting subscriptions uses the tenant of the event's customer. With two customers naming one
  subscription, the first tenant could be granted a second open subscription.

`NotificationOutboxProofs`
* `TypeCorrect`; `DeliveredIsReceived` (`DeliveredMeansReceived`).
* `ReceiptsAreBounded` (`ReceiptsBounded`): the budget is checked by a failing pass, not by the
  claim. `Overdrawn` says that an unsettled row past its budget was claimed only by passes that
  still hold it or were lost, which bounds the attempts by `MaxAttempts + |Workers| - 1 + MaxFaults`.

Only model-checked: liveness (`DeliveriesSettle` of two modules, `QueuedRunSettles`,
`SkippedRunIsConcluded`, `EveryCallStarts`, `Ends`, `EveryRunDecided`, `CheckConcluded`,
`HeldRunIsReleased`, `DeletionsSettle`, `EventsSettle`), which is out of the prover's reach.

## 6. Not modelled

PROJECT.json gives the reason for each component that has no module: runner enrollment, uploads and
Marketplace are candidates for small modules; setup, protected releases, reviews and data export are
insert-once rows or single statements; the watches, the rule pipeline, the command line, the
reports, the user interface and the MCP server share no state.

Within the modelled components: payloads, audit rows, log lines and metrics; signatures, nonces and
authentication; backoff lengths, since only whether a delay is over matters; the `cancelled`
target of the state graph, which no code path requests.

* `ReleaseRunOutbox`: the PATCH to `in_progress` that follows a dispatch is no step of its own. If it
  fails the client reports an uncertain delivery (`runner-client.js:160`), which is that branch of
  `DispatchWorkflow`. Reconciliation is in `RunVerdict`; without it no failure is inferred, and the
  report that corrects one (0043:117) does not occur here.

* `WorkerRuntime`: the maintenance loops, which do not use the gate and catch their own failures,
  and the health answers.
* `RunVerdict`: a check run bound to another run, which needs a foreign edit in GitHub; the
  operator's replay of items; an unavailable check run stands for every failed read, 404 included;
  claim, context and the reading of the workflow are
  one step; the persistence transaction is one step. Of a superseded run only that nothing moves it
  any more is checked, since nothing in the code concludes its check run.
* `RunnerLeases`: the choice among runs and runners; the stages between claim and upload are one.
  Supersession, outbox dispatch and reconciliation of the same run are in their own modules: they
  reach the same rows through guards that are modelled there.
* `ArtifactDeletion`: renaming or deleting rows under a fence, which triggers refuse; rows that are
  deleted with their run or installation, without a job; two results at the same instant. READ
  COMMITTED lets the recovery of a claim race a fence, and both lock the job row first, so they are
  one step each.
* `StripeEntitlement`: Marketplace writing the plan of the same tenant; suspension and removal of
  installations; grace and period dates, quantities and seats. A row that takes a tenant's login
  between the projection's statement and its commit was not seen by the statement; it counts as
  installed after the commit.
* `NotificationOutbox`: rendering, channel health, and what makes the time-based scans fire. The
  claim also drops rows it has counted if their channel or event is missing
  (`notification-store.ts:398`), which the schema's references exclude.
