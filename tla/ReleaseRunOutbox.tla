-------------------------- MODULE ReleaseRunOutbox --------------------------
(***************************************************************************)
(* The release runs of one pull request and the transactional outbox that  *)
(* performs their GitHub effects: enqueue with supersession (migrations    *)
(* 0070, 0027), the leased outbox (0016), the guarded completions of its   *)
(* three effects (0025, 0024), the runner's result (0043), and the worker  *)
(* processes that deliver the effects                                      *)
(* (apps/web/lib/control-plane-outbox-worker.ts).                          *)
(*                                                                         *)
(* A database function is one action, because it is one transaction.  A    *)
(* handler is several: between any two of them its lease may expire, its   *)
(* run may be superseded or the runner may report.  A statement's answer   *)
(* may be lost after it committed; the handler then sees an exception.     *)
(***************************************************************************)
EXTENDS Integers, FiniteSets

CONSTANTS Runs,          \* release-run idempotency keys of the pull request
          CommitOf,      \* the commit of each run, numbered in push order
          Workers,       \* ids of worker processes (lease owners)
          DispatchMode,  \* "github-actions" or "none"
          Skips,         \* the values of skip that requests carry
          MaxAttempts,   \* max_attempts of an effect
          ClaimLimit,    \* p_limit of a claim
          MaxRequests,   \* bound: times one run is requested by jobs
          MaxReruns,     \* bound: times a user asks to re-run one run
          MaxReplays,    \* bound: dead letters an operator replays
          MaxCrashes,    \* bound: worker crashes
          None           \* SQL null

ASSUME CommitsAssumption == CommitOf \in [Runs -> Nat]
ASSUME ModeAssumption == DispatchMode \in {"github-actions", "none"}
ASSUME SkipsAssumption == Skips \subseteq BOOLEAN
ASSUME BoundsAssumption == /\ MaxAttempts \in Nat \ {0}
                           /\ ClaimLimit \in Nat \ {0}
                           /\ MaxRequests \in Nat
                           /\ MaxReruns \in Nat
                           /\ MaxReplays \in Nat
                           /\ MaxCrashes \in Nat
ASSUME OwnerAssumption == None \notin Workers

VARIABLES run,         \* release_runs, with its one execution attempt
          outbox,      \* control_plane_outbox, one row per run and effect type
          batch,       \* handlers in flight in each worker process
          up,          \* is the worker process running?
          checks,      \* GitHub: check runs created for the run (ids 1..n)
          concluded,   \* GitHub: the run's persisted check run is completed
          dispatches,  \* GitHub: workflow runs started for the run
          lost,        \* history: ordinary errors after GitHub accepted a dispatch
          requests,    \* history: requests by lifecycle jobs
          reruns,      \* history: re-run requests by users
          replays,     \* dead letters replayed so far
          crashes      \* worker crashes so far

github == <<checks, concluded, dispatches, lost>>
counters == <<requests, reruns, replays, crashes>>
vars == <<run, outbox, batch, up, checks, concluded, dispatches, lost,
          requests, reruns, replays, crashes>>

Kinds == {"create", "dispatch", "complete"}
Effects == Runs \X Kinds
RunOf(e) == e[1]
KindOf(e) == e[2]

Active == {"queued", "dispatched", "running"}
Results == {"completed", "failed", "timed_out"}
LiveAttempt == {"dispatching", "dispatched", "in_progress"}

RunRow == [status : {"absent", "superseded"} \cup Active \cup Results,
           version : Nat,
           skip : BOOLEAN,     \* draft, fork or setup incomplete: no runner dispatch
           check : Nat,        \* github_check_run_id, 0 when null
           attempt : {"none", "superseded"} \cup LiveAttempt \cup Results,
           attemptVersion : Nat]

EffectRow == [status : {"absent", "available", "leased", "completed",
                        "dead_letter", "reconciliation_required"},
              attempts : Nat,
              owner : Workers \cup {None},
              ripe : BOOLEAN,            \* available_at or lease_expires_at <= now
              started : BOOLEAN,         \* delivery_started_at is not null
              runVersion : Nat,          \* expected_run_version
              attemptVersion : Nat]      \* expected_attempt_version

Handler == [phase : {"idle", "claimed", "calling", "listed", "completing", "failing"},
            check : Nat,                 \* the check run the call ensured
            uncertain : BOOLEAN]         \* the error says deliveryUncertain

NoRun == [status |-> "absent", version |-> 0, skip |-> FALSE, check |-> 0,
          attempt |-> "none", attemptVersion |-> 0]
NoEffect == [status |-> "absent", attempts |-> 0, owner |-> None, ripe |-> FALSE,
             started |-> FALSE, runVersion |-> 0, attemptVersion |-> 0]
At(phase) == [phase |-> phase, check |-> 0, uncertain |-> FALSE]
Idle == At("idle")
Ensured(id) == [phase |-> "completing", check |-> id, uncertain |-> FALSE]
Failing(uncertain) == [phase |-> "failing", check |-> 0, uncertain |-> uncertain]

Init == /\ run = [r \in Runs |-> NoRun]
        /\ outbox = [e \in Effects |-> NoEffect]
        /\ batch = [w \in Workers |-> [e \in Effects |-> Idle]]
        /\ up = [w \in Workers |-> TRUE]
        /\ checks = [r \in Runs |-> 0]
        /\ concluded = [r \in Runs |-> FALSE]
        /\ dispatches = [r \in Runs |-> 0]
        /\ lost = [r \in Runs |-> 0]
        /\ requests = [r \in Runs |-> 0]
        /\ reruns = [r \in Runs |-> 0]
        /\ replays = 0
        /\ crashes = 0

(* A new outbox row, with the versions the insert trigger binds.            *)
Inserted(runVersion, attemptVersion) ==
  [status |-> "available", attempts |-> 0, owner |-> None, ripe |-> TRUE,
   started |-> FALSE, runVersion |-> runVersion, attemptVersion |-> attemptVersion]

(* An outbox row in a new state; its bound versions never change.           *)
Row(x, status, attempts, owner, ripe, started) ==
  [status |-> status, attempts |-> attempts, owner |-> owner, ripe |-> ripe,
   started |-> started, runVersion |-> x.runVersion, attemptVersion |-> x.attemptVersion]

(* A run and its attempt in new states.  Each applied change of one is one  *)
(* version of it.                                                           *)
Bumped(version, changed) == IF changed THEN version + 1 ELSE version
Advanced(x, status, attempt) ==
  [status |-> status, version |-> Bumped(x.version, status # x.status),
   skip |-> x.skip, check |-> x.check,
   attempt |-> attempt, attemptVersion |-> Bumped(x.attemptVersion, attempt # x.attempt)]

----------------------------------------------------------------------------
(* Lifecycle jobs and users *)

(* boardreadyops_supersede_release_run_state: the run and its nonterminal   *)
(* attempt move to superseded, each one version on.                         *)
Superseded(x) ==
  Advanced(x, "superseded", IF x.attempt \in LiveAttempt THEN "superseded" ELSE x.attempt)

(* Mutant: only runs that were not dispatched yet are superseded. *)
SupersededBy_QueuedOnly(r) ==
  {s \in Runs : CommitOf[s] # CommitOf[r] /\ run[s].status = "queued"}

(* The active runs of other commits, which a request for r retires.         *)
SupersededBy(r) ==
  {s \in Runs : CommitOf[s] # CommitOf[r] /\ run[s].status \in Active}

NewRun(skip) == [status |-> "queued", version |-> 0, skip |-> skip, check |-> 0,
                 attempt |-> "none", attemptVersion |-> 0]

(* boardreadyops_enqueue_release_run_with_outbox: supersede, insert the run *)
(* unless its idempotency key exists, and its check-run effect with it.     *)
(* The advisory lock of the pull request makes it one step.                 *)
EnqueueReleaseRun(r, skip) ==
  /\ run' = [s \in Runs |->
               IF s \in SupersededBy(r) THEN Superseded(run[s])
               ELSE IF s = r /\ run[r].status = "absent"
                    THEN NewRun(skip)
               ELSE run[s]]
  /\ outbox' = IF run[r].status = "absent"
               THEN [outbox EXCEPT ![<<r, "create">>] = Inserted(0, 0)]
               ELSE outbox

(* A lifecycle job plans the run.  Jobs of different commits are executed   *)
(* in any order, and one that is retried or redelivered plans it again.     *)
Request(r, skip) ==
  /\ requests[r] < MaxRequests
  /\ requests' = [requests EXCEPT ![r] = @ + 1]
  /\ EnqueueReleaseRun(r, skip)
  /\ UNCHANGED <<batch, up, reruns, replays, crashes>>
  /\ UNCHANGED github

(* A user asks for a re-run of a run that exists (check-run button, slash   *)
(* command or dashboard): the same enqueue under the same idempotency key.  *)
Rerun(r) ==
  /\ run[r].status # "absent"
  /\ reruns[r] < MaxReruns
  /\ reruns' = [reruns EXCEPT ![r] = @ + 1]
  /\ EnqueueReleaseRun(r, run[r].skip)
  /\ UNCHANGED <<batch, up, requests, replays, crashes>>
  /\ UNCHANGED github

----------------------------------------------------------------------------
(* The leased outbox *)

(* A lease or a retry delay runs out. *)
TimePasses(e) ==
  /\ outbox[e].status \in {"available", "leased"}
  /\ ~outbox[e].ripe
  /\ outbox' = [outbox EXCEPT ![e] = Row(@, @.status, @.attempts, @.owner, TRUE, @.started)]
  /\ UNCHANGED <<run, batch, up>>
  /\ UNCHANGED github
  /\ UNCHANGED counters

Unleased(x, status) == Row(x, status, x.attempts, None, FALSE, x.started)

(* Another attempt, at once after a lost lease or after a delay. *)
Retried(x, ripe) == Row(x, "available", x.attempts, None, ripe, FALSE)

(* Mutant: an expired dispatch returns to the queue like any other effect. *)
Recovered_Retry(e) ==
  IF outbox[e].attempts >= MaxAttempts THEN Unleased(outbox[e], "dead_letter")
  ELSE Retried(outbox[e], TRUE)

(* The row after its lease expired: a dispatch whose delivery began is      *)
(* parked, any other effect is tried again while it has attempts.           *)
Recovered(e) ==
  IF KindOf(e) = "dispatch" /\ outbox[e].started
  THEN Unleased(outbox[e], "reconciliation_required")
  ELSE IF outbox[e].attempts >= MaxAttempts
       THEN Row(outbox[e], "dead_letter", outbox[e].attempts, None, FALSE, FALSE)
       ELSE Retried(outbox[e], TRUE)

(* Mutant: leases of exhausted effects are never recovered. *)
Expired_WithAttemptsLeft ==
  {e \in Effects : outbox[e].status = "leased" /\ outbox[e].ripe
                   /\ outbox[e].attempts < MaxAttempts}

Expired == {e \in Effects : outbox[e].status = "leased" /\ outbox[e].ripe}

AfterRecovery(R, e) == IF e \in R THEN Recovered(e) ELSE outbox[e]

Claimable(x) == x.status = "available" /\ x.ripe

Leased(x, w) == Row(x, "leased", x.attempts + 1, w, FALSE, FALSE)

(* The loop claims again when every handler of its last batch is done.      *)
LoopIdle(w) == up[w] /\ \A e \in Effects : batch[w][e].phase = "idle"

(* boardreadyops_claim_control_plane_outbox: recover expired leases, then   *)
(* lease up to p_limit due effects; SKIP LOCKED may hide rows from either   *)
(* statement.                                                               *)
Claim(w) ==
  /\ LoopIdle(w)
  /\ \E R \in SUBSET Expired :
       \E C \in SUBSET {e \in Effects : Claimable(AfterRecovery(R, e))} :
         /\ R \cup C # {}
         /\ Cardinality(C) <= ClaimLimit
         /\ outbox' = [e \in Effects |->
                         IF e \in C THEN Leased(AfterRecovery(R, e), w) ELSE AfterRecovery(R, e)]
         /\ batch' = [batch EXCEPT ![w] =
                        [e \in Effects |-> IF e \in C THEN At("claimed") ELSE batch[w][e]]]
  /\ UNCHANGED <<run, up>>
  /\ UNCHANGED github
  /\ UNCHANGED counters

----------------------------------------------------------------------------
(* Handlers: processControlPlaneOutboxEffect in worker w on effect e *)

(* Every statement on a claimed row asks for status = 'leased' and          *)
(* lease_owner = worker.                                                    *)
Holds(w, e) == outbox[e].status = "leased" /\ outbox[e].owner = w

In(w, e, phase) == up[w] /\ batch[w][e].phase = phase

Goto(w, e, h) == batch' = [batch EXCEPT ![w][e] = h]

(* The call took effect; its answer reaches the handler, or is lost and the *)
(* handler sees an ordinary error.                                          *)
Answered(w, e, h) == Goto(w, e, h) \/ Goto(w, e, Failing(FALSE))

(* boardreadyops_mark_control_plane_outbox_delivery_started *)
MarkDeliveryStarted(w, e) ==
  /\ In(w, e, "claimed")
  /\ \/ /\ Holds(w, e)
        /\ outbox' = [outbox EXCEPT ![e] = Row(@, @.status, @.attempts, @.owner, @.ripe, TRUE)]
        /\ Answered(w, e, At("calling"))
     \/ /\ ~Holds(w, e)
        /\ Goto(w, e, Idle)
        /\ UNCHANGED outbox
  /\ UNCHANGED <<run, up>>
  /\ UNCHANGED github
  /\ UNCHANGED counters

(* ensurePullRequestCheckRun, the lookup: any check run of the commit with  *)
(* the run's external id is reused.                                         *)
ListCheckRuns(w, r) ==
  LET e == <<r, "create">> IN
  /\ In(w, e, "calling")
  /\ \/ checks[r] = 0 /\ Goto(w, e, At("listed"))
     \/ \E id \in 1..checks[r] : Goto(w, e, Ensured(id))
  /\ UNCHANGED <<run, outbox, up>>
  /\ UNCHANGED github
  /\ UNCHANGED counters

(* ensurePullRequestCheckRun, the creation after an empty lookup. *)
CreateCheckRun(w, r) ==
  LET e == <<r, "create">> IN
  /\ In(w, e, "listed")
  /\ checks' = [checks EXCEPT ![r] = @ + 1]
  /\ Answered(w, e, Ensured(checks[r] + 1))
  /\ UNCHANGED <<run, outbox, up, concluded, dispatches, lost>>
  /\ UNCHANGED counters

(* Mutant: the run's version is not compared with the bound one. *)
CreateCurrent_AnyVersion(w, r) ==
  Holds(w, <<r, "create">>)

(* What boardreadyops_complete_check_run_create_effect demands before it    *)
(* changes anything: the lease, the bound run version, and a queued run     *)
(* without an attempt.                                                      *)
CreateCurrent(w, r) ==
  /\ Holds(w, <<r, "create">>)
  /\ run[r].version = outbox[<<r, "create">>].runVersion
  /\ run[r].status = "queued"
  /\ run[r].attempt = "none"

Completed(x) == Unleased(x, "completed")

(* The run after its check run exists, and the effect that follows: the     *)
(* check run's conclusion for a run that is not dispatched, the workflow    *)
(* dispatch bound to a new execution attempt, or nothing.                   *)
Bound(x, version, id, attempt) ==
  [status |-> x.status, version |-> version, skip |-> x.skip, check |-> id,
   attempt |-> attempt, attemptVersion |-> x.attemptVersion]

AfterCreate(r, id) ==
  IF run[r].skip
  THEN [Advanced(run[r], "completed", run[r].attempt) EXCEPT !.check = id]
  ELSE IF DispatchMode = "github-actions"
  THEN Bound(run[r], run[r].version + 1, id, "dispatching")
  ELSE Bound(run[r], run[r].version, id, run[r].attempt)

(* Mutant: a skipped run is completed without a conclusion effect. *)
OutboxAfterCreate_NoConclusion(r) ==
  LET done == [outbox EXCEPT ![<<r, "create">>] = Completed(@)] IN
  IF DispatchMode = "github-actions" /\ ~run[r].skip
  THEN [done EXCEPT ![<<r, "dispatch">>] = Inserted(run[r].version + 1, 0)]
  ELSE done

OutboxAfterCreate(r) ==
  LET done == [outbox EXCEPT ![<<r, "create">>] = Completed(@)] IN
  IF run[r].skip
  THEN [done EXCEPT ![<<r, "complete">>] = Inserted(0, 0)]
  ELSE IF DispatchMode = "github-actions"
  THEN [done EXCEPT ![<<r, "dispatch">>] = Inserted(run[r].version + 1, 0)]
  ELSE done

(* boardreadyops_complete_check_run_create_effect.  Its check_run_conflict  *)
(* branch needs a persisted check run while the effect is still leased;     *)
(* EffectsMatchRuns shows there is none.                                    *)
CompleteCheckRunCreate(w, r) ==
  LET e == <<r, "create">> IN
  /\ In(w, e, "completing")
  /\ \/ /\ CreateCurrent(w, r)
        /\ run' = [run EXCEPT ![r] = AfterCreate(r, batch[w][e].check)]
        /\ outbox' = OutboxAfterCreate(r)
        /\ Answered(w, e, Idle)
     \/ /\ ~CreateCurrent(w, r)
        /\ Goto(w, e, Idle)
        /\ UNCHANGED <<run, outbox>>
  /\ UNCHANGED up
  /\ UNCHANGED github
  /\ UNCHANGED counters

(* dispatchReleaseRunWorkflow when GitHub starts the workflow.  A response  *)
(* that is missing or unusable is reported as uncertain; one whose body     *)
(* cannot be read, or a server error, is an ordinary error.                 *)
DispatchWorkflow(w, r) ==
  LET e == <<r, "dispatch">> IN
  /\ In(w, e, "calling")
  /\ dispatches' = [dispatches EXCEPT ![r] = @ + 1]
  /\ \/ /\ Goto(w, e, At("completing")) \/ Goto(w, e, Failing(TRUE))
        /\ UNCHANGED lost
     \/ /\ Goto(w, e, Failing(FALSE))
        /\ lost' = [lost EXCEPT ![r] = @ + 1]
  /\ UNCHANGED <<run, outbox, up, checks, concluded>>
  /\ UNCHANGED counters

(* dispatchReleaseRunWorkflow when the request never reaches GitHub: the    *)
(* client cannot tell and reports it as uncertain too.                      *)
DispatchUnreachable(w, r) ==
  LET e == <<r, "dispatch">> IN
  /\ In(w, e, "calling")
  /\ Goto(w, e, Failing(TRUE))
  /\ UNCHANGED <<run, outbox, up>>
  /\ UNCHANGED github
  /\ UNCHANGED counters

(* Mutant: only the lease is checked. *)
DispatchCurrent_LeaseOnly(w, r) == Holds(w, <<r, "dispatch">>)

(* boardreadyops_complete_workflow_dispatch_effect demands the lease and    *)
(* the run and attempt exactly as they were when the effect was written.    *)
DispatchCurrent(w, r) ==
  /\ Holds(w, <<r, "dispatch">>)
  /\ run[r].status = "queued"
  /\ run[r].version = outbox[<<r, "dispatch">>].runVersion
  /\ run[r].attempt = "dispatching"
  /\ run[r].attemptVersion = outbox[<<r, "dispatch">>].attemptVersion

CompleteWorkflowDispatch(w, r) ==
  LET e == <<r, "dispatch">> IN
  /\ In(w, e, "completing")
  /\ \/ /\ DispatchCurrent(w, r)
        /\ run' = [run EXCEPT ![r] = Advanced(@, "dispatched", "dispatched")]
        /\ outbox' = [outbox EXCEPT ![e] = Completed(@)]
        /\ Answered(w, e, Idle)
     \/ /\ ~DispatchCurrent(w, r)
        /\ Goto(w, e, Idle)
        /\ UNCHANGED <<run, outbox>>
  /\ UNCHANGED up
  /\ UNCHANGED github
  /\ UNCHANGED counters

(* Mutant: an error response is not noticed. *)
ConcludeCheckRun_ErrorIgnored(w, r) ==
  LET e == <<r, "complete">> IN
  /\ In(w, e, "calling")
  /\ concluded' \in {concluded, [concluded EXCEPT ![r] = TRUE]}
  /\ Goto(w, e, At("completing"))
  /\ UNCHANGED <<run, outbox, up, checks, dispatches, lost>>
  /\ UNCHANGED counters

(* completeGitHubCheckRun: PATCH the persisted check run to completed. *)
ConcludeCheckRun(w, r) ==
  LET e == <<r, "complete">> IN
  /\ In(w, e, "calling")
  /\ concluded' = [concluded EXCEPT ![r] = TRUE]
  /\ Answered(w, e, At("completing"))
  /\ UNCHANGED <<run, outbox, up, checks, dispatches, lost>>
  /\ UNCHANGED counters

(* boardreadyops_complete_control_plane_outbox *)
CompleteEffect(w, r) ==
  LET e == <<r, "complete">> IN
  /\ In(w, e, "completing")
  /\ \/ /\ Holds(w, e)
        /\ outbox' = [outbox EXCEPT ![e] = Completed(@)]
        /\ Answered(w, e, Idle)
     \/ /\ ~Holds(w, e)
        /\ Goto(w, e, Idle)
        /\ UNCHANGED outbox
  /\ UNCHANGED <<run, up>>
  /\ UNCHANGED github
  /\ UNCHANGED counters

(* A call fails without effect, as an ordinary error.  The completion of a  *)
(* dispatch fails after GitHub accepted it.                                 *)
CallFails(w, e) ==
  /\ up[w] /\ batch[w][e].phase \in {"claimed", "calling", "listed", "completing"}
  /\ Goto(w, e, Failing(FALSE))
  /\ lost' = IF KindOf(e) = "dispatch" /\ batch[w][e].phase = "completing"
             THEN [lost EXCEPT ![RunOf(e)] = @ + 1] ELSE lost
  /\ UNCHANGED <<run, outbox, up, checks, concluded, dispatches>>
  /\ UNCHANGED counters

(* The row after a failed attempt. *)
Failed(e, uncertain) ==
  IF uncertain /\ KindOf(e) = "dispatch"
  THEN Unleased(outbox[e], "reconciliation_required")
  ELSE IF outbox[e].attempts >= MaxAttempts THEN Unleased(outbox[e], "dead_letter")
  ELSE Retried(outbox[e], FALSE)

(* boardreadyops_fail_control_plane_outbox; an error of its own ends the    *)
(* worker (Crash).                                                          *)
FailEffect(w, e) ==
  /\ In(w, e, "failing")
  /\ outbox' = IF Holds(w, e) THEN [outbox EXCEPT ![e] = Failed(e, batch[w][e].uncertain)]
               ELSE outbox
  /\ Goto(w, e, Idle)
  /\ UNCHANGED <<run, up>>
  /\ UNCHANGED github
  /\ UNCHANGED counters

----------------------------------------------------------------------------
(* Runner, operator and process life cycle *)

(* boardreadyops_apply_runner_result_state for a report of a workflow that  *)
(* was started.  The route rejects a superseded run, and a terminal run     *)
(* already holds the digest of its result; the run and its attempt move     *)
(* together, each one version on if its status changes.  Nothing asks       *)
(* whether the dispatch was recorded first.                                 *)
RunnerReports(r, status) ==
  LET attempt == IF status = "running" THEN "in_progress" ELSE status IN
  /\ dispatches[r] > 0
  /\ run[r].status \in Active
  /\ run[r].attempt \in LiveAttempt
  /\ run' = [run EXCEPT ![r] = Advanced(@, status, attempt)]
  /\ UNCHANGED <<outbox, batch, up>>
  /\ UNCHANGED github
  /\ UNCHANGED counters

Replayable(e) == outbox[e].status = "dead_letter"

(* boardreadyops_replay_control_plane_outbox *)
ReplayEffect(e) ==
  /\ Replayable(e)
  /\ replays < MaxReplays
  /\ replays' = replays + 1
  /\ outbox' = [outbox EXCEPT ![e] = Row(@, "available", 0, None, TRUE, FALSE)]
  /\ UNCHANGED <<run, batch, up, requests, reruns, crashes>>
  /\ UNCHANGED github

(* A worker process ends; its handlers are gone, its leases are not. *)
Crash(w) ==
  /\ up[w]
  /\ crashes < MaxCrashes
  /\ crashes' = crashes + 1
  /\ up' = [up EXCEPT ![w] = FALSE]
  /\ batch' = [batch EXCEPT ![w] = [e \in Effects |-> Idle]]
  /\ UNCHANGED <<run, outbox, requests, reruns, replays>>
  /\ UNCHANGED github

Restart(w) ==
  /\ ~up[w]
  /\ up' = [up EXCEPT ![w] = TRUE]
  /\ UNCHANGED <<run, outbox, batch>>
  /\ UNCHANGED github
  /\ UNCHANGED counters

HandlerStep(w) ==
  \/ \E e \in Effects : \/ MarkDeliveryStarted(w, e)
                        \/ CallFails(w, e)
                        \/ FailEffect(w, e)
  \/ \E r \in Runs : \/ ListCheckRuns(w, r)
                     \/ CreateCheckRun(w, r)
                     \/ CompleteCheckRunCreate(w, r)
                     \/ DispatchWorkflow(w, r)
                     \/ DispatchUnreachable(w, r)
                     \/ CompleteWorkflowDispatch(w, r)
                     \/ ConcludeCheckRun(w, r)
                     \/ CompleteEffect(w, r)

Next ==
  \/ \E r \in Runs : \/ \E skip \in Skips : Request(r, skip)
                     \/ Rerun(r)
                     \/ \E status \in {"running"} \cup Results : RunnerReports(r, status)
  \/ \E e \in Effects : TimePasses(e) \/ ReplayEffect(e)
  \/ \E w \in Workers : Claim(w) \/ HandlerStep(w) \/ Crash(w) \/ Restart(w)

Spec == Init /\ [][Next]_vars

(* Workers that stay up keep polling and driving their handlers, a crashed  *)
(* worker is restarted by its supervisor, and time passes.  Requests,       *)
(* reports, replays and crashes owe nothing.                                *)
Fairness ==
  /\ \A w \in Workers : WF_vars(Claim(w)) /\ WF_vars(HandlerStep(w)) /\ WF_vars(Restart(w))
  /\ \A e \in Effects : WF_vars(TimePasses(e))

FairSpec == Spec /\ Fairness

----------------------------------------------------------------------------
(* Properties *)

(* Every variable has its type. *)
TypeOK == /\ run \in [Runs -> RunRow]
          /\ outbox \in [Effects -> EffectRow]
          /\ batch \in [Workers -> [Effects -> Handler]]
          /\ up \in [Workers -> BOOLEAN]
          /\ checks \in [Runs -> Nat]
          /\ concluded \in [Runs -> BOOLEAN]
          /\ dispatches \in [Runs -> Nat]
          /\ lost \in [Runs -> Nat]
          /\ requests \in [Runs -> Nat]
          /\ reruns \in [Runs -> Nat]
          /\ replays \in Nat
          /\ crashes \in Nat

(* Crashes, expired leases, overtaken handlers, uncertain answers and       *)
(* operator replays never start a workflow twice: every workflow beyond a   *)
(* run's first is paid for by an ordinary error that was raised after       *)
(* GitHub had accepted the previous one.                                    *)
DispatchesAccountedFor == \A r \in Runs : dispatches[r] <= 1 + lost[r]

(* A dispatch parked as reconciliation_required stays parked: no claim,     *)
(* late handler, retry or replay brings it back to the queue.               *)
ParkedForGood ==
  [][\A e \in Effects : outbox[e].status = "reconciliation_required"
                          => outbox'[e] = outbox[e]]_vars

(* A completed effect happened at GitHub and its transition is recorded:    *)
(* the persisted check run exists, the dispatched attempt has a workflow,   *)
(* the skipped run's check run is concluded.  Conversely a run is bound to  *)
(* a check run, and a run is 'dispatched', only through a completed effect. *)
EffectsMatchRuns ==
  \A r \in Runs :
    /\ outbox[<<r, "create">>].status = "completed" <=> run[r].check > 0
    /\ run[r].check <= checks[r]
    /\ outbox[<<r, "dispatch">>].status = "completed"
         => dispatches[r] > 0 /\ run[r].attempt \notin {"none", "dispatching"}
    /\ outbox[<<r, "complete">>].status = "completed" => concluded[r]
    /\ run[r].status = "dispatched" => outbox[<<r, "dispatch">>].status = "completed"

(* The two rows of a run never contradict each other, whichever of worker,  *)
(* runner and newer commit gets there first.                                *)
AttemptAgrees ==
  \A r \in Runs :
    CASE run[r].status = "absent"     -> run[r].attempt = "none"
      [] run[r].status = "queued"     -> run[r].attempt \in {"none", "dispatching"}
      [] run[r].status = "dispatched" -> run[r].attempt = "dispatched"
      [] run[r].status = "running"    -> run[r].attempt = "in_progress"
      [] run[r].status = "superseded" -> run[r].attempt \in {"none", "superseded"}
      [] OTHER -> run[r].attempt = run[r].status \/ (run[r].skip /\ run[r].attempt = "none")

(* At any time the active runs of the pull request belong to one commit.    *)
OneActiveCommit ==
  \A r, s \in Runs : run[r].status \in Active /\ run[s].status \in Active
                       => CommitOf[r] = CommitOf[s]

(* The detailed protocol implements the run state graph: terminal states    *)
(* are final and every applied change is one version.                       *)
Lifecycle == INSTANCE ReleaseRunLifecycle
               WITH status <- [r \in Runs |-> run[r].status],
                    version <- [r \in Runs |-> run[r].version]
ImplementsLifecycle == Lifecycle!LifecycleSpec

(* A queued run does not get stuck in silence: it leaves the queue, or one  *)
(* of its effects is in front of the operator.                              *)
Surfaced(e) == outbox[e].status \in {"dead_letter", "reconciliation_required"}
QueuedRunSettles ==
  \A r \in Runs : run[r].status = "queued"
                    ~> \/ run[r].status # "queued"
                       \/ Surfaced(<<r, "create">>) \/ Surfaced(<<r, "dispatch">>)

(* A run that is completed without a runner gets its check run concluded,   *)
(* or the failed effect is in front of the operator.                        *)
SkippedRunIsConcluded ==
  \A r \in Runs : run[r].skip /\ run[r].status = "completed"
                    ~> concluded[r] \/ Surfaced(<<r, "complete">>)

----------------------------------------------------------------------------
(* What the documentation says and the code does not keep *)

(* "Workflow dispatch is treated as non-idempotent after delivery begins."  *)
AtMostOneDispatch == \A r \in Runs : dispatches[r] <= 1

=============================================================================
