---------------------------- MODULE RunnerLeases ----------------------------
(***************************************************************************)
(* The lease protocol of managed and self-hosted runners: one release run, *)
(* the execution attempts that successive claims create for it, and their  *)
(* leases.  Every request may arrive late, again, or after its lease was   *)
(* lost, so a holder may ask for anything about any lease it was ever      *)
(* given; a runner that dies asks for nothing more.  The nonces of signed  *)
(* requests only suppress repetitions, which are harmless here.            *)
(*                                                                         *)
(* A lease is numbered like its attempt.  Time advances in ticks: "left"   *)
(* are the ticks to expires_at, "most" those to maximum_expires_at.        *)
(***************************************************************************)
EXTENDS RunnerResults

CONSTANTS Results,      \* the terminal results a runner can sign
          Handlers,     \* concurrent terminal-result requests
          MaxAttempts,  \* bound: claims of the run; the code has none
          LeaseTicks, MaxTicks   \* leaseDurationSeconds, maximumLeaseDurationSeconds

ASSUME ConstantsAssumption ==
  /\ \A r \in Results : r.status \in Decided
  /\ None \notin Results
  /\ MaxAttempts \in Nat
  /\ LeaseTicks \in Nat \ {0} /\ MaxTicks \in Nat /\ MaxTicks >= LeaseTicks

VARIABLES run,      \* release_runs: status, version, terminal_result_digest
          current,  \* execution_attempt_id; 0 before the first claim
          attempt,  \* release_run_attempts, by attempt_number
          lease,    \* runner_job_leases
          handler   \* [Handlers -> an authorized result that is not persisted yet]

vars == <<run, current, attempt, lease, handler>>

-----------------------------------------------------------------------------

Attempts == 1..MaxAttempts
OverAttempt == {"failed", "stale", "superseded"} \cup Decided

(* "claimed" stands also for preparing_source and running: the attempt is in_progress. *)
StageRank == [claimed |-> 0, uploading_artifacts |-> 3, reporting |-> 4]

Rows(n) == <<run.status, run.version, attempt[n].status, attempt[n].version>>

(* expected_*: the rows as the lease protocol left them. *)
Seen == (LiveRun \cup {"superseded"} \cup Decided) \X Nat \X (LiveAttempt \cup OverAttempt \cup {"none"}) \X Nat

Lease == [status : {"none", "active", "expired", "relinquished", "completed"},
          stage : DOMAIN StageRank, left : 0..LeaseTicks, most : 0..MaxTicks, seen : Seen]

NoLease == [status |-> "none", stage |-> "claimed", left |-> 0, most |-> 0,
            seen |-> <<"queued", 0, "none", 0>>]

Init ==
  /\ run = [status |-> "queued", version |-> 0, digest |-> None]
  /\ current = 0
  /\ attempt = [n \in Attempts |-> [status |-> "none", version |-> 0]]
  /\ lease = [n \in Attempts |-> NoLease]
  /\ handler = [h \in Handlers |-> None]

-----------------------------------------------------------------------------

Claimable_AnyAttempt == run.status \in {"queued", "running"}

Claimable ==
  /\ run.status \in {"queued", "running"}
  /\ current # 0 => attempt[current].status \in OverAttempt

(* boardreadyops_claim_runner_job: a new attempt becomes the current one. *)
Claim ==
  LET n == current + 1
      version == run.version + 1 IN
  /\ n \in Attempts /\ Claimable
  /\ run' = [status |-> "running", version |-> version, digest |-> run.digest]
  /\ current' = n
  /\ attempt' = [attempt EXCEPT ![n] = [status |-> "in_progress", version |-> 0]]
  /\ lease' = [lease EXCEPT ![n] = [status |-> "active", stage |-> "claimed",
                                    left |-> LeaseTicks, most |-> MaxTicks,
                                    seen |-> <<"running", version, "in_progress", 0>>]]
  /\ UNCHANGED handler

(* lifecycle_binding_valid: run and attempt are as this lease last left them. *)
Bound(n) == current = n /\ lease[n].seen = Rows(n)

Usable(n) == lease[n].status = "active" /\ lease[n].left > 0

(* What is left of a closed lease; its times do not matter any more. *)
Closed(status, stage, seen) ==
  [status |-> status, stage |-> stage, left |-> 0, most |-> 0, seen |-> seen]

(* The attempt of lease n ends and the run goes back to the queue, in one statement. *)
Requeue(n, attemptStatus, leaseStatus) ==
  LET next == <<"queued", run.version + 1, attemptStatus, attempt[n].version + 1>> IN
  /\ run' = [status |-> next[1], version |-> next[2], digest |-> run.digest]
  /\ attempt' = [attempt EXCEPT ![n] = [status |-> next[3], version |-> next[4]]]
  /\ lease' = [lease EXCEPT ![n] = Closed(leaseStatus, lease[n].stage, next)]

Endable_AnyRows(n) == run.status # "queued"

Endable(n) == Bound(n) /\ run.status = "running" /\ attempt[n].status \in LiveAttempt

(* boardreadyops_expire_runner_leases, which every call of the protocol runs first. *)
Expire(n) ==
  LET l == lease[n] IN
  /\ l.status = "active" /\ l.left = 0
  /\ IF Endable(n) THEN Requeue(n, "stale", "expired")
     ELSE /\ lease' = [lease EXCEPT ![n] = Closed("expired", l.stage, l.seen)]
          /\ UNCHANGED <<run, attempt>>
  /\ UNCHANGED <<current, handler>>

Renewed_NoMaximum(most) == LeaseTicks

(* A renewed lease still ends at its maximum. *)
Renewed(most) == IF LeaseTicks <= most THEN LeaseTicks ELSE most

SeenAfterHeartbeat_Kept(n, status, version) == lease[n].seen

SeenAfterHeartbeat(n, status, version) == <<lease[n].seen[1], lease[n].seen[2], status, version>>

(* boardreadyops_release_run_attempt_transition_allowed, for the statuses of a live lease. *)
Advances(from, to) ==
  \/ from = to
  \/ from = "in_progress" /\ to \in {"uploading_artifacts", "reporting"}
  \/ from = "uploading_artifacts" /\ to = "reporting"

(* boardreadyops_heartbeat_runner_lease: stages never go back, whatever order they arrive in. *)
Heartbeat(n, stage) ==
  LET l == lease[n]
      next == IF StageRank[stage] >= StageRank[l.stage] THEN stage ELSE l.stage
      status == IF next = "claimed" THEN "in_progress" ELSE next
      version == Moved(attempt[n], status) IN
  /\ Usable(n) /\ Bound(n) /\ Advances(attempt[n].status, status)
  /\ attempt' = [attempt EXCEPT ![n] = [status |-> status, version |-> version]]
  /\ lease' = [lease EXCEPT ![n] = [status |-> "active", stage |-> next,
                                    left |-> Renewed(l.most), most |-> l.most,
                                    seen |-> SeenAfterHeartbeat(n, status, version)]]
  /\ UNCHANGED <<run, current, handler>>

(* boardreadyops_relinquish_runner_lease, with reason job_error or another one. *)
Relinquish(n, jobError) ==
  /\ Usable(n) /\ Endable(n)
  /\ Requeue(n, IF jobError THEN "failed" ELSE "stale", "relinquished")
  /\ UNCHANGED <<current, handler>>

(* boardreadyops_authorize_runner_terminal_result; also for a replay of an accepted result. *)
Authorize(h, n, r) ==
  /\ handler[h] = None /\ current = n
  /\ Usable(n) \/ (lease[n].status = "completed" /\ run.status \in Decided)
  /\ handler' = [handler EXCEPT ![h] = [attempt |-> n, value |-> r]]
  /\ UNCHANGED <<run, current, attempt, lease>>

(* persistRunnerResult, with the lease the result was authorized for.  A result row can exist for
   a decided run only, where the outcome does not depend on it. *)
Persist(h) ==
  LET n == handler[h].attempt
      r == handler[h].value
      l == lease[n] IN
  /\ handler[h] # None
  /\ IF Accepted(run, attempt[n], None, current = n, r)
     THEN /\ run' = RunAfter(run, r)
          /\ attempt' = [attempt EXCEPT ![n] = AttemptAfter(attempt[n], r)]
          /\ lease' = IF l.status = "active"
                      THEN [lease EXCEPT ![n] = Closed("completed", "reporting", l.seen)]
                      ELSE lease
     ELSE UNCHANGED <<run, attempt, lease>>
  /\ handler' = [handler EXCEPT ![h] = None]
  /\ UNCHANGED current

(* The request dies, or its artifacts are not the verified uploads. *)
Drop(h) ==
  /\ handler[h] # None
  /\ handler' = [handler EXCEPT ![h] = None]
  /\ UNCHANGED <<run, current, attempt, lease>>

(* A newer commit retires the run and its unfinished attempts; no lease is touched. *)
Supersede ==
  /\ run.status \in LiveRun
  /\ run' = [status |-> "superseded", version |-> run.version + 1, digest |-> run.digest]
  /\ attempt' = [n \in Attempts |-> IF attempt[n].status \in LiveAttempt
                                    THEN [status |-> "superseded", version |-> attempt[n].version + 1]
                                    ELSE attempt[n]]
  /\ UNCHANGED <<current, lease, handler>>

Later(ticks) == IF ticks = 0 THEN 0 ELSE ticks - 1

Tick ==
  /\ \E n \in Attempts : lease[n].status = "active" /\ lease[n].left + lease[n].most > 0
  /\ lease' = [n \in Attempts |->
                 LET l == lease[n] IN
                 IF l.status = "active"
                 THEN [status |-> l.status, stage |-> l.stage, left |-> Later(l.left),
                       most |-> Later(l.most), seen |-> l.seen]
                 ELSE l]
  /\ UNCHANGED <<run, current, attempt, handler>>

-----------------------------------------------------------------------------

Next ==
  \/ Claim \/ Supersede \/ Tick
  \/ \E n \in Attempts :
       \/ Expire(n)
       \/ \E stage \in DOMAIN StageRank : Heartbeat(n, stage)
       \/ \E jobError \in BOOLEAN : Relinquish(n, jobError)
       \/ \E h \in Handlers, r \in Results : Authorize(h, n, r)
  \/ \E h \in Handlers : Persist(h) \/ Drop(h)

Spec == Init /\ [][Next]_vars

(* Time passes, and some runner polls for work, which expires whatever is due.  Nothing obliges a
   runner to report, to relinquish, or to stop renewing. *)
FairSpec ==
  /\ Spec
  /\ WF_vars(Tick)
  /\ \A n \in Attempts : WF_vars(Expire(n))

-----------------------------------------------------------------------------

(* Types; expires_at is never beyond maximum_expires_at. *)
TypeOK ==
  /\ run \in [status : LiveRun \cup {"superseded"} \cup Decided, version : Nat, digest : Results \cup {None}]
  /\ current \in 0..MaxAttempts
  /\ attempt \in [Attempts -> [status : LiveAttempt \cup OverAttempt \cup {"none"}, version : Nat]]
  /\ lease \in [Attempts -> Lease]
  /\ handler \in [Handlers -> [attempt : Attempts, value : Results] \cup {None}]
  /\ \A n \in Attempts : lease[n].left <= lease[n].most

(* A running run always has exactly one live holder that can give it back: its current attempt is
   live and leased, under a lease that still describes both rows, so expiry can requeue the run. *)
RunningIsHeld ==
  run.status = "running" =>
    current # 0 /\ attempt[current].status \in LiveAttempt
                /\ lease[current].status = "active" /\ lease[current].seen = Rows(current)

(* No two runners work for the run: attempts before the current one are over and their leases are
   closed, and a run that is waiting or decided has no lease in use. *)
OneHolder ==
  /\ \A n \in Attempts : n # current => lease[n].status # "active" /\ attempt[n].status \notin LiveAttempt
  /\ run.status \in {"queued"} \cup Decided /\ current # 0 =>
       lease[current].status # "active" /\ attempt[current].status \notin LiveAttempt

(* Who has the run: read from the current attempt and its lease, not from the status of a run that
   is not finished. *)
Phase ==
  IF run.status = "superseded" THEN "retired"
  ELSE IF run.status \in Decided THEN "decided"
  ELSE IF current # 0 /\ lease[current].status = "active" THEN "held"
  ELSE IF current # 0 /\ attempt[current].status = "failed" THEN "yielded"
  ELSE "waiting"

Custody == INSTANCE RunCustody
             WITH Verdicts <- Results, Failures <- {r \in Results : r.status = "failed"}, Undecided <- None,
                  phase <- Phase, holder <- current, verdict <- run.digest

(* Expiry, heartbeats, relinquishments and results that come too late, twice or in another order
   never decide or reopen what they lost: the run passes from holder to holder, only the latest
   one gives the verdict, not after its lease expired, and a finished run stays as it is. *)
ImplementsCustody == Custody!CustodySpec

(* A verdict comes from the current attempt: the run ends with the attempt's status, and the
   holder's lease ends in the same step. *)
VerdictEndsTheLease ==
  [][run.status \notin Decided /\ run'.status \in Decided =>
       current' = current /\ attempt'[current].status = run'.status
                          /\ lease'[current].status \in {"completed", "relinquished"}]_vars

(* A runner that crashed, hangs, or renews for ever loses the run: the lease ends at its maximum,
   and the run is decided, superseded or waiting for another runner. *)
HeldRunIsReleased == run.status = "running" ~> run.status # "running"
=============================================================================
