-------------------------- MODULE ControlPlaneJobs --------------------------
(***************************************************************************)
(* The webhook inbox and the leased lifecycle-job queue behind it          *)
(* (packages/db/migrations/0015), the operator's dead-letter replay        *)
(* (0019) and the worker processes that poll the queue                     *)
(* (apps/web/worker.ts, apps/web/lib/control-plane-worker.ts).             *)
(*                                                                         *)
(* Every database function runs in one transaction and is one action.  A   *)
(* handler in a worker is several: it executes the claimed lifecycle       *)
(* actions, then calls complete, and calls fail when either one throws.    *)
(* Timestamps are abstracted to the one comparison the code makes with     *)
(* each: job[d].ripe is  available_at <= now  for an available job and     *)
(* lease_expires_at <= now  for a leased one.                              *)
(***************************************************************************)
EXTENDS Integers, FiniteSets

CONSTANTS Deliveries,      \* GitHub delivery ids
          Workers,         \* ids of worker processes (lease owners)
          Operations,      \* operator operation ids (Idempotency-Key)
          MaxAttempts,     \* max_attempts of a job
          ClaimLimit,      \* p_limit of a claim
          MaxAcceptances,  \* bound: deliveries accepted in a behaviour, anew ones included
          MaxCrashes,      \* bound: worker crashes in a behaviour
          None             \* SQL null

ASSUME AttemptsAssumption == MaxAttempts \in Nat \ {0}
ASSUME LimitsAssumption == /\ ClaimLimit \in Nat \ {0}
                           /\ MaxAcceptances \in Nat
                           /\ MaxCrashes \in Nat
ASSUME NullAssumption == None \notin Workers \cup Deliveries
ASSUME OperationsAssumption == IsFiniteSet(Operations)

VARIABLES job,       \* control_plane_jobs, one row per delivery
          inbox,     \* webhook_inbox.state
          accepted,  \* acceptances of the delivery so far: identifies the job row
          batch,     \* handlers in flight in each worker process
          up,        \* is the worker process running?
          crashes,   \* worker crashes so far
          ops,       \* control_plane_replay_operations
          claims     \* history: leases granted on the delivery so far

vars == <<job, inbox, accepted, batch, up, crashes, ops, claims>>

JobStatus == {"absent", "available", "leased", "completed", "dead_letter"}
InboxState == {"absent", "accepted", "processing", "processed", "dead_letter"}
Phases == {"idle", "running", "completing", "failing"}

Job == [status : JobStatus, attempts : Nat,
        owner : Workers \cup {None}, ripe : BOOLEAN]
Handler == [phase : Phases, job : Nat, claim : Nat]
Operation == [item : Deliveries \cup {None},
              outcome : {"unused", "replayed", "not_replayable", "not_found"}]

Unowned(status, attempts, ripe) ==
  [status |-> status, attempts |-> attempts, owner |-> None, ripe |-> ripe]

NoJob == Unowned("absent", 0, FALSE)
Idle == [phase |-> "idle", job |-> 0, claim |-> 0]

Init == /\ job = [d \in Deliveries |-> NoJob]
        /\ inbox = [d \in Deliveries |-> "absent"]
        /\ accepted = [d \in Deliveries |-> 0]
        /\ batch = [w \in Workers |-> [d \in Deliveries |-> Idle]]
        /\ up = [w \in Workers |-> TRUE]
        /\ crashes = 0
        /\ ops = [o \in Operations |-> [item |-> None, outcome |-> "unused"]]
        /\ claims = [d \in Deliveries |-> 0]

----------------------------------------------------------------------------
(* The webhook endpoint *)

Acceptances ==
  Cardinality({p \in Deliveries \X (1..MaxAcceptances) : p[2] <= accepted[p[1]]})

(* boardreadyops_accept_github_webhook: the first delivery of an id writes  *)
(* the inbox row and its job in one transaction.                            *)
Accept(d) ==
  /\ inbox[d] = "absent"
  /\ Acceptances < MaxAcceptances
  /\ job' = [job EXCEPT ![d] = Unowned("available", 0, TRUE)]
  /\ inbox' = [inbox EXCEPT ![d] = "accepted"]
  /\ accepted' = [accepted EXCEPT ![d] = @ + 1]
  /\ UNCHANGED <<batch, up, crashes, ops, claims>>

(* The unique (provider, delivery_id) absorbs every later delivery of the   *)
(* id: only the duplicate counters, which nothing reads back, change.       *)
AcceptDuplicate(d) ==
  /\ inbox[d] # "absent"
  /\ UNCHANGED vars

(* Mutant: retention deletes rows whatever their state. *)
Purge_AnyState(d) ==
  /\ inbox[d] # "absent"
  /\ job' = [job EXCEPT ![d] = NoJob]
  /\ inbox' = [inbox EXCEPT ![d] = "absent"]
  /\ UNCHANGED <<accepted, batch, up, crashes, ops, claims>>

(* boardreadyops_purge_expired_webhook_inbox: a settled delivery past its   *)
(* retention is deleted, and its job with it (on delete cascade).           *)
Purge(d) ==
  /\ inbox[d] \in {"processed", "dead_letter"}
  /\ job' = [job EXCEPT ![d] = NoJob]
  /\ inbox' = [inbox EXCEPT ![d] = "absent"]
  /\ UNCHANGED <<accepted, batch, up, crashes, ops, claims>>

----------------------------------------------------------------------------
(* The queue *)

(* A lease or a retry delay runs out. *)
TimePasses(d) ==
  /\ job[d].status \in {"available", "leased"}
  /\ ~job[d].ripe
  /\ job' = [job EXCEPT ![d].ripe = TRUE]
  /\ UNCHANGED <<inbox, accepted, batch, up, crashes, ops, claims>>

(* What an attempt that did not succeed leaves: another attempt, at once    *)
(* after a lost lease or after a delay, or a dead letter.                   *)
Released(j, ripe) ==
  IF j.attempts >= MaxAttempts
  THEN Unowned("dead_letter", j.attempts, FALSE)
  ELSE Unowned("available", j.attempts, ripe)

(* Mutant: the inbox of a dead letter keeps looking accepted. *)
ReleasedInbox_Accepted(j) == "accepted"

ReleasedInbox(j) == IF j.attempts >= MaxAttempts THEN "dead_letter" ELSE "accepted"

Leased(j, w) == [status |-> "leased", attempts |-> j.attempts + 1,
                 owner |-> w, ripe |-> FALSE]

(* Mutant: leases of exhausted jobs are never recovered. *)
Expired_WithAttemptsLeft ==
  {d \in Deliveries : job[d].status = "leased" /\ job[d].ripe /\ job[d].attempts < MaxAttempts}

Expired == {d \in Deliveries : job[d].status = "leased" /\ job[d].ripe}

(* The row after the first statement of a claim recovered the leases in R. *)
AfterRecovery(R, d) == IF d \in R THEN Released(job[d], TRUE) ELSE job[d]

Claimable(j) == j.status = "available" /\ j.ripe

(* A loop claims again only when every handler of its last batch is done    *)
(* (await Promise.all).                                                     *)
LoopIdle(w) == up[w] /\ \A d \in Deliveries : batch[w][d].phase = "idle"

(* boardreadyops_claim_control_plane_jobs: recover expired leases, then     *)
(* lease up to p_limit due jobs.  SKIP LOCKED passes over rows another      *)
(* transaction holds, so either statement may see a part of its rows.       *)
Claim(w) ==
  /\ LoopIdle(w)
  /\ \E R \in SUBSET Expired, C \in SUBSET Deliveries :
       /\ R \cup C # {}
       /\ Cardinality(C) <= ClaimLimit
       /\ \A d \in C : Claimable(AfterRecovery(R, d))
       /\ job' = [d \in Deliveries |->
                    IF d \in C THEN Leased(AfterRecovery(R, d), w)
                               ELSE AfterRecovery(R, d)]
       /\ inbox' = [d \in Deliveries |->
                    IF d \in C THEN "processing"
                    ELSE IF d \in R THEN ReleasedInbox(job[d])
                    ELSE inbox[d]]
       /\ claims' = [d \in Deliveries |-> IF d \in C THEN claims[d] + 1 ELSE claims[d]]
       /\ batch' = [batch EXCEPT ![w] = [d \in Deliveries |->
                    IF d \in C THEN [phase |-> "running", job |-> accepted[d],
                                     claim |-> claims[d] + 1]
                               ELSE Idle]]
  /\ UNCHANGED <<accepted, up, crashes, ops>>

----------------------------------------------------------------------------
(* The handler of one claimed job: processControlPlaneJob *)

(* Mutant: a settling call does not compare the lease owner. *)
Holds_AnyOwner(w, d) == batch[w][d].job = accepted[d] /\ job[d].status = "leased"

(* The row a settling call finds: its id, still leased, still to this       *)
(* worker.  The lease's expiry is not looked at.                            *)
Holds(w, d) == /\ batch[w][d].job = accepted[d]
               /\ job[d].status = "leased"
               /\ job[d].owner = w

Goto(w, d, phase) == batch' = [batch EXCEPT ![w][d].phase = phase]
Finish(w, d) == batch' = [batch EXCEPT ![w][d] = Idle]

(* processLifecycleActions ends, or throws. *)
RunActions(w, d) ==
  /\ batch[w][d].phase = "running"
  /\ \E next \in {"completing", "failing"} : Goto(w, d, next)
  /\ UNCHANGED <<job, inbox, accepted, up, crashes, ops, claims>>

(* boardreadyops_complete_control_plane_job finds its row; the answer       *)
(* reaches the handler, or is lost and the handler goes on to call fail.    *)
CompleteJob(w, d) ==
  /\ batch[w][d].phase = "completing"
  /\ Holds(w, d)
  /\ job' = [job EXCEPT ![d] = Unowned("completed", @.attempts, FALSE)]
  /\ inbox' = [inbox EXCEPT ![d] = "processed"]
  /\ Finish(w, d) \/ Goto(w, d, "failing")
  /\ UNCHANGED <<accepted, up, crashes, ops, claims>>

(* The same call on a row another worker has recovered: 'stale'. *)
CompleteStale(w, d) ==
  /\ batch[w][d].phase = "completing"
  /\ ~Holds(w, d)
  /\ Finish(w, d)
  /\ UNCHANGED <<job, inbox, accepted, up, crashes, ops, claims>>

(* The same call when the query itself fails: nothing is written. *)
CompleteThrows(w, d) ==
  /\ batch[w][d].phase = "completing"
  /\ Goto(w, d, "failing")
  /\ UNCHANGED <<job, inbox, accepted, up, crashes, ops, claims>>

(* boardreadyops_fail_control_plane_job: retry after a delay or dead        *)
(* letter; 'stale' when the lease is gone.  Should this call throw too, the *)
(* loop rejects and the process ends: that is Crash.                        *)
FailJob(w, d) ==
  /\ batch[w][d].phase = "failing"
  /\ IF Holds(w, d)
     THEN /\ job' = [job EXCEPT ![d] = Released(@, FALSE)]
          /\ inbox' = [inbox EXCEPT ![d] = ReleasedInbox(job[d])]
     ELSE UNCHANGED <<job, inbox>>
  /\ Finish(w, d)
  /\ UNCHANGED <<accepted, up, crashes, ops, claims>>

(* The process dies: its handlers vanish, its leases stay in the database. *)
Crash(w) ==
  /\ up[w]
  /\ crashes < MaxCrashes
  /\ crashes' = crashes + 1
  /\ up' = [up EXCEPT ![w] = FALSE]
  /\ batch' = [batch EXCEPT ![w] = [d \in Deliveries |-> Idle]]
  /\ UNCHANGED <<job, inbox, accepted, ops, claims>>

(* It is started again under the same worker id. *)
Restart(w) ==
  /\ ~up[w]
  /\ up' = [up EXCEPT ![w] = TRUE]
  /\ UNCHANGED <<job, inbox, accepted, batch, crashes, ops, claims>>

----------------------------------------------------------------------------
(* Mutant: the recorded operation is not consulted. *)
Replay_NotIdempotent(o, d) ==
  /\ job[d].status = "dead_letter"
  /\ ops' = [ops EXCEPT ![o] = [item |-> d, outcome |-> "replayed"]]
  /\ job' = [job EXCEPT ![d] = Unowned("available", 0, TRUE)]
  /\ inbox' = [inbox EXCEPT ![d] = "accepted"]
  /\ UNCHANGED <<accepted, batch, up, crashes, claims>>

(* boardreadyops_replay_control_plane_dead_letter, item type 'job': the     *)
(* operation id is recorded with its outcome, whatever the outcome is.      *)
Replay(o, d) ==
  /\ ops[o].outcome = "unused"
  /\ LET outcome == CASE job[d].status = "absent" -> "not_found"
                      [] job[d].status = "dead_letter" -> "replayed"
                      [] OTHER -> "not_replayable"
     IN /\ ops' = [ops EXCEPT ![o] = [item |-> d, outcome |-> outcome]]
        /\ IF outcome = "replayed"
           THEN /\ job' = [job EXCEPT ![d] = Unowned("available", 0, TRUE)]
                /\ inbox' = [inbox EXCEPT ![d] = "accepted"]
           ELSE UNCHANGED <<job, inbox>>
  /\ UNCHANGED <<accepted, batch, up, crashes, claims>>

(* The operation id again: 'already_applied', or an exception when it comes *)
(* with another item.  Neither writes.                                      *)
ReplayAgain(o) ==
  /\ ops[o].outcome # "unused"
  /\ UNCHANGED vars

----------------------------------------------------------------------------
Work(w, d) == \/ RunActions(w, d)
              \/ CompleteJob(w, d)
              \/ CompleteStale(w, d)
              \/ CompleteThrows(w, d)
              \/ FailJob(w, d)

Next == \/ \E d \in Deliveries : \/ Accept(d)
                                 \/ AcceptDuplicate(d)
                                 \/ Purge(d)
                                 \/ TimePasses(d)
        \/ \E w \in Workers : \/ Claim(w)
                              \/ Crash(w)
                              \/ Restart(w)
                              \/ \E d \in Deliveries : Work(w, d)
        \/ \E o \in Operations : \/ ReplayAgain(o)
                                 \/ \E d \in Deliveries : Replay(o, d)

Spec == Init /\ [][Next]_vars

(* Polling loops never stop while their process runs, an orchestrator       *)
(* restarts it, every awaited call returns or throws, and clocks advance.   *)
Fairness == /\ \A d \in Deliveries : WF_vars(TimePasses(d))
            /\ \A w \in Workers : /\ WF_vars(Claim(w))
                                  /\ WF_vars(Restart(w))
                                  /\ \A d \in Deliveries : WF_vars(Work(w, d))

FairSpec == Spec /\ Fairness

----------------------------------------------------------------------------
(* Properties *)

(* The tables, the handlers and the operations hold values of their types. *)
TypeOK == /\ job \in [Deliveries -> Job]
          /\ inbox \in [Deliveries -> InboxState]
          /\ accepted \in [Deliveries -> Nat]
          /\ batch \in [Workers -> [Deliveries -> Handler]]
          /\ up \in [Workers -> BOOLEAN]
          /\ crashes \in Nat
          /\ ops \in [Operations -> Operation]
          /\ claims \in [Deliveries -> Nat]

Projection == [absent |-> "absent", available |-> "accepted", leased |-> "processing",
               completed |-> "processed", dead_letter |-> "dead_letter"]

(* The inbox shows the state of its job at all times: the two tables are    *)
(* written by seven functions, and drift between them is what the lifecycle *)
(* reconciliation would have to detect and repair.                          *)
InboxProjectsJob == \A d \in Deliveries : inbox[d] = Projection[job[d].status]

(* No lease is granted beyond max_attempts.  A claim increments             *)
(* attempt_count without looking at it, and an increment past max_attempts  *)
(* would violate the table's check constraint and abort the whole claim, of *)
(* every job, for every worker: so a job offered for claiming always has an *)
(* attempt left.                                                            *)
AttemptBudget ==
  \A d \in Deliveries : /\ job[d].attempts <= MaxAttempts
                        /\ job[d].status = "available" => job[d].attempts < MaxAttempts

(* Completion and failure are fenced by the owner's name alone.  That is    *)
(* enough: whenever a handler's settling call would find its row, the       *)
(* handler runs under the latest lease of the row, and never under one that *)
(* expired and was granted again, to another process or to its own.         *)
LeaseFencing ==
  \A w \in Workers, d \in Deliveries :
    batch[w][d].phase # "idle" /\ Holds(w, d) => batch[w][d].claim = claims[d]

ReplaysOf(d) == {o \in Operations : ops[o] = [item |-> d, outcome |-> "replayed"]}

(* Over its whole life, through crashes, lost leases, duplicates, purges    *)
(* and operator replays retried under one operation id, a delivery is       *)
(* executed at most max_attempts times for each acceptance and each         *)
(* distinct replay operation.                                               *)
ExecutionBudget ==
  \A d \in Deliveries :
    claims[d] <= MaxAttempts * (accepted[d] + Cardinality(ReplaysOf(d)))

IntakeState == [d \in Deliveries |->
  CASE job[d].status = "absent" -> "absent"
    [] job[d].status \in {"available", "leased"} -> "pending"
    [] job[d].status = "completed" -> "done"
    [] job[d].status = "dead_letter" -> "dead"]

Intake == INSTANCE WebhookIntake WITH state <- IntakeState

(* The queue implements the endpoint's promise: an accepted delivery stays  *)
(* pending until it is processed or dead-lettered, and only a replay of a   *)
(* dead letter reopens it.                                                  *)
ImplementsIntake == Intake!Spec

(* Every accepted delivery settles: it is processed or becomes a dead       *)
(* letter, although workers crash and leases expire under slow handlers.    *)
DeliveriesSettle ==
  \A d \in Deliveries :
    job[d].status \in {"available", "leased"} ~>
      job[d].status \in {"completed", "dead_letter"}

=============================================================================
