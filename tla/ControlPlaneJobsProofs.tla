----------------------- MODULE ControlPlaneJobsProofs -----------------------
(***************************************************************************)
(* Proofs about the webhook inbox and its job queue, for any deliveries,   *)
(* workers, operations and attempt budget.                                 *)
(***************************************************************************)
EXTENDS ControlPlaneJobs, FiniteSetTheorems, TLAPS

USE AttemptsAssumption, LimitsAssumption, NullAssumption

(* The shape of the rows the queue writes. *)
LEMMA RowTypes ==
  /\ NoJob \in Job
  /\ Idle \in Handler
  /\ Unowned("available", 0, TRUE) \in Job
  /\ \A j \in Job, r \in BOOLEAN : Released(j, r) \in Job
  /\ \A j \in Job, w \in Workers : Leased(j, w) \in Job
  /\ \A j \in Job : ReleasedInbox(j) \in InboxState
BY DEF NoJob, Idle, Unowned, Released, Leased, ReleasedInbox, Job, Handler,
       JobStatus, InboxState, Phases

(* A step of a claim, with the recovered and the leased rows named. *)
ClaimStep(w, R, C) ==
  /\ R \in SUBSET Expired
  /\ C \in SUBSET Deliveries
  /\ \A d \in C : Claimable(AfterRecovery(R, d))
  /\ job' = [d \in Deliveries |->
               IF d \in C THEN Leased(AfterRecovery(R, d), w) ELSE AfterRecovery(R, d)]
  /\ inbox' = [d \in Deliveries |->
               IF d \in C THEN "processing"
               ELSE IF d \in R THEN ReleasedInbox(job[d]) ELSE inbox[d]]
  /\ claims' = [d \in Deliveries |-> IF d \in C THEN claims[d] + 1 ELSE claims[d]]
  /\ batch' = [batch EXCEPT ![w] = [d \in Deliveries |->
               IF d \in C THEN [phase |-> "running", job |-> accepted[d],
                                claim |-> claims[d] + 1] ELSE Idle]]
  /\ UNCHANGED <<accepted, up, crashes, ops>>

LEMMA ClaimSplits ==
  ASSUME NEW w \in Workers, Claim(w)
  PROVE  \E R, C : ClaimStep(w, R, C)
BY DEF Claim, ClaimStep

(* Type correctness is inductive. *)
LEMMA TypeStep == TypeOK /\ [Next]_vars => TypeOK'
<1> SUFFICES ASSUME TypeOK, [Next]_vars PROVE TypeOK'
  OBVIOUS
<1> USE RowTypes DEF TypeOK
<1>1. ASSUME NEW d \in Deliveries, Accept(d) PROVE TypeOK'
  <2>1. job' \in [Deliveries -> Job] /\ inbox' \in [Deliveries -> InboxState]
    BY <1>1 DEF Accept, InboxState
  <2>2. accepted' \in [Deliveries -> Nat]
    BY <1>1 DEF Accept
  <2> QED BY <1>1, <2>1, <2>2 DEF Accept
<1>2. ASSUME NEW d \in Deliveries, AcceptDuplicate(d) PROVE TypeOK'
  BY <1>2 DEF AcceptDuplicate, vars
<1>3. ASSUME NEW d \in Deliveries, Purge(d) PROVE TypeOK'
  BY <1>3 DEF Purge, InboxState
<1>4. ASSUME NEW d \in Deliveries, TimePasses(d) PROVE TypeOK'
  BY <1>4 DEF TimePasses, Job
<1>5. ASSUME NEW w \in Workers, Claim(w) PROVE TypeOK'
  <2>1. PICK R, C : ClaimStep(w, R, C)
    BY <1>5, ClaimSplits
  <2>2. \A d \in Deliveries : AfterRecovery(R, d) \in Job
    BY DEF AfterRecovery
  <2>3. job' \in [Deliveries -> Job]
    BY <2>1, <2>2 DEF ClaimStep
  <2>4. inbox' \in [Deliveries -> InboxState]
    BY <2>1 DEF ClaimStep, InboxState
  <2>5. claims' \in [Deliveries -> Nat]
    BY <2>1 DEF ClaimStep
  <2>6. batch' \in [Workers -> [Deliveries -> Handler]]
    BY <2>1 DEF ClaimStep, Handler, Phases
  <2> QED
    BY <2>1, <2>3, <2>4, <2>5, <2>6 DEF ClaimStep
<1>6. ASSUME NEW w \in Workers, Crash(w) PROVE TypeOK'
  BY <1>6 DEF Crash
<1>7. ASSUME NEW w \in Workers, Restart(w) PROVE TypeOK'
  BY <1>7 DEF Restart
<1>8. ASSUME NEW w \in Workers, NEW d \in Deliveries, Work(w, d) PROVE TypeOK'
  <2>1. \A p \in Phases : Goto(w, d, p) => batch' \in [Workers -> [Deliveries -> Handler]]
    <3> SUFFICES ASSUME NEW p \in Phases, Goto(w, d, p)
                 PROVE  batch' \in [Workers -> [Deliveries -> Handler]]
      OBVIOUS
    <3>0. batch[w][d] \in Handler
      OBVIOUS
    <3>1. [batch[w][d] EXCEPT !.phase = p] \in Handler
      BY ONLY <3>0, p \in Phases DEF Handler
    <3>2. [batch[w] EXCEPT ![d] = [batch[w][d] EXCEPT !.phase = p]] \in [Deliveries -> Handler]
      BY <3>1
    <3> QED BY <3>2 DEF Goto
  <2>2. Finish(w, d) => batch' \in [Workers -> [Deliveries -> Handler]]
    BY DEF Finish
  <2>3. CASE RunActions(w, d)
    BY <2>1, <2>3 DEF RunActions, Phases
  <2>4. CASE CompleteJob(w, d)
    <3>1. job' \in [Deliveries -> Job] /\ inbox' \in [Deliveries -> InboxState]
      BY <2>4 DEF CompleteJob, InboxState, Unowned, Job, JobStatus
    <3> QED BY <2>1, <2>2, <2>4, <3>1 DEF CompleteJob, Phases
  <2>5. CASE CompleteStale(w, d)
    BY <2>2, <2>5 DEF CompleteStale
  <2>6. CASE CompleteThrows(w, d)
    BY <2>1, <2>6 DEF CompleteThrows, Phases
  <2>7. CASE FailJob(w, d)
    <3>1. job' \in [Deliveries -> Job] /\ inbox' \in [Deliveries -> InboxState]
      <4>1. Released(job[d], FALSE) \in Job /\ ReleasedInbox(job[d]) \in InboxState
        OBVIOUS
      <4>2. CASE Holds(w, d)
        <5>1. /\ job' = [job EXCEPT ![d] = Released(job[d], FALSE)]
              /\ inbox' = [inbox EXCEPT ![d] = ReleasedInbox(job[d])]
          BY <2>7, <4>2 DEF FailJob
        <5>2. job \in [Deliveries -> Job] /\ inbox \in [Deliveries -> InboxState]
          OBVIOUS
        <5> QED BY ONLY <4>1, <5>1, <5>2
      <4>3. CASE ~Holds(w, d)
        BY <2>7, <4>3 DEF FailJob
      <4> QED BY <4>2, <4>3
    <3> QED BY <2>2, <2>7, <3>1 DEF FailJob
  <2> QED
    BY <1>8, <2>3, <2>4, <2>5, <2>6, <2>7 DEF Work
<1>9. ASSUME NEW o \in Operations, NEW d \in Deliveries, Replay(o, d) PROVE TypeOK'
  <2>1. job' \in [Deliveries -> Job] /\ inbox' \in [Deliveries -> InboxState]
    BY <1>9 DEF Replay, InboxState, JobStatus
  <2>2. ops' \in [Operations -> Operation]
    BY <1>9 DEF Replay, Operation
  <2> QED BY <1>9, <2>1, <2>2 DEF Replay
<1>10. ASSUME NEW o \in Operations, ReplayAgain(o) PROVE TypeOK'
  BY <1>10 DEF ReplayAgain, vars
<1>11. CASE UNCHANGED vars
  BY <1>11 DEF vars
<1> QED
  BY <1>1, <1>2, <1>3, <1>4, <1>5, <1>6, <1>7, <1>8, <1>9, <1>10, <1>11 DEF Next

LEMMA TypeInit == Init => TypeOK
BY RowTypes DEF Init, TypeOK, InboxState, Operation

(* The tables, handlers and operations always hold values of their types. *)
THEOREM TypeCorrect == Spec => []TypeOK
BY TypeInit, TypeStep, PTL DEF Spec

----------------------------------------------------------------------------
(* The two tables agree *)

LEMMA ProjectionStep == TypeOK /\ InboxProjectsJob /\ [Next]_vars => InboxProjectsJob'
<1> SUFFICES ASSUME TypeOK, InboxProjectsJob, [Next]_vars,
                    NEW e \in Deliveries
             PROVE  inbox'[e] = Projection[job'[e].status]
  BY DEF InboxProjectsJob
<1>0. inbox[e] = Projection[job[e].status]
  BY DEF InboxProjectsJob
<1>1. CASE job'[e] = job[e] /\ inbox'[e] = inbox[e]
  BY <1>0, <1>1
<1>2. ASSUME NEW d \in Deliveries, Accept(d) \/ AcceptDuplicate(d) \/ Purge(d)
      PROVE  inbox'[e] = Projection[job'[e].status]
  BY <1>0, <1>2 DEF Accept, AcceptDuplicate, Purge, vars, NoJob, Unowned, Projection, TypeOK
<1>3. ASSUME NEW d \in Deliveries, TimePasses(d)
      PROVE  inbox'[e] = Projection[job'[e].status]
  BY <1>0, <1>3 DEF TimePasses, TypeOK, Job
<1>4. ASSUME NEW w \in Workers, Claim(w)
      PROVE  inbox'[e] = Projection[job'[e].status]
  <2>1. PICK R, C : ClaimStep(w, R, C)
    BY <1>4, ClaimSplits
  <2>2. CASE e \in C
    BY <2>1, <2>2 DEF ClaimStep, Leased, Projection
  <2>3. CASE e \notin C /\ e \in R
    BY <2>1, <2>3 DEF ClaimStep, AfterRecovery, Released, ReleasedInbox, Unowned, Projection
  <2>4. CASE e \notin C /\ e \notin R
    BY <1>0, <2>1, <2>4 DEF ClaimStep, AfterRecovery
  <2> QED BY <2>2, <2>3, <2>4
<1>5. ASSUME NEW w \in Workers, NEW d \in Deliveries, Work(w, d)
      PROVE  inbox'[e] = Projection[job'[e].status]
  <2>1. CASE CompleteJob(w, d)
    BY <1>0, <2>1 DEF CompleteJob, Unowned, Projection, TypeOK
  <2>2. CASE FailJob(w, d) /\ Holds(w, d)
    <3>1. /\ job' = [job EXCEPT ![d] = Released(job[d], FALSE)]
          /\ inbox' = [inbox EXCEPT ![d] = ReleasedInbox(job[d])]
      BY <2>2 DEF FailJob
    <3> QED BY <1>0, <3>1 DEF Released, ReleasedInbox, Unowned, Projection, TypeOK
  <2>3. CASE UNCHANGED <<job, inbox>>
    BY <1>1, <2>3
  <2> QED
    BY <1>5, <2>1, <2>2, <2>3 DEF Work, RunActions, CompleteStale, CompleteThrows, FailJob
<1>6. ASSUME NEW o \in Operations, NEW d \in Deliveries, Replay(o, d)
      PROVE  inbox'[e] = Projection[job'[e].status]
  <2>1. CASE job[d].status = "dead_letter"
    BY <1>0, <1>6, <2>1 DEF Replay, Unowned, Projection, TypeOK
  <2>2. CASE job[d].status # "dead_letter"
    BY <1>1, <1>6, <2>2 DEF Replay
  <2> QED BY <2>1, <2>2
<1>7. ASSUME \/ \E w \in Workers : Crash(w) \/ Restart(w)
             \/ \E o \in Operations : ReplayAgain(o)
             \/ UNCHANGED vars
      PROVE  inbox'[e] = Projection[job'[e].status]
  BY <1>1, <1>7 DEF Crash, Restart, ReplayAgain, vars
<1> QED
  BY <1>2, <1>3, <1>4, <1>5, <1>6, <1>7 DEF Next

(* The inbox always shows the state of its job: none of the seven functions *)
(* that write the two tables can make them drift apart.                     *)
THEOREM InboxNeverDrifts == Spec => []InboxProjectsJob
<1>1. Init => InboxProjectsJob
  BY DEF Init, InboxProjectsJob, NoJob, Unowned, Projection
<1> QED
  BY <1>1, TypeCorrect, ProjectionStep, PTL DEF Spec

----------------------------------------------------------------------------
(* The attempt budget *)

LEMMA BudgetStep == TypeOK /\ AttemptBudget /\ [Next]_vars => AttemptBudget'
<1> DEFINE Within(j) == /\ j.attempts <= MaxAttempts
                        /\ j.status = "available" => j.attempts < MaxAttempts
<1> SUFFICES ASSUME TypeOK, AttemptBudget, [Next]_vars, NEW e \in Deliveries
             PROVE  Within(job'[e])
  BY DEF AttemptBudget
<1>0. Within(job[e]) /\ job[e] \in Job
  BY DEF AttemptBudget, TypeOK
<1>1. \A r \in BOOLEAN : Within(Released(job[e], r))
  BY <1>0 DEF Released, Unowned, Job
<1>2. Within(Unowned("available", 0, TRUE)) /\ Within(NoJob)
  BY DEF Unowned, NoJob
<1>3. ASSUME NEW d \in Deliveries, Accept(d) \/ AcceptDuplicate(d) \/ Purge(d)
      PROVE  Within(job'[e])
  BY <1>0, <1>2, <1>3 DEF Accept, AcceptDuplicate, Purge, vars, TypeOK
<1>4. ASSUME NEW d \in Deliveries, TimePasses(d) PROVE Within(job'[e])
  BY <1>0, <1>4 DEF TimePasses, TypeOK, Job
<1>5. ASSUME NEW w \in Workers, Claim(w) PROVE Within(job'[e])
  <2>1. PICK R, C : ClaimStep(w, R, C)
    BY <1>5, ClaimSplits
  <2>2. Within(AfterRecovery(R, e)) /\ AfterRecovery(R, e).attempts \in Nat
    BY <1>0, <1>1 DEF AfterRecovery, Released, Unowned, Job
  <2>3. CASE e \in C
    BY <2>1, <2>2, <2>3 DEF ClaimStep, Leased, Claimable
  <2>4. CASE e \notin C
    BY <2>1, <2>2, <2>4 DEF ClaimStep
  <2> QED BY <2>3, <2>4
<1>6. ASSUME NEW w \in Workers, NEW d \in Deliveries, Work(w, d) PROVE Within(job'[e])
  <2>1. CASE CompleteJob(w, d)
    BY <1>0, <2>1 DEF CompleteJob, Unowned, TypeOK, Job
  <2>2. CASE FailJob(w, d) /\ Holds(w, d)
    <3>1. job' = [job EXCEPT ![d] = Released(job[d], FALSE)]
      BY <2>2 DEF FailJob
    <3> QED BY <1>0, <1>1, <3>1 DEF TypeOK
  <2>3. CASE UNCHANGED job
    BY <1>0, <2>3
  <2> QED
    BY <1>6, <2>1, <2>2, <2>3 DEF Work, RunActions, CompleteStale, CompleteThrows, FailJob
<1>7. ASSUME NEW o \in Operations, NEW d \in Deliveries, Replay(o, d) PROVE Within(job'[e])
  BY <1>0, <1>2, <1>7 DEF Replay, TypeOK
<1>8. ASSUME \/ \E w \in Workers : Crash(w) \/ Restart(w)
             \/ \E o \in Operations : ReplayAgain(o)
             \/ UNCHANGED vars
      PROVE  Within(job'[e])
  BY <1>0, <1>8 DEF Crash, Restart, ReplayAgain, vars
<1> QED
  BY <1>3, <1>4, <1>5, <1>6, <1>7, <1>8 DEF Next

(* No claim ever increments attempt_count past max_attempts, so no claim    *)
(* ever aborts on the table's check constraint.                             *)
THEOREM AttemptsBounded == Spec => []AttemptBudget
<1>1. Init => AttemptBudget
  BY DEF Init, AttemptBudget, NoJob, Unowned
<1> QED
  BY <1>1, TypeCorrect, BudgetStep, PTL DEF Spec

----------------------------------------------------------------------------
(* Executions over the life of a delivery *)

(* Attempts the job may still use. *)
Left(j) == IF j.status \in {"available", "leased"} THEN MaxAttempts - j.attempts ELSE 0

(* How often the delivery was given its attempts. *)
Grants(d) == accepted[d] + Cardinality(ReplaysOf(d))

(* Attempts used and attempts left are covered by the grants. *)
GrantsCover == \A d \in Deliveries : claims[d] + Left(job[d]) <= MaxAttempts * Grants(d)

LEMMA GrantsType == ASSUME TypeOK, NEW d \in Deliveries PROVE Grants(d) \in Nat
<1>1. IsFiniteSet(ReplaysOf(d))
  BY OperationsAssumption, FS_Subset DEF ReplaysOf
<1> QED BY <1>1, FS_CardinalityType DEF Grants, TypeOK

LEMMA OneGrantMore == \A n \in Nat : MaxAttempts * (n + 1) = MaxAttempts * n + MaxAttempts
OBVIOUS

LEMMA LeftType ==
  \A j \in Job : j.status = "absent" \/ j.status = "available" \/ j.status = "leased"
               \/ j.status = "completed" \/ j.status = "dead_letter"
BY DEF Job, JobStatus

(* A step that lends no lease and grants nothing. *)
LEMMA NothingGranted ==
  ASSUME TypeOK, GrantsCover, NEW e \in Deliveries,
         claims'[e] = claims[e], accepted' = accepted, ops' = ops,
         Left(job'[e]) \in Int, Left(job'[e]) <= Left(job[e]), Left(job[e]) \in Int
  PROVE  claims'[e] + Left(job'[e]) <= MaxAttempts * Grants(e)'
<1>1. Grants(e)' = Grants(e)
  BY DEF Grants, ReplaysOf
<1>2. claims[e] + Left(job[e]) <= MaxAttempts * Grants(e) /\ claims[e] \in Nat
  BY DEF GrantsCover, TypeOK
<1>3. MaxAttempts * Grants(e) \in Int
  BY GrantsType
<1> QED BY <1>1, <1>2, <1>3

LEMMA ReleasedLeft ==
  ASSUME NEW j \in Job, j.status = "leased", j.attempts <= MaxAttempts, NEW r \in BOOLEAN
  PROVE  Left(Released(j, r)) \in Int /\ Left(Released(j, r)) <= Left(j)
BY DEF Left, Released, Unowned, Job

LEMMA GrantsStep ==
  TypeOK /\ InboxProjectsJob /\ AttemptBudget /\ GrantsCover /\ [Next]_vars => GrantsCover'
<1> SUFFICES ASSUME TypeOK, InboxProjectsJob, AttemptBudget, GrantsCover, [Next]_vars,
                    NEW e \in Deliveries
             PROVE  claims'[e] + Left(job'[e]) <= MaxAttempts * Grants(e)'
  BY DEF GrantsCover
<1>0. /\ job[e] \in Job /\ claims[e] \in Nat /\ Left(job[e]) \in Int
      /\ claims[e] + Left(job[e]) <= MaxAttempts * Grants(e)
      /\ Grants(e) \in Nat /\ job[e].attempts <= MaxAttempts
  BY GrantsType DEF TypeOK, Job, Left, GrantsCover, AttemptBudget
<1>1. CASE claims'[e] = claims[e] /\ job'[e] = job[e] /\ accepted' = accepted /\ ops' = ops
  BY <1>0, <1>1, NothingGranted
<1>2. ASSUME NEW d \in Deliveries, Accept(d)
      PROVE  claims'[e] + Left(job'[e]) <= MaxAttempts * Grants(e)'
  <2>1. claims' = claims /\ ReplaysOf(e)' = ReplaysOf(e)
    BY <1>2 DEF Accept, ReplaysOf
  <2>2. CASE d = e
    <3>1. job[e].status = "absent"
      <4>1. Projection[job[e].status] = "absent"
        BY <1>2, <2>2 DEF Accept, InboxProjectsJob
      <4> QED BY <1>0, <4>1, LeftType DEF Projection
    <3>2. Left(job[e]) = 0 /\ Left(job'[e]) = MaxAttempts
      BY <1>2, <2>2, <3>1 DEF Accept, Left, Unowned, TypeOK
    <3>3. Grants(e)' = Grants(e) + 1
      <4>1. accepted'[e] = accepted[e] + 1 /\ accepted[e] \in Nat
        BY <1>2, <2>2 DEF Accept, TypeOK
      <4>2. Cardinality(ReplaysOf(e)) \in Nat
        BY OperationsAssumption, FS_Subset, FS_CardinalityType DEF ReplaysOf
      <4> QED BY <2>1, <4>1, <4>2 DEF Grants
    <3>4. MaxAttempts * Grants(e)' = MaxAttempts * Grants(e) + MaxAttempts
      BY <1>0, <3>3, OneGrantMore
    <3> QED BY <1>0, <2>1, <3>2, <3>4
  <2>3. CASE d # e
    <3>1. job'[e] = job[e] /\ accepted'[e] = accepted[e]
      BY <1>2, <2>3 DEF Accept, TypeOK
    <3>2. Grants(e)' = Grants(e)
      BY <2>1, <3>1 DEF Grants
    <3> QED BY <1>0, <2>1, <3>1, <3>2
  <2> QED BY <2>2, <2>3
<1>3. ASSUME NEW d \in Deliveries, Purge(d) \/ TimePasses(d)
      PROVE  claims'[e] + Left(job'[e]) <= MaxAttempts * Grants(e)'
  <2>1. claims' = claims /\ accepted' = accepted /\ ops' = ops
    BY <1>3 DEF Purge, TimePasses
  <2>2. Left(job'[e]) = Left(job[e]) \/ Left(job'[e]) = 0
    BY <1>3 DEF Purge, TimePasses, NoJob, Unowned, Left, TypeOK, Job
  <2>3. Left(job'[e]) = 0 => Left(job'[e]) <= Left(job[e])
    <3>1. CASE Purge(d) /\ d = e
      <4>1. job[e].status \in {"completed", "dead_letter"}
        <5>1. Projection[job[e].status] \in {"processed", "dead_letter"}
          BY <3>1 DEF Purge, InboxProjectsJob
        <5> QED BY <1>0, <5>1, LeftType DEF Projection
      <4> QED BY <4>1 DEF Left
    <3>2. CASE ~(Purge(d) /\ d = e)
      BY <1>0, <1>3, <3>2 DEF Purge, TimePasses, Left, TypeOK, Job
    <3> QED BY <3>1, <3>2
  <2> QED BY <1>0, <2>1, <2>2, <2>3, NothingGranted
<1>4. ASSUME NEW w \in Workers, Claim(w)
      PROVE  claims'[e] + Left(job'[e]) <= MaxAttempts * Grants(e)'
  <2>1. PICK R, C : ClaimStep(w, R, C)
    BY <1>4, ClaimSplits
  <2> DEFINE mid == AfterRecovery(R, e)
  <2>2. mid \in Job /\ Left(mid) \in Int /\ Left(mid) <= Left(job[e])
    <3>1. CASE e \in R
      <4>1. job[e].status = "leased" /\ mid = Released(job[e], TRUE)
        BY <2>1, <3>1 DEF ClaimStep, Expired, AfterRecovery
      <4> QED BY <1>0, <4>1, ReleasedLeft, RowTypes
    <3>2. CASE e \notin R
      BY <1>0, <3>2 DEF AfterRecovery
    <3> QED BY <3>1, <3>2
  <2>3. accepted' = accepted /\ ops' = ops /\ Grants(e)' = Grants(e)
    BY <2>1 DEF ClaimStep, Grants, ReplaysOf
  <2>4. CASE e \in C
    <3>1. mid.status = "available" /\ mid.attempts \in Nat
      BY <2>1, <2>2, <2>4 DEF ClaimStep, Claimable, Job
    <3>2. job'[e] = Leased(mid, w) /\ claims'[e] = claims[e] + 1
      BY <2>1, <2>4 DEF ClaimStep
    <3> HIDE DEF mid
    <3>3. Left(job'[e]) = Left(mid) - 1
      BY <3>1, <3>2 DEF Left, Leased
    <3>4. MaxAttempts * Grants(e) \in Int
      BY <1>0
    <3> QED BY <1>0, <2>2, <2>3, <3>2, <3>3, <3>4
  <2>5. CASE e \notin C
    <3>1. job'[e] = mid /\ claims'[e] = claims[e]
      BY <2>1, <2>5 DEF ClaimStep
    <3> HIDE DEF mid
    <3> QED BY <1>0, <2>2, <2>3, <3>1, NothingGranted
  <2> QED BY <2>4, <2>5
<1>5. ASSUME NEW w \in Workers, NEW d \in Deliveries, Work(w, d)
      PROVE  claims'[e] + Left(job'[e]) <= MaxAttempts * Grants(e)'
  <2>1. claims' = claims /\ accepted' = accepted /\ ops' = ops
    BY <1>5 DEF Work, RunActions, CompleteJob, CompleteStale, CompleteThrows, FailJob
  <2>2. CASE CompleteJob(w, d) /\ d = e
    <3>1. Left(job'[e]) = 0 /\ job[e].status = "leased"
      BY <2>2 DEF CompleteJob, Holds, Unowned, Left, TypeOK
    <3>2. Left(job[e]) >= 0
      BY <1>0, <3>1 DEF Left, Job
    <3> QED BY <1>0, <2>1, <3>1, <3>2, NothingGranted
  <2>3. CASE FailJob(w, d) /\ Holds(w, d) /\ d = e
    <3>1. job'[e] = Released(job[e], FALSE) /\ job[e].status = "leased"
      BY <2>3 DEF FailJob, Holds, TypeOK
    <3> QED BY <1>0, <2>1, <3>1, ReleasedLeft, NothingGranted
  <2>4. CASE job'[e] = job[e]
    BY <1>1, <2>1, <2>4
  <2> QED
    BY <1>5, <2>2, <2>3, <2>4 DEF Work, RunActions, CompleteJob, CompleteStale,
       CompleteThrows, FailJob, TypeOK
<1>6. ASSUME NEW o \in Operations, NEW d \in Deliveries, Replay(o, d)
      PROVE  claims'[e] + Left(job'[e]) <= MaxAttempts * Grants(e)'
  <2>1. claims' = claims /\ accepted' = accepted /\ ops[o].outcome = "unused"
    BY <1>6 DEF Replay
  <2>2. CASE d = e /\ job[e].status = "dead_letter"
    <3>1. /\ job'[e] = Unowned("available", 0, TRUE)
          /\ ops' = [ops EXCEPT ![o] = [item |-> e, outcome |-> "replayed"]]
      BY <1>6, <2>2 DEF Replay, TypeOK
    <3>2. Left(job[e]) = 0 /\ Left(job'[e]) = MaxAttempts
      BY <2>2, <3>1 DEF Left, Unowned
    <3>3. ReplaysOf(e)' = ReplaysOf(e) \cup {o} /\ o \notin ReplaysOf(e)
      BY <2>1, <3>1 DEF ReplaysOf, TypeOK
    <3>4. IsFiniteSet(ReplaysOf(e))
      BY OperationsAssumption, FS_Subset DEF ReplaysOf
    <3>5. Cardinality(ReplaysOf(e)') = Cardinality(ReplaysOf(e)) + 1
      BY <3>3, <3>4, FS_AddElement
    <3>6. Grants(e)' = Grants(e) + 1
      BY <2>1, <3>4, <3>5, FS_CardinalityType DEF Grants, TypeOK
    <3>7. MaxAttempts * Grants(e)' = MaxAttempts * Grants(e) + MaxAttempts
      BY <1>0, <3>6, OneGrantMore
    <3> QED BY <1>0, <2>1, <3>2, <3>7
  <2>3. CASE ~(d = e /\ job[e].status = "dead_letter")
    <3>1. job'[e] = job[e]
      BY <1>6, <2>3 DEF Replay, TypeOK
    <3>2. ReplaysOf(e)' = ReplaysOf(e)
      BY <1>6, <2>1, <2>3 DEF Replay, ReplaysOf, TypeOK
    <3>3. Grants(e)' = Grants(e)
      BY <2>1, <3>2 DEF Grants
    <3> QED BY <1>0, <2>1, <3>1, <3>3
  <2> QED BY <2>2, <2>3
<1>7. ASSUME \/ \E w \in Workers : Crash(w) \/ Restart(w)
             \/ \E o \in Operations : ReplayAgain(o)
             \/ \E d \in Deliveries : AcceptDuplicate(d)
             \/ UNCHANGED vars
      PROVE  claims'[e] + Left(job'[e]) <= MaxAttempts * Grants(e)'
  BY <1>1, <1>7 DEF Crash, Restart, ReplayAgain, AcceptDuplicate, vars
<1> QED
  BY <1>2, <1>3, <1>4, <1>5, <1>6, <1>7 DEF Next

(* Over its whole life a delivery is executed at most max_attempts times    *)
(* for each acceptance and each distinct replay operation: a crash, a lost  *)
(* lease, a duplicate or a retried replay never buys another execution.     *)
THEOREM ExecutionsBounded == Spec => []ExecutionBudget
<1>1. Init => GrantsCover
  <2> SUFFICES ASSUME Init, NEW d \in Deliveries
               PROVE  claims[d] + Left(job[d]) <= MaxAttempts * Grants(d)
    BY DEF GrantsCover
  <2>1. claims[d] = 0 /\ Left(job[d]) = 0 /\ TypeOK
    BY TypeInit DEF Init, Left, NoJob, Unowned
  <2>2. Grants(d) = 0
    <3>1. ReplaysOf(d) = {} /\ accepted[d] = 0
      BY DEF Init, ReplaysOf
    <3> QED BY <3>1, FS_EmptySet DEF Grants
  <2> QED BY <2>1, <2>2
<1>2. TypeOK /\ AttemptBudget /\ GrantsCover => ExecutionBudget
  <2> SUFFICES ASSUME TypeOK, AttemptBudget, GrantsCover, NEW d \in Deliveries
               PROVE  claims[d] <= MaxAttempts * Grants(d)
    BY DEF ExecutionBudget, Grants
  <2>1. Left(job[d]) \in Int /\ Left(job[d]) >= 0
    BY DEF TypeOK, Job, Left, AttemptBudget
  <2>2. MaxAttempts * Grants(d) \in Int /\ claims[d] \in Nat
    BY GrantsType DEF TypeOK
  <2> QED BY <2>1, <2>2 DEF GrantsCover
<1> QED
  BY <1>1, <1>2, TypeCorrect, InboxNeverDrifts, AttemptsBounded, GrantsStep, PTL DEF Spec

----------------------------------------------------------------------------
(* Fencing by the owner's name *)

LEMMA FencingStep == TypeOK /\ LeaseFencing /\ [Next]_vars => LeaseFencing'
<1> DEFINE Fenced(w, d) ==
      batch[w][d].phase # "idle" /\ Holds(w, d) => batch[w][d].claim = claims[d]
<1> SUFFICES ASSUME TypeOK, LeaseFencing, [Next]_vars,
                    NEW v \in Workers, NEW e \in Deliveries
             PROVE  Fenced(v, e)'
  BY DEF LeaseFencing
<1>0. Fenced(v, e)
  BY DEF LeaseFencing
<1> USE DEF Holds
(* A step that grants no lease and starts no handler cannot break it. *)
<1>1. ASSUME \/ job'[e] = job[e]
             \/ job'[e].status # "leased"
             \/ job'[e].status = job[e].status /\ job'[e].owner = job[e].owner,
             \/ batch'[v][e].phase = "idle"
             \/ /\ batch[v][e].phase # "idle"
                /\ batch'[v][e].job = batch[v][e].job
                /\ batch'[v][e].claim = batch[v][e].claim
             \/ batch'[v][e] = batch[v][e],
             \/ accepted'[e] = accepted[e]
             \/ job'[e].status # "leased",
             claims'[e] = claims[e]
      PROVE  Fenced(v, e)'
  BY <1>0, <1>1
<1>2. ASSUME NEW d \in Deliveries,
             Accept(d) \/ AcceptDuplicate(d) \/ Purge(d) \/ TimePasses(d)
      PROVE  Fenced(v, e)'
  BY <1>1, <1>2 DEF Accept, AcceptDuplicate, Purge, TimePasses, NoJob, Unowned, vars, TypeOK, Job
<1>3. ASSUME NEW w \in Workers, Claim(w) PROVE Fenced(v, e)'
  <2>1. PICK R, C : ClaimStep(w, R, C)
    BY <1>3, ClaimSplits
  <2>2. CASE e \in C /\ v = w
    BY <2>1, <2>2 DEF ClaimStep, TypeOK
  <2>3. CASE e \in C /\ v # w
    BY <2>1, <2>3 DEF ClaimStep, Leased
  <2>4. CASE e \notin C
    <3>1. job'[e] = job[e] \/ job'[e].status # "leased"
      BY <2>1, <2>4 DEF ClaimStep, AfterRecovery, Released, Unowned
    <3>2. batch'[v][e] = batch[v][e] \/ batch'[v][e].phase = "idle"
      BY <2>1, <2>4 DEF ClaimStep, Idle, TypeOK
    <3>3. accepted'[e] = accepted[e] /\ claims'[e] = claims[e]
      BY <2>1, <2>4 DEF ClaimStep
    <3> QED BY <1>1, <3>1, <3>2, <3>3
  <2> QED BY <2>2, <2>3, <2>4
<1>4. ASSUME NEW w \in Workers, NEW d \in Deliveries, Work(w, d) PROVE Fenced(v, e)'
  <2>1. batch[w][d].phase # "idle"
    BY <1>4 DEF Work, RunActions, CompleteJob, CompleteStale, CompleteThrows, FailJob
  <2>2. \/ batch'[v][e].phase = "idle"
        \/ /\ batch[v][e].phase # "idle"
           /\ batch'[v][e].job = batch[v][e].job
           /\ batch'[v][e].claim = batch[v][e].claim
        \/ batch'[v][e] = batch[v][e]
    <3>1. Finish(w, d) \/ \E p \in Phases : Goto(w, d, p)
      BY <1>4 DEF Work, RunActions, CompleteJob, CompleteStale, CompleteThrows, FailJob, Phases
    <3>2. CASE v = w /\ e = d
      BY <2>1, <3>1, <3>2 DEF Finish, Goto, Idle, TypeOK, Handler
    <3>3. CASE ~(v = w /\ e = d)
      BY <3>1, <3>3 DEF Finish, Goto, TypeOK
    <3> QED BY <3>2, <3>3
  <2>3. job'[e] = job[e] \/ job'[e].status # "leased"
    BY <1>4 DEF Work, RunActions, CompleteJob, CompleteStale, CompleteThrows, FailJob,
                Released, Unowned, TypeOK
  <2>4. accepted' = accepted /\ claims' = claims
    BY <1>4 DEF Work, RunActions, CompleteJob, CompleteStale, CompleteThrows, FailJob
  <2> QED BY <1>1, <2>2, <2>3, <2>4
<1>5. ASSUME NEW w \in Workers, Crash(w) \/ Restart(w) PROVE Fenced(v, e)'
  <2>1. batch'[v][e].phase = "idle" \/ batch'[v][e] = batch[v][e]
    BY <1>5 DEF Crash, Restart, Idle, TypeOK
  <2>2. job' = job /\ accepted' = accepted /\ claims' = claims
    BY <1>5 DEF Crash, Restart
  <2> QED BY <1>1, <2>1, <2>2
<1>6. ASSUME NEW o \in Operations, NEW d \in Deliveries, Replay(o, d) PROVE Fenced(v, e)'
  BY <1>1, <1>6 DEF Replay, Unowned, TypeOK
<1>7. ASSUME (\E o \in Operations : ReplayAgain(o)) \/ UNCHANGED vars PROVE Fenced(v, e)'
  BY <1>1, <1>7 DEF ReplayAgain, vars
<1> QED
  BY <1>2, <1>3, <1>4, <1>5, <1>6, <1>7 DEF Next

(* A settling call that finds its row runs under the row's latest lease,    *)
(* although the code compares only the owner's name.                        *)
THEOREM StaleHandlersFenced == Spec => []LeaseFencing
<1>1. Init => LeaseFencing
  BY DEF Init, LeaseFencing, Idle
<1> QED
  BY <1>1, TypeCorrect, FencingStep, PTL DEF Spec

----------------------------------------------------------------------------
(* Refinement of the endpoint's promise *)

(* The status changes one step of the queue may make to a job. *)
StatusMove(j, k) ==
  \/ k.status = j.status
  \/ j.status = "absent" /\ k.status = "available"
  \/ j.status \in {"available", "leased"} /\ k.status # "absent"
  \/ j.status = "dead_letter" /\ k.status \in {"available", "absent"}
  \/ j.status = "completed" /\ k.status = "absent"

LEMMA StatusMoves ==
  ASSUME TypeOK, InboxProjectsJob, [Next]_vars, NEW e \in Deliveries
  PROVE  StatusMove(job[e], job'[e])
<1> USE DEF StatusMove
<1>0. inbox[e] = Projection[job[e].status] /\ job[e].status \in JobStatus
  BY DEF InboxProjectsJob, TypeOK, Job
<1>1. ASSUME NEW d \in Deliveries, Accept(d) \/ Purge(d)
      PROVE  StatusMove(job[e], job'[e])
  BY <1>0, <1>1 DEF Accept, Purge, NoJob, Unowned, Projection, JobStatus, TypeOK
<1>2. ASSUME NEW d \in Deliveries, AcceptDuplicate(d) \/ TimePasses(d)
      PROVE  StatusMove(job[e], job'[e])
  BY <1>2 DEF AcceptDuplicate, TimePasses, vars, TypeOK, Job
<1>3. ASSUME NEW w \in Workers, Claim(w) PROVE StatusMove(job[e], job'[e])
  <2>1. PICK R, C : ClaimStep(w, R, C)
    BY <1>3, ClaimSplits
  <2>2. CASE e \in R
    <3>1. job[e].status = "leased"
      BY <2>1, <2>2 DEF ClaimStep, Expired
    <3>2. job'[e].status # "absent"
      BY <2>1, <2>2 DEF ClaimStep, AfterRecovery, Released, Leased, Unowned
    <3> QED BY <3>1, <3>2
  <2>3. CASE e \notin R
    BY <2>1, <2>3 DEF ClaimStep, AfterRecovery, Claimable, Leased
  <2> QED BY <2>2, <2>3
<1>4. ASSUME NEW w \in Workers, NEW d \in Deliveries, Work(w, d)
      PROVE  StatusMove(job[e], job'[e])
  <2>1. CASE Holds(w, d) /\ e = d
    <3>1. job[e].status = "leased"
      BY <2>1 DEF Holds
    <3>2. job'[e].status # "absent"
      BY <1>4, <2>1, <3>1 DEF Work, RunActions, CompleteJob, CompleteStale, CompleteThrows,
                              FailJob, Released, Unowned, TypeOK
    <3> QED BY <3>1, <3>2
  <2>2. CASE ~Holds(w, d) \/ e # d
    BY <1>4, <2>2 DEF Work, RunActions, CompleteJob, CompleteStale, CompleteThrows,
                      FailJob, TypeOK
  <2> QED BY <2>1, <2>2
<1>5. ASSUME NEW o \in Operations, NEW d \in Deliveries, Replay(o, d)
      PROVE  StatusMove(job[e], job'[e])
  BY <1>5 DEF Replay, Unowned, TypeOK
<1>6. ASSUME \/ \E w \in Workers : Crash(w) \/ Restart(w)
             \/ \E o \in Operations : ReplayAgain(o)
             \/ UNCHANGED vars
      PROVE  StatusMove(job[e], job'[e])
  BY <1>6 DEF Crash, Restart, ReplayAgain, vars
<1> QED
  BY <1>1, <1>2, <1>3, <1>4, <1>5, <1>6 DEF Next

(* The queue implements the promise for any deliveries and workers: initial *)
(* states map to initial states, and every step of the queue to a step of   *)
(* the promise or to none.                                                  *)
THEOREM QueueImplementsIntake == Spec => ImplementsIntake
<1>1. Init => Intake!Init
  BY DEF Init, Intake!Init, IntakeState, NoJob, Unowned
<1>2. TypeOK /\ InboxProjectsJob /\ [Next]_vars => [Intake!Next]_IntakeState
  <2> SUFFICES ASSUME TypeOK, InboxProjectsJob, [Next]_vars
               PROVE  Intake!Next
    OBVIOUS
  <2>0. TypeOK'
    BY TypeStep
  <2>1. IntakeState' \in [Deliveries -> Intake!States]
    BY <2>0 DEF IntakeState, Intake!States, TypeOK, Job, JobStatus
  <2>2. ASSUME NEW e \in Deliveries
        PROVE  \/ IntakeState'[e] = IntakeState[e]
               \/ <<IntakeState[e], IntakeState'[e]>> \in Intake!Move
    <3>1. job[e].status \in JobStatus /\ job'[e].status \in JobStatus
      BY <2>0 DEF TypeOK, Job
    <3>2. StatusMove(job[e], job'[e])
      BY StatusMoves
    <3> QED BY <3>1, <3>2 DEF StatusMove, IntakeState, Intake!Move, JobStatus
  <2> QED BY <2>1, <2>2 DEF Intake!Next
<1> QED
  BY <1>1, <1>2, TypeCorrect, InboxNeverDrifts, PTL DEF Spec, ImplementsIntake, Intake!Spec

=============================================================================
