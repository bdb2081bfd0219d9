----------------------- MODULE ReleaseRunOutboxProofs -----------------------
(***************************************************************************)
(* Proofs about ReleaseRunOutbox, for any runs, commits, workers, modes    *)
(* and bounds.                                                             *)
(***************************************************************************)
EXTENDS ReleaseRunOutbox, TLAPS

----------------------------------------------------------------------------
(* Types *)

(* Every run has an effect of each kind, and an effect determines both.     *)
LEMMA EffectFacts ==
  /\ \A r \in Runs, k \in Kinds : <<r, k>> \in Effects
  /\ \A e \in Effects : RunOf(e) \in Runs /\ KindOf(e) \in Kinds /\ e = <<RunOf(e), KindOf(e)>>
  /\ \A r \in Runs, k \in Kinds : RunOf(<<r, k>>) = r /\ KindOf(<<r, k>>) = k
BY DEF Effects, RunOf, KindOf

(* The rows the actions write are rows of their tables. *)
LEMMA HandlerTypes ==
  /\ \A p \in {"idle", "claimed", "calling", "listed", "completing", "failing"} : At(p) \in Handler
  /\ Idle \in Handler
  /\ \A id \in Nat : Ensured(id) \in Handler
  /\ \A u \in BOOLEAN : Failing(u) \in Handler
BY DEF At, Idle, Ensured, Failing, Handler

RunStates == {"absent", "superseded"} \cup Active \cup Results
AttemptStates == {"none", "superseded"} \cup LiveAttempt \cup Results
EffectStates == {"absent", "available", "leased", "completed", "dead_letter", "reconciliation_required"}

(* The rows a transaction writes are rows of their tables. *)
LEMMA RowTypes ==
  /\ NoRun \in RunRow
  /\ NoEffect \in EffectRow
  /\ \A v, a \in Nat : Inserted(v, a) \in EffectRow
  /\ \A skip \in BOOLEAN : NewRun(skip) \in RunRow
  /\ \A x \in EffectRow, s \in EffectStates, n \in Nat, o \in Workers \cup {None},
        ripe \in BOOLEAN, started \in BOOLEAN : Row(x, s, n, o, ripe, started) \in EffectRow
  /\ \A x \in RunRow, s \in RunStates, a \in AttemptStates : Advanced(x, s, a) \in RunRow
  /\ \A x \in RunRow, v \in Nat, id \in Nat, a \in AttemptStates : Bound(x, v, id, a) \in RunRow
<1>1. NoRun \in RunRow /\ NoEffect \in EffectRow
  BY DEF NoRun, NoEffect, RunRow, EffectRow, Active, Results, LiveAttempt
<1>2. \A v, a \in Nat : Inserted(v, a) \in EffectRow
  BY DEF EffectRow, Inserted
<1>3. \A skip \in BOOLEAN : NewRun(skip) \in RunRow
  BY DEF NewRun, RunRow, Active, Results, LiveAttempt
<1>4. \A x \in EffectRow, s \in EffectStates, n \in Nat, o \in Workers \cup {None},
        ripe \in BOOLEAN, started \in BOOLEAN : Row(x, s, n, o, ripe, started) \in EffectRow
  BY DEF Row, EffectRow, EffectStates
<1>5. \A x \in RunRow, s \in RunStates, a \in AttemptStates : Advanced(x, s, a) \in RunRow
  BY DEF Advanced, Bumped, RunRow, RunStates, AttemptStates
<1>6. \A x \in RunRow, v \in Nat, id \in Nat, a \in AttemptStates : Bound(x, v, id, a) \in RunRow
  BY DEF Bound, RunRow, RunStates, AttemptStates
<1> QED BY <1>1, <1>2, <1>3, <1>4, <1>5, <1>6

(* So are the rows that a lease, its release and a retry leave behind. *)
LEMMA LeaseTypes ==
  ASSUME NEW x \in EffectRow
  PROVE  /\ \A s \in EffectStates : Unleased(x, s) \in EffectRow
         /\ Completed(x) \in EffectRow
         /\ \A ripe \in BOOLEAN : Retried(x, ripe) \in EffectRow
         /\ \A w \in Workers : Leased(x, w) \in EffectRow
         /\ Row(x, x.status, x.attempts, x.owner, TRUE, x.started) \in EffectRow
         /\ Row(x, x.status, x.attempts, x.owner, x.ripe, TRUE) \in EffectRow
         /\ Row(x, "dead_letter", x.attempts, None, FALSE, FALSE) \in EffectRow
         /\ Row(x, "available", 0, None, TRUE, FALSE) \in EffectRow
<1>1. /\ x.status \in EffectStates /\ x.attempts \in Nat /\ x.attempts + 1 \in Nat /\ 0 \in Nat
      /\ x.owner \in Workers \cup {None} /\ x.ripe \in BOOLEAN /\ x.started \in BOOLEAN
      /\ {"available", "leased", "completed", "dead_letter"} \subseteq EffectStates
      /\ None \in Workers \cup {None} /\ \A w \in Workers : w \in Workers \cup {None}
  BY DEF EffectRow, EffectStates
<1>2. \A s \in EffectStates : Unleased(x, s) \in EffectRow
  BY <1>1, RowTypes DEF Unleased
<1>3. Completed(x) \in EffectRow
  BY <1>1, <1>2 DEF Completed
<1>4. \A ripe \in BOOLEAN : Retried(x, ripe) \in EffectRow
  BY <1>1, RowTypes DEF Retried
<1>5. \A w \in Workers : Leased(x, w) \in EffectRow
  BY <1>1, RowTypes DEF Leased
<1>6. Row(x, x.status, x.attempts, x.owner, TRUE, x.started) \in EffectRow
  BY <1>1, RowTypes
<1>7. Row(x, x.status, x.attempts, x.owner, x.ripe, TRUE) \in EffectRow
  BY <1>1, RowTypes
<1>8. Row(x, "dead_letter", x.attempts, None, FALSE, FALSE) \in EffectRow
  BY <1>1, RowTypes
<1>9. Row(x, "available", 0, None, TRUE, FALSE) \in EffectRow
  BY <1>1, RowTypes
<1> QED BY <1>2, <1>3, <1>4, <1>5, <1>6, <1>7, <1>8, <1>9

(* Lease recovery and failure yield rows of the outbox. *)
LEMMA RecoveredTypes ==
  ASSUME TypeOK, NEW e \in Effects
  PROVE  /\ Recovered(e) \in EffectRow
         /\ \A R : AfterRecovery(R, e) \in EffectRow
         /\ \A u \in BOOLEAN : Failed(e, u) \in EffectRow
<1>1. outbox[e] \in EffectRow
  BY DEF TypeOK
<1>2. /\ Unleased(outbox[e], "reconciliation_required") \in EffectRow
      /\ Unleased(outbox[e], "dead_letter") \in EffectRow
  BY <1>1, LeaseTypes DEF EffectStates
<1>3. /\ Row(outbox[e], "dead_letter", outbox[e].attempts, None, FALSE, FALSE) \in EffectRow
      /\ Retried(outbox[e], TRUE) \in EffectRow /\ Retried(outbox[e], FALSE) \in EffectRow
  BY <1>1, LeaseTypes
<1>4. Recovered(e) \in EffectRow
  BY ONLY <1>2, <1>3 DEF Recovered
<1>5. \A u \in BOOLEAN : Failed(e, u) \in EffectRow
  BY ONLY <1>2, <1>3 DEF Failed
<1>6. \A R : AfterRecovery(R, e) \in EffectRow
  BY ONLY <1>1, <1>4 DEF AfterRecovery
<1> QED BY <1>4, <1>5, <1>6

(* Superseded runs are runs. *)
LEMMA SupersededTypes ==
  ASSUME NEW x \in RunRow
  PROVE  Superseded(x) \in RunRow
<1>1. "superseded" \in RunStates
      /\ (IF x.attempt \in LiveAttempt THEN "superseded" ELSE x.attempt) \in AttemptStates
  BY DEF RunRow, RunStates, AttemptStates
<1> QED BY <1>1, RowTypes DEF Superseded

(* A handler that moves to a typed state keeps the batches typed. *)
LEMMA GotoTyped ==
  ASSUME TypeOK, NEW w \in Workers, NEW e \in Effects, NEW h \in Handler,
         Goto(w, e, h) \/ Answered(w, e, h)
  PROVE  batch' \in [Workers -> [Effects -> Handler]]
<1>1. ASSUME NEW g \in Handler, Goto(w, e, g)
      PROVE  batch' \in [Workers -> [Effects -> Handler]]
  BY <1>1 DEF TypeOK, Goto
<1> QED BY <1>1, HandlerTypes DEF Answered

(* A claim in terms of the two sets of rows it changes. *)
ClaimOf(w, R, C) ==
  /\ R \in SUBSET Expired
  /\ C \in SUBSET {e \in Effects : Claimable(AfterRecovery(R, e))}
  /\ outbox' = [e \in Effects |->
                  IF e \in C THEN Leased(AfterRecovery(R, e), w) ELSE AfterRecovery(R, e)]
  /\ batch' = [batch EXCEPT ![w] =
                 [e \in Effects |-> IF e \in C THEN At("claimed") ELSE batch[w][e]]]

(* A claim changes nothing but the rows and the claimant's handlers. *)
LEMMA ClaimSplits ==
  ASSUME NEW w \in Workers, Claim(w)
  PROVE  /\ LoopIdle(w)
         /\ \E R, C : ClaimOf(w, R, C)
         /\ UNCHANGED <<run, up>> /\ UNCHANGED github /\ UNCHANGED counters
<1>1. PICK R \in SUBSET Expired : \E C \in SUBSET {e \in Effects : Claimable(AfterRecovery(R, e))} :
         /\ outbox' = [e \in Effects |->
                         IF e \in C THEN Leased(AfterRecovery(R, e), w) ELSE AfterRecovery(R, e)]
         /\ batch' = [batch EXCEPT ![w] =
                        [e \in Effects |-> IF e \in C THEN At("claimed") ELSE batch[w][e]]]
  BY Zenon DEF Claim
<1>2. \E C : ClaimOf(w, R, C)
  BY <1>1, Zenon DEF ClaimOf
<1> QED BY <1>2, Zenon DEF Claim

(* A run bound to its check run is a run. *)
LEMMA AfterCreateTypes ==
  ASSUME NEW r \in Runs, run[r] \in RunRow, NEW id \in Nat
  PROVE  AfterCreate(r, id) \in RunRow
<1>1. run[r].version \in Nat /\ run[r].version + 1 \in Nat /\ run[r].attempt \in AttemptStates
      /\ "completed" \in RunStates /\ "dispatching" \in AttemptStates
  BY DEF RunRow, RunStates, AttemptStates, Results, LiveAttempt
<1>2. Advanced(run[r], "completed", run[r].attempt) \in RunRow
  BY <1>1, RowTypes
<1>3. [Advanced(run[r], "completed", run[r].attempt) EXCEPT !.check = id] \in RunRow
  BY <1>2 DEF RunRow
<1>4. /\ Bound(run[r], run[r].version + 1, id, "dispatching") \in RunRow
      /\ Bound(run[r], run[r].version, id, run[r].attempt) \in RunRow
  BY <1>1, RowTypes
<1> QED BY ONLY <1>3, <1>4 DEF AfterCreate

(* The outbox is typed after a check run was bound. *)
LEMMA OutboxAfterCreateTypes ==
  ASSUME TypeOK, NEW r \in Runs
  PROVE  OutboxAfterCreate(r) \in [Effects -> EffectRow]
<1> DEFINE done == [outbox EXCEPT ![<<r, "create">>] = Completed(@)]
<1>1. <<r, "create">> \in Effects /\ <<r, "dispatch">> \in Effects /\ <<r, "complete">> \in Effects
  BY EffectFacts DEF Kinds
<1>2. done \in [Effects -> EffectRow]
  BY <1>1, LeaseTypes DEF TypeOK
<1>3. run[r].version + 1 \in Nat
  BY DEF TypeOK, RunRow
<1>4. Inserted(0, 0) \in EffectRow /\ Inserted(run[r].version + 1, 0) \in EffectRow
  BY <1>3, RowTypes
<1>5. OutboxAfterCreate(r) = IF run[r].skip THEN [done EXCEPT ![<<r, "complete">>] = Inserted(0, 0)]
                             ELSE IF DispatchMode = "github-actions"
                             THEN [done EXCEPT ![<<r, "dispatch">>] = Inserted(run[r].version + 1, 0)]
                             ELSE done
  BY DEF OutboxAfterCreate
<1> HIDE DEF done
<1> QED BY ONLY <1>1, <1>2, <1>4, <1>5

(* An enqueue writes typed rows. *)
LEMMA EnqueueTyped ==
  ASSUME TypeOK, NEW r \in Runs, NEW skip \in BOOLEAN, EnqueueReleaseRun(r, skip)
  PROVE  run' \in [Runs -> RunRow] /\ outbox' \in [Effects -> EffectRow]
<1>1. \A s \in Runs : run[s] \in RunRow /\ Superseded(run[s]) \in RunRow
  BY SupersededTypes DEF TypeOK
<1>2. run' \in [Runs -> RunRow]
  BY <1>1, RowTypes DEF EnqueueReleaseRun
<1>3. <<r, "create">> \in Effects /\ Inserted(0, 0) \in EffectRow
  BY RowTypes, EffectFacts DEF Kinds
<1>4. outbox' \in [Effects -> EffectRow]
  BY <1>3 DEF EnqueueReleaseRun, TypeOK
<1> QED BY <1>2, <1>4

(* Every reachable state is typed. *)
THEOREM TypeCorrect == Spec => []TypeOK
<1>1. Init => TypeOK
  <2> SUFFICES ASSUME Init PROVE TypeOK
    OBVIOUS
  <2>1. run \in [Runs -> RunRow] /\ outbox \in [Effects -> EffectRow]
    BY RowTypes DEF Init
  <2>2. batch \in [Workers -> [Effects -> Handler]]
    BY HandlerTypes DEF Init
  <2> QED BY <2>1, <2>2 DEF Init, TypeOK
<1>2. TypeOK /\ [Next]_vars => TypeOK'
  <2> SUFFICES ASSUME TypeOK, [Next]_vars PROVE TypeOK'
    OBVIOUS
  <2>1. \A r \in Runs : <<r, "create">> \in Effects /\ <<r, "dispatch">> \in Effects
                        /\ <<r, "complete">> \in Effects
    BY EffectFacts DEF Kinds
  <2>2. ASSUME NEW r \in Runs, NEW skip \in Skips, Request(r, skip) PROVE TypeOK'
    <3>1. run' \in [Runs -> RunRow] /\ outbox' \in [Effects -> EffectRow]
      BY <2>2, SkipsAssumption, EnqueueTyped DEF Request
    <3>2. requests' \in [Runs -> Nat]
      BY <2>2 DEF Request, TypeOK
    <3> QED BY <2>2, <3>1, <3>2 DEF Request, TypeOK, github
  <2>3. ASSUME NEW r \in Runs, Rerun(r) PROVE TypeOK'
    <3>1. run[r].skip \in BOOLEAN
      BY DEF TypeOK, RunRow
    <3>2. run' \in [Runs -> RunRow] /\ outbox' \in [Effects -> EffectRow]
      BY <2>3, <3>1, EnqueueTyped DEF Rerun
    <3>3. reruns' \in [Runs -> Nat]
      BY <2>3 DEF Rerun, TypeOK
    <3> QED BY <2>3, <3>2, <3>3 DEF Rerun, TypeOK, github
  <2>4. ASSUME NEW r \in Runs, NEW s \in {"running"} \cup Results, RunnerReports(r, s) PROVE TypeOK'
    <3>1. run[r] \in RunRow /\ s \in RunStates
          /\ (IF s = "running" THEN "in_progress" ELSE s) \in AttemptStates
      BY DEF TypeOK, RunStates, AttemptStates, Active, LiveAttempt, Results
    <3>2. run' \in [Runs -> RunRow]
      BY <2>4, <3>1, RowTypes DEF RunnerReports, TypeOK
    <3> QED BY <2>4, <3>2 DEF RunnerReports, TypeOK, github, counters
  <2>5. ASSUME NEW e \in Effects, TimePasses(e) PROVE TypeOK'
    <3>1. outbox' \in [Effects -> EffectRow]
      BY <2>5, LeaseTypes DEF TimePasses, TypeOK
    <3> QED BY <2>5, <3>1 DEF TimePasses, TypeOK, github, counters
  <2>6. ASSUME NEW e \in Effects, ReplayEffect(e) PROVE TypeOK'
    <3>1. outbox' \in [Effects -> EffectRow]
      BY <2>6, LeaseTypes DEF ReplayEffect, TypeOK
    <3>2. replays' \in Nat
      BY <2>6 DEF ReplayEffect, TypeOK
    <3> QED BY <2>6, <3>1, <3>2, Zenon DEF ReplayEffect, TypeOK, github
  <2>7. ASSUME NEW w \in Workers, Claim(w) PROVE TypeOK'
    <3>1. PICK R, C : ClaimOf(w, R, C)
      BY <2>7, ClaimSplits
    <3>2. \A e \in Effects : AfterRecovery(R, e) \in EffectRow
      BY RecoveredTypes
    <3>3. \A e \in Effects : Leased(AfterRecovery(R, e), w) \in EffectRow
      BY <3>2, LeaseTypes
    <3>4. outbox' \in [Effects -> EffectRow]
      BY ONLY <3>1, <3>2, <3>3 DEF ClaimOf
    <3>5. [e \in Effects |-> IF e \in C THEN At("claimed") ELSE batch[w][e]] \in [Effects -> Handler]
      BY HandlerTypes DEF TypeOK
    <3>6. batch' \in [Workers -> [Effects -> Handler]]
      BY <3>1, <3>5 DEF ClaimOf, TypeOK
    <3> QED BY <2>7, <3>4, <3>6, ClaimSplits DEF TypeOK, github, counters
  <2>8. ASSUME NEW w \in Workers, NEW e \in Effects, MarkDeliveryStarted(w, e) PROVE TypeOK'
    <3>1. batch' \in [Workers -> [Effects -> Handler]]
      BY <2>8, GotoTyped, HandlerTypes DEF MarkDeliveryStarted
    <3>2. outbox' \in [Effects -> EffectRow]
      <4>1. outbox \in [Effects -> EffectRow]
        BY DEF TypeOK
      <4>2. Row(outbox[e], outbox[e].status, outbox[e].attempts, outbox[e].owner, outbox[e].ripe, TRUE)
              \in EffectRow
        BY <4>1, LeaseTypes
      <4>3. \/ outbox' = outbox
            \/ outbox' = [outbox EXCEPT ![e] = Row(outbox[e], outbox[e].status, outbox[e].attempts,
                                                   outbox[e].owner, outbox[e].ripe, TRUE)]
        BY <2>8 DEF MarkDeliveryStarted
      <4> QED BY ONLY <4>1, <4>2, <4>3, e \in Effects
    <3> QED BY <2>8, <3>1, <3>2 DEF MarkDeliveryStarted, TypeOK, github, counters
  <2>9. ASSUME NEW w \in Workers, NEW e \in Effects, CallFails(w, e) PROVE TypeOK'
    <3>1. batch' \in [Workers -> [Effects -> Handler]]
      BY <2>9, GotoTyped, HandlerTypes DEF CallFails
    <3>2. lost' \in [Runs -> Nat]
      BY <2>9, EffectFacts DEF CallFails, TypeOK
    <3> QED BY <2>9, <3>1, <3>2 DEF CallFails, TypeOK, counters
  <2>10. ASSUME NEW w \in Workers, NEW e \in Effects, FailEffect(w, e) PROVE TypeOK'
    <3>1. batch' \in [Workers -> [Effects -> Handler]]
      BY <2>10, GotoTyped, HandlerTypes DEF FailEffect
    <3>2. batch[w][e].uncertain \in BOOLEAN
      BY DEF TypeOK, Handler
    <3>3. outbox' \in [Effects -> EffectRow]
      BY <2>10, <3>2, RecoveredTypes DEF FailEffect, TypeOK
    <3> QED BY <2>10, <3>1, <3>3 DEF FailEffect, TypeOK, github, counters
  <2>11. ASSUME NEW w \in Workers, NEW r \in Runs, ListCheckRuns(w, r) PROVE TypeOK'
    <3>1. \A id \in 1..checks[r] : Ensured(id) \in Handler
      BY HandlerTypes DEF TypeOK
    <3>2. batch' \in [Workers -> [Effects -> Handler]]
      BY <2>1, <2>11, <3>1, GotoTyped, HandlerTypes DEF ListCheckRuns
    <3> QED BY <2>11, <3>2 DEF ListCheckRuns, TypeOK, github, counters
  <2>12. ASSUME NEW w \in Workers, NEW r \in Runs, CreateCheckRun(w, r) PROVE TypeOK'
    <3>1. checks[r] + 1 \in Nat
      BY DEF TypeOK
    <3>2. batch' \in [Workers -> [Effects -> Handler]]
      BY <2>1, <2>12, <3>1, GotoTyped, HandlerTypes DEF CreateCheckRun
    <3>3. checks' \in [Runs -> Nat]
      BY <2>12, <3>1 DEF CreateCheckRun, TypeOK
    <3> QED BY <2>12, <3>2, <3>3 DEF CreateCheckRun, TypeOK, counters
  <2>13. ASSUME NEW w \in Workers, NEW r \in Runs, CompleteCheckRunCreate(w, r) PROVE TypeOK'
    <3>1. batch' \in [Workers -> [Effects -> Handler]]
      BY <2>1, <2>13, GotoTyped, HandlerTypes DEF CompleteCheckRunCreate
    <3>2. run[r] \in RunRow /\ batch[w][<<r, "create">>].check \in Nat
      BY <2>1 DEF TypeOK, Handler
    <3>3. AfterCreate(r, batch[w][<<r, "create">>].check) \in RunRow
      BY <3>2, AfterCreateTypes
    <3>4. run' \in [Runs -> RunRow]
      BY <2>13, <3>3 DEF CompleteCheckRunCreate, TypeOK
    <3>5. outbox' \in [Effects -> EffectRow]
      BY <2>13, OutboxAfterCreateTypes DEF CompleteCheckRunCreate, TypeOK
    <3> QED BY <2>13, <3>1, <3>4, <3>5 DEF CompleteCheckRunCreate, TypeOK, github, counters
  <2>14. ASSUME NEW w \in Workers, NEW r \in Runs, DispatchWorkflow(w, r) PROVE TypeOK'
    <3>1. batch' \in [Workers -> [Effects -> Handler]]
      BY <2>1, <2>14, GotoTyped, HandlerTypes DEF DispatchWorkflow
    <3>2. dispatches' \in [Runs -> Nat] /\ lost' \in [Runs -> Nat]
      <4>1. dispatches \in [Runs -> Nat] /\ lost \in [Runs -> Nat]
        BY DEF TypeOK
      <4>2. /\ dispatches' = [dispatches EXCEPT ![r] = @ + 1]
            /\ lost' = lost \/ lost' = [lost EXCEPT ![r] = @ + 1]
        BY <2>14 DEF DispatchWorkflow
      <4> QED BY ONLY <4>1, <4>2, r \in Runs
    <3> QED BY <2>14, <3>1, <3>2 DEF DispatchWorkflow, TypeOK, counters
  <2>15. ASSUME NEW w \in Workers, NEW r \in Runs, DispatchUnreachable(w, r) PROVE TypeOK'
    <3>1. batch' \in [Workers -> [Effects -> Handler]]
      BY <2>1, <2>15, GotoTyped, HandlerTypes DEF DispatchUnreachable
    <3> QED BY <2>15, <3>1 DEF DispatchUnreachable, TypeOK, github, counters
  <2>16. ASSUME NEW w \in Workers, NEW r \in Runs, CompleteWorkflowDispatch(w, r) PROVE TypeOK'
    <3>1. batch' \in [Workers -> [Effects -> Handler]]
      BY <2>1, <2>16, GotoTyped, HandlerTypes DEF CompleteWorkflowDispatch
    <3>2. Advanced(run[r], "dispatched", "dispatched") \in RunRow
      BY RowTypes DEF TypeOK, RunStates, AttemptStates, Active, LiveAttempt
    <3>3. run' \in [Runs -> RunRow]
      BY <2>16, <3>2 DEF CompleteWorkflowDispatch, TypeOK
    <3>4. outbox' \in [Effects -> EffectRow]
      <4>1. outbox \in [Effects -> EffectRow] /\ <<r, "dispatch">> \in Effects
        BY <2>1 DEF TypeOK
      <4>2. Completed(outbox[<<r, "dispatch">>]) \in EffectRow
        BY <4>1, LeaseTypes
      <4>3. outbox' = outbox \/ outbox' = [outbox EXCEPT ![<<r, "dispatch">>] = Completed(@)]
        BY <2>16 DEF CompleteWorkflowDispatch
      <4> QED BY ONLY <4>1, <4>2, <4>3
    <3> QED BY <2>16, <3>1, <3>3, <3>4 DEF CompleteWorkflowDispatch, TypeOK, github, counters
  <2>17. ASSUME NEW w \in Workers, NEW r \in Runs, ConcludeCheckRun(w, r) PROVE TypeOK'
    <3>1. batch' \in [Workers -> [Effects -> Handler]]
      BY <2>1, <2>17, GotoTyped, HandlerTypes DEF ConcludeCheckRun
    <3>2. concluded' \in [Runs -> BOOLEAN]
      BY <2>17 DEF ConcludeCheckRun, TypeOK
    <3> QED BY <2>17, <3>1, <3>2 DEF ConcludeCheckRun, TypeOK, counters
  <2>18. ASSUME NEW w \in Workers, NEW r \in Runs, CompleteEffect(w, r) PROVE TypeOK'
    <3>1. batch' \in [Workers -> [Effects -> Handler]]
      BY <2>1, <2>18, GotoTyped, HandlerTypes DEF CompleteEffect
    <3>2. outbox' \in [Effects -> EffectRow]
      <4>1. outbox \in [Effects -> EffectRow] /\ <<r, "complete">> \in Effects
        BY <2>1 DEF TypeOK
      <4>2. Completed(outbox[<<r, "complete">>]) \in EffectRow
        BY <4>1, LeaseTypes
      <4>3. outbox' = outbox \/ outbox' = [outbox EXCEPT ![<<r, "complete">>] = Completed(@)]
        BY <2>18 DEF CompleteEffect
      <4> QED BY ONLY <4>1, <4>2, <4>3
    <3> QED BY <2>18, <3>1, <3>2 DEF CompleteEffect, TypeOK, github, counters
  <2>19. ASSUME NEW w \in Workers, Crash(w) PROVE TypeOK'
    <3>1. up' \in [Workers -> BOOLEAN] /\ batch' \in [Workers -> [Effects -> Handler]]
      BY <2>19, HandlerTypes DEF Crash, TypeOK
    <3> QED BY <2>19, <3>1 DEF Crash, TypeOK, github
  <2>20. ASSUME NEW w \in Workers, Restart(w) PROVE TypeOK'
    <3>1. up' \in [Workers -> BOOLEAN]
      BY <2>20 DEF Restart, TypeOK
    <3> QED BY <2>20, <3>1 DEF Restart, TypeOK, github, counters
  <2>21. CASE UNCHANGED vars
    BY <2>21 DEF vars, TypeOK
  <2> QED
    BY <2>2, <2>3, <2>4, <2>5, <2>6, <2>7, <2>8, <2>9, <2>10, <2>11, <2>12, <2>13, <2>14,
       <2>15, <2>16, <2>17, <2>18, <2>19, <2>20, <2>21
    DEF Next, HandlerStep
<1> QED BY <1>1, <1>2, PTL DEF Spec

----------------------------------------------------------------------------
(* Dispatches.  DispatchesAccountedFor says nothing about leases, so it is  *)
(* not inductive; the invariant adds who may be delivering a dispatch, and  *)
(* in which states every accepted dispatch so far is accounted as lost.     *)

(* Worker w is between its first call to GitHub and its last statement. *)
Delivering(w, r) ==
  LET h == batch[w][<<r, "dispatch">>] IN
  h.phase \in {"calling", "completing"} \/ (h.phase = "failing" /\ h.uncertain)

(* A delivery is covered by its lease and its mark, or the row is parked. *)
DeliveryFenced(r) ==
  LET o == outbox[<<r, "dispatch">>] IN
  \A w \in Workers : Delivering(w, r)
    => o.status = "reconciliation_required" \/ (o.status = "leased" /\ o.owner = w /\ o.started)

OneDelivery(r) ==
  \A v, w \in Workers : Delivering(v, r) /\ Delivering(w, r) => v = w

(* The lease of a handler that has not marked its delivery is unmarked, and *)
(* only check-run effects have a lookup.                                    *)
ClaimedUnmarked(r) ==
  \A w \in Workers : /\ batch[w][<<r, "dispatch">>].phase # "listed"
                     /\ batch[w][<<r, "dispatch">>].phase = "claimed" /\ Holds(w, <<r, "dispatch">>)
                          => ~outbox[<<r, "dispatch">>].started

(* States in which a dispatch may yet be made, or is known not to count. *)
MayDispatch(r) ==
  LET o == outbox[<<r, "dispatch">>] IN
  \/ o.status \in {"absent", "available", "dead_letter"}
  \/ o.status = "leased" /\ ~o.started
  \/ \E w \in Workers : batch[w][<<r, "dispatch">>].phase = "calling"
  \/ \E w \in Workers : /\ Holds(w, <<r, "dispatch">>)
                        /\ batch[w][<<r, "dispatch">>].phase = "failing"
                        /\ ~batch[w][<<r, "dispatch">>].uncertain

Counted(r) == /\ dispatches[r] <= 1 + lost[r]
              /\ MayDispatch(r) => dispatches[r] <= lost[r]

DispatchInv(r) == DeliveryFenced(r) /\ OneDelivery(r) /\ ClaimedUnmarked(r) /\ Counted(r)

(* A run without an attempt has no dispatch effect that a new one would     *)
(* overwrite.                                                               *)
NoEarlyDispatch(r) ==
  run[r].status = "absent" \/ run[r].attempt = "none" => outbox[<<r, "dispatch">>].status = "absent"

(* The state of r's dispatch: its row, its handlers and its counters. *)
DispatchUntouched(r) ==
  /\ outbox'[<<r, "dispatch">>] = outbox[<<r, "dispatch">>]
  /\ \A w \in Workers : batch'[w][<<r, "dispatch">>] \in {batch[w][<<r, "dispatch">>], Idle}
  /\ dispatches'[r] = dispatches[r]
  /\ lost'[r] = lost[r]

(* Steps that do not touch r's dispatch, except that its handlers may die,  *)
(* preserve the invariant.                                                  *)
LEMMA UntouchedStep ==
  ASSUME NEW r \in Runs, DispatchInv(r), DispatchUntouched(r)
  PROVE  DispatchInv(r)'
<1>1. \A w \in Workers : /\ Delivering(w, r)' => Delivering(w, r)
                         /\ batch'[w][<<r, "dispatch">>].phase # "idle"
                              => batch'[w][<<r, "dispatch">>] = batch[w][<<r, "dispatch">>]
  BY DEF DispatchUntouched, Delivering, Idle, At
<1>2. DeliveryFenced(r)' /\ OneDelivery(r)'
  BY <1>1 DEF DispatchInv, DispatchUntouched, DeliveryFenced, OneDelivery
<1>3. ClaimedUnmarked(r)'
  BY <1>1 DEF DispatchInv, DispatchUntouched, ClaimedUnmarked, Holds
<1>4. Counted(r)'
  BY <1>1 DEF DispatchInv, DispatchUntouched, Counted, MayDispatch, Holds
<1> QED BY <1>2, <1>3, <1>4 DEF DispatchInv

(* The handlers of r's dispatch when only worker w's moves, to h. *)
OnlyMoves(w, r, h) ==
  \A v \in Workers : batch'[v][<<r, "dispatch">>] = IF v = w THEN h ELSE batch[v][<<r, "dispatch">>]

(* Goto moves one handler. *)
LEMMA GotoMoves ==
  ASSUME TypeOK, NEW w \in Workers, NEW e \in Effects, NEW h, Goto(w, e, h), NEW r \in Runs
  PROVE  /\ e = <<r, "dispatch">> => OnlyMoves(w, r, h)
         /\ e # <<r, "dispatch">> => \A v \in Workers : batch'[v][<<r, "dispatch">>] = batch[v][<<r, "dispatch">>]
<1>1. <<r, "dispatch">> \in Effects
  BY EffectFacts DEF Kinds
<1> QED BY <1>1 DEF TypeOK, Goto, OnlyMoves

(* The domains of r's dispatch row, handlers and counters. *)
LEMMA DispatchTypes ==
  ASSUME TypeOK, NEW r \in Runs
  PROVE  /\ <<r, "dispatch">> \in Effects
         /\ outbox[<<r, "dispatch">>] \in EffectRow
         /\ \A w \in Workers : batch[w][<<r, "dispatch">>] \in Handler
         /\ dispatches[r] \in Nat /\ lost[r] \in Nat
<1>1. <<r, "dispatch">> \in Effects
  BY EffectFacts DEF Kinds
<1> QED BY <1>1 DEF TypeOK

(* A lease or delay of r's dispatch runs out. *)
LEMMA TimePassesDispatch ==
  ASSUME TypeOK, NEW r \in Runs, DispatchInv(r), TimePasses(<<r, "dispatch">>)
  PROVE  DispatchInv(r)'
<1>1. /\ outbox'[<<r, "dispatch">>].status = outbox[<<r, "dispatch">>].status
      /\ outbox'[<<r, "dispatch">>].owner = outbox[<<r, "dispatch">>].owner
      /\ outbox'[<<r, "dispatch">>].started = outbox[<<r, "dispatch">>].started
  BY DispatchTypes DEF TimePasses, TypeOK, Row
<1>2. UNCHANGED <<batch, dispatches, lost>>
  BY DEF TimePasses, github
<1>3. DeliveryFenced(r)'
  BY <1>1, <1>2 DEF DispatchInv, DeliveryFenced, OneDelivery, Delivering, OnlyMoves, Holds
<1>4. OneDelivery(r)'
  BY <1>1, <1>2 DEF DispatchInv, DeliveryFenced, OneDelivery, Delivering, OnlyMoves, Holds
<1>5. ClaimedUnmarked(r)'
  BY <1>1, <1>2 DEF DispatchInv, ClaimedUnmarked, DeliveryFenced, Delivering, OnlyMoves, Holds
<1>6. Counted(r)'
  BY <1>1, <1>2 DEF DispatchInv, Counted, MayDispatch, ClaimedUnmarked, DeliveryFenced, OneDelivery, Delivering, OnlyMoves, Holds
<1> QED BY <1>3, <1>4, <1>5, <1>6 DEF DispatchInv

(* An operator replays a dead-lettered dispatch. *)
LEMMA ReplayDispatch ==
  ASSUME TypeOK, NEW r \in Runs, DispatchInv(r), ReplayEffect(<<r, "dispatch">>)
  PROVE  DispatchInv(r)'
<1>1. /\ outbox[<<r, "dispatch">>].status = "dead_letter"
      /\ outbox'[<<r, "dispatch">>].status = "available"
  BY DispatchTypes DEF ReplayEffect, Replayable, TypeOK, Row
<1>2. UNCHANGED <<batch, dispatches, lost>>
  BY DEF ReplayEffect, github
<1>3. DeliveryFenced(r)'
  BY <1>1, <1>2 DEF DispatchInv, DeliveryFenced, OneDelivery, Delivering, OnlyMoves, Holds
<1>4. OneDelivery(r)'
  BY <1>1, <1>2 DEF DispatchInv, DeliveryFenced, OneDelivery, Delivering, OnlyMoves, Holds
<1>5. ClaimedUnmarked(r)'
  BY <1>1, <1>2 DEF DispatchInv, ClaimedUnmarked, DeliveryFenced, Delivering, OnlyMoves, Holds
<1>6. Counted(r)'
  BY <1>1, <1>2 DEF DispatchInv, Counted, MayDispatch, ClaimedUnmarked, DeliveryFenced, OneDelivery, Delivering, OnlyMoves, Holds
<1> QED BY <1>3, <1>4, <1>5, <1>6 DEF DispatchInv

(* A worker marks the delivery of a dispatch it holds; the answer may be    *)
(* lost.                                                                    *)
LEMMA MarkDispatch ==
  ASSUME TypeOK, NEW r \in Runs, DispatchInv(r), NEW w \in Workers,
         MarkDeliveryStarted(w, <<r, "dispatch">>)
  PROVE  DispatchInv(r)'
<1>1. batch[w][<<r, "dispatch">>].phase = "claimed" /\ UNCHANGED <<dispatches, lost>>
  BY DEF MarkDeliveryStarted, In, github
<1>2. CASE ~Holds(w, <<r, "dispatch">>)
  <2>1. outbox' = outbox /\ Goto(w, <<r, "dispatch">>, Idle)
    BY <1>2 DEF MarkDeliveryStarted
  <2>2. DispatchUntouched(r)
    BY <1>1, <2>1, GotoMoves, DispatchTypes DEF DispatchUntouched, OnlyMoves
  <2> QED BY <2>2, UntouchedStep
<1>3. CASE Holds(w, <<r, "dispatch">>)
  <2>1. /\ outbox'[<<r, "dispatch">>].status = "leased"
        /\ outbox'[<<r, "dispatch">>].owner = w
        /\ outbox'[<<r, "dispatch">>].started
    BY <1>3, DispatchTypes DEF MarkDeliveryStarted, TypeOK, Row, Holds
  <2>2. /\ outbox[<<r, "dispatch">>].status = "leased"
        /\ outbox[<<r, "dispatch">>].owner = w
        /\ ~outbox[<<r, "dispatch">>].started
    BY <1>1, <1>3 DEF Holds, DispatchInv, ClaimedUnmarked
  <2>3. PICK h \in {At("calling"), Failing(FALSE)} : OnlyMoves(w, r, h)
    BY <1>3, GotoMoves, DispatchTypes DEF MarkDeliveryStarted, Answered
  <2>4. h.phase \in {"calling", "failing"} /\ (h.phase = "failing" => h.uncertain = FALSE)
    BY DEF At, Failing
  <2>5. DeliveryFenced(r)'
    BY <2>1, <2>2, <2>3, <2>4 DEF DispatchInv, DeliveryFenced, Delivering, OnlyMoves
  <2>6. OneDelivery(r)'
    BY <2>2, <2>3 DEF DispatchInv, DeliveryFenced, OneDelivery, Delivering, OnlyMoves
  <2>7. ClaimedUnmarked(r)'
    BY <2>1, <2>3, <2>4 DEF DispatchInv, ClaimedUnmarked, OnlyMoves, Holds
  <2>8. Counted(r)'
    BY <1>1, <2>2 DEF DispatchInv, Counted, MayDispatch
  <2> QED BY <2>5, <2>6, <2>7, <2>8 DEF DispatchInv
<1> QED BY <1>2, <1>3

(* A call of a dispatch handler fails: in the last phase GitHub already     *)
(* accepted the dispatch, and the loss is counted.                          *)
LEMMA CallFailsDispatch ==
  ASSUME TypeOK, NEW r \in Runs, DispatchInv(r), NEW w \in Workers,
         CallFails(w, <<r, "dispatch">>)
  PROVE  DispatchInv(r)'
<1>1. OnlyMoves(w, r, Failing(FALSE)) /\ UNCHANGED <<outbox, dispatches>>
  BY GotoMoves, DispatchTypes DEF CallFails
<1>2. batch[w][<<r, "dispatch">>].phase \in {"claimed", "calling", "completing"}
  BY DEF CallFails, DispatchInv, ClaimedUnmarked
<1>3. Failing(FALSE).phase = "failing" /\ Failing(FALSE).uncertain = FALSE
  BY DEF Failing
<1>4. /\ lost'[r] = lost[r] \/ lost'[r] = lost[r] + 1
      /\ batch[w][<<r, "dispatch">>].phase = "completing" => lost'[r] = lost[r] + 1
  BY EffectFacts, DispatchTypes DEF CallFails, TypeOK, Kinds
<1>5. DeliveryFenced(r)' /\ OneDelivery(r)'
  BY <1>1, <1>3 DEF DispatchInv, DeliveryFenced, OneDelivery, Delivering, OnlyMoves
<1>6. ClaimedUnmarked(r)'
  BY <1>1, <1>3 DEF DispatchInv, ClaimedUnmarked, OnlyMoves, Holds
<1>7. MayDispatch(r)' /\ batch[w][<<r, "dispatch">>].phase # "completing" => MayDispatch(r)
  BY <1>1, <1>2, <1>3 DEF MayDispatch, OnlyMoves, Holds, DispatchInv, ClaimedUnmarked
<1>8. Counted(r)'
  BY <1>1, <1>4, <1>7, DispatchTypes DEF DispatchInv, Counted
<1> QED BY <1>5, <1>6, <1>8 DEF DispatchInv

(* The failure of a dispatch is recorded: parked if it is uncertain, tried  *)
(* again or dead-lettered if it is not, ignored if the lease is gone.       *)
LEMMA FailDispatch ==
  ASSUME TypeOK, NEW r \in Runs, DispatchInv(r), NEW w \in Workers,
         FailEffect(w, <<r, "dispatch">>)
  PROVE  DispatchInv(r)'
<1> DEFINE d == <<r, "dispatch">>
<1>1. batch[w][d].phase = "failing" /\ UNCHANGED <<dispatches, lost>> /\ OnlyMoves(w, r, Idle)
  BY GotoMoves, DispatchTypes DEF FailEffect, In, github
<1>2. CASE ~Holds(w, d)
  <2>1. DispatchUntouched(r)
    BY <1>1, <1>2 DEF DispatchUntouched, OnlyMoves, FailEffect
  <2> QED BY <2>1, UntouchedStep
<1>3. CASE Holds(w, d)
  <2>1. KindOf(d) = "dispatch"
    BY EffectFacts DEF Kinds
  <2>2. outbox'[d] = Failed(d, batch[w][d].uncertain)
    BY <1>3, DispatchTypes DEF FailEffect, TypeOK
  <2>3. IF batch[w][d].uncertain THEN outbox'[d].status = "reconciliation_required"
        ELSE outbox'[d].status \in {"dead_letter", "available"}
    BY <2>1, <2>2 DEF Failed, Unleased, Retried, Row
  <2>4. \A v \in Workers : ~Delivering(v, r)'
    <3>1. \A v \in Workers \ {w} : ~Delivering(v, r)
      BY <1>3 DEF DispatchInv, DeliveryFenced, Holds
    <3> QED BY <1>1, <3>1 DEF Delivering, OnlyMoves, Idle, At
  <2>5. DeliveryFenced(r)' /\ OneDelivery(r)'
    BY <2>4 DEF DeliveryFenced, OneDelivery
  <2>6. ClaimedUnmarked(r)'
    BY <1>1, <2>3 DEF DispatchInv, ClaimedUnmarked, OnlyMoves, Holds, Idle, At
  <2>7. Counted(r)'
    <3>1. ~batch[w][d].uncertain => MayDispatch(r)
      BY <1>1, <1>3 DEF MayDispatch
    <3>2. MayDispatch(r)' => ~batch[w][d].uncertain
      BY <2>3, <2>4 DEF MayDispatch, Holds, Delivering
    <3> QED BY <1>1, <3>1, <3>2 DEF DispatchInv, Counted
  <2> QED BY <2>5, <2>6, <2>7 DEF DispatchInv
<1> QED BY <1>2, <1>3

(* GitHub starts a workflow for r.  Only one worker can be at this call,    *)
(* and no dispatch was accepted before that is not counted as lost.         *)
LEMMA WorkflowDispatched ==
  ASSUME TypeOK, NEW r \in Runs, DispatchInv(r), NEW w \in Workers, DispatchWorkflow(w, r)
  PROVE  DispatchInv(r)'
<1> DEFINE d == <<r, "dispatch">>
<1>1. batch[w][d].phase = "calling" /\ UNCHANGED outbox /\ dispatches'[r] = dispatches[r] + 1
  BY DEF DispatchWorkflow, In, TypeOK
<1>2. PICK h \in {At("completing"), Failing(TRUE), Failing(FALSE)} :
        /\ OnlyMoves(w, r, h)
        /\ IF h = Failing(FALSE) THEN lost'[r] = lost[r] + 1 ELSE lost'[r] = lost[r]
  <2>1. Failing(FALSE) # At("completing") /\ Failing(FALSE) # Failing(TRUE)
    <3>1. Failing(FALSE).phase # At("completing").phase
      BY DEF Failing, At
    <3>2. Failing(FALSE).uncertain # Failing(TRUE).uncertain
      BY DEF Failing
    <3> QED BY <3>1, <3>2
  <2>2. CASE Goto(w, d, At("completing")) /\ UNCHANGED lost
    BY <2>1, <2>2, GotoMoves, DispatchTypes
  <2>3. CASE Goto(w, d, Failing(TRUE)) /\ UNCHANGED lost
    BY <2>1, <2>3, GotoMoves, DispatchTypes
  <2>4. CASE Goto(w, d, Failing(FALSE)) /\ lost' = [lost EXCEPT ![r] = @ + 1]
    BY <2>4, GotoMoves, DispatchTypes DEF TypeOK
  <2> QED BY <2>2, <2>3, <2>4 DEF DispatchWorkflow
<1>3. h.phase \in {"completing", "failing"} /\ (h.phase = "failing" /\ ~h.uncertain => h = Failing(FALSE))
  BY DEF At, Failing
<1>4. Delivering(w, r)
  BY <1>1 DEF Delivering
<1>5. \A v \in Workers : Delivering(v, r)' => v = w
  BY <1>2, <1>4 DEF DispatchInv, OneDelivery, Delivering, OnlyMoves
<1>6. DeliveryFenced(r)' /\ OneDelivery(r)'
  BY <1>1, <1>4, <1>5 DEF DispatchInv, DeliveryFenced, OneDelivery
<1>7. ClaimedUnmarked(r)'
  BY <1>1, <1>2, <1>3 DEF DispatchInv, ClaimedUnmarked, OnlyMoves, Holds
<1>8. dispatches[r] <= lost[r]
  BY <1>1 DEF DispatchInv, Counted, MayDispatch
<1>9. MayDispatch(r)' => h = Failing(FALSE)
  <2>1. \/ outbox[d].status = "reconciliation_required"
        \/ outbox[d].status = "leased" /\ outbox[d].owner = w /\ outbox[d].started
    BY <1>4 DEF DispatchInv, DeliveryFenced
  <2>2. \A v \in Workers : batch'[v][d].phase = "calling" => v = w
    BY <1>5 DEF Delivering
  <2> QED BY <1>1, <1>2, <1>3, <2>1, <2>2 DEF MayDispatch, OnlyMoves, Holds
<1>10. Counted(r)'
  <2>1. dispatches[r] \in Nat /\ lost[r] \in Nat
    BY DispatchTypes
  <2>2. CASE h = Failing(FALSE)
    BY <1>1, <1>2, <1>8, <2>1, <2>2 DEF Counted
  <2>3. CASE h # Failing(FALSE)
    <3>1. ~MayDispatch(r)'
      BY <1>9, <2>3
    <3>2. dispatches'[r] <= 1 + lost'[r]
      BY <1>1, <1>2, <1>8, <2>1, <2>3
    <3> QED BY <3>1, <3>2 DEF Counted
  <2> QED BY <2>2, <2>3
<1> QED BY <1>6, <1>7, <1>10 DEF DispatchInv

(* The request for a workflow never reaches GitHub. *)
LEMMA DispatchNotSent ==
  ASSUME TypeOK, NEW r \in Runs, DispatchInv(r), NEW w \in Workers, DispatchUnreachable(w, r)
  PROVE  DispatchInv(r)'
<1> DEFINE d == <<r, "dispatch">>
<1>1. batch[w][d].phase = "calling" /\ UNCHANGED <<outbox, dispatches, lost>>
  BY DEF DispatchUnreachable, In, github
<1>2. OnlyMoves(w, r, Failing(TRUE))
  BY GotoMoves, DispatchTypes DEF DispatchUnreachable
<1>3. Failing(TRUE).phase = "failing" /\ Failing(TRUE).uncertain = TRUE
  BY DEF Failing
<1>4. Delivering(w, r)
  BY <1>1 DEF Delivering
<1>5. DeliveryFenced(r)' /\ OneDelivery(r)'
  BY <1>1, <1>2, <1>4 DEF DispatchInv, DeliveryFenced, OneDelivery, Delivering, OnlyMoves
<1>6. ClaimedUnmarked(r)'
  BY <1>1, <1>2, <1>3 DEF DispatchInv, ClaimedUnmarked, OnlyMoves, Holds
<1>7. Counted(r)'
  BY <1>1 DEF DispatchInv, Counted, MayDispatch
<1> QED BY <1>5, <1>6, <1>7 DEF DispatchInv

(* A dispatch is recorded, or its handler finds that it may not be. *)
LEMMA DispatchRecorded ==
  ASSUME TypeOK, NEW r \in Runs, DispatchInv(r), NEW w \in Workers, CompleteWorkflowDispatch(w, r)
  PROVE  DispatchInv(r)'
<1> DEFINE d == <<r, "dispatch">>
<1>1. batch[w][d].phase = "completing" /\ UNCHANGED <<dispatches, lost>>
  BY DEF CompleteWorkflowDispatch, In, github
<1>2. CASE ~DispatchCurrent(w, r)
  <2>1. outbox' = outbox /\ OnlyMoves(w, r, Idle)
    BY <1>2, GotoMoves, DispatchTypes DEF CompleteWorkflowDispatch
  <2>2. DispatchUntouched(r)
    BY <1>1, <2>1 DEF DispatchUntouched, OnlyMoves
  <2> QED BY <2>2, UntouchedStep
<1>3. CASE DispatchCurrent(w, r)
  <2>1. outbox'[d].status = "completed"
    BY <1>3, DispatchTypes DEF CompleteWorkflowDispatch, TypeOK, Completed, Unleased, Row
  <2>2. PICK h \in {Idle, Failing(FALSE)} : OnlyMoves(w, r, h)
    BY <1>3, GotoMoves, DispatchTypes DEF CompleteWorkflowDispatch, Answered
  <2>3. h.phase \in {"idle", "failing"} /\ (h.phase = "failing" => h.uncertain = FALSE)
    BY DEF At, Idle, Failing
  <2>4. \A v \in Workers : ~Delivering(v, r)'
    <3>1. \A v \in Workers \ {w} : ~Delivering(v, r)
      BY <1>3 DEF DispatchInv, DeliveryFenced, Holds, DispatchCurrent
    <3> QED BY <2>2, <2>3, <3>1 DEF Delivering, OnlyMoves
  <2>5. DeliveryFenced(r)' /\ OneDelivery(r)'
    BY <2>4 DEF DeliveryFenced, OneDelivery
  <2>6. ClaimedUnmarked(r)'
    BY <2>1, <2>2, <2>3 DEF DispatchInv, ClaimedUnmarked, OnlyMoves, Holds
  <2>7. Counted(r)'
    BY <1>1, <2>1, <2>4 DEF DispatchInv, Counted, MayDispatch, Holds, Delivering
  <2> QED BY <2>5, <2>6, <2>7 DEF DispatchInv
<1> QED BY <1>2, <1>3

(* A check run is bound to r, and its dispatch effect may be written: the   *)
(* row did not exist before.                                                *)
LEMMA DispatchInserted ==
  ASSUME TypeOK, NEW r \in Runs, DispatchInv(r), NoEarlyDispatch(r), NEW w \in Workers,
         NEW q \in Runs, CompleteCheckRunCreate(w, q)
  PROVE  DispatchInv(r)'
<1> DEFINE d == <<r, "dispatch">>
<1>1. UNCHANGED <<dispatches, lost>>
  BY DEF CompleteCheckRunCreate, github
<1>2. \A v \in Workers : batch'[v][d] = batch[v][d]
  <2>1. <<q, "create">> # d /\ <<q, "create">> \in Effects
    BY EffectFacts DEF Kinds
  <2> QED BY <2>1, GotoMoves DEF CompleteCheckRunCreate, Answered
<1>3. \/ outbox'[d] = outbox[d]
      \/ outbox[d].status = "absent" /\ outbox'[d].status = "available"
  <2>1. CASE ~CreateCurrent(w, q)
    BY <2>1 DEF CompleteCheckRunCreate
  <2>2. CASE CreateCurrent(w, q)
    <3> DEFINE done == [outbox EXCEPT ![<<q, "create">>] = Completed(@)]
    <3>1. /\ <<q, "create">> # d /\ <<q, "complete">> # d
          /\ <<q, "dispatch">> = d => q = r
          /\ d \in Effects /\ DOMAIN outbox = Effects /\ <<q, "dispatch">> \in Effects
      BY EffectFacts DEF Kinds, TypeOK
    <3>2. done[d] = outbox[d] /\ DOMAIN done = Effects
      BY <3>1
    <3>3. /\ outbox' = OutboxAfterCreate(q)
          /\ OutboxAfterCreate(q) \in {done, [done EXCEPT ![<<q, "complete">>] = Inserted(0, 0)],
                [done EXCEPT ![<<q, "dispatch">>] = Inserted(run[q].version + 1, 0)]}
      BY <2>2 DEF CompleteCheckRunCreate, OutboxAfterCreate
    <3> HIDE DEF done
    <3>4. CASE outbox' \in {done, [done EXCEPT ![<<q, "complete">>] = Inserted(0, 0)]}
      BY <3>1, <3>2, <3>4
    <3>5. CASE outbox' = [done EXCEPT ![<<q, "dispatch">>] = Inserted(run[q].version + 1, 0)]
      <4>1. CASE q # r
        BY <3>1, <3>2, <3>5, <4>1
      <4>2. CASE q = r
        <5>1. outbox[d].status = "absent"
          BY <2>2, <4>2 DEF CreateCurrent, NoEarlyDispatch
        <5>2. outbox'[d] = Inserted(run[q].version + 1, 0)
          BY <3>1, <3>2, <3>5, <4>2
        <5> QED BY <5>1, <5>2 DEF Inserted
      <4> QED BY <4>1, <4>2
    <3> QED BY <3>3, <3>4, <3>5
  <2> QED BY <2>1, <2>2
<1>4. CASE outbox'[d] = outbox[d]
  <2>1. DispatchUntouched(r)
    BY <1>1, <1>2, <1>4 DEF DispatchUntouched
  <2> QED BY <2>1, UntouchedStep
<1>5. CASE outbox[d].status = "absent" /\ outbox'[d].status = "available"
  <2>1. \A v \in Workers : ~Delivering(v, r) /\ ~Delivering(v, r)'
    BY <1>2, <1>5 DEF DispatchInv, DeliveryFenced, Delivering
  <2>2. DeliveryFenced(r)' /\ OneDelivery(r)'
    BY <2>1 DEF DeliveryFenced, OneDelivery
  <2>3. ClaimedUnmarked(r)' /\ Counted(r)'
    BY <1>1, <1>2, <1>5 DEF DispatchInv, ClaimedUnmarked, Counted, MayDispatch, Holds
  <2> QED BY <2>2, <2>3 DEF DispatchInv
<1> QED BY <1>3, <1>4, <1>5

(* A claim recovers expired leases and leases due effects: a marked         *)
(* dispatch is parked, an unmarked one was never made.                      *)
LEMMA DispatchClaimed ==
  ASSUME TypeOK, NEW r \in Runs, DispatchInv(r), NEW w \in Workers, Claim(w)
  PROVE  DispatchInv(r)'
<1> DEFINE d == <<r, "dispatch">>
<1>1. PICK R, C : ClaimOf(w, R, C)
  BY ClaimSplits
<1>2. UNCHANGED <<dispatches, lost>> /\ batch[w][d].phase = "idle"
  BY ClaimSplits, DispatchTypes DEF github, LoopIdle
<1>3. d \in Effects /\ KindOf(d) = "dispatch"
  BY EffectFacts DEF Kinds
<1>4. /\ outbox'[d] = IF d \in C THEN Leased(AfterRecovery(R, d), w) ELSE AfterRecovery(R, d)
      /\ d \in R => outbox[d].status = "leased"
      /\ d \in C => AfterRecovery(R, d).status = "available"
      /\ OnlyMoves(w, r, IF d \in C THEN At("claimed") ELSE batch[w][d])
  BY <1>1, <1>3 DEF ClaimOf, Expired, Claimable, OnlyMoves, TypeOK
<1>5. At("claimed").phase = "claimed"
  BY DEF At
<1>6. CASE d \notin R /\ d \notin C
  <2>1. DispatchUntouched(r)
    BY <1>2, <1>4, <1>6 DEF DispatchUntouched, AfterRecovery, OnlyMoves
  <2> QED BY <2>1, UntouchedStep
<1>7. CASE d \in R /\ outbox[d].started
  <2>1. AfterRecovery(R, d).status = "reconciliation_required" /\ d \notin C
    BY <1>3, <1>4, <1>7 DEF AfterRecovery, Recovered, Unleased, Row
  <2>2. outbox'[d].status = "reconciliation_required" /\ OnlyMoves(w, r, batch[w][d])
    BY <1>4, <2>1
  <2>3. DeliveryFenced(r)' /\ OneDelivery(r)'
    BY <2>2 DEF DispatchInv, DeliveryFenced, OneDelivery, Delivering, OnlyMoves
  <2>4. ClaimedUnmarked(r)'
    BY <2>2 DEF DispatchInv, ClaimedUnmarked, Holds, OnlyMoves
  <2>5. Counted(r)'
    BY <1>2, <2>2 DEF DispatchInv, Counted, MayDispatch, Holds, OnlyMoves
  <2> QED BY <2>3, <2>4, <2>5 DEF DispatchInv
<1>8. CASE (d \in R \/ d \in C) /\ ~(d \in R /\ outbox[d].started)
  <2>1. outbox[d].status = "available" \/ (outbox[d].status = "leased" /\ ~outbox[d].started)
    BY <1>4, <1>8 DEF AfterRecovery
  <2>2. dispatches[r] <= lost[r]
    BY <2>1 DEF DispatchInv, Counted, MayDispatch
  <2>3. \A v \in Workers : ~Delivering(v, r)
    BY <2>1 DEF DispatchInv, DeliveryFenced
  <2>4. \A v \in Workers : ~Delivering(v, r)'
    BY <1>4, <1>5, <2>3 DEF Delivering, OnlyMoves
  <2>5. \/ outbox'[d].status \in {"available", "dead_letter"}
        \/ outbox'[d].status = "leased" /\ outbox'[d].started = FALSE
    <3>1. CASE d \in C
      BY <1>4, <3>1 DEF Leased, Row
    <3>2. CASE d \notin C
      <4>1. outbox'[d] = Recovered(d) /\ ~outbox[d].started
        BY <1>4, <1>8, <3>2 DEF AfterRecovery
      <4> QED BY <4>1 DEF Recovered, Retried, Row
    <3> QED BY <3>1, <3>2
  <2>6. DeliveryFenced(r)' /\ OneDelivery(r)'
    BY <2>4 DEF DeliveryFenced, OneDelivery
  <2>7. ClaimedUnmarked(r)'
    BY <1>4, <1>5, <2>5 DEF DispatchInv, ClaimedUnmarked, Holds, OnlyMoves
  <2>8. Counted(r)'
    BY <1>2, <2>2, DispatchTypes DEF DispatchInv, Counted
  <2> QED BY <2>6, <2>7, <2>8 DEF DispatchInv
<1> QED BY <1>6, <1>7, <1>8

----------------------------------------------------------------------------
(* The run table.  Only four kinds of step write it. *)

(* Effects that no lease, retry or replay concerns. *)
AtRest == {"absent", "completed", "reconciliation_required"}

(* What most steps leave alone: rows at rest, and only dispatches are parked. *)
RestKept ==
  \A e \in Effects :
    /\ outbox[e].status \in AtRest => outbox'[e] = outbox[e]
    /\ outbox'[e].status = "reconciliation_required"
         => KindOf(e) = "dispatch" \/ outbox[e].status = "reconciliation_required"

(* Only a conclusion effect is completed, by a handler that made its call. *)
OnlyConclusions ==
  \A e \in Effects :
    outbox'[e].status = "completed"
      => \/ outbox[e].status = "completed"
         \/ KindOf(e) = "complete" /\ \E w \in Workers : batch[w][e].phase = "completing"

BindsCheckRun(r, id) ==
  /\ outbox[<<r, "create">>].status = "leased"
  /\ \E w \in Workers : /\ batch[w][<<r, "create">>].phase = "completing"
                        /\ batch[w][<<r, "create">>].check = id
  /\ run[r].status = "queued" /\ run[r].attempt = "none"
  /\ run' = [run EXCEPT ![r] = AfterCreate(r, id)]
  /\ outbox' = OutboxAfterCreate(r)

RecordsDispatch(r) ==
  /\ run[r].status = "queued" /\ run[r].attempt = "dispatching"
  /\ \E w \in Workers : batch[w][<<r, "dispatch">>].phase = "completing"
  /\ run' = [run EXCEPT ![r] = Advanced(@, "dispatched", "dispatched")]
  /\ outbox' = [outbox EXCEPT ![<<r, "dispatch">>] = Completed(@)]
  /\ RestKept

RunStep ==
  \/ run' = run /\ RestKept /\ OnlyConclusions
  \/ \E r \in Runs, skip \in BOOLEAN : EnqueueReleaseRun(r, skip)
  \/ \E r \in Runs, id \in Nat : BindsCheckRun(r, id)
  \/ \E r \in Runs : RecordsDispatch(r)
  \/ \E r \in Runs, s \in {"running"} \cup Results : RunnerReports(r, s)

(* A step that rewrites one available, leased or dead-lettered effect. *)
LEMMA OneRowWritten ==
  ASSUME TypeOK, NEW e \in Effects, NEW x, outbox' = [outbox EXCEPT ![e] = x],
         outbox[e].status \notin AtRest, x.status = "reconciliation_required" => KindOf(e) = "dispatch"
  PROVE  RestKept
BY DEF RestKept, TypeOK

(* Every step is one of them. *)
LEMMA RunSteps ==
  ASSUME TypeOK, [Next]_vars
  PROVE  RunStep
<1>1. \A r \in Runs : <<r, "create">> \in Effects /\ <<r, "dispatch">> \in Effects
                      /\ <<r, "complete">> \in Effects
  BY EffectFacts DEF Kinds
<1>2. ASSUME run' = run, outbox' = outbox PROVE RunStep
  BY <1>2 DEF RunStep, RestKept, OnlyConclusions
<1>3. ASSUME NEW e \in Effects, NEW x, outbox' = [outbox EXCEPT ![e] = x],
             outbox[e].status \notin AtRest, run' = run,
             x.status = "reconciliation_required" => KindOf(e) = "dispatch",
             x.status = "completed"
               => KindOf(e) = "complete" /\ \E w \in Workers : batch[w][e].phase = "completing"
      PROVE  RunStep
  <2>1. OnlyConclusions
    BY <1>3 DEF OnlyConclusions, TypeOK
  <2> QED BY <1>3, <2>1, OneRowWritten DEF RunStep
<1>4. ASSUME NEW r \in Runs, NEW skip \in Skips, Request(r, skip) PROVE RunStep
  BY <1>4, SkipsAssumption DEF Request, RunStep
<1>5. ASSUME NEW r \in Runs, Rerun(r) PROVE RunStep
  <2>1. run[r].skip \in BOOLEAN
    BY DEF TypeOK, RunRow
  <2> QED BY <1>5, <2>1 DEF Rerun, RunStep
<1>6. ASSUME NEW r \in Runs, NEW s \in {"running"} \cup Results, RunnerReports(r, s) PROVE RunStep
  BY <1>6 DEF RunStep
<1>7. ASSUME NEW e \in Effects, TimePasses(e) \/ ReplayEffect(e) PROVE RunStep
  <2>1. CASE TimePasses(e)
    BY <1>3, <2>1 DEF TimePasses, AtRest, Row
  <2>2. CASE ReplayEffect(e)
    BY <1>3, <2>2 DEF ReplayEffect, Replayable, AtRest, Row
  <2> QED BY <1>7, <2>1, <2>2
<1>8. ASSUME NEW w \in Workers, Claim(w) PROVE RunStep
  <2>1. PICK R, C : ClaimOf(w, R, C)
    BY <1>8, ClaimSplits
  <2>2. ASSUME NEW e \in Effects, outbox[e].status \in AtRest PROVE outbox'[e] = outbox[e]
    <3>1. e \notin R
      BY <2>1, <2>2 DEF ClaimOf, Expired, AtRest
    <3>2. AfterRecovery(R, e) = outbox[e] /\ e \notin C
      BY <2>1, <2>2, <3>1 DEF ClaimOf, Claimable, AfterRecovery, AtRest
    <3> QED BY <2>1, <2>2, <3>2 DEF ClaimOf
  <2>3. ASSUME NEW e \in Effects, outbox'[e].status = "reconciliation_required",
               outbox[e].status # "reconciliation_required"
        PROVE  KindOf(e) = "dispatch"
    <3>1. outbox'[e] = AfterRecovery(R, e)
      BY <2>1, <2>3 DEF ClaimOf, Leased, Row
    <3>2. outbox'[e] = Recovered(e)
      BY <2>3, <3>1 DEF AfterRecovery
    <3> QED BY <2>3, <3>2 DEF Recovered, Retried, Row
  <2>4. ASSUME NEW e \in Effects, outbox'[e].status = "completed", outbox[e].status # "completed"
        PROVE  FALSE
    <3>1. outbox'[e] = AfterRecovery(R, e)
      BY <2>1, <2>4 DEF ClaimOf, Leased, Row
    <3>2. outbox'[e] = Recovered(e)
      BY <2>4, <3>1 DEF AfterRecovery
    <3> QED BY <2>4, <3>2 DEF Recovered, Retried, Unleased, Row
  <2> QED BY <1>8, <2>2, <2>3, <2>4, ClaimSplits DEF RunStep, RestKept, OnlyConclusions
<1>9. ASSUME NEW w \in Workers, NEW e \in Effects, MarkDeliveryStarted(w, e) \/ FailEffect(w, e)
      PROVE  RunStep
  <2>1. CASE MarkDeliveryStarted(w, e)
    <3>1. CASE Holds(w, e)
      BY <1>3, <2>1, <3>1 DEF MarkDeliveryStarted, Holds, AtRest, Row
    <3>2. CASE ~Holds(w, e)
      BY <1>2, <2>1, <3>2 DEF MarkDeliveryStarted
    <3> QED BY <3>1, <3>2
  <2>2. CASE FailEffect(w, e)
    <3>1. CASE Holds(w, e)
      <4>1. /\ Failed(e, batch[w][e].uncertain).status = "reconciliation_required" => KindOf(e) = "dispatch"
            /\ Failed(e, batch[w][e].uncertain).status # "completed"
        BY DEF Failed, Unleased, Retried, Row
      <4> QED BY <1>3, <2>2, <3>1, <4>1 DEF FailEffect, Holds, AtRest
    <3>2. CASE ~Holds(w, e)
      BY <1>2, <2>2, <3>2 DEF FailEffect
    <3> QED BY <3>1, <3>2
  <2> QED BY <1>9, <2>1, <2>2
<1>10. ASSUME NEW w \in Workers, NEW r \in Runs, CompleteCheckRunCreate(w, r) PROVE RunStep
  <2>1. batch[w][<<r, "create">>].check \in Nat
    BY <1>1 DEF TypeOK, Handler
  <2>2. CASE CreateCurrent(w, r)
    <3>1. BindsCheckRun(r, batch[w][<<r, "create">>].check)
      BY <1>10, <2>1, <2>2 DEF CompleteCheckRunCreate, CreateCurrent, Holds, In, BindsCheckRun
    <3> QED BY <2>1, <3>1 DEF RunStep
  <2>3. CASE ~CreateCurrent(w, r)
    BY <1>2, <1>10, <2>3 DEF CompleteCheckRunCreate
  <2> QED BY <2>2, <2>3
<1>11. ASSUME NEW w \in Workers, NEW r \in Runs, CompleteWorkflowDispatch(w, r) PROVE RunStep
  <2>1. CASE DispatchCurrent(w, r)
    <3>1. RestKept
      BY <1>1, <1>11, <2>1, OneRowWritten
      DEF CompleteWorkflowDispatch, DispatchCurrent, Holds, AtRest, Completed, Unleased, Row
    <3>2. RecordsDispatch(r)
      BY <1>11, <2>1, <3>1 DEF CompleteWorkflowDispatch, DispatchCurrent, In, RecordsDispatch
    <3> QED BY <3>2 DEF RunStep
  <2>2. CASE ~DispatchCurrent(w, r)
    BY <1>2, <1>11, <2>2 DEF CompleteWorkflowDispatch
  <2> QED BY <2>1, <2>2
<1>12. ASSUME NEW w \in Workers, NEW r \in Runs, CompleteEffect(w, r) PROVE RunStep
  <2>1. CASE Holds(w, <<r, "complete">>)
    <3>1. KindOf(<<r, "complete">>) = "complete"
      BY EffectFacts DEF Kinds
    <3> QED BY <1>1, <1>3, <1>12, <2>1, <3>1
            DEF CompleteEffect, Holds, In, AtRest, Completed, Unleased, Row
  <2>2. CASE ~Holds(w, <<r, "complete">>)
    BY <1>2, <1>12, <2>2 DEF CompleteEffect
  <2> QED BY <2>1, <2>2
<1>13. ASSUME NEW w \in Workers, NEW r \in Runs,
              \/ ListCheckRuns(w, r) \/ CreateCheckRun(w, r) \/ DispatchWorkflow(w, r)
              \/ DispatchUnreachable(w, r) \/ ConcludeCheckRun(w, r)
       PROVE  RunStep
  BY <1>2, <1>13 DEF ListCheckRuns, CreateCheckRun, DispatchWorkflow, DispatchUnreachable, ConcludeCheckRun
<1>14. ASSUME NEW w \in Workers, NEW e \in Effects, CallFails(w, e) PROVE RunStep
  BY <1>2, <1>14 DEF CallFails
<1>15. ASSUME NEW w \in Workers, Crash(w) \/ Restart(w) PROVE RunStep
  BY <1>2, <1>15 DEF Crash, Restart
<1>16. CASE UNCHANGED vars
  BY <1>2, <1>16 DEF vars
<1> QED
  BY <1>4, <1>5, <1>6, <1>7, <1>8, <1>9, <1>10, <1>11, <1>12, <1>13, <1>14, <1>15, <1>16
  DEF Next, HandlerStep

(* A run that has no attempt yet has no dispatch effect. *)
LEMMA EarlyStep ==
  ASSUME TypeOK, [Next]_vars, NEW r \in Runs, NoEarlyDispatch(r)
  PROVE  NoEarlyDispatch(r)'
<1> DEFINE d == <<r, "dispatch">>
<1>1. d \in Effects
  BY EffectFacts DEF Kinds
<1>2. CASE run' = run /\ RestKept
  BY <1>1, <1>2 DEF NoEarlyDispatch, RestKept, AtRest
<1>3. ASSUME NEW q \in Runs, NEW skip \in BOOLEAN, EnqueueReleaseRun(q, skip)
      PROVE  NoEarlyDispatch(r)'
  <2>1. outbox'[d] = outbox[d]
    BY <1>1, <1>3, EffectFacts DEF EnqueueReleaseRun, TypeOK, Kinds
  <2>2. run'[r].status = "absent" \/ run'[r].attempt = "none"
          => run[r].status = "absent" \/ run[r].attempt = "none"
    BY <1>3 DEF EnqueueReleaseRun, SupersededBy, Superseded, Advanced, Active
  <2> QED BY <2>1, <2>2 DEF NoEarlyDispatch
<1>4. ASSUME NEW q \in Runs, NEW id \in Nat, BindsCheckRun(q, id)
      PROVE  NoEarlyDispatch(r)'
  <2> DEFINE done == [outbox EXCEPT ![<<q, "create">>] = Completed(@)]
  <2>1. /\ <<q, "create">> # d /\ <<q, "complete">> # d
        /\ <<q, "dispatch">> = d => q = r
        /\ DOMAIN outbox = Effects /\ DOMAIN run = Runs
    BY EffectFacts DEF Kinds, TypeOK
  <2>2. done[d] = outbox[d] /\ DOMAIN done = Effects
    BY <1>1, <2>1
  <2>3. outbox' = IF run[q].skip THEN [done EXCEPT ![<<q, "complete">>] = Inserted(0, 0)]
                  ELSE IF DispatchMode = "github-actions"
                  THEN [done EXCEPT ![<<q, "dispatch">>] = Inserted(run[q].version + 1, 0)]
                  ELSE done
    BY <1>4 DEF BindsCheckRun, OutboxAfterCreate
  <2> HIDE DEF done
  <2>4. CASE q # r
    <3>1. outbox'[d] = outbox[d]
      BY <1>1, <2>1, <2>2, <2>3, <2>4
    <3>2. run'[r] = run[r]
      BY <1>4, <2>1, <2>4 DEF BindsCheckRun
    <3> QED BY <3>1, <3>2 DEF NoEarlyDispatch
  <2>5. CASE q = r /\ (run[r].skip \/ DispatchMode # "github-actions")
    <3>1. outbox'[d] = outbox[d]
      BY <1>1, <2>1, <2>2, <2>3, <2>5
    <3> QED BY <1>4, <2>5, <3>1 DEF BindsCheckRun, NoEarlyDispatch
  <2>6. CASE q = r /\ ~run[r].skip /\ DispatchMode = "github-actions"
    <3>1. run'[r].status = "queued" /\ run'[r].attempt = "dispatching"
      BY <1>4, <2>1, <2>6 DEF BindsCheckRun, AfterCreate, Bound
    <3> QED BY <3>1 DEF NoEarlyDispatch
  <2> QED BY <2>4, <2>5, <2>6
<1>5. ASSUME NEW q \in Runs, RecordsDispatch(q) PROVE NoEarlyDispatch(r)'
  <2>1. run'[r] = run[r] \/ (run'[r].status = "dispatched" /\ run'[r].attempt = "dispatched")
    BY <1>5 DEF RecordsDispatch, Advanced, TypeOK
  <2> QED BY <1>1, <1>5, <2>1 DEF RecordsDispatch, RestKept, AtRest, NoEarlyDispatch
<1>6. ASSUME NEW q \in Runs, NEW s \in {"running"} \cup Results, RunnerReports(q, s)
      PROVE  NoEarlyDispatch(r)'
  <2>1. run'[r] = run[r] \/ (run'[r].status # "absent" /\ run'[r].attempt # "none")
    BY <1>6 DEF RunnerReports, Advanced, TypeOK, Results
  <2> QED BY <1>6, <2>1 DEF RunnerReports, NoEarlyDispatch
<1> QED BY <1>2, <1>3, <1>4, <1>5, <1>6, RunSteps DEF RunStep

(* No run has a dispatch effect before its attempt exists. *)
LEMMA NoEarlyDispatches == Spec => [](\A r \in Runs : NoEarlyDispatch(r))
<1>1. Init => \A r \in Runs : NoEarlyDispatch(r)
  <2>1. \A r \in Runs : <<r, "dispatch">> \in Effects
    BY EffectFacts DEF Kinds
  <2> QED BY <2>1 DEF Init, NoEarlyDispatch, NoEffect
<1>2. TypeOK /\ (\A r \in Runs : NoEarlyDispatch(r)) /\ [Next]_vars => (\A r \in Runs : NoEarlyDispatch(r))'
  BY EarlyStep
<1> QED BY <1>1, <1>2, TypeCorrect, PTL DEF Spec

(* One step of the protocol preserves the dispatch invariant. *)
LEMMA DispatchStep ==
  ASSUME TypeOK, [Next]_vars, NEW r \in Runs, NoEarlyDispatch(r), DispatchInv(r)
  PROVE  DispatchInv(r)'
<1> DEFINE d == <<r, "dispatch">>
<1>1. d \in Effects /\ \A q \in Runs : /\ <<q, "create">> \in Effects /\ <<q, "create">> # d
                                       /\ <<q, "complete">> \in Effects /\ <<q, "complete">> # d
                                       /\ <<q, "dispatch">> \in Effects
                                       /\ q # r => <<q, "dispatch">> # d
  BY EffectFacts DEF Kinds
<1>2. ASSUME DispatchUntouched(r) PROVE DispatchInv(r)'
  BY <1>2, UntouchedStep
<1>3. ASSUME NEW q \in Runs, NEW skip, EnqueueReleaseRun(q, skip), UNCHANGED <<batch, dispatches, lost>>
      PROVE  DispatchInv(r)'
  <2>1. outbox'[d] = outbox[d]
    BY <1>1, <1>3 DEF EnqueueReleaseRun, TypeOK
  <2> QED BY <1>2, <1>3, <2>1 DEF DispatchUntouched
<1>4. ASSUME NEW q \in Runs, NEW skip \in Skips, Request(q, skip) PROVE DispatchInv(r)'
  BY <1>3, <1>4 DEF Request, github
<1>5. ASSUME NEW q \in Runs, Rerun(q) PROVE DispatchInv(r)'
  BY <1>3, <1>5 DEF Rerun, github
<1>6. ASSUME NEW q \in Runs, NEW s \in {"running"} \cup Results, RunnerReports(q, s)
      PROVE  DispatchInv(r)'
  BY <1>2, <1>6 DEF RunnerReports, github, DispatchUntouched
<1>7. ASSUME NEW e \in Effects, TimePasses(e) PROVE DispatchInv(r)'
  <2>1. CASE e = d
    BY <1>7, <2>1, TimePassesDispatch
  <2>2. CASE e # d
    <3>1. outbox'[d] = outbox[d]
      BY <1>1, <1>7, <2>2 DEF TimePasses, TypeOK
    <3> QED BY <1>2, <1>7, <3>1 DEF TimePasses, github, DispatchUntouched
  <2> QED BY <2>1, <2>2
<1>8. ASSUME NEW e \in Effects, ReplayEffect(e) PROVE DispatchInv(r)'
  <2>1. CASE e = d
    BY <1>8, <2>1, ReplayDispatch
  <2>2. CASE e # d
    <3>1. outbox'[d] = outbox[d]
      BY <1>1, <1>8, <2>2 DEF ReplayEffect, TypeOK
    <3> QED BY <1>2, <1>8, <3>1 DEF ReplayEffect, github, DispatchUntouched
  <2> QED BY <2>1, <2>2
<1>9. ASSUME NEW w \in Workers, Claim(w) PROVE DispatchInv(r)'
  BY <1>9, DispatchClaimed
<1>10. ASSUME NEW w \in Workers, NEW e \in Effects, MarkDeliveryStarted(w, e) PROVE DispatchInv(r)'
  <2>1. CASE e = d
    BY <1>10, <2>1, MarkDispatch
  <2>2. CASE e # d
    <3>1. outbox'[d] = outbox[d]
      BY <1>1, <1>10, <2>2 DEF MarkDeliveryStarted, TypeOK
    <3>2. \A v \in Workers : batch'[v][d] = batch[v][d]
      BY <1>10, <2>2, GotoMoves DEF MarkDeliveryStarted, Answered
    <3> QED BY <1>2, <1>10, <3>1, <3>2 DEF MarkDeliveryStarted, github, DispatchUntouched
  <2> QED BY <2>1, <2>2
<1>11. ASSUME NEW w \in Workers, NEW e \in Effects, CallFails(w, e) PROVE DispatchInv(r)'
  <2>1. CASE e = d
    BY <1>11, <2>1, CallFailsDispatch
  <2>2. CASE e # d
    <3>1. \A v \in Workers : batch'[v][d] = batch[v][d]
      BY <1>11, <2>2, GotoMoves DEF CallFails
    <3>2. KindOf(e) # "dispatch" \/ RunOf(e) # r
      BY <2>2, EffectFacts
    <3>3. lost'[r] = lost[r]
      BY <1>11, <3>2 DEF CallFails, TypeOK
    <3> QED BY <1>2, <1>11, <3>1, <3>3 DEF CallFails, DispatchUntouched
  <2> QED BY <2>1, <2>2
<1>12. ASSUME NEW w \in Workers, NEW e \in Effects, FailEffect(w, e) PROVE DispatchInv(r)'
  <2>1. CASE e = d
    BY <1>12, <2>1, FailDispatch
  <2>2. CASE e # d
    <3>1. outbox'[d] = outbox[d]
      BY <1>1, <1>12, <2>2 DEF FailEffect, TypeOK
    <3>2. \A v \in Workers : batch'[v][d] = batch[v][d]
      BY <1>12, <2>2, GotoMoves DEF FailEffect
    <3> QED BY <1>2, <1>12, <3>1, <3>2 DEF FailEffect, github, DispatchUntouched
  <2> QED BY <2>1, <2>2
<1>13. ASSUME NEW w \in Workers, NEW q \in Runs, ListCheckRuns(w, q) PROVE DispatchInv(r)'
  <2>1. \A v \in Workers : batch'[v][d] = batch[v][d]
    BY <1>1, <1>13, GotoMoves DEF ListCheckRuns
  <2> QED BY <1>2, <1>13, <2>1 DEF ListCheckRuns, github, DispatchUntouched
<1>14. ASSUME NEW w \in Workers, NEW q \in Runs, CreateCheckRun(w, q) PROVE DispatchInv(r)'
  <2>1. \A v \in Workers : batch'[v][d] = batch[v][d]
    BY <1>1, <1>14, GotoMoves DEF CreateCheckRun, Answered
  <2> QED BY <1>2, <1>14, <2>1 DEF CreateCheckRun, DispatchUntouched
<1>15. ASSUME NEW w \in Workers, NEW q \in Runs, CompleteCheckRunCreate(w, q) PROVE DispatchInv(r)'
  BY <1>15, DispatchInserted
<1>16. ASSUME NEW w \in Workers, NEW q \in Runs, DispatchWorkflow(w, q) PROVE DispatchInv(r)'
  <2>1. CASE q = r
    BY <1>16, <2>1, WorkflowDispatched
  <2>2. CASE q # r
    <3>1. \A v \in Workers : batch'[v][d] = batch[v][d]
      BY <1>1, <1>16, <2>2, GotoMoves DEF DispatchWorkflow
    <3>2. dispatches'[r] = dispatches[r] /\ lost'[r] = lost[r]
      BY <1>16, <2>2 DEF DispatchWorkflow, TypeOK
    <3> QED BY <1>2, <1>16, <3>1, <3>2 DEF DispatchWorkflow, DispatchUntouched
  <2> QED BY <2>1, <2>2
<1>17. ASSUME NEW w \in Workers, NEW q \in Runs, DispatchUnreachable(w, q) PROVE DispatchInv(r)'
  <2>1. CASE q = r
    BY <1>17, <2>1, DispatchNotSent
  <2>2. CASE q # r
    <3>1. \A v \in Workers : batch'[v][d] = batch[v][d]
      BY <1>1, <1>17, <2>2, GotoMoves DEF DispatchUnreachable
    <3> QED BY <1>2, <1>17, <3>1 DEF DispatchUnreachable, github, DispatchUntouched
  <2> QED BY <2>1, <2>2
<1>18. ASSUME NEW w \in Workers, NEW q \in Runs, CompleteWorkflowDispatch(w, q) PROVE DispatchInv(r)'
  <2>1. CASE q = r
    BY <1>18, <2>1, DispatchRecorded
  <2>2. CASE q # r
    <3>1. \A v \in Workers : batch'[v][d] = batch[v][d]
      BY <1>1, <1>18, <2>2, GotoMoves DEF CompleteWorkflowDispatch, Answered
    <3>2. outbox'[d] = outbox[d]
      BY <1>1, <1>18, <2>2 DEF CompleteWorkflowDispatch, TypeOK
    <3> QED BY <1>2, <1>18, <3>1, <3>2 DEF CompleteWorkflowDispatch, github, DispatchUntouched
  <2> QED BY <2>1, <2>2
<1>19. ASSUME NEW w \in Workers, NEW q \in Runs, ConcludeCheckRun(w, q) PROVE DispatchInv(r)'
  <2>1. \A v \in Workers : batch'[v][d] = batch[v][d]
    BY <1>1, <1>19, GotoMoves DEF ConcludeCheckRun, Answered
  <2> QED BY <1>2, <1>19, <2>1 DEF ConcludeCheckRun, DispatchUntouched
<1>20. ASSUME NEW w \in Workers, NEW q \in Runs, CompleteEffect(w, q) PROVE DispatchInv(r)'
  <2>1. \A v \in Workers : batch'[v][d] = batch[v][d]
    BY <1>1, <1>20, GotoMoves DEF CompleteEffect, Answered
  <2>2. outbox'[d] = outbox[d]
    BY <1>1, <1>20 DEF CompleteEffect, TypeOK
  <2> QED BY <1>2, <1>20, <2>1, <2>2 DEF CompleteEffect, github, DispatchUntouched
<1>21. ASSUME NEW w \in Workers, Crash(w) PROVE DispatchInv(r)'
  <2>1. \A v \in Workers : batch'[v][d] \in {batch[v][d], Idle}
    BY <1>1, <1>21 DEF Crash, TypeOK
  <2> QED BY <1>2, <1>21, <2>1 DEF Crash, github, DispatchUntouched
<1>22. ASSUME NEW w \in Workers, Restart(w) PROVE DispatchInv(r)'
  BY <1>2, <1>22 DEF Restart, github, DispatchUntouched
<1>23. CASE UNCHANGED vars
  BY <1>2, <1>23 DEF vars, DispatchUntouched
<1> QED
  BY <1>4, <1>5, <1>6, <1>7, <1>8, <1>9, <1>10, <1>11, <1>12, <1>13, <1>14, <1>15, <1>16,
     <1>17, <1>18, <1>19, <1>20, <1>21, <1>22, <1>23
  DEF Next, HandlerStep

(* However many workers race, crash and lose their leases: a workflow of a  *)
(* run beyond its first is paid for by an ordinary error after an accepted  *)
(* dispatch.                                                                *)
THEOREM DispatchAccounting == Spec => []DispatchesAccountedFor
<1> DEFINE Early == \A r \in Runs : NoEarlyDispatch(r)
           Inv == \A r \in Runs : DispatchInv(r)
<1>1. Init => Inv
  <2> SUFFICES ASSUME Init, NEW r \in Runs PROVE DispatchInv(r)
    OBVIOUS
  <2>1. <<r, "dispatch">> \in Effects
    BY EffectFacts DEF Kinds
  <2>2. /\ outbox[<<r, "dispatch">>].status = "absent"
        /\ \A w \in Workers : batch[w][<<r, "dispatch">>].phase = "idle"
        /\ dispatches[r] = 0 /\ lost[r] = 0
    BY <2>1 DEF Init, NoEffect, Idle, At
  <2> QED BY <2>2 DEF DispatchInv, DeliveryFenced, OneDelivery, ClaimedUnmarked, Counted, Delivering
<1>2. TypeOK /\ Early /\ Inv /\ [Next]_vars => Inv'
  BY DispatchStep
<1>3. Inv => DispatchesAccountedFor
  BY DEF DispatchInv, Counted, DispatchesAccountedFor
<1> QED BY <1>1, <1>2, <1>3, TypeCorrect, NoEarlyDispatches, PTL DEF Spec

----------------------------------------------------------------------------
(* Completed effects and the runs they wrote *)

(* What a handler knows when it is about to complete its effect. *)
Told(w, e) ==
  batch[w][e].phase = "completing" =>
    /\ KindOf(e) = "create" => batch[w][e].check \in 1..checks[RunOf(e)]
    /\ KindOf(e) = "dispatch" => dispatches[RunOf(e)] > 0
    /\ KindOf(e) = "complete" => concluded[RunOf(e)]

HandlersKnow == \A w \in Workers, e \in Effects : Told(w, e)

(* GitHub forgets nothing. *)
GitHubGrows ==
  \A r \in Runs : /\ checks[r] \in Nat /\ checks'[r] \in Nat /\ checks[r] <= checks'[r]
                  /\ dispatches[r] \in Nat /\ dispatches'[r] \in Nat
                  /\ dispatches[r] <= dispatches'[r]
                  /\ concluded[r] => concluded'[r]

LEMMA Grows ==
  ASSUME TypeOK, [Next]_vars
  PROVE  GitHubGrows
<1>0. /\ checks \in [Runs -> Nat] /\ dispatches \in [Runs -> Nat] /\ concluded \in [Runs -> BOOLEAN]
  BY DEF TypeOK
<1>1. CASE UNCHANGED github
  BY <1>0, <1>1 DEF github, GitHubGrows
<1>2. ASSUME NEW w \in Workers, NEW r \in Runs, CreateCheckRun(w, r) PROVE GitHubGrows
  BY <1>0, <1>2 DEF CreateCheckRun, GitHubGrows
<1>3. ASSUME NEW w \in Workers, NEW r \in Runs, DispatchWorkflow(w, r) PROVE GitHubGrows
  BY <1>0, <1>3 DEF DispatchWorkflow, GitHubGrows
<1>4. ASSUME NEW w \in Workers, NEW r \in Runs, ConcludeCheckRun(w, r) PROVE GitHubGrows
  BY <1>0, <1>4 DEF ConcludeCheckRun, GitHubGrows
<1>5. ASSUME NEW w \in Workers, NEW e \in Effects, CallFails(w, e) PROVE GitHubGrows
  BY <1>0, <1>5 DEF CallFails, GitHubGrows
<1>6. ASSUME NEW w \in Workers, HandlerStep(w) PROVE GitHubGrows
  BY <1>1, <1>2, <1>3, <1>4, <1>5, <1>6 DEF HandlerStep, MarkDeliveryStarted, FailEffect,
     ListCheckRuns, CompleteCheckRunCreate, DispatchUnreachable, CompleteWorkflowDispatch,
     CompleteEffect
<1>7. CASE UNCHANGED vars
  BY <1>1, <1>7 DEF vars, github
<1> QED
  BY <1>1, <1>6, <1>7 DEF Next, Request, Rerun, RunnerReports, TimePasses, ReplayEffect, Claim,
     Crash, Restart

(* A handler that stays where it is, or is not about to complete. *)
LEMMA ToldStays ==
  ASSUME GitHubGrows, NEW w \in Workers, NEW e \in Effects, Told(w, e),
         batch'[w][e] = batch[w][e] \/ batch'[w][e].phase # "completing"
  PROVE  Told(w, e)'
<1>1. RunOf(e) \in Runs
  BY EffectFacts
<1> QED BY <1>1 DEF Told, GitHubGrows

(* Only one handler moves. *)
LEMMA MovesTold ==
  ASSUME TypeOK, GitHubGrows, HandlersKnow, NEW w \in Workers, NEW e \in Effects, NEW h,
         Goto(w, e, h), batch'[w][e] = h => Told(w, e)'
  PROVE  HandlersKnow'
<1> SUFFICES ASSUME NEW v \in Workers, NEW f \in Effects PROVE Told(v, f)'
  BY DEF HandlersKnow
<1>1. CASE v = w /\ f = e
  BY <1>1 DEF Goto, TypeOK
<1>2. CASE ~(v = w /\ f = e)
  <2>1. batch'[v][f] = batch[v][f]
    BY <1>2 DEF Goto, TypeOK
  <2> QED BY <2>1, ToldStays DEF HandlersKnow
<1> QED BY <1>1, <1>2

LEMMA AnsweredTold ==
  ASSUME TypeOK, GitHubGrows, HandlersKnow, NEW w \in Workers, NEW e \in Effects, NEW h,
         Answered(w, e, h), batch'[w][e] = h => Told(w, e)'
  PROVE  HandlersKnow'
<1>1. batch'[w][e] = Failing(FALSE) => Told(w, e)'
  BY DEF Told, Failing
<1> QED BY <1>1, MovesTold DEF Answered

LEMMA KnowStep ==
  ASSUME TypeOK, [Next]_vars, HandlersKnow
  PROVE  HandlersKnow'
<1>0. GitHubGrows /\ \A r \in Runs, k \in Kinds : <<r, k>> \in Effects
  BY Grows, EffectFacts
<1>1. CASE UNCHANGED batch
  BY <1>0, <1>1, ToldStays DEF HandlersKnow
<1>2. ASSUME NEW w \in Workers, NEW e \in Effects, NEW h, h.phase # "completing",
             Goto(w, e, h) \/ Answered(w, e, h)
      PROVE  HandlersKnow'
  <2>1. batch'[w][e] = h => Told(w, e)'
    BY <1>2 DEF Told
  <2> QED BY <1>0, <1>2, <2>1, MovesTold, AnsweredTold
<1>3. ASSUME NEW w \in Workers, Claim(w) PROVE HandlersKnow'
  <2>1. PICK R, C : ClaimOf(w, R, C)
    BY <1>3, ClaimSplits
  <2>2. \A v \in Workers, e \in Effects :
          batch'[v][e] = batch[v][e] \/ batch'[v][e].phase # "completing"
    BY <2>1 DEF ClaimOf, At, TypeOK
  <2> QED BY <1>0, <2>2, ToldStays DEF HandlersKnow
<1>4. ASSUME NEW w \in Workers, Crash(w) PROVE HandlersKnow'
  <2>1. \A v \in Workers, e \in Effects :
          batch'[v][e] = batch[v][e] \/ batch'[v][e].phase # "completing"
    BY <1>4 DEF Crash, Idle, At, TypeOK
  <2> QED BY <1>0, <2>1, ToldStays DEF HandlersKnow
<1>5. ASSUME NEW w \in Workers, NEW e \in Effects,
             MarkDeliveryStarted(w, e) \/ CallFails(w, e) \/ FailEffect(w, e)
      PROVE  HandlersKnow'
  <2>1. /\ At("calling").phase # "completing" /\ Idle.phase # "completing"
        /\ Failing(FALSE).phase # "completing"
    BY DEF At, Idle, Failing
  <2>2. CASE MarkDeliveryStarted(w, e)
    BY <1>2, <2>1, <2>2 DEF MarkDeliveryStarted
  <2>3. CASE CallFails(w, e)
    BY <1>2, <2>1, <2>3 DEF CallFails
  <2>4. CASE FailEffect(w, e)
    BY <1>2, <2>1, <2>4 DEF FailEffect
  <2> QED BY <1>5, <2>2, <2>3, <2>4
<1>6. ASSUME NEW w \in Workers, NEW r \in Runs,
             \/ CompleteCheckRunCreate(w, r) \/ DispatchUnreachable(w, r)
             \/ CompleteWorkflowDispatch(w, r) \/ CompleteEffect(w, r)
      PROVE  HandlersKnow'
  BY <1>0, <1>2, <1>6 DEF CompleteCheckRunCreate, DispatchUnreachable, CompleteWorkflowDispatch,
     CompleteEffect, At, Idle, Failing, Kinds
<1>7. ASSUME NEW w \in Workers, NEW r \in Runs, ListCheckRuns(w, r) PROVE HandlersKnow'
  <2> DEFINE e == <<r, "create">>
  <2>1. e \in Effects /\ RunOf(e) = r /\ KindOf(e) = "create"
    BY EffectFacts DEF Kinds
  <2> HIDE DEF e
  <2>2. CASE Goto(w, e, At("listed"))
    BY <1>2, <2>1, <2>2 DEF At
  <2>3. ASSUME NEW id \in 1..checks[r], Goto(w, e, Ensured(id)) PROVE HandlersKnow'
    <3>1. checks' = checks
      BY <1>7 DEF ListCheckRuns, github
    <3>2. batch'[w][e] = Ensured(id) => Told(w, e)'
      BY <2>1, <2>3, <3>1 DEF Told, Ensured
    <3> QED BY <1>0, <2>1, <2>3, <3>2, MovesTold
  <2> QED BY <1>7, <2>2, <2>3 DEF ListCheckRuns, e
<1>8. ASSUME NEW w \in Workers, NEW r \in Runs, CreateCheckRun(w, r) PROVE HandlersKnow'
  <2> DEFINE e == <<r, "create">>
  <2>1. e \in Effects /\ RunOf(e) = r /\ KindOf(e) = "create"
    BY EffectFacts DEF Kinds
  <2> HIDE DEF e
  <2>2. checks'[r] = checks[r] + 1 /\ checks[r] \in Nat /\ Answered(w, e, Ensured(checks[r] + 1))
    BY <1>8 DEF CreateCheckRun, TypeOK, e
  <2>3. batch'[w][e] = Ensured(checks[r] + 1) => Told(w, e)'
    BY <2>1, <2>2 DEF Told, Ensured
  <2> QED BY <1>0, <2>1, <2>2, <2>3, AnsweredTold
<1>9. ASSUME NEW w \in Workers, NEW r \in Runs, DispatchWorkflow(w, r) PROVE HandlersKnow'
  <2> DEFINE e == <<r, "dispatch">>
  <2>1. e \in Effects /\ RunOf(e) = r /\ KindOf(e) = "dispatch"
    BY EffectFacts DEF Kinds
  <2> HIDE DEF e
  <2>2. /\ dispatches'[r] = dispatches[r] + 1 /\ dispatches[r] \in Nat
        /\ Goto(w, e, At("completing")) \/ \E u \in BOOLEAN : Goto(w, e, Failing(u))
    BY <1>9 DEF DispatchWorkflow, TypeOK, e
  <2>3. Told(w, e)'
    BY <2>1, <2>2 DEF Told
  <2> QED BY <1>0, <2>1, <2>2, <2>3, MovesTold
<1>10. ASSUME NEW w \in Workers, NEW r \in Runs, ConcludeCheckRun(w, r) PROVE HandlersKnow'
  <2> DEFINE e == <<r, "complete">>
  <2>1. e \in Effects /\ RunOf(e) = r /\ KindOf(e) = "complete"
    BY EffectFacts DEF Kinds
  <2> HIDE DEF e
  <2>2. concluded'[r] = TRUE /\ Answered(w, e, At("completing"))
    BY <1>10 DEF ConcludeCheckRun, TypeOK, e
  <2>3. Told(w, e)'
    BY <2>1, <2>2 DEF Told
  <2> QED BY <1>0, <2>1, <2>2, <2>3, AnsweredTold
<1>11. ASSUME NEW w \in Workers, HandlerStep(w) PROVE HandlersKnow'
  BY <1>5, <1>6, <1>7, <1>8, <1>9, <1>10, <1>11 DEF HandlerStep
<1>12. CASE UNCHANGED vars
  BY <1>1, <1>12 DEF vars
<1> QED
  BY <1>1, <1>3, <1>4, <1>11, <1>12 DEF Next, Request, Rerun, RunnerReports, TimePasses,
     ReplayEffect, Restart

(* EffectsMatchRuns for one run. *)
Matches(r) ==
  /\ outbox[<<r, "create">>].status = "completed" <=> run[r].check > 0
  /\ run[r].check <= checks[r]
  /\ outbox[<<r, "dispatch">>].status = "completed"
       => dispatches[r] > 0 /\ run[r].attempt \notin {"none", "dispatching"}
  /\ outbox[<<r, "complete">>].status = "completed" => concluded[r]
  /\ run[r].status = "dispatched" => outbox[<<r, "dispatch">>].status = "completed"

LEMMA MatchStep ==
  ASSUME TypeOK, [Next]_vars, HandlersKnow, NEW r \in Runs, NoEarlyDispatch(r), Matches(r)
  PROVE  Matches(r)'
<1> DEFINE c == <<r, "create">>
           d == <<r, "dispatch">>
           p == <<r, "complete">>
<1>0. /\ c \in Effects /\ d \in Effects /\ p \in Effects
      /\ c # d /\ c # p /\ d # p
      /\ KindOf(c) = "create" /\ KindOf(d) = "dispatch" /\ KindOf(p) = "complete"
      /\ RunOf(c) = r /\ RunOf(d) = r /\ RunOf(p) = r
      /\ \A q \in Runs, k \in Kinds : q # r => <<q, k>> \notin {c, d, p}
  BY EffectFacts DEF Kinds
<1>1. /\ GitHubGrows
      /\ DOMAIN run = Runs /\ DOMAIN outbox = Effects /\ run[r].check \in Nat
      /\ checks[r] \in Nat /\ checks'[r] \in Nat /\ dispatches'[r] \in Nat
      /\ checks[r] <= checks'[r] /\ (dispatches[r] > 0 => dispatches'[r] > 0)
      /\ (concluded[r] => concluded'[r])
  BY Grows DEF GitHubGrows, TypeOK, RunRow
<1>2. CASE outbox'[c] = outbox[c] /\ outbox'[d] = outbox[d] /\ outbox'[p] = outbox[p]
           /\ run'[r] = run[r]
  BY <1>1, <1>2 DEF Matches
<1>3. CASE run' = run /\ RestKept /\ OnlyConclusions
  <2>1. outbox'[c].status = "completed" <=> outbox[c].status = "completed"
    BY <1>0, <1>3 DEF RestKept, AtRest, OnlyConclusions
  <2>2. outbox'[d].status = "completed" <=> outbox[d].status = "completed"
    BY <1>0, <1>3 DEF RestKept, AtRest, OnlyConclusions
  <2>3. outbox'[p].status = "completed" => concluded'[r]
    <3>1. outbox[p].status = "completed" => concluded[r]
      BY DEF Matches
    <3>2. ASSUME NEW w \in Workers, batch[w][p].phase = "completing" PROVE concluded[r]
      BY <1>0, <3>2 DEF HandlersKnow, Told
    <3> QED BY <1>0, <1>1, <1>3, <3>1, <3>2 DEF OnlyConclusions
  <2> QED BY <1>1, <1>3, <2>1, <2>2, <2>3 DEF Matches
<1>4. ASSUME NEW q \in Runs, NEW skip \in BOOLEAN, EnqueueReleaseRun(q, skip)
      PROVE  Matches(r)'
  <2>1. outbox'[d] = outbox[d] /\ outbox'[p] = outbox[p]
        /\ (outbox'[c] = outbox[c] \/ (q = r /\ run[r].status = "absent"
                                       /\ outbox'[c] = Inserted(0, 0)))
    BY <1>0, <1>1, <1>4 DEF EnqueueReleaseRun, Kinds
  <2>2. CASE q = r /\ run[r].status = "absent"
    <3>1. run'[r] = NewRun(skip) /\ outbox'[c] = Inserted(0, 0)
      BY <1>0, <1>1, <1>4, <2>2 DEF EnqueueReleaseRun, SupersededBy
    <3>2. outbox[d].status = "absent"
      BY <2>2 DEF NoEarlyDispatch
    <3> QED BY <1>1, <2>1, <3>1, <3>2 DEF Matches, NewRun, Inserted
  <2>3. CASE ~(q = r /\ run[r].status = "absent")
    <3>1. run'[r] = run[r] \/ run'[r] = Superseded(run[r])
      BY <1>1, <1>4, <2>3 DEF EnqueueReleaseRun
    <3>2. /\ Superseded(run[r]).check = run[r].check /\ Superseded(run[r]).status = "superseded"
          /\ Superseded(run[r]).attempt \in {run[r].attempt, "superseded"}
      BY DEF Superseded, Advanced
    <3>3. outbox'[c] = outbox[c]
      BY <2>1, <2>3
    <3>4. CASE run'[r] = Superseded(run[r])
      BY <1>1, <2>1, <3>2, <3>3, <3>4 DEF Matches
    <3> QED BY <1>2, <2>1, <3>1, <3>3, <3>4
  <2> QED BY <2>2, <2>3
<1>5. ASSUME NEW q \in Runs, NEW id \in Nat, BindsCheckRun(q, id) PROVE Matches(r)'
  <2> DEFINE done == [outbox EXCEPT ![<<q, "create">>] = Completed(@)]
  <2>0. <<q, "create">> \in Effects /\ <<q, "dispatch">> \in Effects /\ <<q, "complete">> \in Effects
    BY EffectFacts DEF Kinds
  <2>1. outbox' = IF run[q].skip THEN [done EXCEPT ![<<q, "complete">>] = Inserted(0, 0)]
                  ELSE IF DispatchMode = "github-actions"
                  THEN [done EXCEPT ![<<q, "dispatch">>] = Inserted(run[q].version + 1, 0)]
                  ELSE done
    BY <1>5 DEF BindsCheckRun, OutboxAfterCreate
  <2>2. DOMAIN done = Effects
        /\ \A e \in Effects : done[e] = IF e = <<q, "create">> THEN Completed(outbox[e]) ELSE outbox[e]
    BY <1>1
  <2> HIDE DEF done
  <2>3. CASE q # r
    <3>1. outbox'[c] = outbox[c] /\ outbox'[d] = outbox[d] /\ outbox'[p] = outbox[p]
      BY <1>0, <2>0, <2>1, <2>2, <2>3 DEF Kinds
    <3>2. run'[r] = run[r]
      BY <1>1, <1>5, <2>3 DEF BindsCheckRun
    <3> QED BY <1>2, <3>1, <3>2
  <2>4. CASE q = r
    <3>1. id \in 1..checks[r]
      <4>1. PICK w \in Workers : batch[w][c].phase = "completing" /\ batch[w][c].check = id
        BY <1>5, <2>4 DEF BindsCheckRun
      <4> QED BY <1>0, <4>1 DEF HandlersKnow, Told
    <3>2. outbox'[c].status = "completed"
      BY <1>0, <2>1, <2>2, <2>4 DEF Completed, Unleased, Row
    <3>3. run'[r].check = id /\ run'[r].status # "dispatched"
      BY <1>1, <1>5, <2>4 DEF BindsCheckRun, AfterCreate, Bound, Advanced
    <3>4. outbox'[d].status # "completed"
      <4>1. outbox[d].status = "absent"
        BY <1>5, <2>4 DEF BindsCheckRun, NoEarlyDispatch
      <4> QED BY <1>0, <2>1, <2>2, <2>4, <4>1 DEF Inserted
    <3>5. outbox'[p].status = "completed" => outbox[p].status = "completed"
      BY <1>0, <2>1, <2>2, <2>4 DEF Inserted
    <3> QED BY <1>1, <3>1, <3>2, <3>3, <3>4, <3>5 DEF Matches
  <2> QED BY <2>3, <2>4
<1>6. ASSUME NEW q \in Runs, RecordsDispatch(q) PROVE Matches(r)'
  <2>1. CASE q # r
    BY <1>0, <1>1, <1>2, <1>6, <2>1 DEF RecordsDispatch, Kinds
  <2>2. CASE q = r
    <3>1. dispatches[r] > 0
      <4>1. PICK w \in Workers : batch[w][d].phase = "completing"
        BY <1>6, <2>2 DEF RecordsDispatch
      <4> QED BY <1>0, <4>1 DEF HandlersKnow, Told
    <3>2. outbox'[c] = outbox[c] /\ outbox'[p] = outbox[p] /\ outbox'[d].status = "completed"
      BY <1>0, <1>1, <1>6, <2>2 DEF RecordsDispatch, Completed, Unleased, Row
    <3>3. run'[r].check = run[r].check /\ run'[r].status = "dispatched" /\ run'[r].attempt = "dispatched"
      BY <1>1, <1>6, <2>2 DEF RecordsDispatch, Advanced
    <3> QED BY <1>1, <3>1, <3>2, <3>3 DEF Matches
  <2> QED BY <2>1, <2>2
<1>7. ASSUME NEW q \in Runs, NEW s \in {"running"} \cup Results, RunnerReports(q, s)
      PROVE  Matches(r)'
  <2>1. outbox' = outbox
    BY <1>7 DEF RunnerReports
  <2>2. CASE q # r
    BY <1>1, <1>2, <1>7, <2>1, <2>2 DEF RunnerReports
  <2>3. CASE q = r
    <3>1. /\ run'[r].check = run[r].check /\ run'[r].status # "dispatched"
          /\ run'[r].attempt \notin {"none", "dispatching"}
      BY <1>1, <1>7, <2>3 DEF RunnerReports, Advanced, Results
    <3> QED BY <1>1, <2>1, <3>1 DEF Matches
  <2> QED BY <2>2, <2>3
<1> QED BY <1>3, <1>4, <1>5, <1>6, <1>7, RunSteps DEF RunStep

(* A completed effect happened at GitHub and is recorded in its run, and a  *)
(* run is bound to a check run or dispatched only by a completed effect,    *)
(* whatever workers crash and whatever answers are lost.                    *)
THEOREM EffectsMatch == Spec => []EffectsMatchRuns
<1> DEFINE Early == \A r \in Runs : NoEarlyDispatch(r)
           Match == \A r \in Runs : Matches(r)
<1>1. Init => HandlersKnow /\ Match
  <2> SUFFICES ASSUME Init PROVE HandlersKnow /\ Match
    OBVIOUS
  <2>1. HandlersKnow
    BY DEF Init, HandlersKnow, Told, Idle, At
  <2>2. \A r \in Runs : /\ <<r, "create">> \in Effects /\ <<r, "dispatch">> \in Effects
                        /\ <<r, "complete">> \in Effects
    BY EffectFacts DEF Kinds
  <2> QED BY <2>1, <2>2 DEF Init, Matches, NoRun, NoEffect
<1>2. TypeOK /\ HandlersKnow /\ [Next]_vars => HandlersKnow'
  BY KnowStep
<1>3. TypeOK /\ HandlersKnow /\ Early /\ Match /\ [Next]_vars => Match'
  BY MatchStep
<1>4. Match => EffectsMatchRuns
  BY DEF Matches, EffectsMatchRuns
<1> QED BY <1>1, <1>2, <1>3, <1>4, TypeCorrect, NoEarlyDispatches, PTL DEF Spec

----------------------------------------------------------------------------
(* Runs *)

(* The status a step gives a run: only an enqueue activates one. *)
LEMMA Activation ==
  ASSUME TypeOK, [Next]_vars
  PROVE  \/ \E r \in Runs, skip \in BOOLEAN : EnqueueReleaseRun(r, skip)
         \/ \A r \in Runs : run'[r].status \in Active => run[r].status \in Active
<1>1. CASE run' = run
  BY <1>1
<1>2. ASSUME NEW q \in Runs, NEW id \in Nat, BindsCheckRun(q, id), NEW r \in Runs,
             run'[r].status \in Active
      PROVE  run[r].status \in Active
  BY <1>2 DEF BindsCheckRun, TypeOK, Active
<1>3. ASSUME NEW q \in Runs, RecordsDispatch(q), NEW r \in Runs, run'[r].status \in Active
      PROVE  run[r].status \in Active
  BY <1>3 DEF RecordsDispatch, TypeOK, Active
<1>4. ASSUME NEW q \in Runs, NEW s \in {"running"} \cup Results, RunnerReports(q, s),
             NEW r \in Runs, run'[r].status \in Active
      PROVE  run[r].status \in Active
  BY <1>4 DEF RunnerReports, TypeOK
<1> QED BY <1>1, <1>2, <1>3, <1>4, RunSteps DEF RunStep

(* The active runs of the pull request always belong to one commit, in      *)
(* whatever order jobs, re-runs, workers and runners act.                   *)
THEOREM OneCommitActive == Spec => []OneActiveCommit
<1>1. Init => OneActiveCommit
  BY DEF Init, OneActiveCommit, NoRun, Active
<1>2. TypeOK /\ OneActiveCommit /\ [Next]_vars => OneActiveCommit'
  <2> SUFFICES ASSUME TypeOK, OneActiveCommit, [Next]_vars PROVE OneActiveCommit'
    OBVIOUS
  <2>1. ASSUME NEW q \in Runs, NEW skip \in BOOLEAN, EnqueueReleaseRun(q, skip)
        PROVE  OneActiveCommit'
    <3>1. \A r \in SupersededBy(q) : run'[r].status = "superseded"
      BY <2>1 DEF EnqueueReleaseRun, SupersededBy, Superseded, Advanced
    <3>2. \A r \in Runs : run'[r].status \in Active /\ r # q => run[r].status \in Active
      BY <2>1, <3>1 DEF EnqueueReleaseRun, Active
    <3>3. \A r \in Runs : run'[r].status \in Active => CommitOf[r] = CommitOf[q]
      BY <3>1, <3>2 DEF SupersededBy, Active
    <3> QED BY <3>3 DEF OneActiveCommit
  <2>2. CASE \A r \in Runs : run'[r].status \in Active => run[r].status \in Active
    BY <2>2 DEF OneActiveCommit
  <2> QED BY <2>1, <2>2, Activation
<1> QED BY <1>1, <1>2, TypeCorrect, PTL DEF Spec

(* The condition of AttemptAgrees for one run. *)
Agrees(x) ==
  CASE x.status = "absent"     -> x.attempt = "none"
    [] x.status = "queued"     -> x.attempt \in {"none", "dispatching"}
    [] x.status = "dispatched" -> x.attempt = "dispatched"
    [] x.status = "running"    -> x.attempt = "in_progress"
    [] x.status = "superseded" -> x.attempt \in {"none", "superseded"}
    [] OTHER -> x.attempt = x.status \/ (x.skip /\ x.attempt = "none")

(* A run and its execution attempt never contradict each other, whichever   *)
(* of worker, runner and newer commit gets there first.                     *)
THEOREM AttemptsAgree == Spec => []AttemptAgrees
<1>1. AttemptAgrees <=> \A r \in Runs : Agrees(run[r])
  BY DEF AttemptAgrees, Agrees
<1>2. Init => AttemptAgrees
  BY DEF Init, AttemptAgrees, NoRun
<1>3. TypeOK /\ AttemptAgrees /\ [Next]_vars => AttemptAgrees'
  <2> SUFFICES ASSUME TypeOK, AttemptAgrees, [Next]_vars, NEW r \in Runs PROVE Agrees(run'[r])
    BY DEF AttemptAgrees, Agrees
  <2>1. Agrees(run[r]) /\ run[r] \in RunRow
    BY <1>1 DEF TypeOK
  <2>2. CASE run' = run
    BY <2>1, <2>2
  <2>3. ASSUME NEW q \in Runs, NEW skip \in BOOLEAN, EnqueueReleaseRun(q, skip)
        PROVE  Agrees(run'[r])
    <3>1. CASE r \in SupersededBy(q)
      <4>1. run'[r] = Superseded(run[r]) /\ run[r].status \in Active
        BY <2>3, <3>1 DEF EnqueueReleaseRun, SupersededBy
      <4>2. run[r].attempt \in {"none"} \cup LiveAttempt
        BY <2>1, <4>1 DEF Agrees, Active, LiveAttempt
      <4>3. run'[r].status = "superseded" /\ run'[r].attempt \in {"none", "superseded"}
        BY <4>1, <4>2 DEF Superseded, Advanced, LiveAttempt
      <4> QED BY <4>3 DEF Agrees
    <3>2. CASE r \notin SupersededBy(q)
      <4>1. run'[r] = run[r] \/ run'[r] = NewRun(skip)
        BY <2>3, <3>2 DEF EnqueueReleaseRun
      <4> QED BY <2>1, <4>1 DEF Agrees, NewRun
    <3> QED BY <3>1, <3>2
  <2>4. ASSUME NEW q \in Runs, NEW id \in Nat, BindsCheckRun(q, id) PROVE Agrees(run'[r])
    <3>1. CASE q # r
      BY <2>1, <2>4, <3>1 DEF BindsCheckRun, TypeOK
    <3>2. CASE q = r
      <4>1. run'[r] = AfterCreate(r, id) /\ run[r].status = "queued" /\ run[r].attempt = "none"
        BY <2>4, <3>2 DEF BindsCheckRun, TypeOK
      <4>2. CASE run[r].skip
        <5>1. run'[r].status = "completed" /\ run'[r].attempt = "none" /\ run'[r].skip = run[r].skip
          BY <4>1, <4>2 DEF AfterCreate, Advanced
        <5> QED BY <4>2, <5>1 DEF Agrees
      <4>3. CASE ~run[r].skip
        <5>1. run'[r].status = "queued" /\ run'[r].attempt \in {"none", "dispatching"}
          BY <4>1, <4>3 DEF AfterCreate, Bound
        <5> QED BY <5>1 DEF Agrees
      <4> QED BY <4>2, <4>3
    <3> QED BY <3>1, <3>2
  <2>5. ASSUME NEW q \in Runs, RecordsDispatch(q) PROVE Agrees(run'[r])
    <3>1. run'[r] = run[r] \/ (run'[r].status = "dispatched" /\ run'[r].attempt = "dispatched")
      BY <2>5 DEF RecordsDispatch, Advanced, TypeOK
    <3> QED BY <2>1, <3>1 DEF Agrees
  <2>6. ASSUME NEW q \in Runs, NEW s \in {"running"} \cup Results, RunnerReports(q, s)
        PROVE  Agrees(run'[r])
    <3>1. run'[r] = run[r] \/ (run'[r].status = s
                               /\ run'[r].attempt = IF s = "running" THEN "in_progress" ELSE s)
      BY <2>6 DEF RunnerReports, Advanced, TypeOK
    <3> QED BY <2>1, <3>1 DEF Agrees, Results
  <2> QED BY <2>2, <2>3, <2>4, <2>5, <2>6, RunSteps DEF RunStep
<1> QED BY <1>2, <1>3, TypeCorrect, PTL DEF Spec

----------------------------------------------------------------------------
(* Parked dispatches *)

(* Only a dispatch is ever parked. *)
OnlyDispatchesParked ==
  \A e \in Effects : outbox[e].status = "reconciliation_required" => KindOf(e) = "dispatch"

ParkedUntouched ==
  \A e \in Effects : outbox[e].status = "reconciliation_required" => outbox'[e] = outbox[e]

(* No step parks another effect or touches a parked one. *)
LEMMA ParkedStep ==
  ASSUME TypeOK, \A r \in Runs : NoEarlyDispatch(r), OnlyDispatchesParked, [Next]_vars
  PROVE  OnlyDispatchesParked' /\ ParkedUntouched
<1>1. CASE RestKept
  BY <1>1 DEF RestKept, AtRest, OnlyDispatchesParked, ParkedUntouched
<1>2. CASE outbox' = outbox
  BY <1>2 DEF OnlyDispatchesParked, ParkedUntouched
<1>3. ASSUME NEW e \in Effects, NEW f, NEW x, f \in [Effects -> EffectRow],
             outbox' = [f EXCEPT ![e] = x],
             x.status # "reconciliation_required", f[e].status # "reconciliation_required",
             \A g \in Effects : /\ f[g].status = "reconciliation_required" => KindOf(g) = "dispatch"
                                /\ outbox[g].status = "reconciliation_required" => f[g] = outbox[g]
      PROVE  OnlyDispatchesParked' /\ ParkedUntouched
  <2>1. \A g \in Effects : outbox'[g] = IF g = e THEN x ELSE f[g]
    BY <1>3
  <2> QED BY <1>3, <2>1 DEF OnlyDispatchesParked, ParkedUntouched
<1>4. \A r \in Runs : /\ <<r, "create">> \in Effects /\ KindOf(<<r, "create">>) = "create"
                      /\ <<r, "complete">> \in Effects /\ KindOf(<<r, "complete">>) = "complete"
                      /\ <<r, "dispatch">> \in Effects
  BY EffectFacts DEF Kinds
<1>5. outbox \in [Effects -> EffectRow]
  BY DEF TypeOK
<1>6. ASSUME NEW r \in Runs, NEW skip \in BOOLEAN, EnqueueReleaseRun(r, skip)
      PROVE  OnlyDispatchesParked' /\ ParkedUntouched
  <2>1. CASE run[r].status # "absent"
    BY <1>2, <1>6, <2>1 DEF EnqueueReleaseRun
  <2>2. CASE run[r].status = "absent"
    <3>1. Inserted(0, 0).status # "reconciliation_required"
      BY DEF Inserted
    <3>2. outbox[<<r, "create">>].status # "reconciliation_required"
      BY <1>4 DEF OnlyDispatchesParked
    <3>3. outbox' = [outbox EXCEPT ![<<r, "create">>] = Inserted(0, 0)]
      BY <1>6, <2>2 DEF EnqueueReleaseRun
    <3>4. \A g \in Effects : outbox[g].status = "reconciliation_required" => KindOf(g) = "dispatch"
      BY DEF OnlyDispatchesParked
    <3> QED BY <1>3, <1>4, <1>5, <3>1, <3>2, <3>3, <3>4
  <2> QED BY <2>1, <2>2
<1>7. ASSUME NEW r \in Runs, NEW id \in Nat, BindsCheckRun(r, id)
      PROVE  OnlyDispatchesParked' /\ ParkedUntouched
  <2> DEFINE done == [outbox EXCEPT ![<<r, "create">>] = Completed(@)]
  <2>1. outbox' = IF run[r].skip THEN [done EXCEPT ![<<r, "complete">>] = Inserted(0, 0)]
                  ELSE IF DispatchMode = "github-actions"
                  THEN [done EXCEPT ![<<r, "dispatch">>] = Inserted(run[r].version + 1, 0)]
                  ELSE done
    BY <1>7 DEF BindsCheckRun, OutboxAfterCreate
  <2>2. /\ outbox[<<r, "create">>].status # "reconciliation_required"
        /\ outbox[<<r, "complete">>].status # "reconciliation_required"
        /\ outbox[<<r, "dispatch">>].status # "reconciliation_required"
    BY <1>4, <1>7 DEF OnlyDispatchesParked, BindsCheckRun, NoEarlyDispatch
  <2>3. Completed(outbox[<<r, "create">>]).status = "completed"
    BY DEF Completed, Unleased, Row
  <2>4. done \in [Effects -> EffectRow]
    BY <1>4, <1>5, LeaseTypes
  <2>5. \A g \in Effects : done[g] = IF g = <<r, "create">> THEN Completed(outbox[<<r, "create">>]) ELSE outbox[g]
    BY <1>4, <1>5
  <2> HIDE DEF done
  <2>6. \A g \in Effects : /\ done[g].status = "reconciliation_required" => KindOf(g) = "dispatch"
                           /\ outbox[g].status = "reconciliation_required" => done[g] = outbox[g]
    BY <2>2, <2>3, <2>5 DEF OnlyDispatchesParked
  <2>7. /\ done[<<r, "complete">>].status # "reconciliation_required"
        /\ done[<<r, "dispatch">>].status # "reconciliation_required"
    BY <1>4, <2>2, <2>3, <2>5
  <2>8. \A v, a : Inserted(v, a).status # "reconciliation_required"
    BY DEF Inserted
  <2>9. CASE outbox' = done
    BY <2>6, <2>9 DEF OnlyDispatchesParked, ParkedUntouched
  <2>10. CASE outbox' = [done EXCEPT ![<<r, "complete">>] = Inserted(0, 0)]
    <3>1. <<r, "complete">> \in Effects /\ Inserted(0, 0).status # "reconciliation_required"
      BY <1>4, <2>8
    <3>2. \A g \in Effects : outbox'[g] = IF g = <<r, "complete">> THEN Inserted(0, 0) ELSE done[g]
      BY <2>4, <2>10, <3>1
    <3> QED BY <2>2, <2>6, <3>1, <3>2 DEF OnlyDispatchesParked, ParkedUntouched
  <2>11. CASE outbox' = [done EXCEPT ![<<r, "dispatch">>] = Inserted(run[r].version + 1, 0)]
    <3>1. <<r, "dispatch">> \in Effects /\ Inserted(run[r].version + 1, 0).status # "reconciliation_required"
      BY <1>4, <2>8
    <3>2. \A g \in Effects : outbox'[g] = IF g = <<r, "dispatch">> THEN Inserted(run[r].version + 1, 0) ELSE done[g]
      BY <2>4, <2>11, <3>1
    <3> QED BY <2>2, <2>6, <3>1, <3>2 DEF OnlyDispatchesParked, ParkedUntouched
  <2> QED BY <2>1, <2>9, <2>10, <2>11
<1> QED BY <1>1, <1>2, <1>6, <1>7, RunSteps DEF RunStep, RecordsDispatch, RunnerReports

(* No claim, late handler, retry, replay or new effect touches a dispatch   *)
(* that is parked for reconciliation.                                       *)
THEOREM ParkedStays == Spec => ParkedForGood
<1> DEFINE Early == \A r \in Runs : NoEarlyDispatch(r)
<1>1. Init => OnlyDispatchesParked
  BY DEF Init, OnlyDispatchesParked, NoEffect
<1>2. TypeOK /\ Early /\ OnlyDispatchesParked /\ [Next]_vars => OnlyDispatchesParked' /\ ParkedUntouched
  BY ParkedStep
<1>3. ParkedUntouched => [ParkedUntouched]_vars
  OBVIOUS
<1> QED BY <1>1, <1>2, TypeCorrect, NoEarlyDispatches, PTL DEF Spec, ParkedForGood, ParkedUntouched

----------------------------------------------------------------------------
(* Refinement *)

(* A run that was never enqueued has no version yet. *)
AbsentFresh == \A r \in Runs : run[r].status = "absent" => run[r].version = 0

(* No step makes a run absent. *)
LEMMA AbsentStep ==
  ASSUME TypeOK, AbsentFresh, [Next]_vars
  PROVE  AbsentFresh'
<1>1. CASE run' = run
  BY <1>1 DEF AbsentFresh
<1>2. ASSUME NEW r \in Runs, NEW skip \in BOOLEAN, EnqueueReleaseRun(r, skip) PROVE AbsentFresh'
  <2>1. ASSUME NEW s \in Runs, run'[s].status = "absent" PROVE run'[s].version = 0
    BY <1>2, <2>1 DEF EnqueueReleaseRun, AbsentFresh, Superseded, Advanced, NewRun
  <2> QED BY <2>1 DEF AbsentFresh
<1>3. ASSUME NEW r \in Runs, NEW x, run' = [run EXCEPT ![r] = x], x.status # "absent"
      PROVE  AbsentFresh'
  BY <1>3 DEF AbsentFresh, TypeOK
<1>4. ASSUME NEW r \in Runs, NEW id \in Nat, BindsCheckRun(r, id) PROVE AbsentFresh'
  <2>1. AfterCreate(r, id).status # "absent"
    BY <1>4 DEF BindsCheckRun, AfterCreate, Advanced, Bound
  <2> QED BY <1>3, <1>4, <2>1 DEF BindsCheckRun
<1>5. ASSUME NEW r \in Runs, RecordsDispatch(r) PROVE AbsentFresh'
  <2>1. Advanced(run[r], "dispatched", "dispatched").status # "absent"
    BY DEF Advanced
  <2> QED BY <1>3, <1>5, <2>1 DEF RecordsDispatch
<1>6. ASSUME NEW r \in Runs, NEW s \in {"running"} \cup Results, RunnerReports(r, s) PROVE AbsentFresh'
  <2>1. \A a : Advanced(run[r], s, a).status # "absent"
    BY DEF Advanced, Results
  <2> QED BY <1>3, <1>6, <2>1 DEF RunnerReports
<1> QED BY <1>1, <1>2, <1>4, <1>5, <1>6, RunSteps DEF RunStep

(* A change of one run's status by an edge of the state graph, and of its   *)
(* version by one, is an abstract step.                                     *)
LEMMA AdvanceMaps ==
  ASSUME TypeOK, NEW r \in Runs, NEW x, run' = [run EXCEPT ![r] = x],
         x.status \in Lifecycle!Successors(run[r].status), x.version = run[r].version + 1
  PROVE  Lifecycle!LifecycleNext
<1> DEFINE status == [s \in Runs |-> run[s].status]
           version == [s \in Runs |-> run[s].version]
<1>1. \A s \in Runs : /\ run'[s].status = IF s = r THEN x.status ELSE run[s].status
                      /\ run'[s].version = IF s = r THEN run[r].version + 1 ELSE run[s].version
  BY DEF TypeOK
<1>2. [s \in Runs |-> run'[s].status] = [status EXCEPT ![r] = x.status]
  BY <1>1
<1>3. [s \in Runs |-> run'[s].version] = [version EXCEPT ![r] = version[r] + 1]
  BY <1>1
<1>4. status[r] = run[r].status
  OBVIOUS
<1>5. Lifecycle!Advance(r)
  BY <1>2, <1>3, <1>4 DEF Lifecycle!Advance
<1> QED BY <1>5 DEF Lifecycle!LifecycleNext

(* A step that writes one run without changing either is a stutter. *)
LEMMA StutterMaps ==
  ASSUME TypeOK, NEW r \in Runs, NEW x, run' = [run EXCEPT ![r] = x],
         x.status = run[r].status, x.version = run[r].version
  PROVE  UNCHANGED Lifecycle!lifecycleVars
<1>1. \A s \in Runs : run'[s].status = run[s].status /\ run'[s].version = run[s].version
  BY DEF TypeOK
<1> QED BY <1>1 DEF Lifecycle!lifecycleVars

(* An enqueue is the abstract request. *)
LEMMA EnqueueMaps ==
  ASSUME TypeOK, AbsentFresh, NEW r \in Runs, NEW skip \in BOOLEAN, EnqueueReleaseRun(r, skip)
  PROVE  Lifecycle!LifecycleNext
<1>1. Lifecycle!Superseding(r) = SupersededBy(r)
  BY DEF Lifecycle!Superseding, Lifecycle!Nonterminal, SupersededBy, Active
<1>2. \A s \in Runs : /\ run[s] \in RunRow
                      /\ run'[s] = IF s \in SupersededBy(r) THEN Superseded(run[s])
                                   ELSE IF s = r /\ run[r].status = "absent" THEN NewRun(skip)
                                   ELSE run[s]
  BY DEF EnqueueReleaseRun, TypeOK
<1>3. \A s \in SupersededBy(r) : /\ Superseded(run[s]).status = "superseded"
                                 /\ Superseded(run[s]).version = run[s].version + 1
  BY DEF SupersededBy, Superseded, Advanced, Bumped, Active
<1>4. \A s \in Runs : run'[s].status = IF s \in SupersededBy(r) THEN "superseded"
                                       ELSE IF s = r /\ run[r].status = "absent" THEN "queued"
                                       ELSE run[s].status
  BY <1>2, <1>3 DEF NewRun
<1>5. \A s \in Runs : run'[s].version = IF s \in SupersededBy(r) THEN run[s].version + 1 ELSE run[s].version
  BY <1>2, <1>3 DEF NewRun, AbsentFresh
<1>6. Lifecycle!Request(r)
  BY <1>1, <1>4, <1>5 DEF Lifecycle!Request
<1> QED BY <1>6 DEF Lifecycle!LifecycleNext

(* The outbox protocol implements the run state graph: terminal states are  *)
(* final, every applied change is one version, and starting one commit      *)
(* retires the others in the same step.                                     *)
THEOREM OutboxImplementsLifecycle == Spec => ImplementsLifecycle
<1>1. Init => AbsentFresh
  BY DEF Init, AbsentFresh, NoRun
<1>2. TypeOK /\ AbsentFresh /\ [Next]_vars => AbsentFresh'
  BY AbsentStep
<1>3. Init => Lifecycle!LifecycleInit
  BY DEF Init, NoRun, Lifecycle!LifecycleInit
<1>4. TypeOK /\ AbsentFresh /\ [Next]_vars => [Lifecycle!LifecycleNext]_(Lifecycle!lifecycleVars)
  <2> SUFFICES ASSUME TypeOK, AbsentFresh, [Next]_vars
               PROVE  Lifecycle!LifecycleNext \/ UNCHANGED Lifecycle!lifecycleVars
    OBVIOUS
  <2>1. CASE run' = run
    BY <2>1 DEF Lifecycle!lifecycleVars
  <2>2. ASSUME NEW r \in Runs, NEW skip \in BOOLEAN, EnqueueReleaseRun(r, skip)
        PROVE  Lifecycle!LifecycleNext
    BY <2>2, EnqueueMaps
  <2>3. ASSUME NEW r \in Runs, NEW id \in Nat, BindsCheckRun(r, id)
        PROVE  Lifecycle!LifecycleNext \/ UNCHANGED Lifecycle!lifecycleVars
    <3>1. run[r].status = "queued" /\ run' = [run EXCEPT ![r] = AfterCreate(r, id)]
      BY <2>3 DEF BindsCheckRun
    <3>2. CASE run[r].skip
      <4>1. AfterCreate(r, id).status = "completed" /\ AfterCreate(r, id).version = run[r].version + 1
        BY <3>1, <3>2 DEF AfterCreate, Advanced, Bumped
      <4>2. "completed" \in Lifecycle!Successors("queued")
        BY DEF Lifecycle!Successors, Lifecycle!Terminal
      <4> QED BY <3>1, <4>1, <4>2, AdvanceMaps
    <3>3. CASE ~run[r].skip /\ DispatchMode = "github-actions"
      <4>1. AfterCreate(r, id).status = "queued" /\ AfterCreate(r, id).version = run[r].version + 1
        BY <3>1, <3>3 DEF AfterCreate, Bound
      <4>2. \A s \in Runs : /\ run'[s].status = run[s].status
                            /\ run'[s].version = IF s = r THEN run[r].version + 1 ELSE run[s].version
        BY <3>1, <4>1 DEF TypeOK
      <4>3. Lifecycle!BindAttempt(r)
        BY <3>1, <4>2 DEF Lifecycle!BindAttempt
      <4> QED BY <4>3 DEF Lifecycle!LifecycleNext
    <3>4. CASE ~run[r].skip /\ DispatchMode # "github-actions"
      <4>1. AfterCreate(r, id).status = "queued" /\ AfterCreate(r, id).version = run[r].version
        BY <3>1, <3>4 DEF AfterCreate, Bound
      <4> QED BY <3>1, <4>1, StutterMaps
    <3> QED BY <3>2, <3>3, <3>4
  <2>4. ASSUME NEW r \in Runs, RecordsDispatch(r) PROVE Lifecycle!LifecycleNext
    <3> DEFINE x == Advanced(run[r], "dispatched", "dispatched")
    <3>1. run[r].status = "queued" /\ run' = [run EXCEPT ![r] = x]
      BY <2>4 DEF RecordsDispatch
    <3>2. x.status = "dispatched" /\ x.version = run[r].version + 1
      BY <3>1 DEF Advanced, Bumped
    <3>3. "dispatched" \in Lifecycle!Successors("queued")
      BY DEF Lifecycle!Successors
    <3> QED BY <3>1, <3>2, <3>3, AdvanceMaps
  <2>5. ASSUME NEW r \in Runs, NEW s \in {"running"} \cup Results, RunnerReports(r, s)
        PROVE  Lifecycle!LifecycleNext \/ UNCHANGED Lifecycle!lifecycleVars
    <3> DEFINE x == Advanced(run[r], s, IF s = "running" THEN "in_progress" ELSE s)
    <3>1. run[r].status \in Active /\ run' = [run EXCEPT ![r] = x]
      BY <2>5 DEF RunnerReports
    <3>2. x.status = s /\ x.version = IF s # run[r].status THEN run[r].version + 1 ELSE run[r].version
      BY DEF Advanced, Bumped
    <3>3. CASE s = run[r].status
      BY <3>1, <3>2, <3>3, StutterMaps
    <3>4. CASE s # run[r].status
      <4>1. s \in Lifecycle!Successors(run[r].status)
        BY <3>1, <3>4 DEF Lifecycle!Successors, Lifecycle!Terminal, Active, Results
      <4> QED BY <3>1, <3>2, <3>4, <4>1, AdvanceMaps
    <3> QED BY <3>3, <3>4
  <2> QED BY <2>1, <2>2, <2>3, <2>4, <2>5, RunSteps DEF RunStep, RecordsDispatch
<1> QED BY <1>1, <1>2, <1>3, <1>4, TypeCorrect, PTL
    DEF Spec, ImplementsLifecycle, Lifecycle!LifecycleSpec
=============================================================================
