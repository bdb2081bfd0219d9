----------------------------- MODULE RunVerdict -----------------------------
(***************************************************************************)
(* How a dispatched release run gets its verdict and how the pull request  *)
(* gets to see it.  Three parties write: the runner's signed results       *)
(* (requests that arrive late, twice and out of order), the workflow       *)
(* reconciliation that infers a verdict when the result stays away, and    *)
(* the check-run reconciliation that repairs what GitHub shows.            *)
(*                                                                         *)
(* One run with one execution attempt, from the moment its workflow has    *)
(* been dispatched.  A database statement is one step, a call of GitHub is *)
(* another.  A workflow can be re-run in GitHub under the same attempt, so *)
(* any signed result may arrive, and any state of the workflow may be      *)
(* observed, at any moment.  An observation window, a retry delay or a     *)
(* lease may end at any moment too.                                        *)
(***************************************************************************)
EXTENDS RunnerResults

CONSTANTS Results,     \* the results the runner can sign
          Handlers,    \* concurrent requests of the result route
          WorkflowLoops, CheckLoops,  \* the reconciliation loops of the worker replicas
          MaxChecks,   \* max_attempts of an item, 12 in the code
          MaxSubmits   \* bound: requests the runner sends

Conclusions == {"success", "failure", "neutral", "timed_out"}
Kinds == {"workflow", "check"}
Loops == WorkflowLoops \cup CheckLoops
KindOf(w) == IF w \in WorkflowLoops THEN "workflow" ELSE "check"

ASSUME ConstantsAssumption ==
  /\ Results \subseteq [status : {"running"} \cup Decided, conclusion : Conclusions]
  /\ \A r \in Results : r.conclusion = "success" => r.status = "completed"
  /\ None \notin Results \cup [value : Results, published : BOOLEAN]
  /\ None \notin WorkflowLoops \cup CheckLoops
  /\ WorkflowLoops \cap CheckLoops = {}
  /\ MaxChecks \in Nat \ {0} /\ MaxSubmits \in Nat

VARIABLES run,       \* release_runs: status, version, terminal_result_digest
          attempt,   \* release_run_attempts
          row,       \* release_run_results: None or value and published
          check,     \* GitHub: the conclusion of the check run, or "open"
          handler,   \* [Handlers -> a request between persisting and publishing]
          item,      \* control_plane_reconciliation_items: [Kinds -> item]
          late,      \* the kinds whose deadline has passed
          loop,      \* [Loops -> the item in process]
          submits

vars == <<run, attempt, row, check, handler, item, late, loop, submits>>
rows == <<run, attempt, row>>

-----------------------------------------------------------------------------

Snapshot == [run : LiveRun \X Nat, attempt : LiveAttempt \X Nat]

Item == [status : {"absent", "available", "leased", "completed", "dead_letter"},
         owner : Loops \cup {None}, count : 0..MaxChecks,
         expected : Snapshot \cup {None}, outcome : {"none", "context_stale", "done", "failed"}]

(* write: the statement the loop will send; expected: the conclusion it read from its context. *)
Writes == {"none", "again", "apply", "failed", "timed_out", "finalize"}
Loop == [step : {"idle", "context", "write"}, write : Writes, expected : {"none"}]
          \cup [step : {"read", "repair"}, write : {"none"}, expected : Conclusions]

NoItem == [status |-> "absent", owner |-> None, count |-> 0, expected |-> None,
           outcome |-> "none"]
IdleLoop == [step |-> "idle", write |-> "none", expected |-> "none"]
IdleHandler == [step |-> "idle", value |-> None]

Init ==
  /\ run = [status |-> "dispatched", version |-> 0, digest |-> None]
  /\ attempt = [status |-> "dispatched", version |-> 0]
  /\ row = None /\ check = "open"
  /\ handler = [h \in Handlers |-> IdleHandler]
  /\ item = [k \in Kinds |-> NoItem] /\ late = {}
  /\ loop = [w \in Loops |-> IdleLoop]
  /\ submits = 0

-----------------------------------------------------------------------------
(* A newer commit retires the run; no effect concludes its check run. *)
Supersede ==
  /\ run.status \in LiveRun
  /\ run' = [status |-> "superseded", version |-> run.version + 1, digest |-> run.digest]
  /\ attempt' = [status |-> "superseded", version |-> attempt.version + 1]
  /\ UNCHANGED <<row, check, submits, handler, item, late, loop>>

-----------------------------------------------------------------------------
(* The result route. *)

Published_AnyOutcome(r) == Final(r)

(* A final result is published whether it was accepted or is a replay. *)
Published(r) ==
  /\ Final(r)
  /\ \/ Outcome(run, attempt, row, TRUE, r) = "replayed"
     \/ Accepted(run, attempt, row, TRUE, r)

(* persistRunnerResult, one statement. *)
Persist(h, r) ==
  /\ handler[h].step = "idle"
  /\ submits < MaxSubmits /\ submits' = submits + 1
  /\ IF Accepted(run, attempt, row, TRUE, r)
     THEN /\ run' = RunAfter(run, r)
          /\ attempt' = AttemptAfter(attempt, r)
          /\ row' = [value |-> r, published |-> FALSE]
     ELSE UNCHANGED rows
  /\ handler' = IF Published(r) THEN [handler EXCEPT ![h] = [step |-> "publish", value |-> r]] ELSE handler
  /\ UNCHANGED <<check, item, late, loop>>

(* completeCheckRun; an error may hide a call that took effect. *)
Publish(h, ok, applied) ==
  /\ handler[h].step = "publish"
  /\ ok => applied
  /\ check' = IF applied THEN handler[h].value.conclusion ELSE check
  /\ handler' = [handler EXCEPT ![h] = [step |-> IF ok THEN "record" ELSE "record_error", value |-> @.value]]
  /\ UNCHANGED <<rows, submits, item, late, loop>>

(* recordPublicationState, and the answer: the runner sends the result again after an error. *)
RecordPublication(h) ==
  /\ handler[h].step \in {"record", "record_error"}
  /\ row' = IF handler[h].step = "record" /\ row # None THEN [value |-> row.value, published |-> TRUE] ELSE row
  /\ handler' = [handler EXCEPT ![h] = IdleHandler]
  /\ UNCHANGED <<run, attempt, check, submits, item, late, loop>>

-----------------------------------------------------------------------------
(* Detection and the queue of items, shared by the two kinds. *)

Candidate_Reported(k) ==
  IF k = "workflow" THEN run.status \in LiveRun /\ attempt.status \in LiveAttempt
  ELSE run.status \in Decided /\ row # None /\ (row # None => ~row.published)

(* Whatever became of an item, its subject is not detected again (retention removes it much later). *)
Candidate(k) ==
  IF k = "workflow" THEN run.status \in LiveRun /\ attempt.status \in LiveAttempt
  ELSE run.status \in Decided /\ (row # None => ~row.published)

CurrentSnapshot == [run |-> <<run.status, run.version>>, attempt |-> <<attempt.status, attempt.version>>]

Detect(k) ==
  /\ item[k].status = "absent" /\ Candidate(k)
  /\ item' = [item EXCEPT ![k] = [status |-> "available", owner |-> None, count |-> 0,
                                  expected |-> IF k = "workflow" THEN CurrentSnapshot ELSE None,
                                  outcome |-> "none"]]
  /\ UNCHANGED <<rows, check, submits, handler, late, loop>>

PassDeadline(k) ==
  /\ item[k].status \in {"available", "leased"} /\ k \notin late
  /\ late' = late \cup {k}
  /\ UNCHANGED <<rows, check, submits, handler, item, loop>>

(* The item is free, or out of budget. *)
Returned(i) ==
  [status |-> IF i.count >= MaxChecks THEN "dead_letter" ELSE "available", owner |-> None,
   count |-> i.count, expected |-> i.expected, outcome |-> i.outcome]

Recovered_Never(i) == i

(* The claim first returns a lease that has run out, which a lease may at any moment. *)
Recovered(i) == IF i.status = "leased" THEN Returned(i) ELSE i

Claim(w) ==
  LET k == KindOf(w)
      i == Recovered(item[k]) IN
  /\ loop[w].step = "idle"
  /\ IF i.status = "available" /\ i.count < MaxChecks
     THEN /\ item' = [item EXCEPT ![k] = [status |-> "leased", owner |-> w,
                                          count |-> i.count + 1, expected |-> i.expected,
                                          outcome |-> "none"]]
          /\ loop' = [loop EXCEPT ![w] = [step |-> "context", write |-> "none", expected |-> "none"]]
     ELSE i # item[k] /\ item' = [item EXCEPT ![k] = i] /\ UNCHANGED loop
  /\ UNCHANGED <<rows, check, submits, handler, late>>

(* The guard of every statement about a claimed item; a lease that has run out still counts. *)
Holds(w) == item[KindOf(w)].status = "leased" /\ item[KindOf(w)].owner = w

Completed(k, outcome) ==
  [item EXCEPT ![k] = [status |-> "completed", owner |-> None, count |-> item[k].count,
                       expected |-> item[k].expected, outcome |-> outcome]]

GoTo(w, step, write, expected) ==
  loop' = [loop EXCEPT ![w] = [step |-> step, write |-> write, expected |-> expected]]

Stop(w) == loop' = [loop EXCEPT ![w] = IdleLoop]

-----------------------------------------------------------------------------
(* The loops. *)

ExpectedConclusion ==
  IF row # None THEN row.value.conclusion
  ELSE IF run.status = "timed_out" THEN "timed_out" ELSE "failure"

(* The item is completed when its context is gone, and not detected again. *)
ContextGone(w) ==
  /\ Stop(w)
  /\ item' = IF Holds(w) THEN Completed(KindOf(w), "context_stale") ELSE item

Observations == {"success", "failure", "timed_out", "pending", "missing", "error"}

(* What an observation of the workflow asks for; "missing" and "error" are the answers 404 and none. *)
WorkflowWrite(seen, passed) ==
  IF seen = "failure" THEN "failed"
  ELSE IF seen = "timed_out" THEN "timed_out"
  ELSE IF ~passed THEN "again"
  ELSE IF seen = "pending" THEN "timed_out" ELSE "failed"

(* The context, and the read of the workflow it allows: GitHub may answer anything. *)
ObserveWorkflow(w, seen) ==
  /\ loop[w].step = "context"
  /\ IF Holds(w) /\ item["workflow"].expected = CurrentSnapshot
     THEN GoTo(w, "write", WorkflowWrite(seen, "workflow" \in late), "none") /\ UNCHANGED item
     ELSE ContextGone(w)
  /\ UNCHANGED <<rows, check, submits, handler, late>>

LoadCheckContext(w) ==
  /\ loop[w].step = "context"
  /\ IF Holds(w) /\ run.status \in Decided /\ (row # None => ~row.published)
     THEN GoTo(w, "read", "none", ExpectedConclusion) /\ UNCHANGED item
     ELSE ContextGone(w)
  /\ UNCHANGED <<rows, check, submits, handler, late>>

(* A failed call, or a 404, is tried again until the deadline. *)
CheckFailure == IF "check" \in late THEN "finalize" ELSE "again"

ReadCheck(w, ok) ==
  LET l == loop[w] IN
  /\ l.step = "read"
  /\ IF ~ok THEN GoTo(w, "write", CheckFailure, "none")
     ELSE IF check = l.expected THEN GoTo(w, "write", "apply", "none")
     ELSE GoTo(w, "repair", "none", l.expected)
  /\ UNCHANGED <<rows, check, submits, handler, item, late>>

RepairCheck(w, ok, applied) ==
  LET l == loop[w] IN
  /\ l.step = "repair"
  /\ ok => applied
  /\ check' = IF applied THEN l.expected ELSE check
  /\ GoTo(w, "write", IF ok THEN "apply" ELSE CheckFailure, "none")
  /\ UNCHANGED <<rows, submits, handler, item, late>>

(* rescheduleReconciliationItem and failReconciliationItem. *)
TryAgain(w) ==
  LET k == KindOf(w) IN
  /\ loop[w].step = "write" /\ loop[w].write = "again"
  /\ item' = IF Holds(w) THEN [item EXCEPT ![k] = Returned(item[k])] ELSE item
  /\ Stop(w)
  /\ UNCHANGED <<rows, check, submits, handler, late>>

InferenceStands_AnyVersion(k) == run.status \in LiveRun \cup Decided

(* The guarded transition finds run and attempt as they were when the item was detected. *)
InferenceStands(k) == item[k].expected = CurrentSnapshot

(* applyWorkflowReconciliation; a stale transition leaves the item to its lease. *)
ApplyWorkflow(w) ==
  LET v == loop[w].write IN
  /\ loop[w].step = "write" /\ v \in {"failed", "timed_out"}
  /\ IF ~Holds(w) THEN UNCHANGED <<run, attempt, item>>
     ELSE IF InferenceStands("workflow")
     THEN /\ run' = [status |-> v, version |-> run.version + 1, digest |-> run.digest]
          /\ attempt' = [status |-> v, version |-> attempt.version + 1]
          /\ item' = Completed("workflow", "done")
     ELSE /\ item' = IF run.status \notin LiveRun THEN Completed("workflow", "done") ELSE item
          /\ UNCHANGED <<run, attempt>>
  /\ Stop(w)
  /\ UNCHANGED <<row, check, submits, handler, late>>

(* applyCheckRunReconciliation: the result that is there now is marked published. *)
ApplyCheck(w) ==
  /\ loop[w].step = "write" /\ loop[w].write = "apply"
  /\ IF Holds(w)
     THEN /\ row' = IF row # None THEN [value |-> row.value, published |-> TRUE] ELSE row
          /\ item' = Completed("check", "done")
     ELSE UNCHANGED <<row, item>>
  /\ Stop(w)
  /\ UNCHANGED <<run, attempt, check, submits, handler, late>>

(* finalizeCheckRunReconciliationFailure finds nothing to finalize when there is no result. *)
FinalizeCheck(w) ==
  /\ loop[w].step = "write" /\ loop[w].write = "finalize"
  /\ item' = IF Holds(w) /\ row # None
             THEN Completed("check", IF row.published THEN "done" ELSE "failed") ELSE item
  /\ Stop(w)
  /\ UNCHANGED <<rows, check, submits, handler, late>>

(* A process dies: its request or its item is lost. *)
CrashHandler(h) ==
  /\ handler[h].step # "idle"
  /\ handler' = [handler EXCEPT ![h] = IdleHandler]
  /\ UNCHANGED <<rows, check, submits, item, late, loop>>

CrashLoop(w) ==
  /\ loop[w].step # "idle"
  /\ Stop(w)
  /\ UNCHANGED <<rows, check, submits, handler, item, late>>

-----------------------------------------------------------------------------

Answer(h) == \/ \E ok \in BOOLEAN, applied \in BOOLEAN : Publish(h, ok, applied)
             \/ RecordPublication(h)

Work(w) ==
  \/ TryAgain(w)
  \/ /\ w \in WorkflowLoops
     /\ ApplyWorkflow(w) \/ \E seen \in Observations : ObserveWorkflow(w, seen)
  \/ /\ w \in CheckLoops
     /\ \/ LoadCheckContext(w) \/ ApplyCheck(w) \/ FinalizeCheck(w)
        \/ \E ok \in BOOLEAN : ReadCheck(w, ok)
        \/ \E ok \in BOOLEAN, applied \in BOOLEAN : RepairCheck(w, ok, applied)

Next ==
  \/ \E h \in Handlers, r \in Results : Persist(h, r)
  \/ Supersede
  \/ \E h \in Handlers : Answer(h) \/ CrashHandler(h)
  \/ \E k \in Kinds : Detect(k) \/ PassDeadline(k)
  \/ \E w \in Loops : Claim(w) \/ Work(w) \/ CrashLoop(w)

Spec == Init /\ [][Next]_vars

(* The loops poll, calls time out, leases end; nobody promises that a result is ever sent. *)
FairSpec ==
  /\ Spec
  /\ \A w \in Loops : WF_vars(Work(w))
  /\ \A k \in Kinds : WF_vars(Detect(k)) /\ WF_vars(\E w \in Loops : KindOf(w) = k /\ Claim(w))

-----------------------------------------------------------------------------

(* Types; a lease has an owner and nothing else does, and a request in process has a result. *)
TypeOK ==
  /\ run \in [status : LiveRun \cup Decided \cup {"superseded"}, version : Nat, digest : Results \cup {None}]
  /\ attempt \in [status : LiveAttempt \cup Decided \cup {"superseded"}, version : Nat]
  /\ row \in [value : Results, published : BOOLEAN] \cup {None}
  /\ check \in Conclusions \cup {"open"}
  /\ late \subseteq Kinds
  /\ handler \in [Handlers -> [step : {"idle", "publish", "record", "record_error"}, value : Results \cup {None}]]
  /\ item \in [Kinds -> Item]
  /\ loop \in [Loops -> Loop]
  /\ \A k \in Kinds : item[k].status = "leased" <=> item[k].owner # None
  /\ \A h \in Handlers : handler[h].step = "idle" <=> handler[h].value = None
  /\ submits \in 0..MaxSubmits

(* The verdict of a run that reported is the verdict it reported: run, attempt and result row tell
   the same story, whatever progress reports and replays arrive late. *)
VerdictIsTheReported ==
  /\ run.digest # None => /\ run.status = run.digest.status /\ attempt.status = run.digest.status
                          /\ row # None /\ row.value = run.digest
  /\ row # None /\ Final(row.value) => run.digest = row.value
  /\ run.status \in LiveRun <=> attempt.status \in LiveAttempt

(* A reported verdict is immutable: a second result, a late observation of the workflow and a
   newer commit leave it alone; only an inferred verdict is ever corrected. *)
ReportedVerdictIsFinal ==
  [][/\ run.digest # None => run' = run
     /\ run.status \in Decided /\ run' # run => run.digest = None /\ run'.digest # None]_vars

(* docs/operations/control-plane-reconciliation.md:137: the workflow's own success never makes the
   release successful; the check run is green only by the accepted signed result. *)
GreenIsSigned == check = "success" => run.digest # None /\ run.digest.conclusion = "success"

GivenUp(k, outcome) == item[k].status = "dead_letter" \/ item[k].outcome = outcome

(* No run waits for ever without a verdict unless its item says that reconciliation gave up, be
   it for its budget of re-checks or because run and attempt changed after the detection. *)
EveryRunDecided == <>(run.status \notin LiveRun \/ GivenUp("workflow", "context_stale"))

(* The pull request does not wait for ever on a decided run: the check run is concluded, also when
   the run never reported, unless the item says that publication failed. *)
CheckConcluded == run.status \in Decided ~> check # "open" \/ GivenUp("check", "failed")

Quiet == /\ \A h \in Handlers : handler[h] = IdleHandler
         /\ \A w \in Loops : loop[w] = IdleLoop

(* docs/operations/control-plane-reconciliation.md:153: "The persisted signed result remains
   authoritative": once everything is settled and marked published, the check run shows it. *)
PublishedIsShown == Quiet /\ row # None => (row.published => check = row.value.conclusion)
=============================================================================
