-------------------------- MODULE RunVerdictProofs --------------------------
(***************************************************************************)
(* Proofs for RunVerdict: for any results, any number of requests and of   *)
(* reconciliation loops, run, attempt and result row tell one story, a     *)
(* reported verdict is final, and the check run is green only by it.       *)
(*                                                                         *)
(* The inductive invariant adds what the writers carry between two         *)
(* statements: a request on its way to GitHub holds the very result that   *)
(* is the digest of the run, a loop that is going to paint the check run   *)
(* green read a signed success, and a detected item remembers a live run.  *)
(***************************************************************************)
EXTENDS RunVerdict, TLAPS

DigestIsFinal == run.digest # None => Final(run.digest)

RequestsTell ==
  \A h \in Handlers : handler[h].step # "idle" => handler[h].value = run.digest

LoopsTell ==
  \A w \in Loops : loop[w].expected = "success"
                     => run.digest # None /\ run.digest.conclusion = "success"

DetectedLive == item["workflow"].status # "absent" => item["workflow"].expected \in Snapshot

IInv == /\ TypeOK
        /\ VerdictIsTheReported
        /\ DigestIsFinal
        /\ GreenIsSigned
        /\ RequestsTell
        /\ LoopsTell
        /\ DetectedLive

RunRow == [status : LiveRun \cup Decided \cup {"superseded"}, version : Nat, digest : Results \cup {None}]
AttemptRow == [status : LiveAttempt \cup Decided \cup {"superseded"}, version : Nat]
ResultRow == [value : Results, published : BOOLEAN]
Request == [step : {"idle", "publish", "record", "record_error"}, value : Results \cup {None}]

-----------------------------------------------------------------------------
(* What the type invariant says, in parts. *)

LEMMA TypeParts ==
  ASSUME TypeOK
  PROVE  /\ run \in RunRow /\ attempt \in AttemptRow /\ row \in ResultRow \cup {None}
         /\ check \in Conclusions \cup {"open"} /\ late \subseteq Kinds /\ submits \in 0..MaxSubmits
         /\ handler \in [Handlers -> Request] /\ item \in [Kinds -> Item] /\ loop \in [Loops -> Loop]
         /\ \A k \in Kinds : item[k].status = "leased" <=> item[k].owner # None
         /\ \A h \in Handlers : handler[h].step = "idle" <=> handler[h].value = None
BY DEF TypeOK, RunRow, AttemptRow, ResultRow, Request

LEMMA ResultFacts ==
  ASSUME NEW r \in Results
  PROVE  /\ r \in [status : {"running"} \cup Decided, conclusion : Conclusions]
         /\ r # None
         /\ ~Final(r) => r.status = "running"
         /\ r.conclusion = "success" => Final(r)
BY ConstantsAssumption DEF Final, Decided

LEMMA KindFacts ==
  ASSUME NEW w \in Loops
  PROVE  KindOf(w) \in Kinds /\ w # None
BY ConstantsAssumption DEF KindOf, Kinds, Loops

LEMMA ItemRow ==
  ASSUME NEW s \in {"absent", "available", "leased", "completed", "dead_letter"},
         NEW o \in Loops \cup {None}, NEW c \in 0..MaxChecks,
         NEW e \in Snapshot \cup {None}, NEW u \in {"none", "context_stale", "done", "failed"}
  PROVE  [status |-> s, owner |-> o, count |-> c, expected |-> e, outcome |-> u] \in Item
BY DEF Item

(* One item changes, to a row of its type that has an owner exactly when it is leased. *)
LEMMA ItemChanges ==
  ASSUME TypeOK, NEW k \in Kinds, NEW i \in Item, i.status = "leased" <=> i.owner # None,
         item' = [item EXCEPT ![k] = i]
  PROVE  /\ item' \in [Kinds -> Item]
         /\ \A j \in Kinds : item'[j].status = "leased" <=> item'[j].owner # None
         /\ item'[k] = i /\ \A j \in Kinds : j # k => item'[j] = item[j]
<1>1. item \in [Kinds -> Item] /\ \A j \in Kinds : item[j].status = "leased" <=> item[j].owner # None
  BY TypeParts
<1> QED BY <1>1

(* A row of release_runs whose digest is set is decided, and its result row is the digest. *)
LEMMA DigestFacts ==
  ASSUME IInv
  PROVE  /\ run.digest # None => run.digest \in Results /\ run.status \in Decided
         /\ run.status \in LiveRun => run.digest = None
         /\ run.digest = None => row = None \/ ~Final(row.value)
<1>1. run \in RunRow /\ row \in ResultRow \cup {None} BY TypeParts DEF IInv
<1>2. run.digest # None => run.digest \in Results /\ run.status \in Decided
  BY <1>1 DEF IInv, VerdictIsTheReported, DigestIsFinal, Final, RunRow
<1>3. run.status \in LiveRun => run.digest = None
  BY <1>2 DEF LiveRun, Decided
<1>4. run.digest = None => row = None \/ ~Final(row.value)
  <2>1. ASSUME row # None, Final(row.value) PROVE run.digest # None
    BY <1>1, <2>1, ResultFacts DEF IInv, VerdictIsTheReported, ResultRow
  <2> QED BY <2>1
<1> QED BY <1>2, <1>3, <1>4
-----------------------------------------------------------------------------
(* Steps that leave the three rows alone. *)

LEMMA RowsKept ==
  ASSUME IInv, UNCHANGED rows
  PROVE  VerdictIsTheReported' /\ DigestIsFinal'
BY DEF IInv, rows, VerdictIsTheReported, DigestIsFinal

(* Detection, deadlines, claims and rescheduling touch items and loops only, and no loop gets
   an expectation. *)
LEMMA QueueStep ==
  ASSUME IInv, UNCHANGED <<run, attempt, row, check, submits, handler>>, TypeOK', DetectedLive',
         \A w \in Loops : loop'[w].expected = "none" \/ loop'[w] = loop[w]
  PROVE  IInv'
<1>1. VerdictIsTheReported' /\ DigestIsFinal'
  BY RowsKept DEF rows
<1>2. GreenIsSigned' /\ RequestsTell'
  BY DEF IInv, GreenIsSigned, RequestsTell
<1>3. LoopsTell'
  BY DEF IInv, LoopsTell
<1> QED BY <1>1, <1>2, <1>3 DEF IInv

(* A loop that moves stays of its type. *)
LEMMA LoopMoves ==
  ASSUME TypeOK, NEW w \in Loops, NEW l \in Loop, loop' = [loop EXCEPT ![w] = l]
  PROVE  /\ loop' \in [Loops -> Loop] /\ loop'[w] = l
         /\ \A x \in Loops : x # w => loop'[x] = loop[x]
<1>1. loop \in [Loops -> Loop] BY TypeParts
<1> QED BY <1>1

LEMMA LoopRow ==
  ASSUME NEW s \in {"idle", "context", "write"}, NEW v \in Writes
  PROVE  [step |-> s, write |-> v, expected |-> "none"] \in Loop
BY DEF Loop

LEMMA ExpectingRow ==
  ASSUME NEW s \in {"read", "repair"}, NEW e \in Conclusions
  PROVE  [step |-> s, write |-> "none", expected |-> e] \in Loop
BY DEF Loop

LEMMA SnapshotOfLive ==
  ASSUME TypeOK, run.status \in LiveRun, attempt.status \in LiveAttempt
  PROVE  CurrentSnapshot \in Snapshot
<1>1. run.version \in Nat /\ attempt.version \in Nat
  BY TypeParts DEF RunRow, AttemptRow
<1> QED BY <1>1 DEF CurrentSnapshot, Snapshot

LEMMA DetectInv ==
  ASSUME IInv, NEW k \in Kinds, Detect(k) PROVE IInv'
<1> DEFINE e == IF k = "workflow" THEN CurrentSnapshot ELSE None
           i == [status |-> "available", owner |-> None, count |-> 0, expected |-> e, outcome |-> "none"]
<1>1. e \in Snapshot \cup {None} /\ (k = "workflow" => e \in Snapshot)
  BY SnapshotOfLive DEF Detect, Candidate, IInv
<1>2. item' = [item EXCEPT ![k] = i] /\ UNCHANGED <<run, attempt, row, check, submits, handler, late, loop>>
  BY DEF Detect, rows
<1> HIDE DEF e
<1>3. i \in Item
  <2>1. 0 \in 0..MaxChecks BY ConstantsAssumption
  <2> QED BY <1>1, <2>1, ItemRow
<1>4. i.status # "leased" /\ i.owner = None /\ i.expected = e
  OBVIOUS
<1> HIDE DEF i, e
<1>5. /\ item' \in [Kinds -> Item] /\ item'[k] = i /\ \A j \in Kinds : j # k => item'[j] = item[j]
      /\ \A j \in Kinds : item'[j].status = "leased" <=> item'[j].owner # None
  BY <1>2, <1>3, <1>4, ItemChanges DEF IInv
<1>6. TypeOK'
  BY <1>2, <1>5 DEF IInv, TypeOK
<1>7. DetectedLive'
  BY <1>1, <1>4, <1>5 DEF IInv, DetectedLive, Kinds
<1> QED BY <1>2, <1>6, <1>7, QueueStep

LEMMA PassDeadlineInv ==
  ASSUME IInv, NEW k \in Kinds, PassDeadline(k) PROVE IInv'
<1>1. UNCHANGED <<run, attempt, row, check, submits, handler, item, loop>> /\ late' \subseteq Kinds
  BY TypeParts DEF PassDeadline, rows, IInv
<1>2. TypeOK' /\ DetectedLive'
  BY <1>1 DEF IInv, TypeOK, DetectedLive
<1> QED BY <1>1, <1>2, QueueStep

(* A returned or recovered item keeps its type and what it remembers. *)
LEMMA ReturnedRow ==
  ASSUME NEW i \in Item
  PROVE  /\ Returned(i) \in Item /\ Returned(i).owner = None
         /\ Returned(i).status \in {"available", "dead_letter"} /\ Returned(i).expected = i.expected
<1>1. i.count \in 0..MaxChecks /\ i.expected \in Snapshot \cup {None}
      /\ i.outcome \in {"none", "context_stale", "done", "failed"}
  BY DEF Item
<1> QED BY <1>1, ItemRow DEF Returned

LEMMA ClaimInv ==
  ASSUME IInv, NEW w \in Loops, Claim(w) PROVE IInv'
<1> DEFINE k == KindOf(w)
           i == Recovered(item[k])
           g == [status |-> "leased", owner |-> w, count |-> i.count + 1, expected |-> i.expected,
                 outcome |-> "none"]
           l == [step |-> "context", write |-> "none", expected |-> "none"]
<1>1. k \in Kinds /\ w # None
  BY KindFacts
<1>2. item[k] \in Item /\ (item[k].status = "leased" <=> item[k].owner # None)
  BY <1>1, TypeParts DEF IInv
<1>3. /\ i \in Item /\ i.expected = item[k].expected /\ (i.status = "leased" <=> i.owner # None)
      /\ (i.status = "absent" <=> item[k].status = "absent")
  BY <1>2, ReturnedRow DEF Recovered
<1>4. UNCHANGED <<run, attempt, row, check, submits, handler, late>>
  BY DEF Claim, rows
<1>5. \/ /\ i.status = "available" /\ i.count < MaxChecks
         /\ item' = [item EXCEPT ![k] = g] /\ loop' = [loop EXCEPT ![w] = l]
      \/ item' = [item EXCEPT ![k] = i] /\ UNCHANGED loop
  BY DEF Claim
<1>6. i.status = "available" /\ i.count < MaxChecks => g \in Item
  <2>1. i.count \in 0..MaxChecks /\ i.expected \in Snapshot \cup {None}
    BY <1>3 DEF Item
  <2>2. i.count < MaxChecks => i.count + 1 \in 0..MaxChecks
    BY <2>1, ConstantsAssumption
  <2> QED BY <2>1, <2>2, ItemRow
<1>7. l \in Loop /\ l.expected = "none"
  BY LoopRow DEF Writes
<1>8. g.status = "leased" /\ g.owner = w /\ g.expected = i.expected
  OBVIOUS
<1> HIDE DEF i, g, l, k
<1>9. CASE i.status = "available" /\ i.count < MaxChecks
           /\ item' = [item EXCEPT ![k] = g] /\ loop' = [loop EXCEPT ![w] = l]
  <2>1. /\ item' \in [Kinds -> Item] /\ item'[k] = g /\ \A j \in Kinds : j # k => item'[j] = item[j]
        /\ \A j \in Kinds : item'[j].status = "leased" <=> item'[j].owner # None
    BY <1>1, <1>6, <1>8, <1>9, ItemChanges DEF IInv
  <2>2. /\ loop' \in [Loops -> Loop] /\ loop'[w] = l /\ \A x \in Loops : x # w => loop'[x] = loop[x]
    BY <1>7, <1>9, LoopMoves DEF IInv
  <2>3. TypeOK'
    BY <1>4, <2>1, <2>2 DEF IInv, TypeOK
  <2>4. DetectedLive'
    <3>1. CASE k = "workflow"
      BY <1>3, <1>8, <1>9, <2>1, <3>1 DEF IInv, DetectedLive
    <3>2. CASE k # "workflow"
      BY <2>1, <3>2 DEF IInv, DetectedLive, Kinds
    <3> QED BY <3>1, <3>2
  <2> QED BY <1>4, <1>7, <2>2, <2>3, <2>4, QueueStep
<1>10. CASE item' = [item EXCEPT ![k] = i] /\ UNCHANGED loop
  <2>1. /\ item' \in [Kinds -> Item] /\ item'[k] = i /\ \A j \in Kinds : j # k => item'[j] = item[j]
        /\ \A j \in Kinds : item'[j].status = "leased" <=> item'[j].owner # None
    BY <1>1, <1>3, <1>10, ItemChanges DEF IInv
  <2>2. TypeOK'
    BY <1>4, <1>10, <2>1 DEF IInv, TypeOK
  <2>3. DetectedLive'
    <3>1. CASE k = "workflow"
      BY <1>3, <2>1, <3>1 DEF IInv, DetectedLive
    <3>2. CASE k # "workflow"
      BY <2>1, <3>2 DEF IInv, DetectedLive, Kinds
    <3> QED BY <3>1, <3>2
  <2> QED BY <1>4, <1>10, <2>2, <2>3, QueueStep
<1> QED BY <1>5, <1>9, <1>10

(* A settling statement or a lost context ends the loop's pass and completes the item, if at all,
   with what it remembered. *)
LEMMA CompletedRow ==
  ASSUME IInv, NEW k \in Kinds, NEW u \in {"none", "context_stale", "done", "failed"}
  PROVE  \E i \in Item : /\ i.status = "completed" /\ i.owner = None /\ i.expected = item[k].expected
                         /\ Completed(k, u) = [item EXCEPT ![k] = i]
<1>1. item[k] \in Item
  BY TypeParts DEF IInv
<1>2. item[k].count \in 0..MaxChecks /\ item[k].expected \in Snapshot \cup {None}
  BY <1>1 DEF Item
<1> DEFINE i == [status |-> "completed", owner |-> None, count |-> item[k].count,
                 expected |-> item[k].expected, outcome |-> u]
<1>3. i \in Item
  BY <1>2, ItemRow
<1> QED BY <1>3 DEF Completed

(* The items after one of them was returned, completed or left alone. *)
LEMMA SettledItem ==
  ASSUME IInv, NEW w \in Loops,
         \/ UNCHANGED item
         \/ Holds(w) /\ item' = [item EXCEPT ![KindOf(w)] = Returned(item[KindOf(w)])]
         \/ Holds(w) /\ \E u \in {"none", "context_stale", "done", "failed"} :
                          item' = Completed(KindOf(w), u)
  PROVE  /\ item' \in [Kinds -> Item]
         /\ \A j \in Kinds : item'[j].status = "leased" <=> item'[j].owner # None
         /\ DetectedLive'
<1> DEFINE k == KindOf(w)
<1>1. k \in Kinds BY KindFacts
<1>2. item \in [Kinds -> Item] /\ \A j \in Kinds : item[j].status = "leased" <=> item[j].owner # None
  BY TypeParts DEF IInv
<1>3. CASE UNCHANGED item
  BY <1>2, <1>3 DEF IInv, DetectedLive
<1>4. ASSUME Holds(w), NEW i \in Item, i.status # "leased", i.owner = None,
             i.expected = item[k].expected, item' = [item EXCEPT ![k] = i]
      PROVE  /\ item' \in [Kinds -> Item]
             /\ \A j \in Kinds : item'[j].status = "leased" <=> item'[j].owner # None
             /\ DetectedLive'
  <2>1. /\ item' \in [Kinds -> Item] /\ item'[k] = i /\ \A j \in Kinds : j # k => item'[j] = item[j]
        /\ \A j \in Kinds : item'[j].status = "leased" <=> item'[j].owner # None
    BY <1>1, <1>4, ItemChanges DEF IInv
  <2>2. item[k].status = "leased"
    BY <1>4 DEF Holds
  <2>3. DetectedLive'
    BY <1>1, <1>4, <2>1, <2>2 DEF IInv, DetectedLive, Kinds
  <2> QED BY <2>1, <2>3
<1>5. CASE Holds(w) /\ item' = [item EXCEPT ![k] = Returned(item[k])]
  <2>1. item[k] \in Item BY <1>1, <1>2
  <2> HIDE DEF k
  <2> QED BY <1>4, <1>5, <2>1, ReturnedRow
<1>6. CASE Holds(w) /\ \E u \in {"none", "context_stale", "done", "failed"} : item' = Completed(k, u)
  <2>1. PICK u \in {"none", "context_stale", "done", "failed"} : item' = Completed(k, u)
    BY <1>6
  <2>2. PICK i \in Item : /\ i.status = "completed" /\ i.owner = None /\ i.expected = item[k].expected
                          /\ Completed(k, u) = [item EXCEPT ![k] = i]
    BY <1>1, CompletedRow
  <2> HIDE DEF k
  <2> QED BY <1>4, <1>6, <2>1, <2>2
<1> QED BY <1>3, <1>5, <1>6

LEMMA StopFacts ==
  ASSUME TypeOK, NEW w \in Loops, Stop(w)
  PROVE  /\ loop' \in [Loops -> Loop]
         /\ \A x \in Loops : loop'[x].expected = "none" \/ loop'[x] = loop[x]
<1>1. IdleLoop \in Loop /\ IdleLoop.expected = "none"
  BY LoopRow DEF IdleLoop, Writes
<1> QED BY <1>1, LoopMoves DEF Stop

(* Steps of a loop that end its pass and leave the rows and the check run alone. *)
LEMMA SettleStep ==
  ASSUME IInv, NEW w \in Loops, Stop(w), UNCHANGED <<run, attempt, row, check, submits, handler, late>>,
         \/ UNCHANGED item
         \/ Holds(w) /\ item' = [item EXCEPT ![KindOf(w)] = Returned(item[KindOf(w)])]
         \/ Holds(w) /\ \E u \in {"none", "context_stale", "done", "failed"} :
                          item' = Completed(KindOf(w), u)
  PROVE  IInv'
<1>1. /\ item' \in [Kinds -> Item] /\ DetectedLive'
      /\ \A j \in Kinds : item'[j].status = "leased" <=> item'[j].owner # None
  BY SettledItem
<1>2. /\ loop' \in [Loops -> Loop]
      /\ \A x \in Loops : loop'[x].expected = "none" \/ loop'[x] = loop[x]
  BY StopFacts DEF IInv
<1>3. TypeOK'
  BY <1>1, <1>2 DEF IInv, TypeOK
<1> QED BY <1>1, <1>2, <1>3, QueueStep

LEMMA TryAgainInv ==
  ASSUME IInv, NEW w \in Loops, TryAgain(w) PROVE IInv'
BY SettleStep DEF TryAgain, rows

LEMMA FinalizeCheckInv ==
  ASSUME IInv, NEW w \in CheckLoops, FinalizeCheck(w) PROVE IInv'
<1>1. w \in Loops /\ KindOf(w) = "check"
  BY ConstantsAssumption DEF Loops, KindOf
<1>2. \/ UNCHANGED item
      \/ Holds(w) /\ \E u \in {"none", "context_stale", "done", "failed"} : item' = Completed(KindOf(w), u)
  BY <1>1 DEF FinalizeCheck
<1> QED BY <1>1, <1>2, SettleStep DEF FinalizeCheck, rows

LEMMA CrashLoopInv ==
  ASSUME IInv, NEW w \in Loops, CrashLoop(w) PROVE IInv'
BY SettleStep DEF CrashLoop, rows

LEMMA ContextGoneInv ==
  ASSUME IInv, NEW w \in Loops, ContextGone(w), UNCHANGED <<run, attempt, row, check, submits, handler, late>>
  PROVE  IInv'
BY SettleStep DEF ContextGone

(* A loop goes on without an expectation, and nothing else changes. *)
LEMMA GoToStep ==
  ASSUME IInv, NEW w \in Loops, UNCHANGED <<run, attempt, row, check, submits, handler, item, late>>,
         NEW s \in {"idle", "context", "write"}, NEW v \in Writes,
         GoTo(w, s, v, "none")
  PROVE  IInv'
<1> DEFINE l == [step |-> s, write |-> v, expected |-> "none"]
<1>1. l \in Loop /\ l.expected = "none"
  BY LoopRow
<1>2. loop' = [loop EXCEPT ![w] = l]
  BY DEF GoTo
<1> HIDE DEF l
<1>3. loop' \in [Loops -> Loop] /\ \A x \in Loops : loop'[x].expected = "none" \/ loop'[x] = loop[x]
  BY <1>1, <1>2, LoopMoves DEF IInv
<1>4. TypeOK' /\ DetectedLive'
  BY <1>3 DEF IInv, TypeOK, DetectedLive
<1> QED BY <1>3, <1>4, QueueStep

LEMMA ObserveWorkflowInv ==
  ASSUME IInv, NEW w \in Loops, NEW seen \in Observations, ObserveWorkflow(w, seen) PROVE IInv'
<1>1. UNCHANGED <<run, attempt, row, check, submits, handler, late>>
  BY DEF ObserveWorkflow, rows
<1> DEFINE v == WorkflowWrite(seen, "workflow" \in late)
<1>2. v \in Writes
  BY DEF WorkflowWrite, Writes
<1>3. \/ GoTo(w, "write", v, "none") /\ UNCHANGED item
      \/ ContextGone(w)
  BY DEF ObserveWorkflow
<1> HIDE DEF v
<1> QED BY <1>1, <1>2, <1>3, GoToStep, ContextGoneInv

-----------------------------------------------------------------------------
(* The loop of the check run. *)

(* What a loop expects of the check run is success only for an accepted signed success. *)
LEMMA ExpectedSigned ==
  ASSUME IInv, run.status \in Decided
  PROVE  /\ ExpectedConclusion \in Conclusions
         /\ ExpectedConclusion = "success" => run.digest # None /\ run.digest.conclusion = "success"
<1>1. row \in ResultRow \cup {None}
  BY TypeParts DEF IInv
<1>2. CASE row = None
  BY <1>2 DEF ExpectedConclusion, Conclusions
<1>3. CASE row # None
  <2>1. row.value \in Results /\ ExpectedConclusion = row.value.conclusion
    BY <1>1, <1>3 DEF ResultRow, ExpectedConclusion
  <2>2. ExpectedConclusion \in Conclusions
    BY <2>1, ResultFacts
  <2>3. ASSUME ExpectedConclusion = "success" PROVE run.digest = row.value /\ run.digest # None
    BY <1>3, <2>1, <2>3, ResultFacts DEF IInv, VerdictIsTheReported
  <2> QED BY <2>1, <2>2, <2>3
<1> QED BY <1>2, <1>3

LEMMA LoadCheckContextInv ==
  ASSUME IInv, NEW w \in Loops, LoadCheckContext(w) PROVE IInv'
<1>1. UNCHANGED <<run, attempt, row, check, submits, handler, late>>
  BY DEF LoadCheckContext, rows
<1>2. CASE ContextGone(w)
  BY <1>1, <1>2, ContextGoneInv
<1>3. CASE run.status \in Decided /\ GoTo(w, "read", "none", ExpectedConclusion) /\ UNCHANGED item
  <2> DEFINE l == [step |-> "read", write |-> "none", expected |-> ExpectedConclusion]
  <2>1. /\ ExpectedConclusion \in Conclusions
        /\ ExpectedConclusion = "success" => run.digest # None /\ run.digest.conclusion = "success"
    BY <1>3, ExpectedSigned
  <2>2. l \in Loop /\ l.expected = ExpectedConclusion
    BY <2>1, ExpectingRow
  <2>3. loop' = [loop EXCEPT ![w] = l]
    BY <1>3 DEF GoTo
  <2> HIDE DEF l
  <2>4. loop' \in [Loops -> Loop] /\ loop'[w] = l /\ \A x \in Loops : x # w => loop'[x] = loop[x]
    BY <2>2, <2>3, LoopMoves DEF IInv
  <2>5. TypeOK' /\ DetectedLive'
    BY <1>1, <1>3, <2>4 DEF IInv, TypeOK, DetectedLive
  <2>6. LoopsTell'
    BY <1>1, <2>1, <2>2, <2>4 DEF IInv, LoopsTell
  <2>7. GreenIsSigned' /\ RequestsTell'
    BY <1>1 DEF IInv, GreenIsSigned, RequestsTell
  <2>8. VerdictIsTheReported' /\ DigestIsFinal'
    BY <1>1, RowsKept DEF rows
  <2> QED BY <2>5, <2>6, <2>7, <2>8 DEF IInv
<1> QED BY <1>2, <1>3 DEF LoadCheckContext

LEMMA ReadCheckInv ==
  ASSUME IInv, NEW w \in Loops, NEW ok \in BOOLEAN, ReadCheck(w, ok) PROVE IInv'
<1>1. UNCHANGED <<run, attempt, row, check, submits, handler, item, late>>
  BY DEF ReadCheck, rows
<1>2. CheckFailure \in Writes /\ "apply" \in Writes
  BY DEF CheckFailure, Writes
<1>3. \/ GoTo(w, "write", CheckFailure, "none")
      \/ GoTo(w, "write", "apply", "none")
      \/ GoTo(w, "repair", "none", loop[w].expected)
  BY DEF ReadCheck
<1>4. CASE GoTo(w, "write", CheckFailure, "none") \/ GoTo(w, "write", "apply", "none")
  BY <1>1, <1>2, <1>4, GoToStep
<1>5. CASE GoTo(w, "repair", "none", loop[w].expected)
  <2> DEFINE l == [step |-> "repair", write |-> "none", expected |-> loop[w].expected]
  <2>1. l \in Loop /\ l.expected = loop[w].expected
    <3>1. loop[w].expected \in Conclusions
      BY TypeParts DEF IInv, Loop, ReadCheck
    <3> QED BY <3>1, ExpectingRow
  <2>2. loop' = [loop EXCEPT ![w] = l]
    BY <1>5 DEF GoTo
  <2> HIDE DEF l
  <2>3. loop' \in [Loops -> Loop] /\ loop'[w] = l /\ \A x \in Loops : x # w => loop'[x] = loop[x]
    BY <2>1, <2>2, LoopMoves DEF IInv
  <2>4. TypeOK' /\ DetectedLive'
    BY <1>1, <2>3 DEF IInv, TypeOK, DetectedLive
  <2>5. LoopsTell'
    BY <1>1, <2>1, <2>3 DEF IInv, LoopsTell
  <2>6. GreenIsSigned' /\ RequestsTell'
    BY <1>1 DEF IInv, GreenIsSigned, RequestsTell
  <2>7. VerdictIsTheReported' /\ DigestIsFinal'
    BY <1>1, RowsKept DEF rows
  <2> QED BY <2>4, <2>5, <2>6, <2>7 DEF IInv
<1> QED BY <1>3, <1>4, <1>5

LEMMA RepairCheckInv ==
  ASSUME IInv, NEW w \in Loops, NEW ok \in BOOLEAN, NEW applied \in BOOLEAN, RepairCheck(w, ok, applied)
  PROVE  IInv'
<1>1. UNCHANGED <<run, attempt, row, submits, handler, item, late>>
  BY DEF RepairCheck, rows
<1>2. check' = loop[w].expected \/ check' = check
  BY DEF RepairCheck
<1>3. loop[w] \in Loop /\ check \in Conclusions \cup {"open"}
  BY TypeParts DEF IInv
<1>4. check' \in Conclusions \cup {"open"}
  BY <1>2, <1>3 DEF Loop, RepairCheck
<1> DEFINE v == IF ok THEN "apply" ELSE CheckFailure
           l == [step |-> "write", write |-> v, expected |-> "none"]
<1>5. l \in Loop /\ l.expected = "none"
  <2>1. v \in Writes BY DEF CheckFailure, Writes
  <2> QED BY <2>1, LoopRow
<1>6. loop' = [loop EXCEPT ![w] = l]
  BY DEF RepairCheck, GoTo
<1> HIDE DEF l
<1>7. loop' \in [Loops -> Loop] /\ loop'[w] = l /\ \A x \in Loops : x # w => loop'[x] = loop[x]
  BY <1>5, <1>6, LoopMoves DEF IInv
<1>8. TypeOK' /\ DetectedLive'
  BY <1>1, <1>4, <1>7 DEF IInv, TypeOK, DetectedLive
<1>9. GreenIsSigned'
  BY <1>1, <1>2 DEF IInv, GreenIsSigned, LoopsTell
<1>10. LoopsTell' /\ RequestsTell'
  BY <1>1, <1>5, <1>7 DEF IInv, LoopsTell, RequestsTell
<1>11. VerdictIsTheReported' /\ DigestIsFinal'
  BY <1>1, RowsKept DEF rows
<1> QED BY <1>8, <1>9, <1>10, <1>11 DEF IInv

-----------------------------------------------------------------------------
(* Steps that write the rows. *)

(* The result row changes its flag only. *)
LEMMA FlagKept ==
  ASSUME IInv, UNCHANGED <<run, attempt>>,
         \/ UNCHANGED row
         \/ row # None /\ row' = [value |-> row.value, published |-> TRUE]
  PROVE  row' \in ResultRow \cup {None} /\ VerdictIsTheReported' /\ DigestIsFinal'
<1>1. row \in ResultRow \cup {None}
  BY TypeParts DEF IInv
<1>2. CASE UNCHANGED row
  BY <1>1, <1>2 DEF IInv, VerdictIsTheReported, DigestIsFinal
<1>3. CASE row # None /\ row' = [value |-> row.value, published |-> TRUE]
  <2>1. row' \in ResultRow /\ row' # None /\ row'.value = row.value
    <3>1. row.value \in Results BY <1>1, <1>3 DEF ResultRow
    <3>2. row' \in ResultRow /\ row'.value = row.value BY <1>3, <3>1 DEF ResultRow
    <3> QED BY <3>2, ConstantsAssumption DEF ResultRow
  <2> QED BY <1>3, <2>1 DEF IInv, VerdictIsTheReported, DigestIsFinal
<1> QED BY <1>2, <1>3

(* A decided row without a digest, or a live one, may change; what was told about a digest that
   stays is still true, and when there was no digest nothing had been told. *)
LEMMA TellingKept ==
  ASSUME IInv, run.digest # None => run'.digest = run.digest
  PROVE  /\ UNCHANGED check => GreenIsSigned'
         /\ (\A w \in Loops : loop'[w].expected = "none" \/ loop'[w] = loop[w]) => LoopsTell'
         /\ UNCHANGED handler => RequestsTell'
<1>1. UNCHANGED check => GreenIsSigned'
  BY DEF IInv, GreenIsSigned
<1>2. (\A w \in Loops : loop'[w].expected = "none" \/ loop'[w] = loop[w]) => LoopsTell'
  BY DEF IInv, LoopsTell
<1>3. ASSUME UNCHANGED handler, NEW h \in Handlers, handler[h].step # "idle"
      PROVE  handler[h].value = run'.digest
  <2>1. handler[h].value # None BY <1>3, TypeParts DEF IInv
  <2>2. handler[h].value = run.digest BY <1>3 DEF IInv, RequestsTell
  <2> QED BY <2>1, <2>2
<1>4. UNCHANGED handler => RequestsTell'
  BY <1>3 DEF RequestsTell
<1> QED BY <1>1, <1>2, <1>4

LEMMA ApplyCheckInv ==
  ASSUME IInv, NEW w \in CheckLoops, ApplyCheck(w) PROVE IInv'
<1>1. w \in Loops /\ KindOf(w) = "check"
  BY ConstantsAssumption DEF Loops, KindOf
<1>2. UNCHANGED <<run, attempt, check, submits, handler, late>> /\ Stop(w)
  BY DEF ApplyCheck
<1>3. /\ \/ UNCHANGED row
         \/ row # None /\ row' = [value |-> row.value, published |-> TRUE]
      /\ \/ UNCHANGED item
         \/ Holds(w) /\ \E u \in {"none", "context_stale", "done", "failed"} : item' = Completed(KindOf(w), u)
  BY <1>1 DEF ApplyCheck
<1>4. row' \in ResultRow \cup {None} /\ VerdictIsTheReported' /\ DigestIsFinal'
  BY <1>2, <1>3, FlagKept
<1>5. /\ item' \in [Kinds -> Item] /\ DetectedLive'
      /\ \A j \in Kinds : item'[j].status = "leased" <=> item'[j].owner # None
  BY <1>1, <1>3, SettledItem
<1>6. /\ loop' \in [Loops -> Loop]
      /\ \A x \in Loops : loop'[x].expected = "none" \/ loop'[x] = loop[x]
  BY <1>1, <1>2, StopFacts DEF IInv
<1>7. TypeOK'
  BY <1>2, <1>4, <1>5, <1>6 DEF IInv, TypeOK, ResultRow
<1>8. GreenIsSigned' /\ LoopsTell' /\ RequestsTell'
  BY <1>2, <1>6, TellingKept
<1> QED BY <1>4, <1>5, <1>7, <1>8 DEF IInv

(* A request moves or ends. *)
LEMMA RequestChanges ==
  ASSUME TypeOK, NEW h \in Handlers, NEW x \in Request, x.step = "idle" <=> x.value = None,
         handler' = [handler EXCEPT ![h] = x]
  PROVE  /\ handler' \in [Handlers -> Request] /\ handler'[h] = x
         /\ \A g \in Handlers : handler'[g].step = "idle" <=> handler'[g].value = None
         /\ \A g \in Handlers : g # h => handler'[g] = handler[g]
<1>1. handler \in [Handlers -> Request] /\ \A g \in Handlers : handler[g].step = "idle" <=> handler[g].value = None
  BY TypeParts
<1> QED BY <1>1

(* A request ends; only the flag of the result row may have changed. *)
LEMMA RequestEnds ==
  ASSUME IInv, NEW h \in Handlers, handler' = [handler EXCEPT ![h] = IdleHandler],
         UNCHANGED <<run, attempt, check, submits, item, late, loop>>,
         \/ UNCHANGED row
         \/ row # None /\ row' = [value |-> row.value, published |-> TRUE]
  PROVE  IInv'
<1>1. IdleHandler \in Request /\ IdleHandler.step = "idle" /\ IdleHandler.value = None
  BY DEF IdleHandler, Request
<1>2. /\ handler' \in [Handlers -> Request] /\ handler'[h] = IdleHandler
      /\ \A g \in Handlers : handler'[g].step = "idle" <=> handler'[g].value = None
      /\ \A g \in Handlers : g # h => handler'[g] = handler[g]
  BY <1>1, RequestChanges DEF IInv
<1>3. row' \in ResultRow \cup {None} /\ VerdictIsTheReported' /\ DigestIsFinal'
  BY FlagKept
<1>4. TypeOK'
  BY <1>2, <1>3 DEF IInv, TypeOK, ResultRow, Request
<1>5. RequestsTell'
  BY <1>1, <1>2 DEF IInv, RequestsTell
<1>6. GreenIsSigned' /\ LoopsTell' /\ DetectedLive'
  BY TellingKept DEF IInv, DetectedLive
<1> QED BY <1>3, <1>4, <1>5, <1>6 DEF IInv

LEMMA RecordPublicationInv ==
  ASSUME IInv, NEW h \in Handlers, RecordPublication(h) PROVE IInv'
BY RequestEnds DEF RecordPublication

LEMMA CrashHandlerInv ==
  ASSUME IInv, NEW h \in Handlers, CrashHandler(h) PROVE IInv'
BY RequestEnds DEF CrashHandler, rows

LEMMA PublishInv ==
  ASSUME IInv, NEW h \in Handlers, NEW ok \in BOOLEAN, NEW applied \in BOOLEAN, Publish(h, ok, applied)
  PROVE  IInv'
<1> DEFINE x == [step |-> IF ok THEN "record" ELSE "record_error", value |-> handler[h].value]
<1>1. UNCHANGED <<run, attempt, row, submits, item, late, loop>>
  BY DEF Publish, rows
<1>2. handler \in [Handlers -> Request] /\ handler[h].step = "publish" /\ handler[h].value # None
  BY TypeParts DEF IInv, Publish
<1>3. handler[h].value \in Results /\ handler[h].value = run.digest
  BY <1>2 DEF IInv, RequestsTell, Request
<1>4. x \in Request /\ x.step # "idle" /\ x.value = run.digest /\ x.value # None
  BY <1>2, <1>3 DEF Request
<1>5. handler' = [handler EXCEPT ![h] = x]
  BY DEF Publish
<1>6. check' = handler[h].value.conclusion \/ check' = check
  BY DEF Publish
<1> HIDE DEF x
<1>7. /\ handler' \in [Handlers -> Request] /\ handler'[h] = x
      /\ \A g \in Handlers : handler'[g].step = "idle" <=> handler'[g].value = None
      /\ \A g \in Handlers : g # h => handler'[g] = handler[g]
  BY <1>4, <1>5, RequestChanges DEF IInv
<1>8. check' \in Conclusions \cup {"open"}
  BY <1>3, <1>6, ResultFacts, TypeParts DEF IInv
<1>9. TypeOK'
  BY <1>1, <1>7, <1>8 DEF IInv, TypeOK, Request
<1>10. GreenIsSigned'
  BY <1>1, <1>2, <1>3, <1>6 DEF IInv, GreenIsSigned
<1>11. RequestsTell'
  BY <1>1, <1>4, <1>7 DEF IInv, RequestsTell
<1>12. LoopsTell' /\ DetectedLive'
  BY <1>1 DEF IInv, LoopsTell, DetectedLive
<1>13. VerdictIsTheReported' /\ DigestIsFinal'
  BY <1>1, RowsKept DEF rows
<1> QED BY <1>9, <1>10, <1>11, <1>12, <1>13 DEF IInv

(* A live run and its attempt end without a report: the run keeps having no digest. *)
LEMMA EndsUnreported ==
  ASSUME IInv, run.status \in LiveRun, attempt.status \in LiveAttempt,
         NEW s \in {"failed", "timed_out", "superseded"},
         run' = [status |-> s, version |-> run.version + 1, digest |-> run.digest],
         attempt' = [status |-> s, version |-> attempt.version + 1], UNCHANGED row
  PROVE  /\ run' \in RunRow /\ attempt' \in AttemptRow
         /\ VerdictIsTheReported' /\ DigestIsFinal' /\ run'.digest = run.digest
<1>1. run \in RunRow /\ attempt \in AttemptRow
  BY TypeParts DEF IInv
<1>2. run.digest = None /\ (row = None \/ ~Final(row.value))
  BY DigestFacts
<1>3. run' \in RunRow
  BY <1>1 DEF RunRow, Decided
<1>4. attempt' \in AttemptRow
  BY <1>1 DEF AttemptRow, Decided
<1>5. run'.digest = None /\ run'.status \notin LiveRun /\ attempt'.status \notin LiveAttempt
  BY <1>2 DEF LiveRun, LiveAttempt
<1> QED BY <1>2, <1>3, <1>4, <1>5 DEF VerdictIsTheReported, DigestIsFinal

LEMMA SupersedeInv ==
  ASSUME IInv, Supersede PROVE IInv'
<1>1. run.status \in LiveRun /\ attempt.status \in LiveAttempt
  BY DEF Supersede, IInv, VerdictIsTheReported
<1>2. UNCHANGED <<row, check, submits, handler, item, late, loop>>
  BY DEF Supersede
<1>3. /\ run' \in RunRow /\ attempt' \in AttemptRow
      /\ VerdictIsTheReported' /\ DigestIsFinal' /\ run'.digest = run.digest
  BY <1>1, <1>2, EndsUnreported DEF Supersede
<1>4. TypeOK'
  BY <1>2, <1>3 DEF IInv, TypeOK, RunRow, AttemptRow
<1>5. GreenIsSigned' /\ LoopsTell' /\ RequestsTell' /\ DetectedLive'
  BY <1>2, <1>3, TellingKept DEF IInv, DetectedLive
<1> QED BY <1>3, <1>4, <1>5 DEF IInv

LEMMA ApplyWorkflowInv ==
  ASSUME IInv, NEW w \in WorkflowLoops, ApplyWorkflow(w) PROVE IInv'
<1> DEFINE v == loop[w].write
<1>1. w \in Loops /\ KindOf(w) = "workflow"
  BY DEF Loops, KindOf
<1>2. UNCHANGED <<row, check, submits, handler, late>> /\ Stop(w) /\ v \in {"failed", "timed_out"}
  BY DEF ApplyWorkflow
<1>3. \/ UNCHANGED item
      \/ Holds(w) /\ \E u \in {"none", "context_stale", "done", "failed"} : item' = Completed(KindOf(w), u)
  BY <1>1 DEF ApplyWorkflow
<1>4. /\ item' \in [Kinds -> Item] /\ DetectedLive'
      /\ \A j \in Kinds : item'[j].status = "leased" <=> item'[j].owner # None
  BY <1>1, <1>3, SettledItem
<1>5. /\ loop' \in [Loops -> Loop]
      /\ \A x \in Loops : loop'[x].expected = "none" \/ loop'[x] = loop[x]
  BY <1>1, <1>2, StopFacts DEF IInv
<1>6. /\ run' \in RunRow /\ attempt' \in AttemptRow
      /\ VerdictIsTheReported' /\ DigestIsFinal' /\ run'.digest = run.digest
  <2>1. CASE UNCHANGED <<run, attempt>>
    BY <1>2, <2>1, TypeParts, RowsKept DEF IInv, rows
  <2>2. CASE /\ Holds(w) /\ InferenceStands("workflow")
             /\ run' = [status |-> v, version |-> run.version + 1, digest |-> run.digest]
             /\ attempt' = [status |-> v, version |-> attempt.version + 1]
    <3>1. CurrentSnapshot \in Snapshot
      BY <1>1, <2>2 DEF Holds, InferenceStands, IInv, DetectedLive
    <3>2. run.status \in LiveRun /\ attempt.status \in LiveAttempt
      BY <3>1 DEF CurrentSnapshot, Snapshot
    <3> QED BY <1>2, <2>2, <3>2, EndsUnreported
  <2> QED BY <2>1, <2>2 DEF ApplyWorkflow
<1>7. TypeOK'
  BY <1>2, <1>4, <1>5, <1>6 DEF IInv, TypeOK, RunRow, AttemptRow
<1>8. GreenIsSigned' /\ LoopsTell' /\ RequestsTell'
  BY <1>2, <1>5, <1>6, TellingKept
<1> QED BY <1>4, <1>6, <1>7, <1>8 DEF IInv

(* What the classification and the guard let through: the run has no digest, and it is live, or
   it is decided by inference and the result is final. *)
LEMMA AcceptedFacts ==
  ASSUME IInv, NEW r \in Results, Accepted(run, attempt, row, TRUE, r)
  PROVE  /\ run.digest = None
         /\ run.status \in LiveRun \/ Final(r)
<1>1. Outcome(run, attempt, row, TRUE, r) = "accepted" /\ TransitionAllowed(run, attempt, r)
  BY DEF Accepted
<1>2. CASE run.status \in LiveRun
  BY <1>2, DigestFacts
<1>3. CASE run.status \notin LiveRun
  BY <1>1, <1>3 DEF TransitionAllowed
<1> QED BY <1>2, <1>3

(* The rows after an accepted result. *)
LEMMA AcceptedRows ==
  ASSUME IInv, NEW r \in Results, Accepted(run, attempt, row, TRUE, r),
         run' = RunAfter(run, r), attempt' = AttemptAfter(attempt, r),
         row' = [value |-> r, published |-> FALSE]
  PROVE  /\ run' \in RunRow /\ attempt' \in AttemptRow /\ row' \in ResultRow
         /\ VerdictIsTheReported' /\ DigestIsFinal'
         /\ Final(r) => run'.digest = r
<1>1. run \in RunRow /\ attempt \in AttemptRow
  BY TypeParts DEF IInv
<1>2. /\ r.status \in {"running"} \cup Decided /\ r # None
      /\ ~Final(r) => r.status = "running"
      /\ Final(r) <=> r.status \in Decided
  BY ResultFacts DEF Final
<1>3. run.digest = None
  BY AcceptedFacts
<1>4. /\ run'.status = r.status /\ run'.digest = IF Final(r) THEN r ELSE None
      /\ run'.version \in Nat /\ run' \in RunRow
  <2>1. Moved(run, r.status) \in Nat
    BY <1>1 DEF Moved, RunRow
  <2> QED BY <1>2, <1>3, <2>1 DEF RunAfter, RunRow, LiveRun
<1>5. attempt'.status = (IF Final(r) THEN r.status ELSE "in_progress") /\ attempt' \in AttemptRow
  <2> DEFINE t == IF Final(r) THEN r.status ELSE "in_progress"
  <2>1. t \in LiveAttempt \cup Decided
    BY <1>2 DEF LiveAttempt
  <2>2. Moved(attempt, t) \in Nat
    BY <1>1 DEF Moved, AttemptRow
  <2> QED BY <2>1, <2>2 DEF AttemptAfter, AttemptRow
<1>6. row' \in ResultRow /\ row' # None /\ row'.value = r
  <2>1. row' \in ResultRow /\ row'.value = r BY DEF ResultRow
  <2> QED BY <2>1, ConstantsAssumption DEF ResultRow
<1>7. CASE Final(r)
  <2>1. run'.digest = r /\ run'.status = r.status /\ attempt'.status = r.status
    BY <1>4, <1>5, <1>7
  <2>2. r.status \notin LiveRun /\ r.status \notin LiveAttempt
    BY <1>2, <1>7 DEF Decided, LiveRun, LiveAttempt
  <2>3. VerdictIsTheReported'
    BY <1>6, <2>1, <2>2 DEF VerdictIsTheReported
  <2>4. DigestIsFinal'
    BY <1>7, <2>1 DEF DigestIsFinal
  <2> QED BY <1>4, <1>5, <1>6, <2>1, <2>3, <2>4
<1>8. CASE ~Final(r)
  <2>1. run'.digest = None /\ run'.status = "running" /\ attempt'.status = "in_progress"
    BY <1>2, <1>4, <1>5, <1>8
  <2>2. VerdictIsTheReported' /\ DigestIsFinal'
    BY <1>6, <1>8, <2>1 DEF VerdictIsTheReported, DigestIsFinal, LiveRun, LiveAttempt
  <2> QED BY <1>4, <1>5, <1>6, <1>8, <2>2
<1> QED BY <1>7, <1>8

(* A result that is a replay is the digest already. *)
LEMMA ReplayedIsDigest ==
  ASSUME IInv, NEW r \in Results, Final(r), Outcome(run, attempt, row, TRUE, r) = "replayed"
  PROVE  run.digest = r
<1>1. CASE run.status \in Decided
  BY <1>1 DEF Outcome, DecidedOutcome
<1>2. CASE run.status \notin Decided
  <2>1. row # None /\ row.value = r
    BY <1>2 DEF Outcome
  <2> QED BY <2>1 DEF IInv, VerdictIsTheReported
<1> QED BY <1>1, <1>2

LEMMA PersistInv ==
  ASSUME IInv, NEW h \in Handlers, NEW r \in Results, Persist(h, r) PROVE IInv'
<1> DEFINE a == Accepted(run, attempt, row, TRUE, r)
           x == [step |-> "publish", value |-> r]
<1>1. UNCHANGED <<check, item, late, loop>> /\ submits < MaxSubmits /\ submits' = submits + 1
  BY DEF Persist
<1>2. submits' \in 0..MaxSubmits
  BY <1>1, TypeParts, ConstantsAssumption DEF IInv
<1>3. a => /\ run' = RunAfter(run, r) /\ attempt' = AttemptAfter(attempt, r)
           /\ row' = [value |-> r, published |-> FALSE]
  BY DEF Persist
<1>4. ~a => UNCHANGED <<run, attempt, row>>
  BY DEF Persist, rows
<1>5. \/ UNCHANGED handler
      \/ Published(r) /\ handler' = [handler EXCEPT ![h] = x]
  BY DEF Persist
<1>6. Published(r) => Final(r) /\ (a \/ Outcome(run, attempt, row, TRUE, r) = "replayed")
  BY DEF Published
<1>7. a => run.digest = None
  BY AcceptedFacts
<1> HIDE DEF a
<1>8. /\ run' \in RunRow /\ attempt' \in AttemptRow /\ row' \in ResultRow \cup {None}
      /\ VerdictIsTheReported' /\ DigestIsFinal' /\ (a /\ Final(r) => run'.digest = r)
  <2>1. CASE a
    BY <1>3, <2>1, AcceptedRows DEF a
  <2>2. CASE ~a
    BY <1>4, <2>2, TypeParts, RowsKept DEF IInv, rows
  <2> QED BY <2>1, <2>2
<1>9. run.digest # None => run'.digest = run.digest
  BY <1>4, <1>7
<1>10. Published(r) => run'.digest = r
  <2>1. CASE a
    BY <1>6, <1>8, <2>1
  <2>2. CASE ~a
    BY <1>4, <1>6, <2>2, ReplayedIsDigest
  <2> QED BY <2>1, <2>2
<1>11. x \in Request /\ x.step # "idle" /\ x.value = r /\ r # None
  BY ResultFacts DEF Request
<1> HIDE DEF x
<1>12. /\ handler' \in [Handlers -> Request]
       /\ \A g \in Handlers : handler'[g].step = "idle" <=> handler'[g].value = None
       /\ RequestsTell'
  <2>1. CASE UNCHANGED handler
    BY <1>9, <2>1, TypeParts, TellingKept DEF IInv
  <2>2. CASE Published(r) /\ handler' = [handler EXCEPT ![h] = x]
    <3>1. /\ handler' \in [Handlers -> Request] /\ handler'[h] = x
          /\ \A g \in Handlers : handler'[g].step = "idle" <=> handler'[g].value = None
          /\ \A g \in Handlers : g # h => handler'[g] = handler[g]
      BY <1>11, <2>2, RequestChanges DEF IInv
    <3>2. ASSUME NEW g \in Handlers, handler'[g].step # "idle" PROVE handler'[g].value = run'.digest
      <4>1. CASE g = h
        BY <1>10, <1>11, <2>2, <3>1, <4>1
      <4>2. CASE g # h
        <5>1. handler[g].step # "idle" /\ handler'[g] = handler[g]
          BY <3>1, <3>2, <4>2
        <5>2. handler[g].value # None /\ handler[g].value = run.digest
          BY <5>1, TypeParts DEF IInv, RequestsTell
        <5> QED BY <1>9, <5>1, <5>2
      <4> QED BY <4>1, <4>2
    <3> QED BY <3>1, <3>2 DEF RequestsTell
  <2> QED BY <1>5, <2>1, <2>2
<1>13. TypeOK'
  BY <1>1, <1>2, <1>8, <1>12 DEF IInv, TypeOK, RunRow, AttemptRow, ResultRow, Request
<1>14. GreenIsSigned' /\ LoopsTell' /\ DetectedLive'
  BY <1>1, <1>9, TellingKept DEF IInv, DetectedLive
<1> QED BY <1>8, <1>12, <1>13, <1>14 DEF IInv

-----------------------------------------------------------------------------

LEMMA InitInv == Init => IInv
<1> SUFFICES ASSUME Init PROVE IInv
  OBVIOUS
<1>1. IdleHandler \in Request /\ NoItem \in Item /\ IdleLoop \in Loop
  <2>1. 0 \in 0..MaxChecks BY ConstantsAssumption
  <2>2. NoItem \in Item BY <2>1, ItemRow DEF NoItem
  <2>3. IdleLoop \in Loop BY LoopRow DEF IdleLoop, Writes
  <2> QED BY <2>2, <2>3 DEF IdleHandler, Request
<1>2. 0 \in 0..MaxSubmits BY ConstantsAssumption
<1>3. TypeOK
  BY <1>1, <1>2 DEF Init, TypeOK, LiveRun, LiveAttempt, NoItem, IdleHandler, Request
<1>4. VerdictIsTheReported /\ DigestIsFinal /\ GreenIsSigned
  BY DEF Init, VerdictIsTheReported, DigestIsFinal, GreenIsSigned, LiveRun, LiveAttempt
<1>5. RequestsTell /\ LoopsTell /\ DetectedLive
  BY DEF Init, RequestsTell, LoopsTell, DetectedLive, IdleHandler, IdleLoop, NoItem, Kinds
<1> QED BY <1>3, <1>4, <1>5 DEF IInv

LEMMA WorkInv ==
  ASSUME IInv, NEW w \in Loops, Work(w) PROVE IInv'
<1>1. CASE TryAgain(w)
  BY <1>1, TryAgainInv
<1>2. CASE w \in WorkflowLoops /\ (ApplyWorkflow(w) \/ \E seen \in Observations : ObserveWorkflow(w, seen))
  BY <1>2, ApplyWorkflowInv, ObserveWorkflowInv
<1>3. CASE w \in CheckLoops /\ (LoadCheckContext(w) \/ ApplyCheck(w) \/ FinalizeCheck(w))
  BY <1>3, LoadCheckContextInv, ApplyCheckInv, FinalizeCheckInv
<1>4. CASE w \in CheckLoops /\ \E ok \in BOOLEAN : ReadCheck(w, ok)
  BY <1>4, ReadCheckInv
<1>5. CASE w \in CheckLoops /\ \E ok \in BOOLEAN, applied \in BOOLEAN : RepairCheck(w, ok, applied)
  BY <1>5, RepairCheckInv
<1> QED BY <1>1, <1>2, <1>3, <1>4, <1>5 DEF Work

LEMMA NextInv ==
  ASSUME IInv, [Next]_vars PROVE IInv'
<1>1. CASE \E h \in Handlers, r \in Results : Persist(h, r)
  BY <1>1, PersistInv
<1>2. CASE Supersede
  BY <1>2, SupersedeInv
<1>3. CASE \E h \in Handlers : Answer(h) \/ CrashHandler(h)
  BY <1>3, PublishInv, RecordPublicationInv, CrashHandlerInv DEF Answer
<1>4. CASE \E k \in Kinds : Detect(k) \/ PassDeadline(k)
  BY <1>4, DetectInv, PassDeadlineInv
<1>5. CASE \E w \in Loops : Claim(w) \/ Work(w) \/ CrashLoop(w)
  BY <1>5, ClaimInv, WorkInv, CrashLoopInv
<1>6. CASE UNCHANGED vars
  <2>1. UNCHANGED <<run, attempt, row, check, submits, handler, item, late, loop>>
    BY <1>6 DEF vars
  <2>2. TypeOK' /\ DetectedLive'
    BY <2>1 DEF IInv, TypeOK, DetectedLive
  <2> QED BY <2>1, <2>2, QueueStep
<1> QED BY <1>1, <1>2, <1>3, <1>4, <1>5, <1>6 DEF Next

LEMMA Inductive == Spec => []IInv
<1>1. Init => IInv BY InitInv
<1>2. IInv /\ [Next]_vars => IInv' BY NextInv
<1> QED BY <1>1, <1>2, PTL DEF Spec

(* Rows, items, loops and requests keep their types, for any number of requests and loops: an item
   has an owner exactly while it is leased, and no claim passes the budget of max_attempts. *)
THEOREM TypeCorrect == Spec => []TypeOK
<1>1. IInv => TypeOK BY DEF IInv
<1> QED BY <1>1, Inductive, PTL

(* persistRunnerResult and the inference keep run, attempt and result row in agreement, whatever
   progress reports, replays and observations arrive late. *)
THEOREM RowsTellOneStory == Spec => []VerdictIsTheReported
<1>1. IInv => VerdictIsTheReported BY DEF IInv
<1> QED BY <1>1, Inductive, PTL

(* The check run is green only by an accepted signed success, although two queues and any number of
   requests write it, with calls whose outcome is unknown. *)
THEOREM GreenOnlySigned == Spec => []GreenIsSigned
<1>1. IInv => GreenIsSigned BY DEF IInv
<1> QED BY <1>1, Inductive, PTL

(* Which steps change a decided run: an accepted final result, when there was no report yet. *)
LEMMA OnlyReportsCorrect ==
  ASSUME IInv, [Next]_vars
  PROVE  /\ run.digest # None => run' = run
         /\ run.status \in Decided /\ run' # run => run.digest = None /\ run'.digest # None
<1>1. ASSUME NEW h \in Handlers, NEW r \in Results, Persist(h, r)
      PROVE  /\ run.digest # None => run' = run
             /\ run.status \in Decided /\ run' # run => run.digest = None /\ run'.digest # None
  <2>1. CASE Accepted(run, attempt, row, TRUE, r)
    <3>1. run.digest = None /\ (run.status \in LiveRun \/ Final(r)) BY <2>1, AcceptedFacts
    <3>2. Final(r) => run'.digest = r BY <1>1, <2>1, AcceptedRows DEF Persist
    <3>3. r # None BY ResultFacts
    <3> QED BY <3>1, <3>2, <3>3 DEF LiveRun, Decided
  <2>2. CASE ~Accepted(run, attempt, row, TRUE, r)
    BY <1>1, <2>2 DEF Persist, rows
  <2> QED BY <2>1, <2>2
<1>2. CASE Supersede
  BY <1>2, DigestFacts DEF Supersede, LiveRun, Decided
<1>3. ASSUME NEW w \in WorkflowLoops, ApplyWorkflow(w)
      PROVE  run' = run \/ run.status \in LiveRun
  <2>1. CASE Holds(w) /\ InferenceStands("workflow")
    <3>1. CurrentSnapshot \in Snapshot
      BY <1>3, <2>1 DEF Holds, KindOf, InferenceStands, IInv, DetectedLive
    <3> QED BY <3>1 DEF CurrentSnapshot, Snapshot
  <2>2. CASE ~(Holds(w) /\ InferenceStands("workflow"))
    BY <1>3, <2>2 DEF ApplyWorkflow
  <2> QED BY <2>1, <2>2
<1>4. \/ \E h \in Handlers, r \in Results : Persist(h, r)
      \/ Supersede
      \/ \E w \in WorkflowLoops : ApplyWorkflow(w)
      \/ run' = run
  BY DEF Next, vars, rows, Answer, Publish, RecordPublication, CrashHandler, Detect, PassDeadline, Claim,
         Work, TryAgain, ObserveWorkflow, LoadCheckContext, ReadCheck, RepairCheck, ApplyCheck,
         FinalizeCheck, CrashLoop
<1>5. run.status \in LiveRun => run.digest = None /\ run.status \notin Decided
  BY DigestFacts DEF LiveRun, Decided
<1> QED BY <1>1, <1>2, <1>3, <1>4, <1>5

(* A reported verdict is immutable, and an inferred one is replaced by a report only. *)
THEOREM ReportsAreFinal == Spec => ReportedVerdictIsFinal
<1>1. IInv /\ [Next]_vars =>
        [/\ run.digest # None => run' = run
         /\ run.status \in Decided /\ run' # run => run.digest = None /\ run'.digest # None]_vars
  BY OnlyReportsCorrect
<1> QED BY <1>1, Inductive, PTL DEF Spec, ReportedVerdictIsFinal
=============================================================================
