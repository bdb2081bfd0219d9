----------------------- MODULE ArtifactDeletionProofs -----------------------
(***************************************************************************)
(* Machine-checked proofs about ArtifactDeletion, for any artifacts, any   *)
(* runs, tenants and paths they share, workers, exports and faults.        *)
(***************************************************************************)
EXTENDS ArtifactDeletion, TLAPS

(* A job that is queued has an attempt left, so a claim never passes the budget. *)
QueuedHasBudget == \A a \in Artifacts : job[a].status = "available" => job[a].attempts < MaxAttempts

TypeInv == TypeOK /\ QueuedHasBudget

(* From the answer of begin_artifact_unlink to the settlement, a handler owns the fence. *)
StagesFenced ==
  \A w \in Workers, a \in Artifacts :
    handler[w][a] \in {"authorized", "unlinked", "completed", "rejected", "failed"} => fence[a] = w

(* What a handler's stage says about the file.  The other direction is lost when another
   job of the path is under way. *)
StagesKnow ==
  \A w \in Workers, a \in Artifacts :
    handler[w][a] \in {"unlinked", "completed"} => ~file[PathOf[a]]

(* An open fence excludes holds of its job's tenant and reservations of the path. *)
FenceExcludes ==
  \A a \in Artifacts : fence[a] # None => ~Held(a) /\ ~Reserved(PathOf[a]) /\ job[a].status # "none"

(* What may account for a missing file: a completed job, or the fence of a handler that may
   have removed it.  A fence that its handler is going to settle, or under which it has not
   yet tried, accounts for nothing. *)
Accounts(a) == \/ job[a].status = "completed"
               \/ /\ fence[a] # None
                  /\ handler[fence[a]][a] \notin {"authorized", "rejected", "failed"}

GoneAccounted == \A p \in Paths : ~file[p] => \E a \in On(p) : Accounts(a)

(* Only the artifact of a deleted row has a job, and a row stored in time has none on its path. *)
RowsUnqueued == \A a \in Artifacts : row[a] # "gone" => job[a].status = "none"
LiveUnqueued == \A a \in Artifacts : row[a] = "live" => ~HasJob(PathOf[a])

IInv == TypeInv /\ StagesFenced /\ StagesKnow /\ FenceExcludes
        /\ GoneAccounted /\ CompletedMeansRemoved /\ RowsUnqueued /\ LiveUnqueued

(* Nothing about rows and files changes in a step that creates no job, removes no file and
   takes nothing away from what accounts for missing ones. *)
LEMMA Kept ==
  ASSUME IInv, UNCHANGED <<row, file>>,
         \A a \in Artifacts : job[a].status = "none" => job'[a].status = "none",
         \A a \in Artifacts : job'[a].status = "completed" => ~file[PathOf[a]],
         \A a \in Artifacts : Accounts(a) => Accounts(a)'
  PROVE  /\ GoneAccounted' /\ CompletedMeansRemoved'
         /\ RowsUnqueued' /\ LiveUnqueued'
<1>1. \A p : On(p) \subseteq Artifacts
  BY DEF On
<1>2. GoneAccounted'
  BY <1>1 DEF IInv, GoneAccounted
<1>3. CompletedMeansRemoved'
  BY DEF CompletedMeansRemoved
<1>4. RowsUnqueued' /\ LiveUnqueued'
  BY <1>1 DEF IInv, RowsUnqueued, LiveUnqueued, HasJob
<1> QED BY <1>2, <1>3, <1>4

LEMMA UnleasedType ==
  ASSUME NEW r \in Job, NEW s \in {"none", "available", "leased", "completed", "dead_letter"},
         NEW n \in 0..MaxAttempts
  PROVE  /\ Unleased(r, s, n) \in Job
         /\ Unleased(r, s, n).status = s
         /\ Unleased(r, s, n).attempts = n
BY DEF Unleased, Job

LEMMA InitType == Init => TypeInv
<1> SUFFICES ASSUME Init PROVE TypeInv
  OBVIOUS
<1>1. NoJob \in Job /\ NoJob.status = "none"
  BY ConstantsAssumption DEF NoJob, Job
<1>2. QueuedHasBudget
  BY <1>1 DEF Init, QueuedHasBudget
<1>3. /\ file \in [Paths -> BOOLEAN] /\ hold \in [Tenants -> BOOLEAN]
      /\ row \in [Artifacts -> {"absent", "live", "late", "gone"}]
  BY DEF Init
<1>4. job \in [Artifacts -> Job] /\ fence \in [Artifacts -> Workers \cup {None}]
  BY <1>1 DEF Init
<1>5. /\ copy \in [Exports -> [Artifacts -> {"none", "reading", "stranded"}]]
      /\ handler \in [Workers -> [Artifacts -> Stages]]
  BY DEF Init, Stages
<1>6. faults \in 0..MaxFaults
  BY ConstantsAssumption DEF Init
<1> QED BY <1>2, <1>3, <1>4, <1>5, <1>6 DEF TypeInv, TypeOK

LEMMA AtType ==
  ASSUME TypeOK, NEW w \in Workers, NEW a \in Artifacts, NEW s \in Stages, At(w, a, s)
  PROVE  /\ handler' \in [Workers -> [Artifacts -> Stages]]
         /\ handler'[w][a] = s
         /\ \A v \in Workers, b \in Artifacts : v # w \/ b # a => handler'[v][b] = handler[v][b]
BY DEF At, TypeOK

LEMMA FaultType ==
  ASSUME TypeOK, Fault PROVE faults' \in 0..MaxFaults
BY ConstantsAssumption DEF TypeOK, Fault

LEMMA AnswerType ==
  ASSUME TypeOK, NEW w \in Workers, NEW a \in Artifacts, NEW s \in Stages, NEW e \in Stages,
         Answer(w, a, s, e)
  PROVE  /\ handler' \in [Workers -> [Artifacts -> Stages]]
         /\ handler'[w][a] \in {s, e}
         /\ \A v \in Workers, b \in Artifacts : v # w \/ b # a => handler'[v][b] = handler[v][b]
         /\ faults' \in 0..MaxFaults
<1>1. CASE At(w, a, s) /\ UNCHANGED faults
  <2>1. faults' \in 0..MaxFaults
    BY <1>1 DEF TypeOK
  <2> QED BY <1>1, <2>1, AtType
<1>2. CASE At(w, a, e) /\ Fault
  BY <1>2, AtType, FaultType
<1> QED BY <1>1, <1>2 DEF Answer

LEMMA RecoveredType ==
  ASSUME TypeInv, NEW a \in Artifacts
  PROVE  /\ Recovered(a) \in Job
         /\ Recovered(a).status = "available" => Recovered(a).attempts < MaxAttempts
         /\ Recovered(a).status \in {job[a].status, "available", "dead_letter"}
         /\ job[a].status # "leased" => Recovered(a) = job[a]
         /\ fence[a] # None => Recovered(a) = job[a]
         /\ job[a].status # "none" => Recovered(a).status # "none"
         /\ Recovered(a).status = "completed" <=> job[a].status = "completed"
         /\ Recovered(a).attempts = job[a].attempts
<1>1. job[a] \in Job /\ (job[a].status = "available" => job[a].attempts < MaxAttempts)
  BY DEF TypeInv, TypeOK, QueuedHasBudget
<1>2. CASE ~Recoverable(a)
  BY <1>1, <1>2 DEF Recovered
<1>3. CASE Recoverable(a)
  <2>1. job[a].attempts \in 0..MaxAttempts
    BY <1>1 DEF Job
  <2>2. CASE job[a].attempts >= MaxAttempts
    <3>1. Recovered(a) = Unleased(job[a], "dead_letter", job[a].attempts)
      BY <1>3, <2>2 DEF Recovered
    <3>2. /\ Recovered(a) \in Job /\ Recovered(a).status = "dead_letter"
          /\ Recovered(a).attempts = job[a].attempts
      BY <1>1, <2>1, <3>1 DEF Unleased, Job
    <3>3. job[a].status = "leased" /\ fence[a] = None
      BY <1>3 DEF Recoverable
    <3> QED BY <3>2, <3>3
  <2>3. CASE ~(job[a].attempts >= MaxAttempts)
    <3>1. Recovered(a) = Unleased(job[a], "available", job[a].attempts)
      BY <1>3, <2>3 DEF Recovered
    <3>2. /\ Recovered(a) \in Job /\ Recovered(a).status = "available"
          /\ Recovered(a).attempts = job[a].attempts
      BY <1>1, <2>1, <3>1 DEF Unleased, Job
    <3>3. job[a].status = "leased" /\ fence[a] = None
      BY <1>3 DEF Recoverable
    <3>4. job[a].attempts < MaxAttempts
      BY <2>1, <2>3, ConstantsAssumption
    <3> QED BY <3>2, <3>3, <3>4
  <2> QED BY <2>2, <2>3
<1> QED BY <1>2, <1>3

LEMMA LeasedType ==
  ASSUME TypeInv, NEW w \in Workers, NEW a \in Artifacts, Claimable(a)
  PROVE  Leased(w, a) \in Job /\ Leased(w, a).status = "leased"
<1>1. job[a] \in Job
  BY DEF TypeInv, TypeOK
<1>2. job[a].attempts < MaxAttempts
  BY RecoveredType DEF Claimable
<1>3. job[a].attempts + 1 \in 0..MaxAttempts
  BY <1>1, <1>2, ConstantsAssumption DEF Job
<1> QED BY <1>1, <1>3 DEF Leased, Job

(* An update of one job keeps the types when the new row has its type and its budget. *)
LEMMA JobUpdate ==
  ASSUME TypeInv, NEW a \in Artifacts, NEW r \in Job,
         r.status = "available" => r.attempts < MaxAttempts,
         job' = [job EXCEPT ![a] = r]
  PROVE  /\ job' \in [Artifacts -> Job]
         /\ QueuedHasBudget'
         /\ job'[a] = r
         /\ \A b \in Artifacts : b # a => job'[b] = job[b]
BY DEF TypeInv, TypeOK, QueuedHasBudget

-----------------------------------------------------------------------------
(* One lemma per action: it keeps the inductive invariant. *)

LEMMA QueueType ==
  ASSUME TypeInv, NEW Q \in SUBSET Artifacts, Queue(Q)
  PROVE  /\ job' \in [Artifacts -> Job] /\ QueuedHasBudget'
         /\ \A a \in Q : job'[a].status = "available"
         /\ \A a \in Artifacts \ Q : job'[a] = job[a]
<1>1. PICK d \in Drivers :
        job' = [a \in Artifacts |-> IF a \in Q
                                   THEN Unleased([NoJob EXCEPT !.driver = d], "available", 0)
                                   ELSE job[a]]
  BY DEF Queue
<1> DEFINE r == Unleased([NoJob EXCEPT !.driver = d], "available", 0)
<1>2. r \in Job /\ r.status = "available" /\ r.attempts = 0 /\ 0 < MaxAttempts
  BY ConstantsAssumption DEF Unleased, NoJob, Job
<1> HIDE DEF r
<1>3. \A a \in Artifacts : job'[a] = IF a \in Q THEN r ELSE job[a]
  BY <1>1 DEF r
<1>4. job' \in [Artifacts -> Job]
  BY <1>1, <1>2 DEF TypeInv, TypeOK, r
<1>5. QueuedHasBudget'
  BY <1>2, <1>3 DEF TypeInv, QueuedHasBudget
<1> QED BY <1>2, <1>3, <1>4, <1>5

(* Deleting rows and creating the jobs Q: their artifacts had rows, and after the step no row
   that was stored in time names one of their paths. *)
LEMMA CreationStep ==
  ASSUME IInv, NEW Q \in SUBSET Artifacts,
         Queue(Q) \/ (Q = {} /\ UNCHANGED job),
         row' \in [Artifacts -> {"absent", "live", "late", "gone"}],
         \A a \in Q : row[a] # "gone" /\ row'[a] = "gone",
         \A a \in Artifacts : row[a] = "gone" => row'[a] = "gone",
         \A a \in Artifacts : row'[a] = "live" =>
           ~HasJob(PathOf[a]) /\ (\A b \in Q : PathOf[b] # PathOf[a]),
         UNCHANGED <<file, fence, hold, copy, handler, faults>>
  PROVE  IInv'
<1>1. TypeInv BY DEF IInv
<1>2. /\ job' \in [Artifacts -> Job] /\ QueuedHasBudget'
      /\ \A a \in Q : job'[a].status = "available"
      /\ \A a \in Artifacts \ Q : job'[a] = job[a]
  <2>1. CASE Queue(Q)
    BY <1>1, <2>1, QueueType
  <2>2. CASE Q = {} /\ UNCHANGED job
    BY <1>1, <2>2 DEF TypeInv, TypeOK, QueuedHasBudget
  <2> QED BY <2>1, <2>2
<1>3. \A a \in Q : job[a].status = "none"
  BY DEF IInv, RowsUnqueued
<1>4. TypeInv'
  BY <1>1, <1>2 DEF TypeInv, TypeOK
<1>5. StagesFenced' /\ StagesKnow'
  BY DEF IInv, StagesFenced, StagesKnow
<1>6. FenceExcludes'
  BY <1>2 DEF IInv, FenceExcludes, Held, Reserved
<1>7. \A a \in Artifacts : Accounts(a) => Accounts(a)'
  BY <1>2, <1>3 DEF Accounts
<1>8. GoneAccounted' /\ CompletedMeansRemoved'
  BY <1>2, <1>7 DEF IInv, GoneAccounted, CompletedMeansRemoved, On
<1>9. RowsUnqueued'
  BY <1>2 DEF IInv, RowsUnqueued
<1>10. LiveUnqueued'
  BY <1>2 DEF LiveUnqueued, HasJob, On
<1> QED BY <1>4, <1>5, <1>6, <1>8, <1>9, <1>10 DEF IInv

LEMMA StoreStep ==
  ASSUME IInv, NEW r \in Runs, NEW N \in SUBSET Artifacts, StoreResult(r, N)
  PROVE  IInv'
<1> DEFINE earlier == {a \in Artifacts : RunOf[a] = r /\ Live(a)}
           fresh == N \ earlier
           dropped == earlier \ N
           Q == {a \in dropped : /\ \A b \in N : PathOf[b] # PathOf[a]
                                 /\ ~Referenced(PathOf[a], dropped)}
<1>1. /\ \A a \in fresh : row[a] = "absent"
      /\ row' = [a \in Artifacts |->
                   IF a \in dropped THEN "gone"
                   ELSE IF a \in fresh THEN IF HasJob(PathOf[a]) THEN "late" ELSE "live"
                   ELSE row[a]]
      /\ Queue(Q)
      /\ UNCHANGED <<file, fence, hold, copy, handler, faults>>
  BY DEF StoreResult
<1>2. /\ Q \in SUBSET Artifacts
      /\ \A a \in Q : a \in dropped /\ Live(a)
                      /\ (\A b \in N : PathOf[b] # PathOf[a]) /\ ~Referenced(PathOf[a], dropped)
      /\ \A a \in dropped : Live(a)
      /\ fresh \subseteq N
  OBVIOUS
<1> HIDE DEF Q, dropped, fresh
<1>3. row \in [Artifacts -> {"absent", "live", "late", "gone"}]
  BY DEF IInv, TypeInv, TypeOK
<1>4. row' \in [Artifacts -> {"absent", "live", "late", "gone"}]
  BY <1>1, <1>3
<1>5. \A a \in Q : row[a] # "gone" /\ row'[a] = "gone"
  BY <1>1, <1>2 DEF Live
<1>6. \A a \in Artifacts : row[a] = "gone" => row'[a] = "gone"
  BY <1>1
<1>7. ASSUME NEW a \in Artifacts, row'[a] = "live"
      PROVE  ~HasJob(PathOf[a]) /\ (\A b \in Q : PathOf[b] # PathOf[a])
  <2>1. CASE a \in fresh
    BY <1>1, <1>2, <1>7, <2>1
  <2>2. CASE a \notin fresh
    <3>1. row[a] = "live" /\ a \notin dropped
      BY <1>1, <1>7, <2>2
    <3>2. \A b \in Q : PathOf[b] # PathOf[a]
      BY <1>2, <3>1 DEF Referenced, Live, On
    <3> QED BY <3>1, <3>2 DEF IInv, LiveUnqueued
  <2> QED BY <2>1, <2>2
<1> QED BY <1>1, <1>2, <1>4, <1>5, <1>6, <1>7, CreationStep

LEMMA RetentionStep ==
  ASSUME IInv, NEW p \in Paths, NEW E \in SUBSET On(p), ExpireRows(p, E)
  PROVE  IInv'
<1>1. /\ \A a \in E : Live(a)
      /\ row' = [a \in Artifacts |-> IF a \in E THEN "gone" ELSE row[a]]
      /\ UNCHANGED <<file, fence, hold, copy, handler, faults>>
  BY DEF ExpireRows
<1>2. E \subseteq Artifacts /\ \A a \in E : PathOf[a] = p
  BY DEF On
<1>3. row \in [Artifacts -> {"absent", "live", "late", "gone"}]
  BY DEF IInv, TypeInv, TypeOK
<1>4. PICK Q \in SUBSET E : \/ Queue(Q) /\ ~Referenced(p, E)
                            \/ Q = {} /\ UNCHANGED job
  BY DEF ExpireRows
<1>5. row' \in [Artifacts -> {"absent", "live", "late", "gone"}]
  BY <1>1, <1>3
<1>6. \A a \in Q : row[a] # "gone" /\ row'[a] = "gone"
  BY <1>1, <1>2, <1>4 DEF Live
<1>7. \A a \in Artifacts : row[a] = "gone" => row'[a] = "gone"
  BY <1>1
<1>8. ASSUME NEW a \in Artifacts, row'[a] = "live"
      PROVE  ~HasJob(PathOf[a]) /\ (\A b \in Q : PathOf[b] # PathOf[a])
  <2>1. row[a] = "live" /\ a \notin E
    BY <1>1, <1>8
  <2>2. \A b \in Q : PathOf[b] # PathOf[a]
    BY <1>2, <1>4, <2>1 DEF Referenced, Live, On
  <2> QED BY <2>1, <2>2 DEF IInv, LiveUnqueued
<1>9. Q \in SUBSET Artifacts
  BY <1>2
<1> QED BY <1>1, <1>4, <1>5, <1>6, <1>7, <1>8, <1>9, CreationStep

LEMMA ExpireStep ==
  ASSUME IInv, NEW a \in Artifacts, ExpireLease(a)
  PROVE  IInv'
<1>1. TypeInv BY DEF IInv
<1> DEFINE r == [job[a] EXCEPT !.expired = TRUE]
<1>2. /\ r \in Job /\ r.status = "leased" /\ job[a].status = "leased"
      /\ job' = [job EXCEPT ![a] = r]
  BY <1>1 DEF ExpireLease, TypeInv, TypeOK, Job
<1> HIDE DEF r
<1>3. /\ job' \in [Artifacts -> Job] /\ QueuedHasBudget' /\ job'[a] = r
      /\ \A b \in Artifacts : b # a => job'[b] = job[b]
  BY <1>1, <1>2, JobUpdate
<1>4. TypeInv'
  BY <1>1, <1>3 DEF TypeInv, TypeOK, ExpireLease
<1>5. UNCHANGED <<row, file, fence, hold, copy, handler>>
  BY DEF ExpireLease
<1>6. GoneAccounted' /\ CompletedMeansRemoved' /\ RowsUnqueued' /\ LiveUnqueued'
  BY <1>2, <1>3, <1>5, Kept DEF IInv, CompletedMeansRemoved, Accounts
<1> QED
  BY <1>2, <1>3, <1>4, <1>5, <1>6 DEF IInv, StagesFenced, StagesKnow, FenceExcludes, Held, Reserved

LEMMA ClaimStep ==
  ASSUME IInv, NEW w \in Workers, NEW C \in SUBSET Artifacts, Claim(w, C)
  PROVE  IInv'
<1>1. TypeInv BY DEF IInv
<1>2. UNCHANGED <<row, file, fence, hold, copy, faults>>
  BY DEF Claim
<1>3. \A a \in Artifacts : job'[a] = IF a \in C THEN Leased(w, a) ELSE Recovered(a)
  BY DEF Claim
<1>4. \A a \in C : Claimable(a) /\ Leased(w, a) \in Job /\ Leased(w, a).status = "leased"
  BY <1>1, LeasedType DEF Claim
<1>5. job' \in [Artifacts -> Job]
  BY <1>1, <1>3, <1>4, RecoveredType DEF Claim
<1>6. QueuedHasBudget'
  BY <1>1, <1>3, <1>4, RecoveredType DEF QueuedHasBudget
<1>7. PICK rooted \in StorageRoots :
        handler' = [handler EXCEPT ![w] =
                      [a \in Artifacts |-> IF a \in C THEN Started(a, rooted) ELSE "none"]]
  BY DEF Claim
<1>8. \A a \in Artifacts : Started(a, rooted) \in {"unsupported", "unrooted", "claimed"}
  BY DEF Started
<1>9. /\ handler' \in [Workers -> [Artifacts -> Stages]]
      /\ \A a \in Artifacts : handler'[w][a] \in {"none", "unsupported", "unrooted", "claimed"}
      /\ \A v \in Workers : v # w => handler'[v] = handler[v]
  BY <1>1, <1>7, <1>8 DEF TypeInv, TypeOK, Stages
<1>10. TypeInv'
  BY <1>1, <1>2, <1>5, <1>6, <1>9 DEF TypeInv, TypeOK
<1>11. StagesFenced' /\ StagesKnow'
  BY <1>2, <1>9 DEF IInv, StagesFenced, StagesKnow
<1>12. \A a \in Artifacts : /\ fence[a] # None => job'[a] = job[a]
                            /\ job'[a].status = "completed" <=> job[a].status = "completed"
  <2> TAKE a \in Artifacts
  <2>1. CASE a \in C
    <3>1. fence[a] = None /\ Recovered(a).status = "available"
      BY <1>4, <2>1 DEF Claimable
    <3>2. job[a].status # "completed"
      BY <1>1, <3>1, RecoveredType
    <3>3. job'[a].status = "leased"
      BY <1>3, <1>4, <2>1
    <3> QED BY <3>1, <3>2, <3>3
  <2>2. CASE a \notin C
    BY <1>1, <1>3, <2>2, RecoveredType
  <2> QED BY <2>1, <2>2
<1>13. FenceExcludes'
  BY <1>2, <1>12 DEF IInv, FenceExcludes, Held, Reserved
<1>14. \A a \in Artifacts : job[a].status = "none" => job'[a].status = "none"
  BY <1>1, <1>3, <1>4, RecoveredType DEF Claimable
<1>15. \A a \in Artifacts : Accounts(a) => Accounts(a)'
  <2> SUFFICES ASSUME NEW a \in Artifacts, Accounts(a) PROVE Accounts(a)'
    OBVIOUS
  <2>1. CASE job[a].status = "completed"
    BY <1>12, <2>1 DEF Accounts
  <2>2. CASE job[a].status # "completed"
    <3>1. fence[a] \in Workers /\ fence[a] # None /\ fence'[a] = fence[a]
      BY <1>1, <1>2, <2>2 DEF Accounts, TypeInv, TypeOK
    <3>2. handler'[fence[a]][a] \notin {"authorized", "rejected", "failed"}
      BY <1>9, <2>2, <3>1 DEF Accounts
    <3> QED BY <3>1, <3>2 DEF Accounts
  <2> QED BY <2>1, <2>2
<1>16. GoneAccounted' /\ CompletedMeansRemoved' /\ RowsUnqueued' /\ LiveUnqueued'
  BY <1>2, <1>12, <1>14, <1>15, Kept DEF IInv, CompletedMeansRemoved
<1> QED BY <1>10, <1>11, <1>13, <1>16 DEF IInv

(* A step of one handler that is not about to settle or try: what accounts for missing files
   goes on doing so, unless it is the handler's own artifact that changes. *)
LEMMA OthersAccount ==
  ASSUME TypeOK, NEW w \in Workers, NEW a \in Artifacts,
         \A v \in Workers, b \in Artifacts : v # w \/ b # a => handler'[v][b] = handler[v][b],
         \A b \in Artifacts : b # a => job'[b] = job[b] /\ fence'[b] = fence[b],
         Accounts(a) => Accounts(a)'
  PROVE  \A b \in Artifacts : Accounts(b) => Accounts(b)'
<1> SUFFICES ASSUME NEW b \in Artifacts, b # a, Accounts(b) PROVE Accounts(b)'
  OBVIOUS
<1>1. job'[b] = job[b] /\ fence'[b] = fence[b]
  OBVIOUS
<1>2. CASE job[b].status = "completed"
  BY <1>1, <1>2 DEF Accounts
<1>3. CASE job[b].status # "completed"
  <2>1. fence[b] # None /\ fence[b] \in Workers
    BY <1>3 DEF Accounts, TypeOK
  <2>2. handler'[fence[b]][b] = handler[fence[b]][b]
    BY <2>1
  <2> QED BY <1>1, <1>3, <2>1, <2>2 DEF Accounts
<1> QED BY <1>2, <1>3

LEMMA BeginUnlinkStep ==
  ASSUME IInv, NEW w \in Workers, NEW a \in Artifacts, BeginUnlink(w, a)
  PROVE  IInv'
<1>1. TypeInv /\ TypeOK BY DEF IInv, TypeInv
<1>2. UNCHANGED <<row, file, hold, copy>>
  BY DEF BeginUnlink
<1>3. CASE ~Admissible(w, a)
  <2>1. Answer(w, a, "none", "failing") /\ UNCHANGED <<job, fence>>
    BY <1>3 DEF BeginUnlink
  <2>2. /\ handler' \in [Workers -> [Artifacts -> Stages]] /\ faults' \in 0..MaxFaults
        /\ handler'[w][a] \in {"none", "failing"}
        /\ \A v \in Workers, b \in Artifacts : v # w \/ b # a => handler'[v][b] = handler[v][b]
    BY <1>1, <2>1, AnswerType DEF Stages
  <2>3. TypeInv'
    BY <1>1, <1>2, <2>1, <2>2 DEF TypeInv, TypeOK, QueuedHasBudget
  <2>4. Accounts(a) => Accounts(a)'
    BY <1>1, <2>1, <2>2 DEF Accounts, TypeOK
  <2>5. \A b \in Artifacts : Accounts(b) => Accounts(b)'
    BY <1>1, <2>1, <2>2, <2>4, OthersAccount
  <2>6. GoneAccounted' /\ CompletedMeansRemoved' /\ RowsUnqueued' /\ LiveUnqueued'
    BY <1>2, <2>1, <2>5, Kept DEF IInv, CompletedMeansRemoved
  <2> QED
    BY <1>2, <2>1, <2>2, <2>3, <2>6 DEF IInv, StagesFenced, StagesKnow, FenceExcludes, Held, Reserved
<1>4. CASE Admissible(w, a) /\ Protected(a)
  <2> DEFINE n == IF job[a].attempts > 0 THEN job[a].attempts - 1 ELSE 0
             r == Unleased(job[a], "available", n)
  <2>1. Answer(w, a, "none", "failing") /\ UNCHANGED fence /\ job' = [job EXCEPT ![a] = r]
    BY <1>4 DEF BeginUnlink
  <2>2. /\ handler' \in [Workers -> [Artifacts -> Stages]] /\ faults' \in 0..MaxFaults
        /\ handler'[w][a] \in {"none", "failing"}
        /\ \A v \in Workers, b \in Artifacts : v # w \/ b # a => handler'[v][b] = handler[v][b]
    BY <1>1, <2>1, AnswerType DEF Stages
  <2>3. job[a] \in Job
    BY <1>1 DEF TypeOK
  <2>4. n \in 0..MaxAttempts /\ n < MaxAttempts
    BY <2>3, ConstantsAssumption DEF Job
  <2>5. r \in Job /\ r.status = "available" /\ r.attempts < MaxAttempts
    BY <2>3, <2>4 DEF Unleased, Job
  <2> HIDE DEF r
  <2>6. /\ job' \in [Artifacts -> Job] /\ QueuedHasBudget' /\ job'[a] = r
        /\ \A b \in Artifacts : b # a => job'[b] = job[b]
    BY <1>1, <2>1, <2>5, JobUpdate
  <2>7. TypeInv'
    BY <1>1, <1>2, <2>1, <2>2, <2>6 DEF TypeInv, TypeOK
  <2>8. job[a].status = "leased" /\ fence[a] = None
    BY <1>4 DEF Admissible, Leases
  <2>9. StagesFenced' /\ StagesKnow'
    BY <1>2, <2>1, <2>2 DEF IInv, StagesFenced, StagesKnow
  <2>10. FenceExcludes'
    BY <1>2, <2>1, <2>6, <2>8 DEF IInv, FenceExcludes, Held, Reserved
  <2>11. \A b \in Artifacts : Accounts(b) => Accounts(b)'
    <3>1. ~Accounts(a)
      BY <2>8 DEF Accounts
    <3> QED BY <1>1, <2>1, <2>2, <2>6, <3>1, OthersAccount
  <2>12. GoneAccounted' /\ CompletedMeansRemoved' /\ RowsUnqueued' /\ LiveUnqueued'
    BY <1>2, <2>5, <2>6, <2>8, <2>11, Kept DEF IInv, CompletedMeansRemoved
  <2> QED BY <2>7, <2>9, <2>10, <2>12 DEF IInv
<1>5. CASE Admissible(w, a) /\ ~Protected(a)
  <2>1. Answer(w, a, "authorized", "failing") /\ UNCHANGED job /\ fence' = [fence EXCEPT ![a] = w]
    BY <1>5 DEF BeginUnlink, Admissible, Leases
  <2>2. /\ handler' \in [Workers -> [Artifacts -> Stages]] /\ faults' \in 0..MaxFaults
        /\ handler'[w][a] \in {"authorized", "failing"}
        /\ \A v \in Workers, b \in Artifacts : v # w \/ b # a => handler'[v][b] = handler[v][b]
    BY <1>1, <2>1, AnswerType DEF Stages
  <2>3. job[a].status = "leased" /\ fence[a] = None /\ ~Held(a) /\ ~Reserved(PathOf[a])
    BY <1>5 DEF Admissible, Leases, Protected
  <2>4. /\ fence' \in [Artifacts -> Workers \cup {None}] /\ fence'[a] = w
        /\ \A b \in Artifacts : b # a => fence'[b] = fence[b]
    BY <1>1, <2>1 DEF TypeOK
  <2>5. TypeInv'
    BY <1>1, <1>2, <2>1, <2>2, <2>4 DEF TypeInv, TypeOK, QueuedHasBudget
  <2>7. \A v \in Workers : v # w => handler[v][a] \notin
          {"authorized", "unlinked", "completed", "rejected", "failed"}
    BY <2>3, ConstantsAssumption DEF IInv, StagesFenced
  <2>8. StagesFenced' /\ StagesKnow'
    BY <1>2, <2>2, <2>4, <2>7 DEF IInv, StagesFenced, StagesKnow
  <2>9. FenceExcludes'
    BY <1>2, <2>1, <2>3, <2>4 DEF IInv, FenceExcludes, Held, Reserved
  <2>10. \A b \in Artifacts : Accounts(b) => Accounts(b)'
    <3>1. ~Accounts(a)
      BY <2>3 DEF Accounts
    <3> QED BY <1>1, <2>1, <2>2, <2>4, <3>1, OthersAccount
  <2>11. GoneAccounted' /\ CompletedMeansRemoved' /\ RowsUnqueued' /\ LiveUnqueued'
    BY <1>2, <2>1, <2>10, Kept DEF IInv, CompletedMeansRemoved
  <2> QED BY <2>5, <2>8, <2>9, <2>11 DEF IInv
<1> QED BY <1>3, <1>4, <1>5

LEMMA UnlinkStep ==
  ASSUME IInv, NEW w \in Workers, NEW a \in Artifacts, Unlink(w, a)
  PROVE  IInv'
<1>1. TypeInv /\ TypeOK BY DEF IInv, TypeInv
<1>2. UNCHANGED <<row, job, fence, hold, copy, faults>>
  BY DEF Unlink
<1>3. fence[a] = w /\ w # None /\ PathOf[a] \in Paths /\ a \in On(PathOf[a])
  BY ConstantsAssumption DEF IInv, Unlink, StagesFenced, On
<1>4. /\ file' \in [Paths -> BOOLEAN]
      /\ \A p \in Paths : p # PathOf[a] => file'[p] = file[p]
      /\ \A p \in Paths : file'[p] => file[p]
  BY <1>1 DEF Unlink, TypeOK
<1>5. PICK s \in {"unlinked", "rejected", "failing"} :
        /\ At(w, a, s)
        /\ s = "unlinked" => ~file'[PathOf[a]]
        /\ s = "rejected" => UNCHANGED file
  BY <1>1, <1>3 DEF Unlink, TypeOK
<1>6. /\ handler' \in [Workers -> [Artifacts -> Stages]]
      /\ handler'[w][a] = s
      /\ \A v \in Workers, b \in Artifacts : v # w \/ b # a => handler'[v][b] = handler[v][b]
  BY <1>1, <1>5, AtType DEF Stages
<1>7. TypeInv'
  BY <1>1, <1>2, <1>4, <1>6 DEF TypeInv, TypeOK, QueuedHasBudget
<1>8. StagesFenced'
  BY <1>2, <1>3, <1>6 DEF IInv, StagesFenced
<1>9. StagesKnow'
  <2> SUFFICES ASSUME NEW v \in Workers, NEW b \in Artifacts,
                      handler'[v][b] \in {"unlinked", "completed"}
               PROVE  ~file'[PathOf[b]]
    BY DEF StagesKnow
  <2>1. CASE v = w /\ b = a
    BY <1>5, <1>6, <2>1
  <2>2. CASE v # w \/ b # a
    <3>1. ~file[PathOf[b]]
      BY <1>6, <2>2 DEF IInv, StagesKnow
    <3> QED BY <1>4, <3>1, ConstantsAssumption
  <2> QED BY <2>1, <2>2
<1>10. FenceExcludes'
  BY <1>2 DEF IInv, FenceExcludes, Held, Reserved
<1>11. \A b \in Artifacts : Accounts(b) => Accounts(b)'
  <2>1. ~Accounts(a) \/ job[a].status = "completed"
    BY <1>3 DEF Accounts, Unlink
  <2>2. Accounts(a) => Accounts(a)'
    BY <1>2, <2>1 DEF Accounts
  <2> QED BY <1>1, <1>2, <1>6, <2>2, OthersAccount
<1>12. GoneAccounted'
  <2> SUFFICES ASSUME NEW p \in Paths, ~file'[p] PROVE \E b \in On(p) : Accounts(b)'
    BY DEF GoneAccounted
  <2>1. CASE ~file[p]
    BY <1>11, <2>1 DEF IInv, GoneAccounted, On
  <2>2. CASE file[p]
    <3>1. p = PathOf[a] /\ s # "rejected"
      BY <1>4, <1>5, <2>2
    <3>2. Accounts(a)'
      BY <1>2, <1>3, <1>6, <3>1 DEF Accounts
    <3> QED BY <1>3, <3>1, <3>2
  <2> QED BY <2>1, <2>2
<1>13. CompletedMeansRemoved'
  BY <1>2, <1>4, ConstantsAssumption DEF IInv, CompletedMeansRemoved
<1>14. RowsUnqueued' /\ LiveUnqueued'
  BY <1>2 DEF IInv, RowsUnqueued, LiveUnqueued, HasJob
<1> QED BY <1>7, <1>8, <1>9, <1>10, <1>12, <1>13, <1>14 DEF IInv

LEMMA CompleteStep ==
  ASSUME IInv, NEW w \in Workers, NEW a \in Artifacts, CompleteDeletion(w, a)
  PROVE  IInv'
<1>1. TypeInv /\ TypeOK BY DEF IInv, TypeInv
<1>2. UNCHANGED <<row, file, fence, hold, copy>>
  BY DEF CompleteDeletion
<1>3. fence[a] = w /\ ~file[PathOf[a]]
  BY DEF IInv, CompleteDeletion, StagesFenced, StagesKnow
<1>4. CASE Leases(w, a)
  <2> DEFINE r == Unleased(job[a], "completed", job[a].attempts)
  <2>1. Answer(w, a, "completed", "failing") /\ job' = [job EXCEPT ![a] = r]
    BY <1>4 DEF CompleteDeletion
  <2>2. /\ handler' \in [Workers -> [Artifacts -> Stages]] /\ faults' \in 0..MaxFaults
        /\ handler'[w][a] \in {"completed", "failing"}
        /\ \A v \in Workers, b \in Artifacts : v # w \/ b # a => handler'[v][b] = handler[v][b]
    BY <1>1, <2>1, AnswerType DEF Stages
  <2>3. job[a] \in Job
    BY <1>1 DEF TypeOK
  <2>4. r \in Job /\ r.status = "completed"
    BY <2>3 DEF Unleased, Job
  <2> HIDE DEF r
  <2>5. /\ job' \in [Artifacts -> Job] /\ QueuedHasBudget' /\ job'[a] = r
        /\ \A b \in Artifacts : b # a => job'[b] = job[b]
    BY <1>1, <2>1, <2>4, JobUpdate
  <2>6. TypeInv'
    BY <1>1, <1>2, <2>2, <2>5 DEF TypeInv, TypeOK
  <2>7. StagesFenced' /\ StagesKnow'
    BY <1>2, <1>3, <2>2 DEF IInv, StagesFenced, StagesKnow
  <2>8. FenceExcludes'
    BY <1>2, <1>3, <2>4, <2>5 DEF IInv, FenceExcludes, Held, Reserved
  <2>9. \A b \in Artifacts : Accounts(b) => Accounts(b)'
    <3>1. Accounts(a)'
      BY <2>4, <2>5 DEF Accounts
    <3> QED BY <1>1, <1>2, <2>2, <2>5, <3>1, OthersAccount
  <2>10. job[a].status = "leased"
    BY <1>4 DEF Leases
  <2>11. GoneAccounted' /\ CompletedMeansRemoved' /\ RowsUnqueued' /\ LiveUnqueued'
    BY <1>2, <1>3, <2>5, <2>9, <2>10, Kept DEF IInv, CompletedMeansRemoved
  <2> QED BY <2>6, <2>7, <2>8, <2>11 DEF IInv
<1>5. CASE ~Leases(w, a)
  <2>1. Answer(w, a, "none", "failing") /\ UNCHANGED job
    BY <1>5 DEF CompleteDeletion
  <2>2. /\ handler' \in [Workers -> [Artifacts -> Stages]] /\ faults' \in 0..MaxFaults
        /\ handler'[w][a] \in {"none", "failing"}
        /\ \A v \in Workers, b \in Artifacts : v # w \/ b # a => handler'[v][b] = handler[v][b]
    BY <1>1, <2>1, AnswerType DEF Stages
  <2>3. TypeInv'
    BY <1>1, <1>2, <2>1, <2>2 DEF TypeInv, TypeOK, QueuedHasBudget
  <2>4. StagesFenced' /\ StagesKnow'
    BY <1>2, <2>2 DEF IInv, StagesFenced, StagesKnow
  <2>5. FenceExcludes'
    BY <1>2, <2>1 DEF IInv, FenceExcludes, Held, Reserved
  <2>6. Accounts(a) => Accounts(a)'
    BY <1>2, <1>3, <2>1, <2>2 DEF Accounts
  <2>7. \A b \in Artifacts : Accounts(b) => Accounts(b)'
    BY <1>1, <1>2, <2>1, <2>2, <2>6, OthersAccount
  <2>8. GoneAccounted' /\ CompletedMeansRemoved' /\ RowsUnqueued' /\ LiveUnqueued'
    BY <1>2, <2>1, <2>7, Kept DEF IInv, CompletedMeansRemoved
  <2> QED BY <2>3, <2>4, <2>5, <2>8 DEF IInv
<1> QED BY <1>4, <1>5

LEMMA SettleStep ==
  ASSUME IInv, NEW w \in Workers, NEW a \in Artifacts, SettleUnlink(w, a)
  PROVE  IInv'
<1>1. TypeInv /\ TypeOK BY DEF IInv, TypeInv
<1>2. UNCHANGED <<row, file, job, hold, copy>>
  BY DEF SettleUnlink
<1>3. fence[a] = w
  BY DEF IInv, SettleUnlink, StagesFenced
<1> DEFINE e == IF handler[w][a] = "completed" THEN "failing" ELSE "none"
<1>4. e \in Stages /\ e \in {"none", "failing"} /\ "none" \in Stages
  BY DEF Stages
<1>5. Answer(w, a, "none", e)
  BY DEF SettleUnlink
<1> HIDE DEF e
<1>6. /\ handler' \in [Workers -> [Artifacts -> Stages]] /\ faults' \in 0..MaxFaults
      /\ handler'[w][a] \in {"none", "failing"}
      /\ \A v \in Workers, b \in Artifacts : v # w \/ b # a => handler'[v][b] = handler[v][b]
  BY <1>1, <1>4, <1>5, AnswerType
<1>7. /\ fence' \in [Artifacts -> Workers \cup {None}] /\ fence'[a] \in {None, fence[a]}
      /\ \A b \in Artifacts : b # a => fence'[b] = fence[b]
  BY <1>1 DEF SettleUnlink, TypeOK
<1>8. TypeInv'
  BY <1>1, <1>2, <1>6, <1>7 DEF TypeInv, TypeOK, QueuedHasBudget
<1>9. \A v \in Workers : v # w => handler[v][a] \notin
        {"authorized", "unlinked", "completed", "rejected", "failed"}
  BY <1>3 DEF IInv, StagesFenced
<1>10. StagesFenced' /\ StagesKnow'
  BY <1>2, <1>6, <1>7, <1>9 DEF IInv, StagesFenced, StagesKnow
<1>11. FenceExcludes'
  BY <1>2, <1>7 DEF IInv, FenceExcludes, Held, Reserved
<1>12. Accounts(a) => Accounts(a)'
  <2>1. CASE Settleable(w, a)
    BY <1>2, <1>3, <2>1 DEF Settleable, Accounts
  <2>2. CASE ~Settleable(w, a)
    BY <1>2, <1>3, <1>6, <2>2 DEF SettleUnlink, Accounts
  <2> QED BY <2>1, <2>2
<1>13. GoneAccounted' /\ CompletedMeansRemoved' /\ RowsUnqueued' /\ LiveUnqueued'
  <2>1. \A b \in Artifacts : Accounts(b) => Accounts(b)'
    BY <1>1, <1>2, <1>6, <1>7, <1>12, OthersAccount
  <2> QED BY <1>2, <2>1, Kept DEF IInv, CompletedMeansRemoved
<1> QED BY <1>8, <1>10, <1>11, <1>13 DEF IInv

LEMMA FailStep ==
  ASSUME IInv, NEW w \in Workers, NEW a \in Artifacts, FailDeletion(w, a)
  PROVE  IInv'
<1>1. TypeInv /\ TypeOK BY DEF IInv, TypeInv
<1>2. UNCHANGED <<row, file, fence, hold, copy>>
  BY DEF FailDeletion
<1> DEFINE s == IF handler[w][a] = "rejected" THEN "failed" ELSE "none"
<1>3. s \in Stages /\ "none" \in Stages /\ AfterFailure(handler[w][a]) = s
  BY DEF Stages, AfterFailure
<1>4. Answer(w, a, s, "none") \/ Answer(w, a, "none", "none")
  BY <1>3 DEF FailDeletion
<1>5. s = "none" \/ (s = "failed" /\ handler[w][a] = "rejected")
  OBVIOUS
<1> HIDE DEF s
<1>6. /\ handler' \in [Workers -> [Artifacts -> Stages]] /\ faults' \in 0..MaxFaults
      /\ handler'[w][a] \in {s, "none"}
      /\ \A v \in Workers, b \in Artifacts : v # w \/ b # a => handler'[v][b] = handler[v][b]
  BY <1>1, <1>3, <1>4, AnswerType
<1>7. StagesFenced' /\ StagesKnow'
  BY <1>2, <1>5, <1>6 DEF IInv, StagesFenced, StagesKnow
<1>8. CASE Leases(w, a)
  <2>1. PICK retryable : job' = [job EXCEPT ![a] = Failed(a, retryable)]
    BY <1>8 DEF FailDeletion
  <2>2. job[a] \in Job /\ job[a].attempts \in 0..MaxAttempts
    BY <1>1 DEF TypeOK, Job
  <2>3. /\ Failed(a, retryable) \in Job
        /\ Failed(a, retryable).status \in {"available", "dead_letter"}
        /\ Failed(a, retryable).status = "available" => Failed(a, retryable).attempts < MaxAttempts
    BY <2>2 DEF Failed, Unleased, Job
  <2>4. /\ job' \in [Artifacts -> Job] /\ QueuedHasBudget'
        /\ job'[a].status \in {"available", "dead_letter"}
        /\ \A b \in Artifacts : b # a => job'[b] = job[b]
    BY <1>1, <2>1, <2>3, JobUpdate
  <2>5. TypeInv'
    BY <1>1, <1>2, <1>6, <2>4 DEF TypeInv, TypeOK
  <2>6. job[a].status = "leased"
    BY <1>8 DEF Leases
  <2>7. FenceExcludes'
    BY <1>2, <2>4, <2>6 DEF IInv, FenceExcludes, Held, Reserved
  <2>8. Accounts(a) => Accounts(a)'
    BY <1>1, <1>2, <1>5, <1>6, <2>6 DEF Accounts, IInv, StagesFenced, TypeOK
  <2>9. \A b \in Artifacts : Accounts(b) => Accounts(b)'
    BY <1>1, <1>2, <1>6, <2>4, <2>8, OthersAccount
  <2>10. GoneAccounted' /\ CompletedMeansRemoved' /\ RowsUnqueued' /\ LiveUnqueued'
    BY <1>2, <2>4, <2>6, <2>9, Kept DEF IInv, CompletedMeansRemoved
  <2> QED BY <1>7, <2>5, <2>7, <2>10 DEF IInv
<1>9. CASE ~Leases(w, a)
  <2>1. UNCHANGED job
    BY <1>9 DEF FailDeletion
  <2>2. TypeInv'
    BY <1>1, <1>2, <1>6, <2>1 DEF TypeInv, TypeOK, QueuedHasBudget
  <2>3. FenceExcludes'
    BY <1>2, <2>1 DEF IInv, FenceExcludes, Held, Reserved
  <2>4. Accounts(a) => Accounts(a)'
    BY <1>1, <1>2, <1>5, <1>6, <2>1 DEF Accounts, IInv, StagesFenced, TypeOK
  <2>5. \A b \in Artifacts : Accounts(b) => Accounts(b)'
    BY <1>1, <1>2, <1>6, <2>1, <2>4, OthersAccount
  <2>6. GoneAccounted' /\ CompletedMeansRemoved' /\ RowsUnqueued' /\ LiveUnqueued'
    BY <1>2, <2>1, <2>5, Kept DEF IInv, CompletedMeansRemoved
  <2> QED BY <1>7, <2>2, <2>3, <2>6 DEF IInv
<1> QED BY <1>8, <1>9

(* Lost calls and crashes only take handlers away from their fences. *)
LEMMA FaultStep ==
  ASSUME IInv, NEW w \in Workers,
         Crash(w) \/ \E a \in Artifacts : CallFails(w, a)
  PROVE  IInv'
<1>1. TypeInv /\ TypeOK BY DEF IInv, TypeInv
<1>2. UNCHANGED <<row, file, job, fence, hold, copy>> /\ Fault
  BY DEF Crash, CallFails
<1>3. /\ handler' \in [Workers -> [Artifacts -> Stages]]
      /\ \A v \in Workers, b \in Artifacts :
           handler'[v][b] = handler[v][b] \/ handler'[v][b] \in {"none", "failing"}
  <2>1. CASE Crash(w)
    BY <1>1, <2>1 DEF Crash, TypeOK, Stages
  <2>2. CASE \E a \in Artifacts : CallFails(w, a)
    <3>1. PICK a \in Artifacts : CallFails(w, a)
      BY <2>2
    <3>2. PICK s \in {"none", "failing"} : At(w, a, s)
      BY <3>1 DEF CallFails
    <3>3. s \in Stages
      BY DEF Stages
    <3> QED BY <1>1, <3>2, <3>3, AtType
  <2> QED BY <2>1, <2>2
<1>4. TypeInv'
  BY <1>1, <1>2, <1>3, FaultType DEF TypeInv, TypeOK, QueuedHasBudget
<1>5. StagesFenced' /\ StagesKnow'
  BY <1>2, <1>3 DEF IInv, StagesFenced, StagesKnow
<1>6. FenceExcludes'
  BY <1>2 DEF IInv, FenceExcludes, Held, Reserved
<1>7. \A a \in Artifacts : Accounts(a) => Accounts(a)'
  BY <1>1, <1>2, <1>3 DEF Accounts, TypeOK
<1>8. GoneAccounted' /\ CompletedMeansRemoved' /\ RowsUnqueued' /\ LiveUnqueued'
  BY <1>2, <1>7, Kept DEF IInv, CompletedMeansRemoved
<1> QED BY <1>4, <1>5, <1>6, <1>8 DEF IInv

LEMMA HoldStep ==
  ASSUME IInv, NEW t \in Tenants, CreateLegalHold(t) \/ ReleaseLegalHold(t)
  PROVE  IInv'
<1>1. TypeInv /\ TypeOK BY DEF IInv, TypeInv
<1>2. UNCHANGED <<row, file, job, fence, copy, handler, faults>>
  BY DEF CreateLegalHold, ReleaseLegalHold
<1>3. hold' \in [Tenants -> BOOLEAN]
  BY <1>1 DEF CreateLegalHold, ReleaseLegalHold, TypeOK
<1>4. \A u \in Tenants : hold'[u] => hold[u] \/ ~Fenced(u)
  BY <1>1 DEF CreateLegalHold, ReleaseLegalHold, Admits, TypeOK
<1>5. TypeInv'
  BY <1>1, <1>2, <1>3 DEF TypeInv, TypeOK, QueuedHasBudget
<1>6. FenceExcludes'
  BY <1>2, <1>4, ConstantsAssumption DEF IInv, FenceExcludes, Held, Owner, Reserved, Fenced
<1>7. GoneAccounted' /\ CompletedMeansRemoved' /\ RowsUnqueued' /\ LiveUnqueued'
  BY <1>2, Kept DEF IInv, CompletedMeansRemoved, Accounts
<1> QED
  BY <1>2, <1>5, <1>6, <1>7 DEF IInv, StagesFenced, StagesKnow

LEMMA CopyStep ==
  ASSUME IInv, NEW e \in Exports, NEW a \in Artifacts,
         BeginCopy(e, a) \/ FinishCopy(e, a) \/ StrandCopy(e, a)
  PROVE  IInv'
<1>1. TypeInv /\ TypeOK BY DEF IInv, TypeInv
<1>2. UNCHANGED <<row, file, job, fence, hold, handler>>
  BY DEF BeginCopy, FinishCopy, StrandCopy
<1>3. faults' \in 0..MaxFaults
  <2>1. faults \in 0..MaxFaults
    BY <1>1 DEF TypeOK
  <2>2. Fault => faults' \in 0..MaxFaults
    BY <1>1, FaultType
  <2> QED BY <2>1, <2>2 DEF BeginCopy, FinishCopy, StrandCopy
<1>4. PICK s \in {"none", "reading", "stranded"} :
        /\ copy' = [copy EXCEPT ![e][a] = s]
        /\ s # "none" => copy[e][a] # "none" \/ ~HasJob(PathOf[a])
  BY DEF BeginCopy, FinishCopy, StrandCopy
<1>5. /\ copy' \in [Exports -> [Artifacts -> {"none", "reading", "stranded"}]]
      /\ \A f \in Exports, b \in Artifacts :
           copy'[f][b] # "none" => copy[f][b] # "none" \/ ~HasJob(PathOf[b])
  <2>1. copy \in [Exports -> [Artifacts -> {"none", "reading", "stranded"}]]
    BY <1>1 DEF TypeOK
  <2>2. copy' \in [Exports -> [Artifacts -> {"none", "reading", "stranded"}]]
    BY ONLY <1>4, <2>1, e \in Exports, a \in Artifacts
  <2>3. \A f \in Exports, b \in Artifacts :
          copy'[f][b] = IF f = e /\ b = a THEN s ELSE copy[f][b]
    BY ONLY <1>4, <2>1, e \in Exports, a \in Artifacts
  <2> QED BY <1>4, <2>2, <2>3
<1>6. TypeInv'
  BY <1>1, <1>2, <1>3, <1>5 DEF TypeInv, TypeOK, QueuedHasBudget
<1>7. FenceExcludes'
  BY <1>2, <1>5 DEF IInv, FenceExcludes, Held, Reserved, HasJob, On
<1>8. GoneAccounted' /\ CompletedMeansRemoved' /\ RowsUnqueued' /\ LiveUnqueued'
  BY <1>2, Kept DEF IInv, CompletedMeansRemoved, Accounts
<1> QED
  BY <1>2, <1>6, <1>7, <1>8 DEF IInv, StagesFenced, StagesKnow

-----------------------------------------------------------------------------

LEMMA InitInv == Init => IInv
<1> SUFFICES ASSUME Init PROVE IInv
  OBVIOUS
<1>1. TypeInv BY InitType
<1>2. StagesFenced /\ StagesKnow
  BY DEF Init, StagesFenced, StagesKnow
<1>3. FenceExcludes /\ GoneAccounted /\ CompletedMeansRemoved
  BY DEF Init, FenceExcludes, GoneAccounted, CompletedMeansRemoved, NoJob
<1>4. RowsUnqueued /\ LiveUnqueued
  BY DEF Init, RowsUnqueued, LiveUnqueued, NoJob
<1> QED BY <1>1, <1>2, <1>3, <1>4 DEF IInv

LEMMA NextInv == IInv /\ [Next]_vars => IInv'
<1> SUFFICES ASSUME IInv, [Next]_vars PROVE IInv'
  OBVIOUS
<1>1. CASE UNCHANGED vars
  BY <1>1 DEF vars, IInv, TypeInv, TypeOK, QueuedHasBudget, StagesFenced, StagesKnow, FenceExcludes,
     Held, Reserved, GoneAccounted, Accounts, CompletedMeansRemoved, RowsUnqueued, LiveUnqueued, HasJob
<1>2. CASE Next
  BY <1>2, StoreStep, RetentionStep, ExpireStep, ClaimStep, BeginUnlinkStep, UnlinkStep,
     CompleteStep, SettleStep, FailStep, FaultStep, HoldStep, CopyStep DEF Next, Handle
<1> QED BY <1>1, <1>2

LEMMA Inductive == Spec => []IInv
<1>1. Init => IInv BY InitInv
<1>2. IInv /\ [Next]_vars => IInv' BY NextInv
<1> QED BY <1>1, <1>2, PTL DEF Spec

(* Job rows, fences, holds, reservations and handlers keep their types; in particular a
   claim never pushes attempt_count past max_attempts. *)
THEOREM TypeCorrect == Spec => []TypeOK
<1>1. IInv => TypeOK BY DEF IInv, TypeInv
<1> QED BY <1>1, Inductive, PTL

(* A file that is gone has a completed job or an open fence on its path, through every crash,
   lost answer and expired lease between fence, unlink, completion and settlement, even of two
   jobs at once; and boardreadyops_complete_artifact_deletion never reports a file that is
   still there. *)
THEOREM RecordsTrue == Spec => []RecordsMatchFiles
<1>1. GoneAccounted => RemovalAccounted
  BY DEF GoneAccounted, RemovalAccounted, Accounts
<1>2. IInv => RecordsMatchFiles BY <1>1 DEF IInv, RecordsMatchFiles
<1> QED BY <1>2, Inductive, PTL

(* The still-referenced checks of retention and of the result route, together with the one-way
   life of rows and jobs, keep the file of every row that was stored in time: no job exists on
   its path, so neither a completed one nor a fence accounts for a removal. *)
THEOREM StoredRowsKeepFiles == Spec => []RetainedFilesExist
<1>1. ASSUME IInv, NEW a \in Artifacts, row[a] = "live" PROVE file[PathOf[a]]
  <2>1. \A b \in On(PathOf[a]) : b \in Artifacts /\ job[b].status = "none"
    BY <1>1 DEF IInv, LiveUnqueued, HasJob, On
  <2>2. \A b \in On(PathOf[a]) : ~Accounts(b)
    BY <1>1, <2>1 DEF IInv, FenceExcludes, Accounts
  <2> QED BY <1>1, <2>2, ConstantsAssumption DEF IInv, GoneAccounted
<1>2. IInv => RetainedFilesExist BY <1>1 DEF RetainedFilesExist
<1> QED BY <1>2, Inductive, PTL

(* Only an authorized handler removes a file, and its fence excludes holds of its tenant and
   copies of the path. *)
LEMMA OnlyFencedRemoves ==
  ASSUME IInv, [Next]_vars, NEW p \in Paths, file[p], ~file'[p]
  PROVE  /\ ~Reserved(p)
         /\ \E a \in On(p) : fence[a] # None /\ ~Held(a) /\ ~hold'[Owner(a)]
<1>1. PICK w \in Workers, a \in Artifacts : Unlink(w, a)
  BY DEF Next, vars, Handle, StoreResult, ExpireRows, ExpireLease, Claim, BeginUnlink,
     CompleteDeletion, SettleUnlink, FailDeletion, CallFails, Crash, CreateLegalHold,
     ReleaseLegalHold, BeginCopy, FinishCopy, StrandCopy
<1>2. a \in On(p)
  BY <1>1 DEF Unlink, IInv, TypeInv, TypeOK, On
<1>3. fence[a] # None /\ UNCHANGED hold
  BY <1>1, <1>2, ConstantsAssumption DEF Unlink, IInv, StagesFenced
<1> QED BY <1>2, <1>3 DEF IInv, FenceExcludes, Held, On

(* A hold acknowledged by boardreadyops_guard_legal_hold_admission stops every job of its
   tenant, and a reservation made by boardreadyops_begin_export_object_copy every job of the
   path it reads, whichever tenants share it, until they are released. *)
THEOREM HoldsAndCopiesProtect == Spec => FilesSurvive
<1>1. IInv /\ [Next]_vars =>
        [\A p \in Paths : file[p] /\ ~file'[p] =>
           /\ ~Reserved(p)
           /\ \E a \in On(p) : fence[a] # None /\ ~Held(a) /\ ~hold'[Owner(a)]]_vars
  BY OnlyFencedRemoves
<1> QED BY <1>1, Inductive, PTL DEF Spec, FilesSurvive
=============================================================================
