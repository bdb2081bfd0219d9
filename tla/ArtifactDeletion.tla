-------------------------- MODULE ArtifactDeletion --------------------------
(***************************************************************************)
(* Deletion of artifact files: what queues it, the leased deletion jobs,   *)
(* the durable fence that brackets every unlink, the legal holds and the   *)
(* export copies that must exclude it (migrations 0030, 0104 and 0110,     *)
(* retention, the result route, the deletion worker, the export reader).   *)
(*                                                                         *)
(* A database function is one step.  The unlink happens between two of     *)
(* them and outside any transaction, so leases expire, holds are requested *)
(* and processes die in between.  An artifact has at most one job, but     *)
(* rows of several runs and tenants may name one storage path: files and   *)
(* reservations belong to the path, jobs and fences to the artifact.       *)
(***************************************************************************)
EXTENDS Naturals, FiniteSets

CONSTANTS Artifacts, Runs, Tenants, Paths, Workers,
          Exports,        \* data exports being prepared
          RunOf,          \* [Artifacts -> the run it is a result of]
          TenantOf,       \* [Runs -> the tenant that owns the run]
          PathOf,         \* [Artifacts -> the storage path its row names]
          Drivers,        \* storage drivers jobs are created with
          StorageRoots,   \* whether a worker process has a storage root
          MaxAttempts,    \* max_attempts of a job
          ClaimLimit,     \* jobs of one claim
          MaxFaults,      \* bound: crashes, lost calls and lost answers
          None

ASSUME ConstantsAssumption ==
  /\ RunOf \in [Artifacts -> Runs]
  /\ TenantOf \in [Runs -> Tenants]
  /\ PathOf \in [Artifacts -> Paths]
  /\ Drivers \subseteq {"local", "other"}
  /\ StorageRoots \subseteq BOOLEAN
  /\ MaxAttempts \in Nat \ {0}
  /\ ClaimLimit \in Nat \ {0}
  /\ MaxFaults \in Nat
  /\ None \notin Workers

VARIABLES row,       \* artifacts: absent, live, late (stored under a job), or gone
          file,      \* [Paths -> is the file on disk]
          job,       \* artifact_deletion_jobs, one row per artifact
          fence,     \* [Artifacts -> worker of the unsettled fence, or None]
          hold,      \* [Tenants -> is a legal hold active]
          copy,      \* [Exports -> [Artifacts -> reservation of the copy]]
          handler,   \* [Workers -> [Artifacts -> where the handler stands]]
          faults     \* crashes, lost calls and lost answers so far

vars == <<row, file, job, fence, hold, copy, handler, faults>>

-----------------------------------------------------------------------------

(* A job that was never created has status "none". *)
Job == [status : {"none", "available", "leased", "completed", "dead_letter"},
        driver : {"local", "other"}, attempts : 0..MaxAttempts,
        owner : Workers \cup {None}, expired : BOOLEAN]

NoJob == [status |-> "none", driver |-> "local", attempts |-> 0,
          owner |-> None, expired |-> FALSE]

(* A job off its lease, in state s with n attempts spent. *)
Unleased(r, s, n) == [status |-> s, driver |-> r.driver, attempts |-> n,
                      owner |-> None, expired |-> FALSE]

(* Where a handler of processArtifactDeletion stands: before the fence, between fence
   and unlink, after the unlink, after completion, in its catch block after an error
   that may or may not have removed the file, or after one that certainly did not. *)
Stages == {"none", "unsupported", "unrooted", "claimed", "authorized", "unlinked",
           "completed", "failing", "rejected", "failed"}

Init ==
  /\ row = [a \in Artifacts |-> "absent"]
  /\ file = [p \in Paths |-> TRUE]
  /\ job = [a \in Artifacts |-> NoJob]
  /\ fence = [a \in Artifacts |-> None]
  /\ hold = [t \in Tenants |-> FALSE]
  /\ copy = [e \in Exports |-> [a \in Artifacts |-> "none"]]
  /\ handler = [w \in Workers |-> [a \in Artifacts |-> "none"]]
  /\ faults = 0

Owner(a) == TenantOf[RunOf[a]]
On(p) == {a \in Artifacts : PathOf[a] = p}

Held(a) == hold[Owner(a)]
Fenced(t) == \E a \in Artifacts : Owner(a) = t /\ fence[a] # None
Reserved(p) == \E e \in Exports, a \in On(p) : copy[e][a] # "none"
HasJob(p) == \E a \in On(p) : job[a].status # "none"
Live(a) == row[a] \in {"live", "late"}
Leases(w, a) == job[a].status = "leased" /\ job[a].owner = w

At(w, a, stage) == handler' = [handler EXCEPT ![w][a] = stage]
Fault == faults < MaxFaults /\ faults' = faults + 1

(* The answer of a committed call arrives, or it is lost and the call rejects. *)
Answer(w, a, stage, onError) ==
  \/ At(w, a, stage) /\ UNCHANGED faults
  \/ At(w, a, onError) /\ Fault

-----------------------------------------------------------------------------
(* Rows and the creation of jobs. *)

Referenced_ByTenant(p, E) == \E b \in On(p) \ E : Live(b) /\ (\E a \in E : Owner(a) = Owner(b))

(* Some row outside E names the path. *)
Referenced(p, E) == \E b \in On(p) \ E : Live(b)

(* Jobs are created for the artifacts of Q, whose rows have just been deleted. *)
Queue(Q) ==
  \E d \in Drivers :
    job' = [a \in Artifacts |-> IF a \in Q
                                THEN Unleased([NoJob EXCEPT !.driver = d], "available", 0)
                                ELSE job[a]]

(* A result of run r whose artifacts are N.  Rows of the run that it does not repeat are
   deleted, under a hold too; their files are queued unless the result or a row of another
   run names the path.  Nobody looks for jobs on the paths of the new rows. *)
StoreResult(r, N) ==
  LET earlier == {a \in Artifacts : RunOf[a] = r /\ Live(a)}
      fresh == N \ earlier
      dropped == earlier \ N
  IN  /\ \A a \in fresh : RunOf[a] = r /\ row[a] = "absent"
      /\ fresh # {} \/ dropped # {}
      /\ row' = [a \in Artifacts |->
                   IF a \in dropped THEN "gone"
                   ELSE IF a \in fresh THEN IF HasJob(PathOf[a]) THEN "late" ELSE "live"
                   ELSE row[a]]
      /\ Queue({a \in dropped : /\ \A b \in N : PathOf[b] # PathOf[a]
                                /\ ~Referenced(PathOf[a], dropped)})
      /\ UNCHANGED <<file, fence, hold, copy, handler, faults>>

(* Retention deletes rows of a path whose own tenants are not under hold, and queues the
   file once, in the name of one of them, when no other row names the path. *)
ExpireRows(p, E) ==
  /\ E # {} /\ E \subseteq On(p)
  /\ \A a \in E : Live(a) /\ ~Held(a)
  /\ row' = [a \in Artifacts |-> IF a \in E THEN "gone" ELSE row[a]]
  /\ IF Referenced(p, E) THEN UNCHANGED job ELSE \E a \in E : Queue({a})
  /\ UNCHANGED <<file, fence, hold, copy, handler, faults>>

(* The lease. *)

ExpireLease(a) ==
  /\ job[a].status = "leased" /\ ~job[a].expired
  /\ job' = [job EXCEPT ![a].expired = TRUE]
  /\ UNCHANGED <<row, file, fence, hold, copy, handler, faults>>

Recoverable_AttemptsLeft(a) == /\ job[a].status = "leased" /\ job[a].expired
                               /\ fence[a] = None /\ job[a].attempts < MaxAttempts

(* An expired lease is taken back only from a job without an unsettled fence. *)
Recoverable(a) == /\ job[a].status = "leased" /\ job[a].expired
                  /\ fence[a] = None

Recovered(a) ==
  IF Recoverable(a)
  THEN Unleased(job[a], IF job[a].attempts >= MaxAttempts THEN "dead_letter" ELSE "available",
                job[a].attempts)
  ELSE job[a]

Claimable(a) == Recovered(a).status = "available" /\ fence[a] = None

Leased(w, a) == [status |-> "leased", driver |-> job[a].driver, attempts |-> job[a].attempts + 1,
                 owner |-> w, expired |-> FALSE]

(* The first decisions of the handler: driver, then storage root. *)
Started(a, rooted) == CASE job[a].driver # "local" -> "unsupported"
                        [] job[a].driver = "local" /\ ~rooted -> "unrooted"
                        [] OTHER -> "claimed"

(* One poll of a worker whose previous batch is settled: expired leases go back, then
   up to ClaimLimit of the jobs that are due are leased. *)
Claim(w, C) ==
  /\ \A a \in Artifacts : handler[w][a] = "none"
  /\ C \subseteq {a \in Artifacts : Claimable(a)}
  /\ Cardinality(C) <= ClaimLimit
  /\ C # {} \/ \E a \in Artifacts : Recoverable(a)
  /\ job' = [a \in Artifacts |-> IF a \in C THEN Leased(w, a) ELSE Recovered(a)]
  /\ \E rooted \in StorageRoots :
       handler' = [handler EXCEPT ![w] =
                     [a \in Artifacts |-> IF a \in C THEN Started(a, rooted) ELSE "none"]]
  /\ UNCHANGED <<row, file, fence, hold, copy, faults>>

-----------------------------------------------------------------------------
(* The handler of a claimed job. *)

Admissible(w, a) == /\ Leases(w, a) /\ ~job[a].expired
                    /\ fence[a] = None

Protected(a) == Held(a) \/ Reserved(PathOf[a])

(* boardreadyops_begin_artifact_unlink: a stale lease ends the handler, a protected
   artifact goes back to the queue without spending an attempt, and only otherwise is
   the fence recorded.  Only the job's own fence and tenant are looked at. *)
BeginUnlink(w, a) ==
  /\ handler[w][a] = "claimed"
  /\ \/ /\ ~Admissible(w, a)
        /\ Answer(w, a, "none", "failing")
        /\ UNCHANGED <<job, fence>>
     \/ /\ Admissible(w, a) /\ Protected(a)
        /\ job' = [job EXCEPT ![a] = Unleased(job[a], "available",
                      IF job[a].attempts > 0 THEN job[a].attempts - 1 ELSE 0)]
        /\ Answer(w, a, "none", "failing")
        /\ UNCHANGED fence
     \/ /\ Admissible(w, a) /\ ~Protected(a)
        /\ fence' = [fence EXCEPT ![a] = w]
        /\ Answer(w, a, "authorized", "failing")
        /\ UNCHANGED job
  /\ UNCHANGED <<row, file, hold, copy>>

Unlink_ErrorIgnored(w, a) ==
  /\ handler[w][a] = "authorized"
  /\ file' \in {file, [file EXCEPT ![PathOf[a]] = FALSE]} /\ At(w, a, "unlinked")
  /\ UNCHANGED <<row, job, fence, hold, copy, faults>>

(* deleteLocalArtifactObject removes the file or finds it missing, refuses before the
   unlink (path, root, parent or metadata), or fails in the unlink itself. *)
Unlink(w, a) ==
  /\ handler[w][a] = "authorized"
  /\ \/ file' = [file EXCEPT ![PathOf[a]] = FALSE] /\ At(w, a, "unlinked")
     \/ UNCHANGED file /\ At(w, a, "rejected")
     \/ file' \in {file, [file EXCEPT ![PathOf[a]] = FALSE]} /\ At(w, a, "failing")
  /\ UNCHANGED <<row, job, fence, hold, copy, faults>>

(* boardreadyops_complete_artifact_deletion compares status and owner, not the expiry. *)
CompleteDeletion(w, a) ==
  /\ handler[w][a] = "unlinked"
  /\ IF Leases(w, a)
     THEN /\ job' = [job EXCEPT ![a] = Unleased(job[a], "completed", job[a].attempts)]
          /\ Answer(w, a, "completed", "failing")
     ELSE UNCHANGED job /\ Answer(w, a, "none", "failing")
  /\ UNCHANGED <<row, file, fence, hold, copy>>

(* A fence is settled by its own worker after the matching transition was committed. *)
Settleable(w, a) ==
  /\ fence[a] = w
  /\ \/ handler[w][a] = "completed" /\ job[a].status = "completed"
     \/ handler[w][a] = "failed" /\ job[a].status \in {"available", "dead_letter"}

SettleUnlink(w, a) ==
  /\ handler[w][a] \in {"completed", "failed"}
  /\ fence' = IF Settleable(w, a) THEN [fence EXCEPT ![a] = None] ELSE fence
  /\ Answer(w, a, "none", IF handler[w][a] = "completed" THEN "failing" ELSE "none")
  /\ UNCHANGED <<row, file, job, hold, copy>>

Retryable == [unsupported |-> {FALSE}, unrooted |-> {TRUE},
              failing |-> {TRUE}, rejected |-> BOOLEAN]

Failed(a, retryable) ==
  Unleased(job[a], IF retryable /\ job[a].attempts < MaxAttempts THEN "available" ELSE "dead_letter",
           job[a].attempts)

(* Only a rejection before the unlink, committed as a failure, is followed by a settlement. *)
AfterFailure(stage) == IF stage = "rejected" THEN "failed" ELSE "none"

(* boardreadyops_fail_artifact_deletion, from the first checks and from the catch block. *)
FailDeletion(w, a) ==
  /\ handler[w][a] \in DOMAIN Retryable
  /\ IF Leases(w, a)
     THEN /\ \E retryable \in Retryable[handler[w][a]] :
               job' = [job EXCEPT ![a] = Failed(a, retryable)]
          /\ Answer(w, a, AfterFailure(handler[w][a]), "none")
     ELSE UNCHANGED job /\ Answer(w, a, "none", "none")
  /\ UNCHANGED <<row, file, fence, hold, copy>>

(* A call that never reaches the database rejects: inside the try block the handler
   goes on to its catch block, anywhere else it ends. *)
CallFails(w, a) ==
  /\ handler[w][a] \notin {"none", "authorized"}
  /\ At(w, a, IF handler[w][a] \in {"claimed", "unlinked", "completed"} THEN "failing" ELSE "none")
  /\ Fault
  /\ UNCHANGED <<row, file, job, fence, hold, copy>>

Crash(w) ==
  /\ \E a \in Artifacts : handler[w][a] # "none"
  /\ handler' = [handler EXCEPT ![w] = [a \in Artifacts |-> "none"]]
  /\ Fault
  /\ UNCHANGED <<row, file, job, fence, hold, copy>>

-----------------------------------------------------------------------------
(* Legal holds and export copies. *)

Admits_Always(t) == TRUE

(* The trigger of legal_holds refuses an active hold while a fence of its tenant is open. *)
Admits(t) == ~Fenced(t)

CreateLegalHold(t) ==
  /\ ~hold[t]
  /\ Admits(t)
  /\ hold' = [hold EXCEPT ![t] = TRUE]
  /\ UNCHANGED <<row, file, job, fence, copy, handler, faults>>

ReleaseLegalHold(t) ==
  /\ hold[t]
  /\ hold' = [hold EXCEPT ![t] = FALSE]
  /\ UNCHANGED <<row, file, job, fence, copy, handler, faults>>

(* An export copies a retained artifact, on whose path there is no job at all, and reserves
   the path before it reads. *)
BeginCopy(e, a) ==
  /\ copy[e][a] = "none"
  /\ Live(a) /\ ~HasJob(PathOf[a])
  /\ copy' = [copy EXCEPT ![e][a] = "reading"]
  /\ UNCHANGED <<row, file, job, fence, hold, handler, faults>>

(* The read has ended, whatever it returned, and the reservation is released. *)
FinishCopy(e, a) ==
  /\ copy[e][a] = "reading"
  /\ copy' = [copy EXCEPT ![e][a] = "none"]
  /\ UNCHANGED <<row, file, job, fence, hold, handler, faults>>

(* The reader dies or its release is lost; the reservation stays. *)
StrandCopy(e, a) ==
  /\ copy[e][a] = "reading"
  /\ copy' = [copy EXCEPT ![e][a] = "stranded"]
  /\ Fault
  /\ UNCHANGED <<row, file, job, fence, hold, handler>>

-----------------------------------------------------------------------------

Handle(w, a) == BeginUnlink(w, a) \/ Unlink(w, a) \/ CompleteDeletion(w, a)
                \/ SettleUnlink(w, a) \/ FailDeletion(w, a)

Next ==
  \/ \E r \in Runs : \E N \in SUBSET Artifacts : StoreResult(r, N)
  \/ \E p \in Paths : \E E \in SUBSET On(p) : ExpireRows(p, E)
  \/ \E a \in Artifacts : ExpireLease(a)
  \/ \E w \in Workers : \E C \in SUBSET Artifacts : Claim(w, C)
  \/ \E w \in Workers, a \in Artifacts : Handle(w, a)
  \/ \E w \in Workers, a \in Artifacts : CallFails(w, a)
  \/ \E w \in Workers : Crash(w)
  \/ \E t \in Tenants : CreateLegalHold(t) \/ ReleaseLegalHold(t)
  \/ \E e \in Exports, a \in Artifacts : BeginCopy(e, a) \/ FinishCopy(e, a) \/ StrandCopy(e, a)

Spec == Init /\ [][Next]_vars

(* Every handler's next step is taken, and a job that stays due is claimed: candidates are
   ordered by the time they became due.  A lease nobody settles expires. *)
FairSpec ==
  /\ Spec
  /\ \A a \in Artifacts : WF_vars(ExpireLease(a))
  /\ \A w \in Workers, a \in Artifacts : WF_vars(Handle(w, a))
  /\ \A a \in Artifacts :
       WF_vars(\E w \in Workers : \E C \in SUBSET Artifacts :
                 (a \in C \/ Recoverable(a)) /\ Claim(w, C))

-----------------------------------------------------------------------------

TypeOK ==
  /\ row \in [Artifacts -> {"absent", "live", "late", "gone"}]
  /\ file \in [Paths -> BOOLEAN]
  /\ job \in [Artifacts -> Job]
  /\ fence \in [Artifacts -> Workers \cup {None}]
  /\ hold \in [Tenants -> BOOLEAN]
  /\ copy \in [Exports -> [Artifacts -> {"none", "reading", "stranded"}]]
  /\ handler \in [Workers -> [Artifacts -> Stages]]
  /\ faults \in 0..MaxFaults

(* A file is removed only under the fence of a job whose tenant is under no acknowledged
   legal hold, and while no export has a reservation on the path, whoever's artifact it is
   for; although holds and copies are asked for while unlinks are under way, leases expire
   and workers die between the fence and its settlement. *)
FilesSurvive ==
  [][\A p \in Paths : file[p] /\ ~file'[p] =>
       /\ ~Reserved(p)
       /\ \E a \in On(p) : fence[a] # None /\ ~Held(a) /\ ~hold'[Owner(a)]]_vars

(* A row that was stored while no deletion of its path was queued finds its file for as long
   as it exists: neither retention nor the results of other runs and other tenants, which
   name the same path, nor the jobs these leave behind take it away. *)
RetainedFilesExist ==
  \A a \in Artifacts : row[a] = "live" => file[PathOf[a]]

(* A removed file is always accounted for: a job of its path is completed, or a fence is
   still there to say that the outcome needs an operator. *)
RemovalAccounted ==
  \A p \in Paths : ~file[p] =>
    \E a \in On(p) : job[a].status = "completed" \/ fence[a] # None

(* A completed job removed its file: no retry, stale completion or reclaimed lease
   reports a deletion that did not happen. *)
CompletedMeansRemoved ==
  \A a \in Artifacts : job[a].status = "completed" => ~file[PathOf[a]]

(* The records tell the truth about the files, in both directions, also when several jobs
   of one path are under way at once. *)
RecordsMatchFiles == RemovalAccounted /\ CompletedMeansRemoved

Orphaned(a) == fence[a] # None /\ handler[fence[a]][a] = "none"

(* A queued job that is not protected for ever is completed, parked as a dead letter, or
   left with a fence that nobody holds, which is what the operator is told to look for. *)
DeletionsSettle ==
  \A a \in Artifacts :
    <>[]~Protected(a) =>
      (job[a].status = "available"
         ~> (job[a].status \in {"completed", "dead_letter"} \/ Orphaned(a)))
=============================================================================
