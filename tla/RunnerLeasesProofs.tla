------------------------ MODULE RunnerLeasesProofs ------------------------
(***************************************************************************)
(* Proofs about the lease protocol, for any number of claims, requests and *)
(* results and any lease times: a running run always has exactly one       *)
(* holder, a finished run is left alone, and a verdict ends the lease of   *)
(* the attempt it comes from; with that, it implements RunCustody.         *)
(*                                                                         *)
(* Types, RunningIsHeld and OneHolder are not inductive alone.  That a     *)
(* decided run accepts nothing more needs DecidedHasDigest; that a waiting *)
(* run is decided only by the attempt that gave it back needs GivenBack.   *)
(***************************************************************************)
EXTENDS RunnerLeases, TLAPS

AttemptStatus == LiveAttempt \cup OverAttempt \cup {"none"}
RunStatus == LiveRun \cup {"superseded"} \cup Decided

DecidedHasDigest == /\ run.status \in Decided <=> run.digest # None
                    /\ run.status # "dispatched"

(* How the current attempt of a waiting run ended. *)
GivenBack ==
  run.status = "queued" /\ current # 0 =>
    \/ attempt[current].status = "stale"
    \/ attempt[current].status = "failed" /\ lease[current].status = "relinquished"

IInv == TypeOK /\ RunningIsHeld /\ OneHolder /\ DecidedHasDigest /\ GivenBack

-----------------------------------------------------------------------------
(* The statuses of the protocol. *)

LEMMA StatusKinds ==
  /\ \A s \in LiveAttempt : s \notin OverAttempt /\ s # "none"
  /\ \A s \in Decided : s \in OverAttempt /\ s \notin LiveAttempt /\ s \notin LiveRun /\ s # "superseded"
  /\ "superseded" \notin LiveRun
BY DEF LiveAttempt, OverAttempt, Decided, LiveRun

(* A lease row made of parts that have their types. *)
LEMMA LeaseRow ==
  ASSUME NEW s \in {"none", "active", "expired", "relinquished", "completed"},
         NEW g \in DOMAIN StageRank, NEW l \in 0..LeaseTicks, NEW m \in 0..MaxTicks,
         NEW a \in RunStatus, NEW b \in Nat, NEW c \in AttemptStatus, NEW d \in Nat
  PROVE  [status |-> s, stage |-> g, left |-> l, most |-> m, seen |-> <<a, b, c, d>>] \in Lease
BY DEF Lease, Seen, RunStatus, AttemptStatus

LEMMA LeaseRowSeen ==
  ASSUME NEW s \in {"none", "active", "expired", "relinquished", "completed"},
         NEW g \in DOMAIN StageRank, NEW l \in 0..LeaseTicks, NEW m \in 0..MaxTicks, NEW x \in Seen
  PROVE  [status |-> s, stage |-> g, left |-> l, most |-> m, seen |-> x] \in Lease
BY DEF Lease

LEMMA LeaseParts ==
  ASSUME NEW x \in Lease
  PROVE  /\ x.status \in {"none", "active", "expired", "relinquished", "completed"}
         /\ x.stage \in DOMAIN StageRank /\ x.left \in 0..LeaseTicks /\ x.most \in 0..MaxTicks
         /\ x.seen \in Seen
BY DEF Lease

LEMMA StageTypes ==
  /\ DOMAIN StageRank = {"claimed", "uploading_artifacts", "reporting"}
  /\ "claimed" \in DOMAIN StageRank /\ "reporting" \in DOMAIN StageRank
  /\ \A g \in DOMAIN StageRank : (IF g = "claimed" THEN "in_progress" ELSE g) \in LiveAttempt
BY DEF StageRank, LiveAttempt

LEMMA InitIInv == Init => IInv
<1> SUFFICES ASSUME Init PROVE IInv
  OBVIOUS
<1> USE ConstantsAssumption
<1>1. NoLease \in Lease
  <2>1. 0 \in 0..LeaseTicks /\ 0 \in 0..MaxTicks
    OBVIOUS
  <2>2. "queued" \in RunStatus /\ "none" \in AttemptStatus
    BY DEF RunStatus, AttemptStatus, LiveRun
  <2> QED
    BY <2>1, <2>2, LeaseRow, StageTypes DEF NoLease
<1>2. TypeOK
  <2>1. run \in [status : RunStatus, version : Nat, digest : Results \cup {None}]
    BY DEF Init, RunStatus, LiveRun
  <2>2. current \in 0..MaxAttempts
    BY DEF Init
  <2>3. attempt \in [Attempts -> [status : AttemptStatus, version : Nat]]
    BY DEF Init, AttemptStatus
  <2>4. lease \in [Attempts -> Lease]
    BY <1>1 DEF Init
  <2>5. handler \in [Handlers -> [attempt : Attempts, value : Results] \cup {None}]
    BY DEF Init
  <2>6. \A n \in Attempts : lease[n].left <= lease[n].most
    BY DEF Init, NoLease
  <2> QED
    BY <2>1, <2>2, <2>3, <2>4, <2>5, <2>6 DEF TypeOK, RunStatus, AttemptStatus
<1>3. RunningIsHeld /\ GivenBack
  BY DEF Init, RunningIsHeld, GivenBack
<1>4. OneHolder
  BY StatusKinds DEF Init, OneHolder, NoLease
<1>5. DecidedHasDigest
  BY StatusKinds DEF Init, DecidedHasDigest, Decided
<1> QED
  BY <1>2, <1>3, <1>4, <1>5 DEF IInv

-----------------------------------------------------------------------------
(* The parts of the type invariant, and how to put them together again. *)

LEMMA TypeParts ==
  ASSUME TypeOK
  PROVE  /\ run \in [status : RunStatus, version : Nat, digest : Results \cup {None}]
         /\ run.status \in RunStatus /\ run.version \in Nat /\ run.digest \in Results \cup {None}
         /\ current \in 0..MaxAttempts
         /\ attempt \in [Attempts -> [status : AttemptStatus, version : Nat]]
         /\ \A n \in Attempts : attempt[n].status \in AttemptStatus /\ attempt[n].version \in Nat
         /\ lease \in [Attempts -> Lease]
         /\ \A n \in Attempts : lease[n] \in Lease
         /\ handler \in [Handlers -> [attempt : Attempts, value : Results] \cup {None}]
         /\ \A n \in Attempts : lease[n].left <= lease[n].most
         /\ Attempts = 1..MaxAttempts /\ (current # 0 => current \in Attempts)
BY ConstantsAssumption DEF TypeOK, RunStatus, AttemptStatus, Attempts

(* A lease is in use only as the lease of the current attempt of a running or superseded run. *)
LEMMA ActiveLease ==
  ASSUME IInv, NEW n \in Attempts, lease[n].status = "active"
  PROVE  n = current /\ current # 0 /\ run.status \notin {"queued"} \cup Decided
<1>1. n = current
  BY DEF IInv, OneHolder
<1>2. current # 0
  BY <1>1, ConstantsAssumption DEF Attempts
<1> QED
  BY <1>1, <1>2 DEF IInv, OneHolder

(* A run that is not running satisfies RunningIsHeld, one that is not queued GivenBack. *)
LEMMA ClaimIInv == IInv /\ Claim => IInv'
<1> SUFFICES ASSUME IInv, Claim PROVE IInv'
  OBVIOUS
<1> DEFINE n == current + 1
           version == run.version + 1
<1>1. TypeOK
  BY DEF IInv
<1>2. n \in Attempts /\ n \in 0..MaxAttempts /\ n # 0
  BY <1>1, TypeParts, ConstantsAssumption DEF Claim
<1>3. version \in Nat
  BY <1>1, TypeParts
<1>4. /\ run' = [status |-> "running", version |-> version, digest |-> run.digest]
      /\ current' = n
      /\ attempt' = [attempt EXCEPT ![n] = [status |-> "in_progress", version |-> 0]]
      /\ lease' = [lease EXCEPT ![n] = [status |-> "active", stage |-> "claimed",
                                        left |-> LeaseTicks, most |-> MaxTicks,
                                        seen |-> <<"running", version, "in_progress", 0>>]]
      /\ handler' = handler
      /\ Claimable
  BY DEF Claim
<1> HIDE DEF n, version
<1>5. [status |-> "active", stage |-> "claimed", left |-> LeaseTicks, most |-> MaxTicks,
       seen |-> <<"running", version, "in_progress", 0>>] \in Lease
  <2>1. LeaseTicks \in 0..LeaseTicks /\ MaxTicks \in 0..MaxTicks
    BY ConstantsAssumption
  <2>2. "running" \in RunStatus /\ "in_progress" \in AttemptStatus
    BY DEF RunStatus, AttemptStatus, LiveRun, LiveAttempt
  <2> QED
    BY <1>3, <2>1, <2>2, LeaseRow, StageTypes
<1>6. /\ attempt'[n] = [status |-> "in_progress", version |-> 0]
      /\ lease'[n] = [status |-> "active", stage |-> "claimed", left |-> LeaseTicks, most |-> MaxTicks,
                     seen |-> <<"running", version, "in_progress", 0>>]
      /\ \A m \in Attempts : m # n => attempt'[m] = attempt[m] /\ lease'[m] = lease[m]
  BY <1>1, <1>2, <1>4, TypeParts
<1>7. TypeOK'
  <2>1. run' \in [status : RunStatus, version : Nat, digest : Results \cup {None}]
    BY <1>1, <1>3, <1>4, TypeParts DEF RunStatus, LiveRun
  <2>2. attempt' \in [Attempts -> [status : AttemptStatus, version : Nat]]
    BY <1>1, <1>2, <1>4, TypeParts DEF AttemptStatus, LiveAttempt
  <2>3. lease' \in [Attempts -> Lease]
    BY <1>1, <1>2, <1>4, <1>5, TypeParts
  <2>4. \A m \in Attempts : lease'[m].left <= lease'[m].most
    BY <1>1, <1>6, TypeParts, ConstantsAssumption
  <2> QED
    BY <1>1, <1>2, <1>4, <2>1, <2>2, <2>3, <2>4, TypeParts DEF TypeOK, RunStatus, AttemptStatus
<1>8. RunningIsHeld'
  BY <1>2, <1>4, <1>6 DEF RunningIsHeld, Rows, LiveAttempt
<1>9. OneHolder'
  <2>1. ASSUME NEW m \in Attempts, m # n
        PROVE  lease'[m].status # "active" /\ attempt'[m].status \notin LiveAttempt
    <3>1. CASE m = current
      BY <1>4, <1>6, <2>1, <3>1, StatusKinds, ConstantsAssumption
         DEF Claimable, IInv, OneHolder, RunningIsHeld, Attempts
    <3>2. CASE m # current
      BY <1>6, <2>1, <3>2 DEF IInv, OneHolder
    <3> QED
      BY <3>1, <3>2
  <2>2. run'.status = "running" /\ run'.status \notin {"queued"} \cup Decided
    BY <1>4 DEF Decided
  <2> QED
    BY <1>4, <2>1, <2>2 DEF OneHolder
<1>10. DecidedHasDigest'
  BY <1>4 DEF IInv, DecidedHasDigest, Claimable, Decided
<1>11. GivenBack'
  BY <1>4 DEF GivenBack
<1> QED
  BY <1>7, <1>8, <1>9, <1>10, <1>11 DEF IInv

(* Giving the run of a live lease back keeps everything. *)
LEMMA RequeueIInv ==
  ASSUME IInv, NEW n \in Attempts, Endable(n),
         NEW a \in {"failed", "stale"}, NEW s \in {"expired", "relinquished"},
         a = "failed" => s = "relinquished",
         Requeue(n, a, s), current' = current, handler' = handler
  PROVE  IInv'
<1> DEFINE next == <<"queued", run.version + 1, a, attempt[n].version + 1>>
<1>1. TypeOK
  BY DEF IInv
<1>2. n = current
  BY DEF Endable, Bound
<1>3. run.version + 1 \in Nat /\ attempt[n].version + 1 \in Nat
  BY <1>1, TypeParts
<1>4. /\ run' = [status |-> "queued", version |-> run.version + 1, digest |-> run.digest]
      /\ attempt' = [attempt EXCEPT ![n] = [status |-> a, version |-> attempt[n].version + 1]]
      /\ lease' = [lease EXCEPT ![n] = Closed(s, lease[n].stage, next)]
  BY DEF Requeue
<1>5. Closed(s, lease[n].stage, next) \in Lease
  <2>1. 0 \in 0..LeaseTicks /\ 0 \in 0..MaxTicks
    BY ConstantsAssumption
  <2>2. "queued" \in RunStatus /\ a \in AttemptStatus
    BY DEF RunStatus, AttemptStatus, LiveRun, OverAttempt
  <2>3. lease[n].stage \in DOMAIN StageRank
    BY <1>1, TypeParts, LeaseParts
  <2> QED
    BY <1>3, <2>1, <2>2, <2>3, LeaseRow DEF Closed
<1>6. /\ attempt'[n].status = a /\ lease'[n].status = s
      /\ lease'[n].left = 0 /\ lease'[n].most = 0
      /\ \A m \in Attempts : m # n => attempt'[m] = attempt[m] /\ lease'[m] = lease[m]
  BY <1>1, <1>4, TypeParts DEF Closed
<1> HIDE DEF next
<1>7. TypeOK'
  <2>1. run' \in [status : RunStatus, version : Nat, digest : Results \cup {None}]
    BY <1>1, <1>3, <1>4, TypeParts DEF RunStatus, LiveRun
  <2>2. attempt' \in [Attempts -> [status : AttemptStatus, version : Nat]]
    BY <1>1, <1>3, <1>4, TypeParts DEF AttemptStatus, OverAttempt
  <2>3. lease' \in [Attempts -> Lease]
    BY <1>1, <1>4, <1>5, TypeParts
  <2>4. \A m \in Attempts : lease'[m].left <= lease'[m].most
    BY <1>1, <1>6, TypeParts
  <2> QED
    BY <1>1, <2>1, <2>2, <2>3, <2>4, TypeParts DEF TypeOK, RunStatus, AttemptStatus
<1>8. RunningIsHeld'
  BY <1>4 DEF RunningIsHeld
<1>9. OneHolder'
  <2>1. a \notin LiveAttempt
    BY DEF LiveAttempt
  <2> QED
    BY <1>2, <1>6, <2>1 DEF IInv, OneHolder
<1>10. DecidedHasDigest'
  BY <1>4 DEF IInv, DecidedHasDigest, Endable, Decided
<1>11. GivenBack'
  BY <1>2, <1>6 DEF GivenBack
<1> QED
  BY <1>7, <1>8, <1>9, <1>10, <1>11 DEF IInv

LEMMA ExpireIInv == ASSUME NEW n \in Attempts PROVE IInv /\ Expire(n) => IInv'
<1> SUFFICES ASSUME IInv, Expire(n) PROVE IInv'
  OBVIOUS
<1>1. CASE Endable(n)
  BY <1>1, RequeueIInv DEF Expire
<1>2. CASE ~Endable(n)
  <2>1. TypeOK
    BY DEF IInv
  <2>2. n = current /\ current # 0 /\ run.status # "running"
    BY <1>2, ActiveLease DEF Expire, IInv, RunningIsHeld, Endable, Bound
  <2>3. run.status \notin {"queued"} \cup Decided
    BY ActiveLease DEF Expire
  <2>4. /\ lease' = [lease EXCEPT ![n] = Closed("expired", lease[n].stage, lease[n].seen)]
        /\ run' = run /\ attempt' = attempt /\ current' = current /\ handler' = handler
    BY <1>2 DEF Expire
  <2>5. Closed("expired", lease[n].stage, lease[n].seen) \in Lease
    <3>1. 0 \in 0..LeaseTicks /\ 0 \in 0..MaxTicks
      BY ConstantsAssumption
    <3>2. lease[n].stage \in DOMAIN StageRank /\ lease[n].seen \in Seen
      BY <2>1, TypeParts, LeaseParts
    <3> QED
      BY <3>1, <3>2, LeaseRowSeen DEF Closed
  <2>6. /\ lease'[n].status = "expired" /\ lease'[n].left = 0 /\ lease'[n].most = 0
        /\ \A m \in Attempts : m # n => lease'[m] = lease[m]
    BY <2>1, <2>4, TypeParts DEF Closed
  <2>7. TypeOK'
    <3>1. lease' \in [Attempts -> Lease]
      BY <2>1, <2>4, <2>5, TypeParts
    <3>2. \A m \in Attempts : lease'[m].left <= lease'[m].most
      BY <2>1, <2>6, TypeParts
    <3> QED
      BY <2>1, <2>4, <3>1, <3>2, TypeParts DEF TypeOK, RunStatus, AttemptStatus
  <2>8. RunningIsHeld'
    BY <2>2, <2>4 DEF RunningIsHeld
  <2>9. OneHolder'
    BY <2>2, <2>3, <2>4, <2>6 DEF IInv, OneHolder
  <2>10. DecidedHasDigest'
    BY <2>4 DEF IInv, DecidedHasDigest
  <2>11. GivenBack'
    BY <2>3, <2>4 DEF GivenBack
  <2> QED
    BY <2>7, <2>8, <2>9, <2>10, <2>11 DEF IInv
<1> QED
  BY <1>1, <1>2

LEMMA RelinquishIInv ==
  ASSUME NEW n \in Attempts, NEW jobError \in BOOLEAN
  PROVE  IInv /\ Relinquish(n, jobError) => IInv'
<1> SUFFICES ASSUME IInv, Relinquish(n, jobError) PROVE IInv'
  OBVIOUS
<1>1. Endable(n) /\ current' = current /\ handler' = handler
  BY DEF Relinquish
<1>2. CASE jobError
  <2>1. Requeue(n, "failed", "relinquished")
    BY <1>2 DEF Relinquish
  <2> QED
    BY <1>1, <2>1, RequeueIInv
<1>3. CASE ~jobError
  <2>1. Requeue(n, "stale", "relinquished")
    BY <1>3 DEF Relinquish
  <2> QED
    BY <1>1, <2>1, RequeueIInv
<1> QED
  BY <1>2, <1>3

LEMMA HeartbeatIInv ==
  ASSUME NEW n \in Attempts, NEW stage \in DOMAIN StageRank
  PROVE  IInv /\ Heartbeat(n, stage) => IInv'
<1> SUFFICES ASSUME IInv, Heartbeat(n, stage) PROVE IInv'
  OBVIOUS
<1> DEFINE next == IF StageRank[stage] >= StageRank[lease[n].stage] THEN stage ELSE lease[n].stage
           status == IF next = "claimed" THEN "in_progress" ELSE next
           version == Moved(attempt[n], status)
           seen == <<lease[n].seen[1], lease[n].seen[2], status, version>>
<1>1. TypeOK
  BY DEF IInv
<1>2. n = current /\ current # 0 /\ run.status \notin {"queued"} \cup Decided /\ lease[n].seen = Rows(n)
  BY ActiveLease DEF Heartbeat, Usable, Bound
<1>3. /\ attempt' = [attempt EXCEPT ![n] = [status |-> status, version |-> version]]
      /\ lease' = [lease EXCEPT ![n] = [status |-> "active", stage |-> next, left |-> Renewed(lease[n].most),
                                        most |-> lease[n].most, seen |-> seen]]
      /\ run' = run /\ current' = current /\ handler' = handler
  BY DEF Heartbeat, SeenAfterHeartbeat
<1>4. lease[n].stage \in DOMAIN StageRank /\ lease[n].most \in 0..MaxTicks
  BY <1>1, TypeParts, LeaseParts
<1>5. next \in DOMAIN StageRank
  BY <1>4
<1>6. status \in LiveAttempt
  BY <1>5, StageTypes
<1>7. version \in Nat
  BY <1>1, TypeParts DEF Moved
<1>8. seen = <<run.status, run.version, status, version>>
  BY <1>2 DEF Rows
<1> HIDE DEF next, status, version, seen
<1>9. Renewed(lease[n].most) \in 0..LeaseTicks /\ Renewed(lease[n].most) <= lease[n].most
  BY <1>4, ConstantsAssumption DEF Renewed
<1>10. [status |-> "active", stage |-> next, left |-> Renewed(lease[n].most),
        most |-> lease[n].most, seen |-> seen] \in Lease
  <2>1. status \in AttemptStatus
    BY <1>6 DEF AttemptStatus
  <2>2. run.status \in RunStatus /\ run.version \in Nat
    BY <1>1, TypeParts
  <2> QED
    BY <1>4, <1>5, <1>7, <1>8, <1>9, <2>1, <2>2, LeaseRow
<1>11. /\ attempt'[n] = [status |-> status, version |-> version]
       /\ lease'[n] = [status |-> "active", stage |-> next, left |-> Renewed(lease[n].most),
                       most |-> lease[n].most, seen |-> seen]
       /\ \A m \in Attempts : m # n => attempt'[m] = attempt[m] /\ lease'[m] = lease[m]
  BY <1>1, <1>3, TypeParts
<1>12. TypeOK'
  <2>1. attempt' \in [Attempts -> [status : AttemptStatus, version : Nat]]
    BY <1>1, <1>3, <1>6, <1>7, TypeParts DEF AttemptStatus
  <2>2. lease' \in [Attempts -> Lease]
    BY <1>1, <1>3, <1>10, TypeParts
  <2>3. \A m \in Attempts : lease'[m].left <= lease'[m].most
    BY <1>1, <1>9, <1>11, TypeParts
  <2> QED
    BY <1>1, <1>3, <2>1, <2>2, <2>3, TypeParts DEF TypeOK, RunStatus, AttemptStatus
<1>13. RunningIsHeld'
  BY <1>2, <1>3, <1>6, <1>8, <1>11 DEF RunningIsHeld, Rows
<1>14. OneHolder'
  BY <1>2, <1>3, <1>11 DEF IInv, OneHolder
<1>15. DecidedHasDigest'
  BY <1>3 DEF IInv, DecidedHasDigest
<1>16. GivenBack'
  BY <1>2, <1>3 DEF GivenBack
<1> QED
  BY <1>12, <1>13, <1>14, <1>15, <1>16 DEF IInv

(* Requests that only touch the handlers. *)
LEMMA HandlerIInv ==
  ASSUME IInv, UNCHANGED <<run, current, attempt, lease>>,
         handler' \in [Handlers -> [attempt : Attempts, value : Results] \cup {None}]
  PROVE  IInv'
<1>1. TypeOK'
  BY DEF IInv, TypeOK
<1>2. RunningIsHeld' /\ OneHolder' /\ DecidedHasDigest' /\ GivenBack'
  BY DEF IInv, RunningIsHeld, OneHolder, DecidedHasDigest, GivenBack, Rows
<1> QED
  BY <1>1, <1>2 DEF IInv

LEMMA AuthorizeIInv ==
  ASSUME NEW h \in Handlers, NEW n \in Attempts, NEW r \in Results
  PROVE  IInv /\ Authorize(h, n, r) => IInv'
<1> SUFFICES ASSUME IInv, Authorize(h, n, r) PROVE IInv'
  OBVIOUS
<1>1. handler' \in [Handlers -> [attempt : Attempts, value : Results] \cup {None}]
  BY TypeParts DEF IInv, Authorize
<1> QED
  BY <1>1, HandlerIInv DEF Authorize

LEMMA DropIInv == ASSUME NEW h \in Handlers PROVE IInv /\ Drop(h) => IInv'
<1> SUFFICES ASSUME IInv, Drop(h) PROVE IInv'
  OBVIOUS
<1>1. handler' \in [Handlers -> [attempt : Attempts, value : Results] \cup {None}]
  BY TypeParts DEF IInv, Drop
<1> QED
  BY <1>1, HandlerIInv DEF Drop

LEMMA SupersedeIInv == IInv /\ Supersede => IInv'
<1> SUFFICES ASSUME IInv, Supersede PROVE IInv'
  OBVIOUS
<1>1. TypeOK
  BY DEF IInv
<1>2. /\ run' = [status |-> "superseded", version |-> run.version + 1, digest |-> run.digest]
      /\ current' = current /\ lease' = lease /\ handler' = handler
      /\ run.status \in LiveRun
  BY DEF Supersede
<1>3. \A n \in Attempts : attempt'[n].status \notin LiveAttempt
  BY StatusKinds DEF Supersede, OverAttempt
<1>4. TypeOK'
  <2>1. run' \in [status : RunStatus, version : Nat, digest : Results \cup {None}]
    BY <1>1, <1>2, TypeParts DEF RunStatus
  <2>2. attempt' \in [Attempts -> [status : AttemptStatus, version : Nat]]
    BY <1>1, TypeParts DEF Supersede, AttemptStatus, OverAttempt
  <2> QED
    BY <1>1, <1>2, <2>1, <2>2, TypeParts DEF TypeOK, RunStatus, AttemptStatus
<1>5. RunningIsHeld' /\ GivenBack'
  BY <1>2 DEF RunningIsHeld, GivenBack
<1>6. OneHolder'
  BY <1>2, <1>3 DEF IInv, OneHolder, Decided
<1>7. DecidedHasDigest'
  BY <1>2, StatusKinds DEF IInv, DecidedHasDigest
<1> QED
  BY <1>4, <1>5, <1>6, <1>7 DEF IInv

LEMMA TickIInv == IInv /\ Tick => IInv'
<1> SUFFICES ASSUME IInv, Tick PROVE IInv'
  OBVIOUS
<1>1. TypeOK
  BY DEF IInv
<1>2. run' = run /\ current' = current /\ attempt' = attempt /\ handler' = handler
  BY DEF Tick
<1>3. ASSUME NEW n \in Attempts
      PROVE  /\ lease'[n] \in Lease /\ lease'[n].left <= lease'[n].most
             /\ lease'[n].status = lease[n].status /\ lease'[n].seen = lease[n].seen
  <2>1. lease[n] \in Lease /\ lease[n].left <= lease[n].most
    BY <1>1, TypeParts
  <2>2. CASE lease[n].status # "active"
    BY <2>1, <2>2 DEF Tick
  <2>3. CASE lease[n].status = "active"
    <3>1. lease'[n] = [status |-> lease[n].status, stage |-> lease[n].stage, left |-> Later(lease[n].left),
                       most |-> Later(lease[n].most), seen |-> lease[n].seen]
      BY <2>3 DEF Tick
    <3>2. /\ Later(lease[n].left) \in 0..LeaseTicks /\ Later(lease[n].most) \in 0..MaxTicks
          /\ Later(lease[n].left) <= Later(lease[n].most)
      BY <2>1, LeaseParts, ConstantsAssumption DEF Later
    <3> QED
      BY <2>1, <3>1, <3>2, LeaseParts, LeaseRowSeen
  <2> QED
    BY <2>2, <2>3
<1>4. TypeOK'
  <2>1. lease' \in [Attempts -> Lease]
    BY <1>3 DEF Tick
  <2> QED
    BY <1>1, <1>2, <1>3, <2>1, TypeParts DEF TypeOK, RunStatus, AttemptStatus
<1>5. RunningIsHeld'
  BY <1>1, <1>2, <1>3, TypeParts DEF IInv, RunningIsHeld, Rows
<1>6. OneHolder' /\ GivenBack'
  BY <1>1, <1>2, <1>3, TypeParts DEF IInv, OneHolder, GivenBack
<1>7. DecidedHasDigest'
  BY <1>2 DEF IInv, DecidedHasDigest
<1> QED
  BY <1>4, <1>5, <1>6, <1>7 DEF IInv

-----------------------------------------------------------------------------
(* A result is accepted for the current attempt of an undecided run only: by the holder of a
   running run, or from an attempt that failed and gave the run back. *)
LEMMA AcceptedResult ==
  ASSUME IInv, NEW n \in Attempts, NEW r \in Results,
         Accepted(run, attempt[n], None, current = n, r)
  PROVE  /\ n = current /\ current # 0
         /\ r.status \in Decided /\ r # None
         /\ \/ run.status = "running" /\ lease[n].status = "active"
            \/ run.status = "queued" /\ lease[n].status = "relinquished"
<1>1. r.status \in Decided /\ r # None /\ n # 0
  BY ConstantsAssumption DEF Attempts
<1>2. Outcome(run, attempt[n], None, current = n, r) = "accepted"
  BY DEF Accepted
<1>3. n = current
  <2> SUFFICES ASSUME n # current PROVE FALSE
    OBVIOUS
  <2> QED
    BY <1>2 DEF Outcome
<1>4. run.status \notin Decided
  <2> SUFFICES ASSUME run.status \in Decided PROVE FALSE
    OBVIOUS
  <2>1. run.digest # None /\ run.status # "superseded"
    BY StatusKinds DEF IInv, DecidedHasDigest
  <2> QED
    BY <1>2, <2>1 DEF Outcome, DecidedOutcome
<1>5. run.status \in LiveRun /\ attempt[n].status \in LiveAttempt \cup {r.status}
  BY <1>1, <1>4 DEF Accepted, TransitionAllowed, Final
<1>6. run.status \in {"queued", "running"}
  BY <1>5 DEF LiveRun, IInv, DecidedHasDigest
<1>7. CASE run.status = "running"
  BY <1>1, <1>3, <1>7 DEF IInv, RunningIsHeld
<1>8. CASE run.status = "queued"
  <2>1. attempt[n].status = r.status
    BY <1>1, <1>3, <1>5, <1>8 DEF IInv, OneHolder
  <2>2. attempt[n].status # "stale"
    BY <1>1, <2>1 DEF Decided
  <2> QED
    BY <1>1, <1>3, <1>8, <2>2 DEF IInv, GivenBack
<1> QED
  BY <1>1, <1>3, <1>6, <1>7, <1>8

(* What an accepted result does. *)
LEMMA PersistAccepted ==
  ASSUME IInv, NEW h \in Handlers, NEW n \in Attempts, NEW r \in Results,
         handler[h] = [attempt |-> n, value |-> r], Persist(h),
         Accepted(run, attempt[n], None, current = n, r)
  PROVE  /\ run'.status = r.status /\ run'.version \in Nat /\ run'.digest = r
         /\ run' \in [status : RunStatus, version : Nat, digest : Results \cup {None}]
         /\ attempt' \in [Attempts -> [status : AttemptStatus, version : Nat]]
         /\ attempt'[n].status = r.status
         /\ \A m \in Attempts : m # n => attempt'[m] = attempt[m] /\ lease'[m] = lease[m]
         /\ lease' \in [Attempts -> Lease]
         /\ lease'[n].status \in {"completed", "relinquished"}
         /\ lease'[n].left <= lease'[n].most
<1>1. TypeOK
  BY DEF IInv
<1>2. r.status \in Decided /\ Final(r)
  BY AcceptedResult DEF Final
<1>3. /\ run' = RunAfter(run, r)
      /\ attempt' = [attempt EXCEPT ![n] = AttemptAfter(attempt[n], r)]
      /\ lease' = IF lease[n].status = "active"
                  THEN [lease EXCEPT ![n] = Closed("completed", "reporting", lease[n].seen)] ELSE lease
  BY DEF Persist
<1>4. RunAfter(run, r) = [status |-> r.status, version |-> Moved(run, r.status), digest |-> r]
  BY <1>2 DEF RunAfter
<1>5. AttemptAfter(attempt[n], r) = [status |-> r.status, version |-> Moved(attempt[n], r.status)]
  BY <1>2 DEF AttemptAfter
<1>6. Moved(run, r.status) \in Nat /\ Moved(attempt[n], r.status) \in Nat
  BY <1>1, TypeParts DEF Moved
<1>7. run' \in [status : RunStatus, version : Nat, digest : Results \cup {None}]
  BY <1>2, <1>3, <1>4, <1>6 DEF RunStatus
<1>8. attempt' \in [Attempts -> [status : AttemptStatus, version : Nat]] /\ attempt'[n].status = r.status
  <2>1. r.status \in AttemptStatus
    BY <1>2, StatusKinds DEF AttemptStatus
  <2> QED
    BY <1>1, <1>3, <1>5, <1>6, <2>1, TypeParts
<1>9. \A m \in Attempts : m # n => attempt'[m] = attempt[m] /\ lease'[m] = lease[m]
  BY <1>1, <1>3, TypeParts
<1>10. CASE lease[n].status = "active"
  <2>1. Closed("completed", "reporting", lease[n].seen) \in Lease
    <3>1. 0 \in 0..LeaseTicks /\ 0 \in 0..MaxTicks
      BY ConstantsAssumption
    <3> QED
      BY <1>1, <3>1, TypeParts, LeaseParts, StageTypes, LeaseRowSeen DEF Closed
  <2>2. lease' = [lease EXCEPT ![n] = Closed("completed", "reporting", lease[n].seen)]
    BY <1>3, <1>10
  <2>3. lease' \in [Attempts -> Lease]
    BY <1>1, <2>1, <2>2, TypeParts
  <2>4. lease'[n].status = "completed" /\ lease'[n].left = 0 /\ lease'[n].most = 0
    BY <1>1, <2>2, TypeParts DEF Closed
  <2> QED
    BY <1>3, <1>4, <1>6, <1>7, <1>8, <1>9, <2>3, <2>4
<1>11. CASE lease[n].status # "active"
  <2>1. lease[n].status = "relinquished" /\ lease' = lease
    BY <1>3, <1>11, AcceptedResult
  <2> QED
    BY <1>1, <1>3, <1>4, <1>6, <1>7, <1>8, <1>9, <2>1, TypeParts
<1> QED
  BY <1>10, <1>11

LEMMA PersistIInv == ASSUME NEW h \in Handlers PROVE IInv /\ Persist(h) => IInv'
<1> SUFFICES ASSUME IInv, Persist(h) PROVE IInv'
  OBVIOUS
<1>1. TypeOK
  BY DEF IInv
<1>2. handler' \in [Handlers -> [attempt : Attempts, value : Results] \cup {None}]
  BY <1>1, TypeParts DEF Persist
<1>3. PICK n \in Attempts, r \in Results : handler[h] = [attempt |-> n, value |-> r]
  <2>1. handler[h] \in [attempt : Attempts, value : Results]
    BY <1>1, TypeParts DEF Persist
  <2> QED
    BY <2>1
<1>4. CASE ~Accepted(run, attempt[n], None, current = n, r)
  <2>1. UNCHANGED <<run, current, attempt, lease>>
    BY <1>3, <1>4 DEF Persist
  <2> QED
    BY <1>2, <2>1, HandlerIInv
<1>5. CASE Accepted(run, attempt[n], None, current = n, r)
  <2>1. /\ run'.status = r.status /\ run'.digest = r
        /\ run' \in [status : RunStatus, version : Nat, digest : Results \cup {None}]
        /\ attempt' \in [Attempts -> [status : AttemptStatus, version : Nat]]
        /\ attempt'[n].status = r.status
        /\ \A m \in Attempts : m # n => attempt'[m] = attempt[m] /\ lease'[m] = lease[m]
        /\ lease' \in [Attempts -> Lease]
        /\ lease'[n].status \in {"completed", "relinquished"}
        /\ lease'[n].left <= lease'[n].most
    BY <1>3, <1>5, PersistAccepted
  <2>2. n = current /\ r.status \in Decided /\ r # None /\ current' = current
    BY <1>5, AcceptedResult DEF Persist
  <2>3. TypeOK'
    <3>1. \A m \in Attempts : lease'[m].left <= lease'[m].most
      BY <1>1, <2>1, TypeParts
    <3> QED
      BY <1>1, <1>2, <2>1, <2>2, <3>1, TypeParts DEF TypeOK, RunStatus, AttemptStatus
  <2>4. RunningIsHeld' /\ GivenBack'
    BY <2>1, <2>2 DEF RunningIsHeld, GivenBack, Decided
  <2>5. OneHolder'
    <3>1. r.status \notin LiveAttempt
      BY <2>2, StatusKinds
    <3> QED
      BY <2>1, <2>2, <3>1 DEF IInv, OneHolder
  <2>6. DecidedHasDigest'
    BY <2>1, <2>2, StatusKinds DEF DecidedHasDigest, Decided
  <2> QED
    BY <2>3, <2>4, <2>5, <2>6 DEF IInv
<1> QED
  BY <1>4, <1>5

-----------------------------------------------------------------------------

LEMMA NextIInv == IInv /\ [Next]_vars => IInv'
<1> SUFFICES ASSUME IInv, [Next]_vars PROVE IInv'
  OBVIOUS
<1>1. CASE Claim \/ Supersede \/ Tick
  BY <1>1, ClaimIInv, SupersedeIInv, TickIInv
<1>2. CASE \E n \in Attempts : Expire(n)
  BY <1>2, ExpireIInv
<1>3. CASE \E n \in Attempts, stage \in DOMAIN StageRank : Heartbeat(n, stage)
  BY <1>3, HeartbeatIInv
<1>4. CASE \E n \in Attempts, jobError \in BOOLEAN : Relinquish(n, jobError)
  BY <1>4, RelinquishIInv
<1>5. CASE \E n \in Attempts, h \in Handlers, r \in Results : Authorize(h, n, r)
  BY <1>5, AuthorizeIInv
<1>6. CASE \E h \in Handlers : Persist(h) \/ Drop(h)
  BY <1>6, PersistIInv, DropIInv
<1>7. CASE UNCHANGED vars
  <2>1. handler' \in [Handlers -> [attempt : Attempts, value : Results] \cup {None}]
    BY <1>7, TypeParts DEF IInv, vars
  <2> QED
    BY <1>7, <2>1, HandlerIInv DEF vars
<1> QED
  BY <1>1, <1>2, <1>3, <1>4, <1>5, <1>6, <1>7 DEF Next

THEOREM Inductive == Spec => []IInv
BY InitIInv, NextIInv, PTL DEF Spec

(* Types hold, and no renewal extends a lease beyond its maximum. *)
THEOREM LeaseTypes == Spec => []TypeOK
<1>1. IInv => TypeOK
  BY DEF IInv
<1> QED
  BY <1>1, Inductive, PTL

(* A running run always has a live holder under a lease that describes the rows exactly, so that a
   runner that vanishes can always be expired: no run is running without a lease that can end. *)
THEOREM RunningHeld == Spec => []RunningIsHeld
<1>1. IInv => RunningIsHeld
  BY DEF IInv
<1> QED
  BY <1>1, Inductive, PTL

(* However often the run was claimed, relinquished and expired, at most one runner works for it. *)
THEOREM OneHolderOnly == Spec => []OneHolder
<1>1. IInv => OneHolder
  BY DEF IInv
<1> QED
  BY <1>1, Inductive, PTL

(* Nothing the lease protocol does changes a superseded or decided run, its version included. *)
THEOREM FinishedIsFinal == Spec => [][run.status \in {"superseded"} \cup Decided => run' = run]_vars
<1>1. ASSUME IInv, [Next]_vars, run.status \in {"superseded"} \cup Decided PROVE run' = run
  <2>1. run.status \notin {"queued", "running"} \cup LiveRun
    BY <1>1, StatusKinds DEF LiveRun, Decided
  <2>2. CASE Claim \/ Supersede \/ Tick
    BY <2>1, <2>2 DEF Claim, Claimable, Supersede, Tick
  <2>3. ASSUME NEW n \in Attempts, Expire(n) PROVE run' = run
    BY <2>1, <2>3 DEF Expire, Endable
  <2>4. ASSUME NEW n \in Attempts, NEW stage \in DOMAIN StageRank, Heartbeat(n, stage) PROVE run' = run
    BY <2>4 DEF Heartbeat
  <2>5. ASSUME NEW n \in Attempts, NEW jobError \in BOOLEAN, Relinquish(n, jobError) PROVE run' = run
    BY <2>1, <2>5 DEF Relinquish, Endable
  <2>6. ASSUME NEW n \in Attempts, NEW h \in Handlers, NEW r \in Results, Authorize(h, n, r) PROVE run' = run
    BY <2>6 DEF Authorize
  <2>7. ASSUME NEW h \in Handlers, Persist(h) PROVE run' = run
    <3>1. handler[h] \in [attempt : Attempts, value : Results]
      BY <1>1, <2>7, TypeParts DEF IInv, Persist
    <3>2. PICK n \in Attempts, r \in Results : handler[h] = [attempt |-> n, value |-> r]
      BY <3>1
    <3>3. ~Accepted(run, attempt[n], None, current = n, r)
      BY <1>1, <2>1, AcceptedResult
    <3> QED
      BY <2>7, <3>2, <3>3 DEF Persist
  <2>8. ASSUME NEW h \in Handlers, Drop(h) PROVE run' = run
    BY <2>8 DEF Drop
  <2>9. CASE UNCHANGED vars
    BY <2>9 DEF vars
  <2> QED
    BY <1>1, <2>2, <2>3, <2>4, <2>5, <2>6, <2>7, <2>8, <2>9 DEF Next
<1> QED
  BY <1>1, Inductive, PTL DEF Spec

(* The verdict of a run is the verdict of its current attempt, whose lease ends with it: neither a
   late result of an earlier attempt nor an expired holder decides the run. *)
THEOREM VerdictEndsLease == Spec => VerdictEndsTheLease
<1> DEFINE Verdict == run.status \notin Decided /\ run'.status \in Decided
           Ends == current' = current /\ attempt'[current].status = run'.status
                                      /\ lease'[current].status \in {"completed", "relinquished"}
<1>1. ASSUME IInv, [Next]_vars, Verdict PROVE Ends
  <2>1. CASE Claim \/ Supersede \/ Tick
    BY <1>1, <2>1 DEF Claim, Supersede, Tick, Decided
  <2>2. ASSUME NEW n \in Attempts, Expire(n) PROVE FALSE
    BY <1>1, <2>2 DEF Expire, Requeue, Decided
  <2>3. ASSUME NEW n \in Attempts, NEW stage \in DOMAIN StageRank, Heartbeat(n, stage) PROVE FALSE
    BY <1>1, <2>3 DEF Heartbeat
  <2>4. ASSUME NEW n \in Attempts, NEW jobError \in BOOLEAN, Relinquish(n, jobError) PROVE FALSE
    BY <1>1, <2>4 DEF Relinquish, Requeue, Decided
  <2>5. ASSUME NEW n \in Attempts, NEW h \in Handlers, NEW r \in Results, Authorize(h, n, r) PROVE FALSE
    BY <1>1, <2>5 DEF Authorize
  <2>6. ASSUME NEW h \in Handlers, Persist(h) PROVE Ends
    <3>1. handler[h] \in [attempt : Attempts, value : Results]
      BY <1>1, <2>6, TypeParts DEF IInv, Persist
    <3>2. PICK n \in Attempts, r \in Results : handler[h] = [attempt |-> n, value |-> r]
      BY <3>1
    <3>3. Accepted(run, attempt[n], None, current = n, r)
      BY <1>1, <2>6, <3>2 DEF Persist
    <3>4. n = current /\ current' = current
      BY <1>1, <2>6, <3>3, AcceptedResult DEF Persist
    <3> QED
      BY <1>1, <2>6, <3>2, <3>3, <3>4, PersistAccepted
  <2>7. ASSUME NEW h \in Handlers, Drop(h) PROVE FALSE
    BY <1>1, <2>7 DEF Drop
  <2>8. CASE UNCHANGED vars
    BY <1>1, <2>8 DEF vars
  <2> QED
    BY <1>1, <2>1, <2>2, <2>3, <2>4, <2>5, <2>6, <2>7, <2>8 DEF Next
<1> QED
  BY <1>1, Inductive, PTL DEF Spec, VerdictEndsTheLease

-----------------------------------------------------------------------------
(* The refinement of RunCustody: one lemma per group of actions. *)

LEMMA PhaseCases ==
  /\ run.status = "superseded" => Phase = "retired"
  /\ run.status \in Decided => Phase = "decided"
  /\ run.status \notin {"superseded"} \cup Decided =>
       /\ current # 0 /\ lease[current].status = "active" => Phase = "held"
       /\ ~(current # 0 /\ lease[current].status = "active") =>
            Phase = IF current # 0 /\ attempt[current].status = "failed" THEN "yielded" ELSE "waiting"
BY DEF Phase, Decided

(* Statuses of the run that are neither superseded nor decided. *)
LEMMA PhaseOpen ==
  ASSUME run.status \in LiveRun
  PROVE  run.status \notin {"superseded"} \cup Decided /\ Phase \in Custody!Open
BY StatusKinds, PhaseCases DEF Custody!Open

(* A step that moves no run, holder, attempt or lease out of its status is invisible. *)
LEMMA CustodyStutters ==
  ASSUME run' = run, current' = current,
         current # 0 => /\ attempt'[current].status = "failed" <=> attempt[current].status = "failed"
                        /\ lease'[current].status = "active" <=> lease[current].status = "active"
  PROVE  UNCHANGED Custody!custodyVars
BY DEF Phase, Custody!custodyVars

LEMMA ClaimGrants ==
  ASSUME IInv, Claim
  PROVE  Custody!Grant
<1>1. /\ run.status \in {"queued", "running"} /\ (current # 0 => attempt[current].status \in OverAttempt)
      /\ current + 1 \in Attempts /\ current' = current + 1
      /\ run'.status = "running" /\ run'.digest = run.digest
  BY DEF Claim, Claimable
<1>2. run.status = "queued"
  BY <1>1, StatusKinds DEF IInv, RunningIsHeld
<1>3. ~(current # 0 /\ lease[current].status = "active")
  BY <1>2 DEF IInv, OneHolder
<1>4. Phase \in {"waiting", "yielded"}
  BY <1>2, <1>3, PhaseCases DEF Decided
<1>5. lease'[current + 1].status = "active"
  BY <1>1, TypeParts DEF IInv, Claim
<1>6. current + 1 # 0
  BY <1>1, ConstantsAssumption DEF Attempts
<1>7. Phase' = "held"
  BY <1>1, <1>5, <1>6 DEF Phase, Decided
<1> QED
  BY <1>1, <1>4, <1>7 DEF Custody!Grant

(* Only the holder of a held run gives it back; whoever it was, the run waits again. *)
LEMMA RequeueGivesBack ==
  ASSUME IInv, NEW n \in Attempts, Endable(n),
         NEW a \in {"failed", "stale"}, NEW s \in {"expired", "relinquished"},
         Requeue(n, a, s), current' = current
  PROVE  Custody!GiveBack
<1>1. n = current /\ current # 0 /\ run.status = "running" /\ lease[current].status = "active"
  BY DEF Endable, Bound, IInv, RunningIsHeld
<1>2. Phase = "held"
  BY <1>1, PhaseCases DEF Decided
<1>3. /\ run'.status = "queued" /\ run'.digest = run.digest
      /\ lease'[n].status = s
  BY TypeParts DEF Requeue, Closed, IInv
<1>4. Phase' \in {"waiting", "yielded"}
  BY <1>1, <1>3 DEF Phase, Decided
<1> QED
  BY <1>2, <1>3, <1>4 DEF Custody!GiveBack

(* A lease that no longer describes its rows expires without moving the run. *)
LEMMA ExpireCustody ==
  ASSUME IInv, NEW n \in Attempts, Expire(n)
  PROVE  Custody!GiveBack \/ UNCHANGED Custody!custodyVars
<1>1. CASE Endable(n)
  BY <1>1, RequeueGivesBack DEF Expire
<1>2. CASE ~Endable(n)
  <2>1. /\ n = current /\ current # 0 /\ run.status # "running"
        /\ run.status \notin {"queued"} \cup Decided
    BY <1>2, ActiveLease DEF Expire, IInv, RunningIsHeld, Endable, Bound
  <2>2. run.status = "superseded"
    BY <2>1, TypeParts DEF IInv, DecidedHasDigest, RunStatus, LiveRun
  <2>3. run' = run /\ current' = current
    BY <1>2 DEF Expire
  <2> QED
    BY <2>2, <2>3 DEF Phase, Custody!custodyVars
<1> QED
  BY <1>1, <1>2

LEMMA HeartbeatCustody ==
  ASSUME IInv, NEW n \in Attempts, NEW stage \in DOMAIN StageRank, Heartbeat(n, stage)
  PROVE  UNCHANGED Custody!custodyVars
<1>1. n = current /\ current # 0 /\ lease[n].status = "active"
  BY ActiveLease DEF Heartbeat, Usable
<1>2. run' = run /\ current' = current /\ lease'[n].status = "active"
  BY TypeParts DEF IInv, Heartbeat
<1> QED
  BY <1>1, <1>2 DEF Phase, Custody!custodyVars

(* A result that is accepted comes from the latest holder: it holds the run, or it gave the run back
   with an error and reports a failure. *)
LEMMA PersistCustody ==
  ASSUME IInv, NEW h \in Handlers, Persist(h)
  PROVE  (\E v \in Results : Custody!Decide(v)) \/ UNCHANGED Custody!custodyVars
<1>1. handler[h] \in [attempt : Attempts, value : Results]
  BY TypeParts DEF IInv, Persist
<1>2. PICK n \in Attempts, r \in Results : handler[h] = [attempt |-> n, value |-> r]
  BY <1>1
<1>3. CASE ~Accepted(run, attempt[n], None, current = n, r)
  BY <1>2, <1>3, CustodyStutters DEF Persist
<1>4. CASE Accepted(run, attempt[n], None, current = n, r)
  <2>1. n = current /\ current # 0 /\ r.status \in Decided /\ current' = current
    BY <1>4, AcceptedResult DEF Persist
  <2>2. run'.status = r.status /\ run'.digest = r
    BY <1>2, <1>4, PersistAccepted
  <2>3. Phase' = "decided"
    BY <2>1, <2>2, StatusKinds DEF Phase
  <2>4. CASE run.status = "running" /\ lease[n].status = "active"
    <3>1. Phase = "held"
      BY <2>1, <2>4, PhaseCases DEF Decided
    <3> QED
      BY <2>1, <2>2, <2>3, <3>1 DEF Custody!Decide
  <2>5. CASE run.status = "queued" /\ lease[n].status = "relinquished"
    <3>1. attempt[n].status = r.status
      <4>1. attempt[n].status \notin LiveAttempt
        BY <2>1, <2>5 DEF IInv, OneHolder
      <4>2. attempt[n].status \in LiveAttempt \cup {r.status}
        BY <1>4, <2>1, <2>5 DEF Accepted, TransitionAllowed, Final, Decided
      <4> QED
        BY <4>1, <4>2
    <3>2. attempt[n].status = "failed"
      BY <2>1, <2>5, <3>1 DEF IInv, GivenBack, Decided
    <3>3. Phase = "yielded"
      BY <2>1, <2>5, <3>2, PhaseCases DEF Decided
    <3> QED
      BY <2>1, <2>2, <2>3, <3>1, <3>2, <3>3 DEF Custody!Decide
  <2> QED
    BY <1>4, <2>4, <2>5, AcceptedResult
<1> QED
  BY <1>3, <1>4

LEMMA CustodyStep ==
  ASSUME IInv, [Next]_vars
  PROVE  [Custody!CustodyNext]_(Custody!custodyVars)
<1>1. CASE Claim
  BY <1>1, ClaimGrants DEF Custody!CustodyNext
<1>2. CASE Supersede
  <2>1. Phase \in Custody!Open /\ Phase' = "retired" /\ current' = current /\ run'.digest = run.digest
    BY <1>2, PhaseOpen DEF Supersede, Phase
  <2> QED
    BY <2>1 DEF Custody!Retire, Custody!CustodyNext
<1>3. CASE Tick
  <2>1. run' = run /\ current' = current /\ attempt' = attempt
    BY <1>3 DEF Tick
  <2>2. ASSUME current # 0 PROVE lease'[current].status = lease[current].status
    BY <1>3, <2>2, TypeParts DEF Tick, IInv
  <2> QED
    BY <2>1, <2>2, CustodyStutters
<1>4. ASSUME NEW n \in Attempts, Expire(n) PROVE [Custody!CustodyNext]_(Custody!custodyVars)
  BY <1>4, ExpireCustody DEF Custody!CustodyNext
<1>5. ASSUME NEW n \in Attempts, NEW stage \in DOMAIN StageRank, Heartbeat(n, stage)
      PROVE  [Custody!CustodyNext]_(Custody!custodyVars)
  BY <1>5, HeartbeatCustody
<1>6. ASSUME NEW n \in Attempts, NEW jobError \in BOOLEAN, Relinquish(n, jobError)
      PROVE  [Custody!CustodyNext]_(Custody!custodyVars)
  <2>1. Endable(n) /\ current' = current
    BY <1>6 DEF Relinquish
  <2>2. PICK a \in {"failed", "stale"} : Requeue(n, a, "relinquished")
    BY <1>6 DEF Relinquish
  <2> QED
    BY <2>1, <2>2, RequeueGivesBack DEF Custody!CustodyNext
<1>7. ASSUME NEW n \in Attempts, NEW h \in Handlers, NEW r \in Results, Authorize(h, n, r)
      PROVE  [Custody!CustodyNext]_(Custody!custodyVars)
  BY <1>7, CustodyStutters DEF Authorize
<1>8. ASSUME NEW h \in Handlers, Persist(h) PROVE [Custody!CustodyNext]_(Custody!custodyVars)
  BY <1>8, PersistCustody DEF Custody!CustodyNext
<1>9. ASSUME NEW h \in Handlers, Drop(h) PROVE [Custody!CustodyNext]_(Custody!custodyVars)
  BY <1>9, CustodyStutters DEF Drop
<1>10. CASE UNCHANGED vars
  BY <1>10, CustodyStutters DEF vars
<1> QED
  BY <1>1, <1>2, <1>3, <1>4, <1>5, <1>6, <1>7, <1>8, <1>9, <1>10 DEF Next

(* The lease protocol implements the custody of a run, for any number of claims, requests and
   results and any lease times: only the latest holder decides, not after its lease expired, and a
   finished run stays finished. *)
THEOREM LeasesImplementCustody == Spec => ImplementsCustody
<1>1. Init => Custody!CustodyInit
  BY DEF Init, Phase, Decided, Custody!CustodyInit
<1> QED
  BY <1>1, Inductive, CustodyStep, PTL DEF Spec, ImplementsCustody, Custody!CustodySpec
=============================================================================
