------------------------ MODULE WorkerRuntimeProofs ------------------------
(***************************************************************************)
(* Proofs about the scoped concurrency gate, for any finite set of         *)
(* operations, any scopes and any positive limits, and about the worker    *)
(* process that shares it among its loops, for any work items, kinds,      *)
(* tenants and boards.  The gate's proofs use nothing of the process: they *)
(* cite neither its variables nor ScopeAssumption.                         *)
(***************************************************************************)
EXTENDS WorkerRuntime, FiniteSetTheorems, SequenceTheorems, TLAPS

(* Every operation is in one place: on the list of calls, on the waiting    *)
(* list, or on neither.                                                     *)
ListsAgree ==
  /\ Distinct(calls) /\ \A i \in DOMAIN calls : op[calls[i]] = "called"
  /\ Distinct(waiting) /\ \A i \in DOMAIN waiting : op[waiting[i]] = "waiting"

(* The counters themselves stay within the limits. *)
CountersBounded ==
  /\ \A k \in Installations : installationActive[k] <= InstallationLimit
  /\ \A k \in Repositories : repositoryActive[k] <= RepositoryLimit

(* What a drain has passed over cannot start, during the drain and after. *)
Scanned == \A i \in DOMAIN waiting :
              ~draining \/ i < index => ~Eligible(waiting[i])

GateInv == GateTypeOK /\ ListsAgree /\ CountersMatch /\ CountersBounded /\ Scanned

(* Counting with one operation more or less. *)
LEMMA OneMore ==
  ASSUME NEW S \in SUBSET Ops, NEW o \in Ops, o \notin S
  PROVE  Cardinality(S \cup {o}) = Cardinality(S) + 1
BY OpsAssumption, FS_Subset, FS_AddElement

LEMMA OneLess ==
  ASSUME NEW S \in SUBSET Ops, NEW o \in S
  PROVE  /\ Cardinality(S \ {o}) = Cardinality(S) - 1
         /\ Cardinality(S) >= 1
<1>1. IsFiniteSet(S) /\ IsFiniteSet(S \ {o})
  BY OpsAssumption, FS_Subset, FS_RemoveElement
<1>2. Cardinality(S \ {o}) \in Nat /\ Cardinality(S) \in Nat
  BY <1>1, FS_CardinalityType
<1> QED BY <1>1, <1>2, FS_RemoveElement

(* Taking the i-th element out of a list of distinct elements. *)
LEMMA WithoutOne ==
  ASSUME NEW s \in Seq(Ops), NEW i \in 1..Len(s)
  PROVE  /\ Without(s, i) \in Seq(Ops)
         /\ Len(Without(s, i)) = Len(s) - 1
         /\ \A j \in 1..(Len(s) - 1) :
               Without(s, i)[j] = IF j < i THEN s[j] ELSE s[j + 1]
<1> DEFINE a == SubSeq(s, 1, i - 1)
           b == SubSeq(s, i + 1, Len(s))
<1>1. /\ a \in Seq(Ops) /\ Len(a) = i - 1
      /\ \A j \in 1..(i - 1) : a[j] = s[j]
  OBVIOUS
<1>2. /\ b \in Seq(Ops) /\ Len(b) = Len(s) - i
      /\ \A j \in 1..(Len(s) - i) : b[j] = s[i + j]
  OBVIOUS
<1> HIDE DEF a, b
<1>3. /\ a \o b \in Seq(Ops) /\ Len(a \o b) = Len(s) - 1
      /\ \A j \in 1..(Len(s) - 1) : (a \o b)[j] = IF j < i THEN a[j] ELSE b[j - (i - 1)]
  <2>1. Len(a) + Len(b) = Len(s) - 1
    BY <1>1, <1>2
  <2>2. /\ a \o b \in Seq(Ops) /\ Len(a \o b) = Len(a) + Len(b)
        /\ \A j \in 1..(Len(a) + Len(b)) :
              (a \o b)[j] = IF j <= Len(a) THEN a[j] ELSE b[j - Len(a)]
    BY <1>1, <1>2, ConcatProperties
  <2>3. \A j \in 1..(Len(s) - 1) : j <= Len(a) <=> j < i
    BY <1>1
  <2> QED BY <1>1, <2>1, <2>2, <2>3
<1>4. ASSUME NEW j \in 1..(Len(s) - 1)
      PROVE  (a \o b)[j] = IF j < i THEN s[j] ELSE s[j + 1]
  <2>1. CASE j < i BY <1>1, <1>3, <2>1
  <2>2. CASE ~(j < i)
    <3>1. j - (i - 1) \in 1..(Len(s) - i) /\ i + (j - (i - 1)) = j + 1 BY <2>2
    <3> QED BY <1>2, <1>3, <2>2, <3>1
  <2> QED BY <2>1, <2>2
<1> QED BY <1>3, <1>4 DEF Without, a, b

LEMMA WithoutDistinct ==
  ASSUME NEW s \in Seq(Ops), NEW i \in 1..Len(s), Distinct(s)
  PROVE  /\ Distinct(Without(s, i))
         /\ \A j \in DOMAIN Without(s, i) : \E n \in DOMAIN s :
               Without(s, i)[j] = s[n] /\ n # i
<1> DEFINE t == Without(s, i)
<1>1. /\ t \in Seq(Ops) /\ Len(t) = Len(s) - 1
      /\ \A j \in 1..(Len(s) - 1) : t[j] = IF j < i THEN s[j] ELSE s[j + 1]
  BY WithoutOne
<1>2. DOMAIN t = 1..(Len(s) - 1) /\ DOMAIN s = 1..Len(s) /\ Len(s) \in Nat
  BY <1>1
<1> HIDE DEF t
<1>3. Distinct(t)
  <2> SUFFICES ASSUME NEW j \in 1..(Len(s) - 1), NEW n \in 1..(Len(s) - 1),
                      t[j] = t[n]
               PROVE  j = n
    BY <1>2 DEF Distinct
  <2>1. PICK a \in 1..Len(s) : t[j] = s[a] /\ a = (IF j < i THEN j ELSE j + 1)
    BY <1>1, <1>2
  <2>2. PICK b \in 1..Len(s) : t[n] = s[b] /\ b = (IF n < i THEN n ELSE n + 1)
    BY <1>1, <1>2
  <2>3. a = b
    BY <1>2, <2>1, <2>2 DEF Distinct
  <2> QED BY <2>1, <2>2, <2>3
<1>4. ASSUME NEW j \in DOMAIN t PROVE \E n \in DOMAIN s : t[j] = s[n] /\ n # i
  <2>1. CASE j < i BY <1>1, <1>2, <2>1
  <2>2. CASE ~(j < i)
    <3>1. t[j] = s[j + 1] /\ j + 1 \in DOMAIN s /\ j + 1 # i BY <1>1, <1>2, <2>2
    <3> QED BY <3>1
  <2> QED BY <2>1, <2>2
<1> QED BY <1>3, <1>4 DEF t

-----------------------------------------------------------------------------

LEMMA InitInv == Init => GateInv
<1> SUFFICES ASSUME Init PROVE GateInv
  OBVIOUS
<1>1. GateTypeOK
  <2>1. op \in [Ops -> {"out", "called", "waiting", "active", "settled"}]
    BY DEF Init
  <2>2. calls \in Seq(Ops) /\ waiting \in Seq(Ops)
    BY DEF Init
  <2>3. /\ installationActive \in [Installations -> Nat]
        /\ repositoryActive \in [Repositories -> Nat]
    BY DEF Init
  <2>4. active \in Nat /\ index \in Nat \ {0}
    BY DEF Init
  <2>5. draining \in BOOLEAN
    BY DEF Init
  <2> QED BY <2>1, <2>2, <2>3, <2>4, <2>5 DEF GateTypeOK
<1>2. ListsAgree /\ Scanned
  <2>1. calls = <<>> /\ waiting = <<>> BY DEF Init
  <2>2. DOMAIN calls = {} /\ DOMAIN waiting = {} BY <2>1
  <2> QED BY <2>2 DEF ListsAgree, Scanned, Distinct
<1>3. CountersMatch
  <2>1. Holding = {} BY DEF Init, Holding
  <2>2. \A k : HoldingInstallation(k) = {} /\ HoldingRepository(k) = {}
    BY <2>1 DEF HoldingInstallation, HoldingRepository
  <2> QED BY <2>1, <2>2, FS_EmptySet DEF Init, CountersMatch
<1>4. CountersBounded
  BY LimitsAssumption DEF Init, CountersBounded
<1> QED BY <1>1, <1>2, <1>3, <1>4 DEF GateInv

(* A step that leaves the counters and the set of holders alone. *)
LEMMA CountersUntouched ==
  ASSUME GateInv, UNCHANGED <<installationActive, repositoryActive, active>>,
         Holding' = Holding
  PROVE  CountersMatch' /\ CountersBounded'
<1>1. \A k : /\ HoldingInstallation(k)' = HoldingInstallation(k)
             /\ HoldingRepository(k)' = HoldingRepository(k)
  BY DEF HoldingInstallation, HoldingRepository
<1> QED BY <1>1 DEF GateInv, CountersMatch, CountersBounded

LEMMA SubmitInv ==
  ASSUME GateInv, NEW b \in Batches, Submit(b)
  PROVE  GateInv'
<1>1. b \in Seq(Ops) /\ Distinct(b)
  BY LimitsAssumption DEF Batches
<1>2. GateTypeOK'
  BY <1>1 DEF GateInv, GateTypeOK, Submit
<1>3. ListsAgree'
  <2>1. \A i \in DOMAIN b : b[i] \in Ops BY <1>1
  <2>2. \A i \in DOMAIN b : op'[b[i]] = "called"
    BY <2>1 DEF Submit
  <2>3. \A i \in DOMAIN waiting : waiting[i] \in Ops
    BY DEF GateInv, GateTypeOK
  <2>4. \A i \in DOMAIN waiting : op'[waiting[i]] = "waiting"
    BY <2>3 DEF GateInv, ListsAgree, Submit
  <2> QED BY <1>1, <2>2, <2>4 DEF GateInv, ListsAgree, Submit
<1>4. CountersMatch' /\ CountersBounded'
  <2>1. Holding' = Holding
    BY DEF Submit, Holding, GateInv, GateTypeOK
  <2> QED BY <2>1, CountersUntouched DEF Submit
<1>5. Scanned'
  BY DEF GateInv, Scanned, Submit, Eligible
<1> QED BY <1>2, <1>3, <1>4, <1>5 DEF GateInv

LEMMA RunInv ==
  ASSUME GateInv, Run
  PROVE  GateInv'
<1> DEFINE o == Head(calls)
<1>1. /\ calls \in Seq(Ops) /\ calls # <<>> /\ o \in Ops /\ o = calls[1]
      /\ 1 \in DOMAIN calls /\ waiting \in Seq(Ops)
  BY DEF GateInv, GateTypeOK, Run
<1>2. /\ Tail(calls) \in Seq(Ops) /\ Len(Tail(calls)) = Len(calls) - 1
      /\ \A i \in DOMAIN Tail(calls) : /\ Tail(calls)[i] = calls[i + 1]
                                       /\ i + 1 \in DOMAIN calls /\ i + 1 # 1
  BY <1>1
<1>3. /\ Append(waiting, o) \in Seq(Ops)
      /\ DOMAIN Append(waiting, o) = DOMAIN waiting \cup {Len(waiting) + 1}
      /\ Append(waiting, o)[Len(waiting) + 1] = o
      /\ \A i \in DOMAIN waiting : Append(waiting, o)[i] = waiting[i]
  BY <1>1
<1>4. /\ op[o] = "called" /\ op' = [op EXCEPT ![o] = "waiting"]
      /\ op \in [Ops -> {"out", "called", "waiting", "active", "settled"}]
  BY <1>1 DEF GateInv, GateTypeOK, ListsAgree, Run
<1>5. waiting' = Append(waiting, o) /\ calls' = Tail(calls)
  BY DEF Run
<1> HIDE DEF o
<1>6. GateTypeOK'
  BY <1>1, <1>2, <1>3, <1>4, <1>5 DEF GateInv, GateTypeOK, Run, BeginDrain
<1>7. ListsAgree'
  <2>1. Distinct(calls') /\ \A i \in DOMAIN calls' : op'[calls'[i]] = "called"
    <3>1. Distinct(calls')
      <4> SUFFICES ASSUME NEW i \in DOMAIN Tail(calls), NEW j \in DOMAIN Tail(calls),
                          Tail(calls)[i] = Tail(calls)[j]
                   PROVE  i = j
        BY <1>5 DEF Distinct
      <4>1. i + 1 = j + 1 BY <1>2 DEF GateInv, ListsAgree, Distinct
      <4> QED BY <4>1, <1>2
    <3>2. ASSUME NEW i \in DOMAIN Tail(calls) PROVE op'[Tail(calls)[i]] = "called"
      <4>1. calls[i + 1] # o /\ op[calls[i + 1]] = "called" /\ calls[i + 1] \in Ops
        BY <1>1, <1>2 DEF GateInv, ListsAgree, Distinct
      <4> QED BY <4>1, <1>2, <1>4
    <3> QED BY <3>1, <3>2, <1>5
  <2>2. \A i \in DOMAIN waiting :
           waiting[i] # o /\ op[waiting[i]] = "waiting" /\ waiting[i] \in Ops
    BY <1>1, <1>4 DEF GateInv, ListsAgree
  <2>3. Distinct(waiting')
    <3> SUFFICES ASSUME NEW i \in DOMAIN Append(waiting, o),
                        NEW j \in DOMAIN Append(waiting, o),
                        Append(waiting, o)[i] = Append(waiting, o)[j]
                 PROVE  i = j
      BY <1>5 DEF Distinct
    <3>1. CASE i \in DOMAIN waiting /\ j \in DOMAIN waiting
      BY <3>1, <1>3 DEF GateInv, ListsAgree, Distinct
    <3>2. CASE i \notin DOMAIN waiting \/ j \notin DOMAIN waiting
      BY <3>2, <1>3, <2>2
    <3> QED BY <3>1, <3>2
  <2>4. \A i \in DOMAIN waiting' : op'[waiting'[i]] = "waiting"
    BY <1>1, <1>3, <1>4, <1>5, <2>2
  <2> QED BY <2>1, <2>3, <2>4 DEF ListsAgree
<1>8. CountersMatch' /\ CountersBounded'
  <2>1. Holding' = Holding
    BY <1>4, <1>1 DEF Holding
  <2> QED BY <2>1, CountersUntouched DEF Run
<1>9. Scanned'
  <2>1. draining' = TRUE /\ index' = 1 BY DEF Run, BeginDrain
  <2>2. \A i \in DOMAIN waiting' : ~(i < index') BY <2>1, <1>3, <1>5, <1>1
  <2> QED BY <2>1, <2>2 DEF Scanned
<1> QED BY <1>6, <1>7, <1>8, <1>9 DEF GateInv

LEMMA SkipInv ==
  ASSUME GateInv, DrainSkip
  PROVE  GateInv'
<1>1. GateTypeOK' /\ ListsAgree'
  BY DEF GateInv, GateTypeOK, ListsAgree, DrainSkip
<1>2. CountersMatch' /\ CountersBounded'
  BY CountersUntouched DEF DrainSkip, Holding
<1>3. Scanned'
  <2> SUFFICES ASSUME NEW i \in DOMAIN waiting, i < index + 1
               PROVE  ~Eligible(waiting[i])
    BY DEF DrainSkip, Scanned, Eligible
  <2>1. i \in Nat /\ index \in Nat BY DEF GateInv, GateTypeOK
  <2>2. CASE i < index BY <2>2 DEF GateInv, Scanned
  <2>3. CASE i = index BY <2>3 DEF DrainSkip
  <2> QED BY <2>1, <2>2, <2>3
<1> QED BY <1>1, <1>2, <1>3 DEF GateInv

(* reserve: one holder more, and the counters of its scope with it. *)
LEMMA ReserveCounts ==
  ASSUME GateInv, NEW o \in Ops, Reserve(o), Eligible(o), op[o] = "waiting",
         op' = [op EXCEPT ![o] = "active"]
  PROVE  /\ CountersMatch' /\ CountersBounded'
         /\ installationActive' \in [Installations -> Nat]
         /\ repositoryActive' \in [Repositories -> Nat]
         /\ active' \in Nat
         /\ \A p \in Ops : ~Eligible(p) => ~Eligible(p)'
<1> USE DEF GateInv
<1>1. Holding' = Holding \cup {o} /\ o \notin Holding /\ Holding \subseteq Ops
  BY DEF Holding, GateTypeOK
<1>2. \A k : /\ InstallationOf(o) = k => HoldingInstallation(k)' = HoldingInstallation(k) \cup {o}
             /\ InstallationOf(o) # k => HoldingInstallation(k)' = HoldingInstallation(k)
             /\ RepositoryOf(o) = k => HoldingRepository(k)' = HoldingRepository(k) \cup {o}
             /\ RepositoryOf(o) # k => HoldingRepository(k)' = HoldingRepository(k)
             /\ HoldingInstallation(k) \subseteq Ops /\ o \notin HoldingInstallation(k)
             /\ HoldingRepository(k) \subseteq Ops /\ o \notin HoldingRepository(k)
  BY <1>1 DEF HoldingInstallation, HoldingRepository
<1>3. /\ active' = active + 1
      /\ installationActive' = [k \in Installations |->
            IF k = InstallationOf(o) THEN installationActive[k] + 1 ELSE installationActive[k]]
      /\ repositoryActive' = [k \in Repositories |->
            IF k = RepositoryOf(o) THEN repositoryActive[k] + 1 ELSE repositoryActive[k]]
  BY DEF Reserve, Increment, GateTypeOK
<1>4. /\ installationActive' \in [Installations -> Nat]
      /\ repositoryActive' \in [Repositories -> Nat]
      /\ active' \in Nat
  BY <1>3 DEF GateTypeOK
<1>5. CountersMatch'
  <2>1. active' = Cardinality(Holding')
    BY <1>1, <1>3, OneMore DEF CountersMatch
  <2>2. ASSUME NEW k \in Installations
        PROVE  installationActive'[k] = Cardinality(HoldingInstallation(k)')
    BY <1>2, <1>3, OneMore DEF CountersMatch
  <2>3. ASSUME NEW k \in Repositories
        PROVE  repositoryActive'[k] = Cardinality(HoldingRepository(k)')
    BY <1>2, <1>3, OneMore DEF CountersMatch
  <2> QED BY <2>1, <2>2, <2>3 DEF CountersMatch
<1>6. CountersBounded'
  <2>1. ASSUME NEW k \in Installations PROVE installationActive'[k] <= InstallationLimit
    <3>1. CASE k = InstallationOf(o)
      <4>1. k # NoKey BY DEF Installations
      <4>2. installationActive[k] < InstallationLimit BY <3>1, <4>1 DEF Eligible, Count
      <4> QED BY <3>1, <4>2, <1>3, LimitsAssumption DEF GateTypeOK
    <3>2. CASE k # InstallationOf(o) BY <3>2, <1>3 DEF CountersBounded
    <3> QED BY <3>1, <3>2
  <2>2. ASSUME NEW k \in Repositories PROVE repositoryActive'[k] <= RepositoryLimit
    <3>1. CASE k = RepositoryOf(o)
      <4>1. k # NoKey BY DEF Repositories
      <4>2. repositoryActive[k] < RepositoryLimit BY <3>1, <4>1 DEF Eligible, Count
      <4> QED BY <3>1, <4>2, <1>3, LimitsAssumption DEF GateTypeOK
    <3>2. CASE k # RepositoryOf(o) BY <3>2, <1>3 DEF CountersBounded
    <3> QED BY <3>1, <3>2
  <2> QED BY <2>1, <2>2 DEF CountersBounded
<1>7. ASSUME NEW p \in Ops, Eligible(p)' PROVE Eligible(p)
  <2>1. InstallationOf(p) = NoKey \/ InstallationOf(p) \in Installations
    BY DEF Installations
  <2>2. RepositoryOf(p) = NoKey \/ RepositoryOf(p) \in Repositories
    BY DEF Repositories
  <2>3. \A k \in Installations : /\ installationActive[k] <= installationActive'[k]
                                  /\ installationActive[k] \in Nat
    BY <1>3 DEF GateTypeOK
  <2>4. \A k \in Repositories : /\ repositoryActive[k] <= repositoryActive'[k]
                                 /\ repositoryActive[k] \in Nat
    BY <1>3 DEF GateTypeOK
  <2>5. Count(installationActive, InstallationOf(p)) < InstallationLimit
    BY <1>7, <1>4, <2>1, <2>3, LimitsAssumption DEF Eligible, Count
  <2>6. Count(repositoryActive, RepositoryOf(p)) < RepositoryLimit
    BY <1>7, <1>4, <2>2, <2>4, LimitsAssumption DEF Eligible, Count
  <2> QED BY <2>5, <2>6 DEF Eligible
<1> QED BY <1>4, <1>5, <1>6, <1>7

LEMMA StartInv ==
  ASSUME GateInv, DrainStart
  PROVE  GateInv'
<1> DEFINE o == waiting[index]
<1>1. waiting \in Seq(Ops) /\ index \in 1..Len(waiting) /\ o \in Ops
  BY DEF GateInv, GateTypeOK, DrainStart
<1>2. op[o] = "waiting" /\ op' = [op EXCEPT ![o] = "active"]
  BY <1>1 DEF GateInv, ListsAgree, DrainStart
<1>3. waiting' = Without(waiting, index) /\ UNCHANGED <<calls, draining, index>>
      /\ Reserve(o) /\ Eligible(o) /\ draining
  BY DEF DrainStart
<1> HIDE DEF o
<1>4. /\ CountersMatch' /\ CountersBounded'
      /\ installationActive' \in [Installations -> Nat]
      /\ repositoryActive' \in [Repositories -> Nat]
      /\ active' \in Nat
      /\ \A p \in Ops : ~Eligible(p) => ~Eligible(p)'
  BY <1>1, <1>2, <1>3, ReserveCounts
<1>5. /\ waiting' \in Seq(Ops) /\ Distinct(waiting')
      /\ \A j \in DOMAIN waiting' : \E n \in DOMAIN waiting :
            waiting'[j] = waiting[n] /\ n # index
  BY <1>1, <1>3, WithoutOne, WithoutDistinct DEF GateInv, ListsAgree
<1>6. GateTypeOK'
  BY <1>1, <1>2, <1>3, <1>4, <1>5 DEF GateInv, GateTypeOK
<1>7. ListsAgree'
  <2>1. ASSUME NEW j \in DOMAIN waiting' PROVE op'[waiting'[j]] = "waiting"
    <3>1. PICK n \in DOMAIN waiting : waiting'[j] = waiting[n] /\ n # index
      BY <1>5
    <3>2. waiting[n] # o /\ op[waiting[n]] = "waiting" /\ waiting[n] \in Ops
      BY <1>1, <3>1 DEF GateInv, ListsAgree, Distinct, o
    <3> QED BY <3>1, <3>2, <1>2 DEF GateInv, GateTypeOK
  <2>2. ASSUME NEW j \in DOMAIN calls PROVE op'[calls[j]] = "called"
    <3>1. op[calls[j]] = "called" /\ calls[j] \in Ops /\ calls[j] # o
      BY <1>2 DEF GateInv, GateTypeOK, ListsAgree
    <3> QED BY <3>1, <1>2 DEF GateInv, GateTypeOK
  <2> QED BY <2>1, <2>2, <1>3, <1>5 DEF GateInv, ListsAgree
<1>8. Scanned'
  <2>1. ASSUME NEW i \in DOMAIN waiting', i < index
        PROVE  \E p \in Ops : waiting'[i] = p /\ ~Eligible(p)'
    <3>1. DOMAIN waiting' = 1..(Len(waiting) - 1) /\ Len(waiting) \in Nat
      BY <1>1, <1>3, <1>5, WithoutOne
    <3>2. i \in 1..(Len(waiting) - 1)
      BY <3>1
    <3>3. waiting'[i] = waiting[i]
      BY <1>1, <1>3, <2>1, <3>2, WithoutOne
    <3>4. i \in DOMAIN waiting /\ waiting[i] \in Ops
      BY <1>1, <3>1, <3>2
    <3>5. ~Eligible(waiting[i])
      BY <2>1, <3>4 DEF GateInv, Scanned
    <3> QED BY <3>3, <3>4, <3>5, <1>4
  <2>2. draining' = TRUE /\ index' = index
    BY <1>3 DEF GateInv, GateTypeOK
  <2> QED BY <2>1, <2>2 DEF Scanned, Eligible
<1> QED BY <1>4, <1>6, <1>7, <1>8 DEF GateInv

LEMMA EndInv ==
  ASSUME GateInv, DrainEnd
  PROVE  GateInv'
<1>1. GateTypeOK' /\ ListsAgree'
  BY DEF GateInv, GateTypeOK, ListsAgree, DrainEnd
<1>2. CountersMatch' /\ CountersBounded'
  BY CountersUntouched DEF DrainEnd, Holding
<1>3. Scanned'
  <2>1. \A i \in DOMAIN waiting : i < index
    BY DEF GateInv, GateTypeOK, DrainEnd
  <2>2. \A i \in DOMAIN waiting : ~Eligible(waiting[i])
    BY <2>1 DEF GateInv, Scanned
  <2> QED BY <2>2 DEF Scanned, DrainEnd, Eligible
<1> QED BY <1>1, <1>2, <1>3 DEF GateInv

LEMMA SettleInv ==
  ASSUME GateInv, NEW o \in Ops, Settle(o)
  PROVE  GateInv'
<1>1. GateTypeOK'
  BY DEF GateInv, GateTypeOK, Settle
<1>2. ListsAgree'
  <2>1. \A i \in DOMAIN calls : calls[i] \in Ops /\ calls[i] # o
    BY DEF GateInv, GateTypeOK, ListsAgree, Settle
  <2>2. \A i \in DOMAIN waiting : waiting[i] \in Ops /\ waiting[i] # o
    BY DEF GateInv, GateTypeOK, ListsAgree, Settle
  <2> QED BY <2>1, <2>2 DEF GateInv, GateTypeOK, ListsAgree, Settle
<1>3. CountersMatch' /\ CountersBounded'
  <2>1. Holding' = Holding
    BY DEF GateInv, GateTypeOK, Settle, Holding
  <2> QED BY <2>1, CountersUntouched DEF Settle
<1>4. Scanned'
  BY DEF GateInv, Scanned, Settle, Eligible
<1> QED BY <1>1, <1>2, <1>3, <1>4 DEF GateInv

(* release: one holder less; a decrement never meets a counter at zero. *)
LEMMA ReleaseCounts ==
  ASSUME GateInv, NEW o \in Ops, Release(o)
  PROVE  /\ CountersMatch' /\ CountersBounded'
         /\ installationActive' \in [Installations -> Nat]
         /\ repositoryActive' \in [Repositories -> Nat]
         /\ active' \in Nat
<1> USE DEF GateInv
<1>1. Holding' = Holding \ {o} /\ o \in Holding /\ Holding \subseteq Ops
  BY DEF Holding, GateTypeOK, Release
<1>2. \A k : /\ InstallationOf(o) = k => /\ HoldingInstallation(k)' = HoldingInstallation(k) \ {o}
                                         /\ o \in HoldingInstallation(k)
             /\ InstallationOf(o) # k => HoldingInstallation(k)' = HoldingInstallation(k)
             /\ RepositoryOf(o) = k => /\ HoldingRepository(k)' = HoldingRepository(k) \ {o}
                                       /\ o \in HoldingRepository(k)
             /\ RepositoryOf(o) # k => HoldingRepository(k)' = HoldingRepository(k)
             /\ HoldingInstallation(k) \subseteq Ops
             /\ HoldingRepository(k) \subseteq Ops
  BY <1>1 DEF HoldingInstallation, HoldingRepository
<1>3. /\ active' = active - 1
      /\ installationActive' = [k \in Installations |->
            IF k # InstallationOf(o) THEN installationActive[k]
            ELSE IF installationActive[k] <= 1 THEN 0 ELSE installationActive[k] - 1]
      /\ repositoryActive' = [k \in Repositories |->
            IF k # RepositoryOf(o) THEN repositoryActive[k]
            ELSE IF repositoryActive[k] <= 1 THEN 0 ELSE repositoryActive[k] - 1]
  BY DEF Release, Decrement, GateTypeOK
<1>4. active' = Cardinality(Holding') /\ active' \in Nat
  <2>1. active = Cardinality(Holding) /\ active \in Nat
    BY DEF CountersMatch, GateTypeOK
  <2>2. Cardinality(Holding \ {o}) = Cardinality(Holding) - 1 /\ Cardinality(Holding) >= 1
    BY <1>1, OneLess
  <2>3. Cardinality(Holding') = active - 1 /\ active >= 1
    BY <1>1, <2>1, <2>2
  <2> QED BY <1>3, <2>1, <2>3
<1>5. ASSUME NEW k \in Installations
      PROVE  /\ installationActive'[k] = Cardinality(HoldingInstallation(k)')
             /\ installationActive'[k] \in Nat
             /\ installationActive'[k] <= InstallationLimit
  <2>1. /\ installationActive[k] \in Nat /\ installationActive[k] <= InstallationLimit
        /\ installationActive[k] = Cardinality(HoldingInstallation(k))
    BY DEF GateTypeOK, CountersBounded, CountersMatch
  <2>2. CASE k = InstallationOf(o)
    <3>1. /\ Cardinality(HoldingInstallation(k)') = installationActive[k] - 1
          /\ installationActive[k] >= 1
      BY <1>2, <2>1, <2>2, OneLess
    <3>2. installationActive'[k] = installationActive[k] - 1
      BY <1>3, <2>1, <2>2, <3>1
    <3> QED BY <2>1, <3>1, <3>2, LimitsAssumption
  <2>3. CASE k # InstallationOf(o)
    BY <1>2, <1>3, <2>1, <2>3
  <2> QED BY <2>2, <2>3
<1>6. ASSUME NEW k \in Repositories
      PROVE  /\ repositoryActive'[k] = Cardinality(HoldingRepository(k)')
             /\ repositoryActive'[k] \in Nat
             /\ repositoryActive'[k] <= RepositoryLimit
  <2>1. /\ repositoryActive[k] \in Nat /\ repositoryActive[k] <= RepositoryLimit
        /\ repositoryActive[k] = Cardinality(HoldingRepository(k))
    BY DEF GateTypeOK, CountersBounded, CountersMatch
  <2>2. CASE k = RepositoryOf(o)
    <3>1. /\ Cardinality(HoldingRepository(k)') = repositoryActive[k] - 1
          /\ repositoryActive[k] >= 1
      BY <1>2, <2>1, <2>2, OneLess
    <3>2. repositoryActive'[k] = repositoryActive[k] - 1
      BY <1>3, <2>1, <2>2, <3>1
    <3> QED BY <2>1, <3>1, <3>2, LimitsAssumption
  <2>3. CASE k # RepositoryOf(o)
    BY <1>2, <1>3, <2>1, <2>3
  <2> QED BY <2>2, <2>3
<1>7. CountersMatch' /\ CountersBounded'
  BY <1>4, <1>5, <1>6 DEF CountersMatch, CountersBounded
<1>8. /\ installationActive' \in [Installations -> Nat]
      /\ repositoryActive' \in [Repositories -> Nat]
  BY <1>3, <1>5, <1>6
<1> QED BY <1>4, <1>7, <1>8

LEMMA ReleaseInv ==
  ASSUME GateInv, NEW o \in Ops, Release(o)
  PROVE  GateInv'
<1>1. /\ CountersMatch' /\ CountersBounded'
      /\ installationActive' \in [Installations -> Nat]
      /\ repositoryActive' \in [Repositories -> Nat]
      /\ active' \in Nat
  BY ReleaseCounts
<1>2. GateTypeOK'
  BY <1>1 DEF GateInv, GateTypeOK, Release, BeginDrain
<1>3. ListsAgree'
  <2>1. \A i \in DOMAIN calls : calls[i] \in Ops /\ calls[i] # o
    BY DEF GateInv, GateTypeOK, ListsAgree, Release
  <2>2. \A i \in DOMAIN waiting : waiting[i] \in Ops /\ waiting[i] # o
    BY DEF GateInv, GateTypeOK, ListsAgree, Release
  <2> QED BY <2>1, <2>2 DEF GateInv, GateTypeOK, ListsAgree, Release
<1>4. Scanned'
  <2>1. draining' = TRUE /\ index' = 1 /\ waiting' = waiting
    BY DEF Release, BeginDrain
  <2>2. \A i \in DOMAIN waiting : ~(i < 1) BY DEF GateInv, GateTypeOK
  <2> QED BY <2>1, <2>2 DEF Scanned
<1> QED BY <1>1, <1>2, <1>3, <1>4 DEF GateInv

LEMMA StepInv == GateInv /\ [Next]_vars => GateInv'
<1> SUFFICES ASSUME GateInv, [Next]_vars PROVE GateInv'
  OBVIOUS
<1>1. ASSUME NEW b \in Batches, Submit(b) PROVE GateInv'
  BY <1>1, SubmitInv
<1>2. CASE Run BY <1>2, RunInv
<1>3. CASE DrainSkip BY <1>3, SkipInv
<1>4. CASE DrainStart BY <1>4, StartInv
<1>5. CASE DrainEnd BY <1>5, EndInv
<1>6. ASSUME NEW o \in Ops, Settle(o) PROVE GateInv'
  BY <1>6, SettleInv
<1>7. ASSUME NEW o \in Ops, Release(o) PROVE GateInv'
  BY <1>7, ReleaseInv
<1>8. CASE UNCHANGED vars
  <2>1. CountersMatch' /\ CountersBounded'
    BY <1>8, CountersUntouched DEF vars, Holding
  <2> QED BY <1>8, <2>1 DEF vars, GateInv, GateTypeOK, ListsAgree, Scanned, Eligible
<1> QED BY <1>1, <1>2, <1>3, <1>4, <1>5, <1>6, <1>7, <1>8 DEF Next, Continue

LEMMA Invariance == Spec => []GateInv
BY InitInv, StepInv, PTL DEF Spec

(* The gate's state has its types in every reachable state; in particular   *)
(* no counter becomes negative.                                             *)
THEOREM GateTypeCorrect == Spec => []GateTypeOK
<1>1. GateInv => GateTypeOK BY DEF GateInv
<1> QED BY <1>1, Invariance, PTL

(* The counters of the gate are the operations that hold a slot, whatever   *)
(* the order of calls, settlements and releases.                            *)
THEOREM CountersAccurate == Spec => []CountersMatch
<1>1. GateInv => CountersMatch BY DEF GateInv
<1> QED BY <1>1, Invariance, PTL

(* No installation and no repository key ever has more operations at work   *)
(* than its limit.                                                          *)
THEOREM LimitsRespected == Spec => []ScopeLimits
<1>1. GateInv => ScopeLimits
  BY DEF GateInv, ScopeLimits, CountersMatch, CountersBounded
<1> QED BY <1>1, Invariance, PTL

(* One pass of drain is enough: an idle gate has no operation on its list   *)
(* that could start.                                                        *)
THEOREM NoLostWakeup == Spec => []WorkConserving
<1>1. GateInv => WorkConserving
  BY DEF GateInv, WorkConserving, Scanned, Idle
<1> QED BY <1>1, Invariance, PTL

(* An operation starts ahead of an older one only if the older one's scope  *)
(* is full.                                                                 *)
THEOREM OvertakingIsFair == Spec => NoUnfairOvertaking
<1> DEFINE Fair == \A i, j \in DOMAIN waiting :
                     /\ i < j
                     /\ op[waiting[j]] = "waiting" /\ op'[waiting[j]] = "active"
                     => ~Eligible(waiting[i])
<1>1. ASSUME GateInv, [Next]_vars PROVE [Fair]_vars
  <2> SUFFICES ASSUME NEW i \in DOMAIN waiting, NEW j \in DOMAIN waiting, i < j,
                      op[waiting[j]] = "waiting", op'[waiting[j]] = "active",
                      Next
               PROVE  ~Eligible(waiting[i])
    BY <1>1
  <2>1. waiting[j] \in Ops /\ op \in [Ops -> {"out", "called", "waiting", "active", "settled"}]
    BY <1>1 DEF GateInv, GateTypeOK
  <2>2. DrainStart
    <3>1. ASSUME NEW b \in Batches, Submit(b) PROVE FALSE
      BY <3>1, <2>1 DEF Submit
    <3>2. ASSUME NEW o \in Ops, Settle(o) \/ Release(o) PROVE FALSE
      BY <3>2, <2>1 DEF Settle, Release
    <3>3. ~DrainSkip /\ ~DrainEnd BY DEF DrainSkip, DrainEnd
    <3>4. ~Run
      <4> SUFFICES ASSUME Run PROVE FALSE OBVIOUS
      <4>1. op' = [op EXCEPT ![Head(calls)] = "waiting"] BY DEF Run
      <4> QED BY <4>1, <2>1
    <3> QED BY <3>1, <3>2, <3>3, <3>4 DEF Next, Continue
  <2>3. waiting[j] = waiting[index] /\ index \in DOMAIN waiting
    BY <1>1, <2>1, <2>2 DEF DrainStart, GateInv, GateTypeOK
  <2>4. j = index
    BY <1>1, <2>3 DEF GateInv, ListsAgree, Distinct
  <2> QED BY <1>1, <2>4 DEF GateInv, Scanned
<1> QED BY <1>1, Invariance, PTL DEF Spec, NoUnfairOvertaking

-----------------------------------------------------------------------------
(* The worker process is a client of the gate. *)

LEMMA StepIsGateStep ==
  ASSUME [WorkerNext]_workerVars
  PROVE  [Next]_vars
<1>1. ASSUME UNCHANGED gate PROVE UNCHANGED vars
  BY <1>1 DEF gate, vars
<1>2. CASE ProcessStep \/ Signal
  BY <1>1, <1>2 DEF ProcessStep, Signal, Start, MainReturns, Fatal, FatalClose,
                    HealthServerClosed, ShutdownClose, ShutdownFails
<1>3. CASE GateContinues
  BY <1>3 DEF GateContinues, Next
<1>4. ASSUME NEW l \in Loops, LoopStep(l) PROVE [Next]_vars
  <2>1. CASE Poll(l) \/ ClaimNothing(l) \/ Wake(l) \/ ClaimRejects(l) \/ BatchDone(l)
    BY <1>1, <2>1 DEF Poll, ClaimNothing, Wake, ClaimRejects, BatchDone
  <2>2. ASSUME NEW b \in Batches, ClaimBatch(l, b) PROVE Next
    BY <2>2 DEF ClaimBatch, Next
  <2> QED BY <1>4, <2>1, <2>2 DEF LoopStep
<1>5. ASSUME NEW o \in Ops, HandlerResolves(o) \/ HandlerRejects(o) \/ Released(o)
      PROVE  Next
  BY <1>5 DEF HandlerResolves, HandlerRejects, Released, Next
<1>6. CASE UNCHANGED workerVars
  BY <1>1, <1>6 DEF workerVars
<1> QED BY <1>2, <1>3, <1>4, <1>5, <1>6 DEF WorkerNext, Proceed

(* The process extends the gate, so every behaviour of it is one of the gate's. *)
LEMMA WorkerUsesGate == WorkerSpec => Spec
<1>1. WorkerInit => Init
  BY DEF WorkerInit
<1>2. [WorkerNext]_workerVars => [Next]_vars
  BY StepIsGateStep
<1> QED BY <1>1, <1>2, PTL DEF WorkerSpec, Spec

(* Steps of the process that leave the gate alone leave its invariant alone. *)
LEMMA GateStep == GateInv /\ [WorkerNext]_workerVars => GateInv'
BY StepIsGateStep, StepInv

-----------------------------------------------------------------------------
(* An item between its claim and its answer. *)
Busy(o) == op[o] \in {"called", "waiting", "active"}

LoopTypeOK ==
  /\ loop \in [Loops -> {"off", "poll", "claiming", "sleeping", "processing",
                         "rejected", "done"}]
  /\ batch \in [Loops -> SUBSET Ops]

(* A busy item belongs to a batch its loop waits for, unless the loop has   *)
(* been rejected; loops start after the process, end before the pool, and   *)
(* are not started at all once a shutdown has begun.                        *)
LoopsHoldWork ==
  /\ \A o \in Ops : Busy(o) =>
        \/ loop[LoopOf(o)] = "rejected"
        \/ loop[LoopOf(o)] = "processing" /\ o \in batch[LoopOf(o)]
  /\ main = "starting" => \A l \in Loops : loop[l] = "off"
  /\ shutdown = "closed" => \A l \in Loops : loop[l] \in {"done", "off"}
  /\ shutdown # "none" => shuttingDown

WorkerInv == GateInv /\ LoopTypeOK /\ LoopsHoldWork

LEMMA OpTypes ==
  ASSUME GateInv
  PROVE  /\ op \in [Ops -> {"out", "called", "waiting", "active", "settled"}]
         /\ calls \in Seq(Ops) /\ waiting \in Seq(Ops)
         /\ index \in Nat \ {0}
         /\ \A i \in DOMAIN calls : op[calls[i]] = "called"
         /\ \A i \in DOMAIN waiting : op[waiting[i]] = "waiting"
BY DEF GateInv, GateTypeOK, ListsAgree

(* run() and drain() only move busy items on. *)
LEMMA ContinueKeepsBusy ==
  ASSUME GateInv, Continue, NEW o \in Ops
  PROVE  Busy(o)' <=> Busy(o)
<1>1. CASE Run
  <2>1. Head(calls) \in Ops /\ op[Head(calls)] = "called"
    BY <1>1, OpTypes DEF Run
  <2>2. op' = [op EXCEPT ![Head(calls)] = "waiting"]
    BY <1>1 DEF Run
  <2> QED BY <2>1, <2>2, OpTypes DEF Busy
<1>2. CASE DrainStart
  <2>1. waiting[index] \in Ops /\ op[waiting[index]] = "waiting"
    BY <1>2, OpTypes DEF DrainStart
  <2>2. op' = [op EXCEPT ![waiting[index]] = "active"]
    BY <1>2 DEF DrainStart
  <2> QED BY <2>1, <2>2, OpTypes DEF Busy
<1>3. CASE DrainSkip \/ DrainEnd
  BY <1>3 DEF DrainSkip, DrainEnd, Busy
<1> QED BY <1>1, <1>2, <1>3 DEF Continue

LEMMA LoopOfType == \A o \in Ops : LoopOf(o) \in Loops
BY DEF Loops

(* A step outside the gate that only moves one loop, not into or out of a   *)
(* batch.                                                                   *)
LEMMA LoopMoves ==
  ASSUME WorkerInv, NEW l \in Loops, NEW s \in {"poll", "claiming", "sleeping",
                                                "rejected", "done"},
         UNCHANGED <<op, batch, main, shutdown, shuttingDown>>,
         loop' = [loop EXCEPT ![l] = s],
         loop[l] \in {"poll", "claiming", "sleeping", "processing"},
         loop[l] = "processing" => batch[l] = {}
  PROVE  LoopTypeOK' /\ LoopsHoldWork'
<1> USE DEF WorkerInv, LoopTypeOK, LoopsHoldWork
<1>1. LoopTypeOK'
  OBVIOUS
<1>2. \A o \in Ops : Busy(o)' <=> Busy(o)
  BY DEF Busy
<1>3. ASSUME NEW o \in Ops, Busy(o) PROVE LoopOf(o) # l
  BY <1>3, LoopOfType
<1>4. \A o \in Ops : Busy(o)' => \/ loop'[LoopOf(o)] = "rejected"
                                 \/ /\ loop'[LoopOf(o)] = "processing"
                                    /\ o \in batch'[LoopOf(o)]
  BY <1>2, <1>3, LoopOfType
<1>5. main # "starting" /\ shutdown # "closed"
  OBVIOUS
<1> QED BY <1>1, <1>4, <1>5

(* Shutdown and the top level leave the items and the loops alone. *)
LEMMA ProcessMoves ==
  ASSUME WorkerInv, UNCHANGED <<op, loop, batch>>,
         main' = "starting" => main = "starting",
         shutdown' # "none" => shuttingDown',
         shutdown' = "closed" => shutdown = "closed" \/ LoopsReturned
  PROVE  LoopTypeOK' /\ LoopsHoldWork'
<1>1. \A o \in Ops : Busy(o)' <=> Busy(o)
  BY DEF Busy
<1> QED BY <1>1 DEF WorkerInv, LoopTypeOK, LoopsHoldWork, LoopsReturned

LEMMA LoopStepInv ==
  ASSUME WorkerInv, NEW l \in Loops, LoopStep(l)
  PROVE  LoopTypeOK' /\ LoopsHoldWork'
<1>1. CASE Poll(l)
  <2>1. PICK s \in {"done", "claiming"} : loop' = [loop EXCEPT ![l] = s]
    BY <1>1 DEF Poll
  <2> QED BY <1>1, <2>1, LoopMoves DEF Poll, gate, vars
<1>2. CASE ClaimNothing(l)
  BY <1>2, LoopMoves DEF ClaimNothing, gate, vars
<1>3. CASE Wake(l)
  BY <1>3, LoopMoves DEF Wake, gate, vars
<1>4. CASE ClaimRejects(l)
  BY <1>4, LoopMoves DEF ClaimRejects, gate, vars
<1>5. CASE BatchDone(l)
  BY <1>5, LoopMoves DEF BatchDone, gate, vars
<1>6. ASSUME NEW b \in Batches, ClaimBatch(l, b)
      PROVE  LoopTypeOK' /\ LoopsHoldWork'
  <2> USE DEF WorkerInv, LoopTypeOK, LoopsHoldWork
  <2> DEFINE B == {b[i] : i \in DOMAIN b}
  <2>1. /\ loop' = [loop EXCEPT ![l] = "processing"]
        /\ batch' = [batch EXCEPT ![l] = B]
        /\ UNCHANGED <<main, shutdown, shuttingDown>> /\ loop[l] = "claiming"
    BY <1>6 DEF ClaimBatch
  <2>2. B \subseteq Ops /\ \A o \in B : LoopOf(o) = l
    BY <1>6, LimitsAssumption DEF ClaimBatch, Batches
  <2>3. \A o \in Ops : op'[o] = IF o \in B THEN "called" ELSE op[o]
    BY <1>6 DEF ClaimBatch, Submit
  <2> HIDE DEF B
  <2>4. LoopTypeOK'
    BY <2>1, <2>2
  <2>5. main # "starting" /\ shutdown # "closed"
    BY <2>1
  <2>6. ASSUME NEW o \in Ops, Busy(o)'
        PROVE  \/ loop'[LoopOf(o)] = "rejected"
               \/ loop'[LoopOf(o)] = "processing" /\ o \in batch'[LoopOf(o)]
    <3>1. CASE o \in B
      BY <2>1, <2>2, <3>1
    <3>2. CASE o \notin B
      <4>1. Busy(o) BY <2>3, <2>6, <3>2 DEF Busy
      <4>2. LoopOf(o) # l BY <2>1, <4>1
      <4> QED BY <2>1, <4>1, <4>2, LoopOfType
    <3> QED BY <3>1, <3>2
  <2> QED BY <2>1, <2>4, <2>5, <2>6
<1> QED BY <1>1, <1>2, <1>3, <1>4, <1>5, <1>6 DEF LoopStep

LEMMA HandlerInv ==
  ASSUME WorkerInv, NEW o \in Ops,
         HandlerResolves(o) \/ HandlerRejects(o) \/ Released(o)
  PROVE  LoopTypeOK' /\ LoopsHoldWork'
<1> USE DEF WorkerInv, LoopTypeOK, LoopsHoldWork
<1>1. CASE Released(o)
  <2>1. op' = [op EXCEPT ![o] = "out"]
    BY <1>1 DEF Released, Release
  <2>2. \A p \in Ops : Busy(p)' => Busy(p)
    BY <2>1, OpTypes DEF Busy
  <2> QED BY <1>1, <2>2 DEF Released, worker
<1>2. CASE HandlerResolves(o) \/ HandlerRejects(o)
  <2>1. op[o] = "active" /\ op' = [op EXCEPT ![o] = "settled"]
    BY <1>2 DEF HandlerResolves, HandlerRejects, Settle
  <2>2. \A p \in Ops : Busy(p)' => Busy(p) /\ p # o
    BY <2>1, OpTypes DEF Busy
  <2>3. PICK s \in {loop[LoopOf(o)], "rejected"} :
          /\ loop' = [loop EXCEPT ![LoopOf(o)] = s]
          /\ batch' = [batch EXCEPT ![LoopOf(o)] = @ \ {o}]
          /\ UNCHANGED <<main, shutdown, shuttingDown>>
    BY <1>2, LoopOfType DEF HandlerResolves, HandlerRejects
  <2>4. loop[LoopOf(o)] \in {"processing", "rejected"}
    BY <2>1 DEF Busy
  <2>5. main # "starting" /\ shutdown # "closed"
    BY <2>4, LoopOfType
  <2>6. LoopTypeOK'
    BY <2>3, LoopOfType
  <2>7. ASSUME NEW p \in Ops, Busy(p)'
        PROVE  \/ loop'[LoopOf(p)] = "rejected"
               \/ loop'[LoopOf(p)] = "processing" /\ p \in batch'[LoopOf(p)]
    BY <2>2, <2>3, <2>7, LoopOfType
  <2> QED BY <2>3, <2>5, <2>6, <2>7
<1> QED BY <1>1, <1>2

LEMMA WorkerStep == WorkerInv /\ [WorkerNext]_workerVars => WorkerInv'
<1> SUFFICES ASSUME WorkerInv, [WorkerNext]_workerVars PROVE LoopTypeOK' /\ LoopsHoldWork'
  BY GateStep DEF WorkerInv
<1>1. CASE Start
  <2>1. \A o \in Ops : ~Busy(o)'
    BY <1>1, LoopOfType DEF Start, gate, vars, WorkerInv, LoopsHoldWork, Busy
  <2>2. /\ main' = "running" /\ UNCHANGED <<batch, shutdown, shuttingDown>>
        /\ \A l \in Loops : loop'[l] \in {"done", "poll"} /\ (shuttingDown => loop'[l] = "done")
        /\ LoopTypeOK'
    BY <1>1 DEF Start, WorkerInv, LoopTypeOK
  <2> QED BY <2>1, <2>2 DEF WorkerInv, LoopsHoldWork
<1>2. CASE MainReturns \/ Fatal \/ FatalClose \/ Signal \/ HealthServerClosed
           \/ ShutdownClose \/ ShutdownFails
  BY <1>2, ProcessMoves DEF MainReturns, Fatal, FatalClose, Signal, gate, vars,
     HealthServerClosed, ShutdownClose, ShutdownFails, WorkerInv, LoopsHoldWork
<1>3. CASE GateContinues
  <2>1. \A o \in Ops : Busy(o)' <=> Busy(o)
    BY <1>3, ContinueKeepsBusy DEF GateContinues, WorkerInv
  <2> QED BY <1>3, <2>1 DEF GateContinues, worker, WorkerInv, LoopTypeOK, LoopsHoldWork
<1>4. ASSUME NEW l \in Loops, LoopStep(l) PROVE LoopTypeOK' /\ LoopsHoldWork'
  BY <1>4, LoopStepInv
<1>5. ASSUME NEW o \in Ops, HandlerResolves(o) \/ HandlerRejects(o) \/ Released(o)
      PROVE  LoopTypeOK' /\ LoopsHoldWork'
  BY <1>5, HandlerInv
<1>6. CASE UNCHANGED workerVars
  BY <1>6, ProcessMoves DEF workerVars, gate, vars, worker, WorkerInv, LoopsHoldWork
<1> QED BY <1>1, <1>2, <1>3, <1>4, <1>5, <1>6 DEF WorkerNext, Proceed, ProcessStep

(* The variables of the process itself. *)
ProcessTypeOK ==
  /\ main \in {"starting", "running", "ended", "closing", "failed"}
  /\ shutdown \in {"none", "closing", "awaiting", "closed", "failed"}
  /\ shuttingDown \in BOOLEAN
  /\ pool \in {"open", "closed"}

LEMMA ProcessTypeStep == ProcessTypeOK /\ [WorkerNext]_workerVars => ProcessTypeOK'
<1> SUFFICES ASSUME ProcessTypeOK, [WorkerNext]_workerVars PROVE ProcessTypeOK'
  OBVIOUS
<1> USE DEF ProcessTypeOK
<1>1. CASE ProcessStep \/ Signal
  BY <1>1 DEF ProcessStep, Signal, Start, MainReturns, Fatal, FatalClose,
              HealthServerClosed, ShutdownClose, ShutdownFails
<1>2. CASE GateContinues
  BY <1>2 DEF GateContinues, worker
<1>3. ASSUME NEW l \in Loops, LoopStep(l) PROVE ProcessTypeOK'
  BY <1>3 DEF LoopStep, Poll, ClaimNothing, Wake, ClaimRejects, BatchDone, ClaimBatch
<1>4. ASSUME NEW o \in Ops, HandlerResolves(o) \/ HandlerRejects(o) \/ Released(o)
      PROVE  ProcessTypeOK'
  BY <1>4 DEF HandlerResolves, HandlerRejects, Released, worker
<1>5. CASE UNCHANGED workerVars
  BY <1>5 DEF workerVars, worker
<1> QED BY <1>1, <1>2, <1>3, <1>4, <1>5 DEF WorkerNext, Proceed

LEMMA InitWorkerInv == WorkerInit => WorkerInv
<1> SUFFICES ASSUME WorkerInit PROVE LoopTypeOK /\ LoopsHoldWork
  BY InitInv DEF WorkerInit, WorkerInv
<1>1. LoopTypeOK
  BY DEF WorkerInit, LoopTypeOK
<1>2. LoopsHoldWork
  BY DEF WorkerInit, LoopsHoldWork, Busy, Init
<1> QED BY <1>1, <1>2

(* A graceful shutdown never closes the pool under leased work, whatever    *)
(* was waiting in the gate or in flight when the signal came.               *)
THEOREM GracefulShutdownDrains == WorkerSpec => []DrainsBeforeClose
<1>1. WorkerInv => DrainsBeforeClose
  BY OpTypes, LoopOfType
     DEF WorkerInv, LoopsHoldWork, Busy, DrainsBeforeClose, NothingLeased
<1> QED BY <1>1, InitWorkerInv, WorkerStep, PTL DEF WorkerSpec

(* What the gate promises holds among the loops of a process that rejects   *)
(* claims, loses loops and shuts down: no tenant and no board has more work *)
(* than its limit, and nothing that could start is left waiting.            *)
THEOREM GateHoldsInWorker == WorkerSpec => [](ScopeLimits /\ WorkConserving) /\ NoUnfairOvertaking
BY WorkerUsesGate, LimitsRespected, NoLostWakeup, OvertakingIsFair, PTL

(* The gate's counters, the loops and the process hold values of their      *)
(* types.                                                                   *)
THEOREM TypeCorrect == WorkerSpec => []TypeOK
<1>1. WorkerInit => ProcessTypeOK
  BY DEF WorkerInit, ProcessTypeOK
<1>2. GateInv => GateTypeOK
  BY DEF GateInv
<1>3. WorkerInv /\ ProcessTypeOK => TypeOK
  BY <1>2 DEF WorkerInv, LoopTypeOK, ProcessTypeOK, TypeOK
<1> QED
  BY <1>1, <1>3, InitWorkerInv, WorkerStep, ProcessTypeStep, PTL DEF WorkerSpec

=============================================================================
