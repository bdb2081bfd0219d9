----------------------- MODULE ScopedConcurrencyGate -----------------------
(***************************************************************************)
(* The in-process gate that every queue loop of a worker shares            *)
(* (apps/web/lib/control-plane-worker-runtime.ts).  run() appends the      *)
(* operation to one list and drains it: each listed operation whose        *)
(* installation and repository are both below their limit starts, in the   *)
(* order of the list, past the ones that have to wait.  When an operation  *)
(* settles its caller is answered first; its counters return, and the list *)
(* is drained again, in a later continuation.                              *)
(*                                                                         *)
(* JavaScript runs one continuation to its end: a series of run() calls    *)
(* and the drains they cause happen without any other step in between.     *)
(* The steps of such a continuation are actions of their own here, and     *)
(* the others wait for Idle.                                               *)
(***************************************************************************)
EXTENDS Integers, Sequences, FiniteSets

CONSTANTS Ops,                \* operations a caller may submit, each again once it is out
          Scope,              \* an operation's installation and repository key
          NoKey,              \* undefined
          InstallationLimit,
          RepositoryLimit,
          BatchLimit          \* bound: run() calls one continuation makes

(* The positive limits are checked by createScopedConcurrencyGate. *)
ASSUME LimitsAssumption == /\ InstallationLimit \in Nat \ {0}
                           /\ RepositoryLimit \in Nat \ {0}
                           /\ BatchLimit \in Nat \ {0}

ASSUME OpsAssumption == IsFiniteSet(Ops)

InstallationOf(o) == Scope[o].installation
RepositoryOf(o) == Scope[o].repository

Installations == {InstallationOf(o) : o \in Ops} \ {NoKey}
Repositories == {RepositoryOf(o) : o \in Ops} \ {NoKey}

VARIABLES op,                  \* [Ops -> where the operation is]
          calls,               \* run() calls the current continuation still makes
          waiting,             \* waiting: PendingOperation[]
          installationActive,
          repositoryActive,
          active,
          draining,
          index                \* drain's position in waiting

vars == <<op, calls, waiting, installationActive, repositoryActive, active,
          draining, index>>

Init == /\ op = [o \in Ops |-> "out"]
        /\ calls = <<>>
        /\ waiting = <<>>
        /\ installationActive = [k \in Installations |-> 0]
        /\ repositoryActive = [k \in Repositories |-> 0]
        /\ active = 0
        /\ draining = FALSE
        /\ index = 1

(* No continuation is running: the event loop may take the next one. *)
Idle == calls = <<>> /\ ~draining

(* count: an undefined key is never limited. *)
Count(map, key) == IF key = NoKey THEN 0 ELSE map[key]

Eligible(o) == /\ Count(installationActive, InstallationOf(o)) < InstallationLimit
               /\ Count(repositoryActive, RepositoryOf(o)) < RepositoryLimit

Increment(map, key) == [k \in DOMAIN map |-> IF k = key THEN map[k] + 1 ELSE map[k]]

(* A counter that would reach zero, or was missing, is deleted. *)
Decrement(map, key) ==
  [k \in DOMAIN map |-> IF k # key THEN map[k]
                        ELSE IF map[k] <= 1 THEN 0 ELSE map[k] - 1]

Without(seq, i) == SubSeq(seq, 1, i - 1) \o SubSeq(seq, i + 1, Len(seq))

Distinct(seq) == \A i, j \in DOMAIN seq : seq[i] = seq[j] => i = j

Batches == UNION {{b \in [1..n -> Ops] : Distinct(b)} : n \in 1..BatchLimit}

(***************************************************************************)
(* A caller's continuation maps its claimed batch to run() calls.          *)
(***************************************************************************)
Submit(b) ==
  /\ Idle
  /\ \A i \in DOMAIN b : op[b[i]] = "out"
  /\ calls' = b
  /\ op' = [o \in Ops |-> IF \E i \in DOMAIN b : b[i] = o THEN "called" ELSE op[o]]
  /\ UNCHANGED <<waiting, installationActive, repositoryActive, active, draining,
                 index>>

(* drain() starts its scan; it never finds draining set (no reentrancy). *)
BeginDrain == draining' = TRUE /\ index' = 1

(* run: the operation joins the list's end and the list is drained. *)
Run ==
  /\ calls # <<>>
  /\ ~draining
  /\ waiting' = Append(waiting, Head(calls))
  /\ calls' = Tail(calls)
  /\ op' = [op EXCEPT ![Head(calls)] = "waiting"]
  /\ BeginDrain
  /\ UNCHANGED <<installationActive, repositoryActive, active>>

(* drain passes over an operation of a full scope. *)
DrainSkip ==
  /\ draining
  /\ index <= Len(waiting)
  /\ ~Eligible(waiting[index])
  /\ index' = index + 1
  /\ UNCHANGED <<op, calls, waiting, installationActive, repositoryActive, active,
                 draining>>

Reserve_RepositoryOnly(o) ==
  /\ active' = active + 1
  /\ installationActive' = installationActive
  /\ repositoryActive' = Increment(repositoryActive, RepositoryOf(o))

Reserve(o) ==
  /\ active' = active + 1
  /\ installationActive' = Increment(installationActive, InstallationOf(o))
  /\ repositoryActive' = Increment(repositoryActive, RepositoryOf(o))

DrainStart_LastFirst ==
  /\ draining
  /\ index <= Len(waiting)
  /\ LET last == CHOOSE i \in index..Len(waiting) :
                    /\ Eligible(waiting[i])
                    /\ \A j \in (i + 1)..Len(waiting) : ~Eligible(waiting[j])
     IN  /\ Eligible(waiting[index])
         /\ waiting' = Without(waiting, last)
         /\ Reserve(waiting[last])
         /\ op' = [op EXCEPT ![waiting[last]] = "active"]
  /\ UNCHANGED <<calls, draining, index>>

(* drain takes an eligible operation off the list and starts it. *)
DrainStart ==
  /\ draining
  /\ index <= Len(waiting)
  /\ Eligible(waiting[index])
  /\ waiting' = Without(waiting, index)
  /\ Reserve(waiting[index])
  /\ op' = [op EXCEPT ![waiting[index]] = "active"]
  /\ UNCHANGED <<calls, draining, index>>

DrainEnd ==
  /\ draining
  /\ index > Len(waiting)
  /\ draining' = FALSE
  /\ UNCHANGED <<op, calls, waiting, installationActive, repositoryActive, active,
                 index>>

(* The operation resolves or rejects and its caller is answered. *)
Settle(o) ==
  /\ Idle
  /\ op[o] = "active"
  /\ op' = [op EXCEPT ![o] = "settled"]
  /\ UNCHANGED <<calls, waiting, installationActive, repositoryActive, active,
                 draining, index>>

Release_NoDrain(o) ==
  /\ Idle
  /\ op[o] = "settled"
  /\ op' = [op EXCEPT ![o] = "out"]
  /\ active' = active - 1
  /\ installationActive' = Decrement(installationActive, InstallationOf(o))
  /\ repositoryActive' = Decrement(repositoryActive, RepositoryOf(o))
  /\ UNCHANGED <<calls, waiting, draining, index>>

(* finally: the counters return and the list is drained again. *)
Release(o) ==
  /\ Idle
  /\ op[o] = "settled"
  /\ op' = [op EXCEPT ![o] = "out"]
  /\ active' = active - 1
  /\ installationActive' = Decrement(installationActive, InstallationOf(o))
  /\ repositoryActive' = Decrement(repositoryActive, RepositoryOf(o))
  /\ BeginDrain
  /\ UNCHANGED <<calls, waiting>>

(* The steps of a continuation that calls run() or drain(). *)
Continue == Run \/ DrainSkip \/ DrainStart \/ DrainEnd

Next == \/ \E b \in Batches : Submit(b)
        \/ Continue
        \/ \E o \in Ops : Settle(o) \/ Release(o)

(* A running continuation ends; handlers end; and the event loop takes      *)
(* queued continuations in order.  Settle and Release are disabled while    *)
(* another continuation runs, hence strong fairness.                        *)
Fairness == /\ WF_vars(Continue)
            /\ \A o \in Ops : SF_vars(Settle(o)) /\ SF_vars(Release(o))

Spec == Init /\ [][Next]_vars

FairSpec == Spec /\ Fairness

-----------------------------------------------------------------------------

GateTypeOK ==
  /\ op \in [Ops -> {"out", "called", "waiting", "active", "settled"}]
  /\ calls \in Seq(Ops)
  /\ waiting \in Seq(Ops)
  /\ installationActive \in [Installations -> Nat]
  /\ repositoryActive \in [Repositories -> Nat]
  /\ active \in Nat
  /\ draining \in BOOLEAN
  /\ index \in Nat \ {0}

(* Operations that started and have not returned their counters. *)
Holding == {o \in Ops : op[o] \in {"active", "settled"}}
HoldingInstallation(k) == {o \in Holding : InstallationOf(o) = k}
HoldingRepository(k) == {o \in Holding : RepositoryOf(o) = k}

(* The counters, kept by increments and by decrements that stop at zero,    *)
(* are at every step the number of operations that hold their scope: none   *)
(* leaks, and none is returned twice (reserve, release).                    *)
CountersMatch ==
  /\ active = Cardinality(Holding)
  /\ \A k \in Installations :
        installationActive[k] = Cardinality(HoldingInstallation(k))
  /\ \A k \in Repositories :
        repositoryActive[k] = Cardinality(HoldingRepository(k))

(* However run() calls and settlements interleave, the operations at work   *)
(* for one installation key or one repository key stay within the limit     *)
(* (eligible, drain).                                                       *)
ScopeLimits ==
  /\ \A k \in Installations :
        Cardinality(HoldingInstallation(k)) <= InstallationLimit
  /\ \A k \in Repositories :
        Cardinality(HoldingRepository(k)) <= RepositoryLimit

(* No lost wake-up: whenever the event loop is idle, every operation still  *)
(* on the list is held back by a scope that is full, although drain makes   *)
(* one pass only and the counters changed during it.                        *)
WorkConserving ==
  Idle => \A i \in DOMAIN waiting : ~Eligible(waiting[i])

(* An operation overtakes an older one only when the older one could not    *)
(* have started itself: the order of the list decides within a scope.       *)
NoUnfairOvertaking ==
  [][\A i, j \in DOMAIN waiting :
        /\ i < j
        /\ op[waiting[j]] = "waiting" /\ op'[waiting[j]] = "active"
        => ~Eligible(waiting[i])]_vars

(* No operation is starved: with handlers that end and a repository key     *)
(* used under one installation key, every submitted operation starts, even  *)
(* if callers never stop submitting others.                                 *)
EveryCallStarts == \A o \in Ops : op[o] = "waiting" ~> op[o] = "active"

=============================================================================
