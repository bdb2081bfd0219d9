----------------------------- MODULE RunCustody -----------------------------
(***************************************************************************)
(* What the lease protocol promises about one release run: it is granted   *)
(* to one holder after another, a verdict is given by the latest holder    *)
(* alone, while it holds the run or after it gave the run up with an error *)
(* of its own, and a run that is decided or retired never moves again.     *)
(* Leases, times, versions, requests and their delays do not appear.       *)
(***************************************************************************)
EXTENDS Naturals

CONSTANTS Verdicts,
          Failures,   \* the verdicts a holder may still give after an error
          Undecided

VARIABLES phase,      \* where the run stands
          holder,     \* the number of the latest grant; 0 before the first
          verdict

custodyVars == <<phase, holder, verdict>>

(* "yielded": waiting for the next holder, while the last one may still report its failure. *)
Open == {"waiting", "held", "yielded"}
Phases == Open \cup {"decided", "retired"}

CustodyInit == phase = "waiting" /\ holder = 0 /\ verdict = Undecided

Grant ==
  /\ phase \in {"waiting", "yielded"}
  /\ phase' = "held" /\ holder' = holder + 1
  /\ UNCHANGED verdict

(* The holder gives the run up, or its lease has ended. *)
GiveBack ==
  /\ phase = "held"
  /\ phase' \in {"waiting", "yielded"}
  /\ UNCHANGED <<holder, verdict>>

Decide(v) ==
  /\ phase = "held" \/ (phase = "yielded" /\ v \in Failures)
  /\ phase' = "decided" /\ verdict' = v
  /\ UNCHANGED holder

Retire ==
  /\ phase \in Open
  /\ phase' = "retired"
  /\ UNCHANGED <<holder, verdict>>

CustodyNext == Grant \/ GiveBack \/ Retire \/ \E v \in Verdicts : Decide(v)

CustodySpec == CustodyInit /\ [][CustodyNext]_custodyVars
=============================================================================
