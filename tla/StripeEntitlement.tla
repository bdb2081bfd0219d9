------------------------- MODULE StripeEntitlement -------------------------
(***************************************************************************)
(* The reconciliation of Stripe's events as any worker replica runs it     *)
(* (stripe-entitlement-worker.ts): passes over the durable inbox that      *)
(* project events on the entitlement ledger concurrently.                  *)
(*                                                                         *)
(* Stripe delivers in any order.  A pass is one transaction: it locks one  *)
(* due row, tries the customer's advisory lock, evaluates its statement on *)
(* a snapshot and commits.  Locks last until the transaction ends, so a    *)
(* crash releases them.                                                    *)
(***************************************************************************)
EXTENDS EntitlementLedger

CONSTANTS Workers,
          MaxFaults      \* bound: aborted transactions and crashes

ASSUME PassAssumption == MaxFaults \in Nat

VARIABLES pass,      \* [Workers -> the transaction it is in]
          faults

vars == <<ledger, pass, faults>>

-----------------------------------------------------------------------------

(* tenant and clash are what the statement's snapshot showed. *)
Pass == [event : Events \cup {None}, stage : {"idle", "claimed", "evaluated", "aborted"},
         tenant : Tenants \cup {None}, clash : BOOLEAN]

Idle == [event |-> None, stage |-> "idle", tenant |-> None, clash |-> FALSE]

Init ==
  /\ LedgerInit
  /\ pass = [w \in Workers |-> Idle]
  /\ faults = 0

RowLocked_WhileEvaluated(e) == \E w \in Workers : pass[w].event = e /\ pass[w].stage = "evaluated"

(* The event's row is locked by a transaction that has not ended. *)
RowLocked(e) == \E w \in Workers : pass[w].event = e /\ pass[w].stage # "aborted"

CustomerLocked_BySubscription(e) ==
  \E w \in Workers : pass[w].stage = "evaluated" /\ Ev[pass[w].event].sub = Ev[e].sub

(* The advisory lock of the event's customer is held. *)
CustomerLocked(e) ==
  \E w \in Workers : pass[w].stage = "evaluated" /\ Ev[pass[w].event].customer = Ev[e].customer

-----------------------------------------------------------------------------

RecordEvent(e) == Record(e) /\ UNCHANGED <<pass, faults>>

(* The rows a projection wrote are locked until it commits.  A row that takes the tenant's
   login after the statement ran is one it did not see: it counts as later than the commit. *)
UpsertInstallation(i, t) ==
  /\ ~\E w \in Workers : /\ pass[w].stage = "evaluated" /\ Ev[pass[w].event].kind = "subscription"
                         /\ pass[w].tenant \in {t, installation[i].login}
  /\ Upsert(i, t)
  /\ UNCHANGED <<pass, faults>>

(* The oldest due row nobody has locked; backoff makes any due row the oldest in turn. *)
ClaimEvent(w, e) ==
  /\ pass[w].stage = "idle"
  /\ inbox[e].state = "due" /\ ~RowLocked(e)
  /\ pass' = [pass EXCEPT ![w] = [event |-> e, stage |-> "claimed", tenant |-> None, clash |-> FALSE]]
  /\ UNCHANGED <<ledger, faults>>

(* What the projection's statement reads: the customer's tenant, and what forbids the write. *)
Snapshot(e) ==
  LET t == TenantOf(Ev[e].customer) IN
  [event |-> e, stage |-> "evaluated", tenant |-> t, clash |-> Clash(e, t)]

Project_Waits(w) ==
  LET e == pass[w].event IN
  /\ pass[w].stage = "claimed" /\ Ev[e].kind # "invalid"
  /\ ~CustomerLocked(e)
  /\ pass' = [pass EXCEPT ![w] = Snapshot(e)]
  /\ UNCHANGED <<ledger, faults>>

(* pg_try_advisory_xact_lock never waits: a busy customer puts the event off by a second
   without spending an attempt; the holder reads for its projection. *)
Project(w) ==
  LET e == pass[w].event IN
  /\ pass[w].stage = "claimed" /\ Ev[e].kind # "invalid"
  /\ pass' = [pass EXCEPT ![w] = IF CustomerLocked(e) THEN Idle ELSE Snapshot(e)]
  /\ UNCHANGED <<ledger, faults>>

-----------------------------------------------------------------------------
(* How a transaction ends. *)

Evaluated(w, kinds) == pass[w].stage = "evaluated" /\ Ev[pass[w].event].kind \in kinds
Ended(w) == pass' = [pass EXCEPT ![w] = Idle]

(* The pass believes that its transaction failed. *)
Failed(w) ==
  /\ faults < MaxFaults /\ faults' = faults + 1
  /\ pass' = [pass EXCEPT ![w] = [event |-> @.event, stage |-> "aborted", tenant |-> None, clash |-> FALSE]]

(* A commit takes effect, and its answer arrives or is lost. *)
Committed(w) == (Ended(w) /\ UNCHANGED faults) \/ Failed(w)

(* The wake's update waits for rows of the customer that other passes have locked. *)
CommitCheckout(w) ==
  LET e == pass[w].event IN
  /\ Evaluated(w, {"checkout"})
  /\ Binds(e, pass[w].clash) =>
       ~\E v \in Workers \ {w} :
           pass[v].stage \in {"claimed", "evaluated"} /\ Ev[pass[v].event].customer = Ev[e].customer
  /\ ApplyCheckout(e, pass[w].clash)
  /\ Committed(w)

CommitSubscription(w) ==
  /\ Evaluated(w, {"subscription"})
  /\ ApplySubscription(pass[w].event, pass[w].tenant, pass[w].clash)
  /\ Committed(w)

CommitInvoice(w) ==
  /\ Evaluated(w, {"invoice"})
  /\ ApplyInvoice(pass[w].event, pass[w].tenant, pass[w].clash)
  /\ Committed(w)

CommitOther(w) ==
  /\ Evaluated(w, {"unrecognized", "unhandled"})
  /\ ApplyOther(pass[w].event)
  /\ Committed(w)

(* A stored body that disagrees with its row is set aside before any lock. *)
DropInvalid(w) ==
  /\ pass[w].stage = "claimed" /\ Ev[pass[w].event].kind = "invalid"
  /\ ApplyOther(pass[w].event)
  /\ Committed(w)

Commit(w) == CommitCheckout(w) \/ CommitSubscription(w) \/ CommitInvoice(w) \/ CommitOther(w)

(* A statement fails or times out: the transaction rolls back and its locks are gone. *)
Abort(w) ==
  /\ pass[w].stage \in {"claimed", "evaluated"}
  /\ Failed(w)
  /\ UNCHANGED ledger

(* The failure is counted outside the transaction, unless somebody settled the event first or
   its own commit did; a deferral whose answer was lost is counted again. *)
CountFailure(w) ==
  LET e == pass[w].event IN
  /\ pass[w].stage = "aborted"
  /\ ~RowLocked(e)
  /\ IF inbox[e].state = "due" THEN PutOff(e) ELSE UNCHANGED ledger
  /\ Ended(w)
  /\ UNCHANGED faults

(* The process dies, or the outage also swallows the count. *)
Crash(w) ==
  /\ pass[w].stage # "idle"
  /\ faults < MaxFaults /\ faults' = faults + 1
  /\ Ended(w)
  /\ UNCHANGED ledger

-----------------------------------------------------------------------------

Work(w) == Project(w) \/ DropInvalid(w) \/ Commit(w) \/ CountFailure(w)

Next ==
  \/ \E e \in Events : RecordEvent(e)
  \/ \E i \in Installations, t \in Tenants : UpsertInstallation(i, t)
  \/ \E w \in Workers, e \in Events : ClaimEvent(w, e)
  \/ \E w \in Workers : Work(w)
  \/ \E w \in Workers : Abort(w) \/ Crash(w)

Spec == Init /\ [][Next]_vars

(* Passes run again and again while a row is due.  A checkout that waits for the rows its
   wake updates gets them when their holders end, before those rows are due again. *)
FairSpec ==
  /\ Spec
  /\ WF_vars(\E w \in Workers, e \in Events : ClaimEvent(w, e))
  /\ \A w \in Workers : WF_vars(Work(w)) /\ SF_vars(CommitCheckout(w))

-----------------------------------------------------------------------------

TypeOK ==
  /\ inbox \in [Events -> Row]
  /\ account \in [Tenants -> Account]
  /\ sub \in [Subscriptions -> Sub]
  /\ installation \in [Installations -> Installation]
  /\ pass \in [Workers -> Pass]
  /\ faults \in 0..MaxFaults

(* However passes overlap, fail and crash, the entitlements are those of some order of the
   events, each projected alone on the state it finds: what a pass evaluated under its locks
   is still so when it commits, and no event is settled twice. *)
ImplementsLedger == LedgerSpec

(* Nothing waits in quarantine for a link that exists: an event that ran out of attempts
   because its customer was unknown is due again once the customer is linked. *)
LinkedCustomersAwake ==
  \A e \in Events : inbox[e].state = "dead_letter" /\ inbox[e].class = "customer_not_linked"
                    => TenantOf(Ev[e].customer) = None

(* Whatever the order of delivery, a subscription shows the newest event that was
   acknowledged as processed, and an account the newest invoice. *)
NewestEventWins ==
  \A e \in Events : inbox[e].state = "processed" =>
    LET v == Ev[e]  t == TenantOf(v.customer) IN
    /\ v.kind = "subscription" => /\ v.at <= sub[v.sub].at
                                  /\ v.at = sub[v.sub].at => sub[v.sub].status = v.status
    /\ v.kind = "invoice" => /\ v.at <= account[t].invoiceAt
                             /\ v.at = account[t].invoiceAt => account[t].paid = v.paid

Open(t) == {s \in Subscriptions : sub[s].tenant = t /\ sub[s].status # "canceled"}

(* A tenant has at most one subscription that has not ended; its tier, and nothing else, is
   what the account grants.  An installation shows the account's tier or the free plan, as one
   that was installed after the last event does, and never the plan of a subscription that
   ended or changed, unless its account was renamed since. *)
EntitlementAgrees ==
  /\ \A t \in Tenants :
       /\ \A r, s \in Open(t) : r = s
       /\ \A s \in Open(t) : account[t].tier = sub[s].tier
       /\ Open(t) = {} => account[t].tier = "free"
  /\ \A i \in Installations : installation[i].login # None /\ ~installation[i].kept =>
       installation[i].plan \in {"free", account[installation[i].login].tier}

(* Once Stripe has delivered what it had, the inbox drains: every event is acknowledged or
   surfaces as a dead letter, and passes that meet on one customer never block each other. *)
EventsSettle == <>[](\A e \in Events : inbox[e].state # "due")
=============================================================================
