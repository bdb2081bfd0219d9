------------------------- MODULE EntitlementLedger -------------------------
(***************************************************************************)
(* What Stripe's events do to entitlements, one event at a time: the       *)
(* durable inbox of verified webhook events, and the accounts and          *)
(* subscriptions a projection writes, with the plan it mirrors onto the    *)
(* installations there are (stripe-entitlement-projection.ts and           *)
(* billing-store.ts).  GitHub reports installations at any time.           *)
(*                                                                         *)
(* A projection is split where the code splits it: what its statement      *)
(* reads (the customer's tenant and what forbids the write), and the write *)
(* given what was read.  The ledger makes both one step; StripeEntitlement *)
(* lets replicas interleave them.  Times are seconds, as in Stripe's       *)
(* events.                                                                 *)
(***************************************************************************)
EXTENDS Naturals

CONSTANTS Events,        \* event ids
          Ev,            \* [Events -> what the stored payload says]
          Unmapped,      \* subscription events whose price is not configured
          Customers, Tenants, Subscriptions,
          Installations, \* of the GitHub app
          MaxAttempts,   \* the attempt budget, 12 in the code
          Logins,        \* bound: the installs and renames GitHub may report
          Histories,     \* bound: the sets of events Stripe may deliver in one run
          None

ASSUME LedgerAssumption ==
  /\ Ev \in [Events ->
       [kind : {"checkout", "subscription", "invoice", "invalid", "unrecognized", "unhandled"},
        customer : Customers, tenant : Tenants, sub : Subscriptions \cup {None}, at : Nat \ {0},
        status : {"active", "past_due", "incomplete", "unpaid", "canceled"},
        tier : {"free", "team", "business"}, paid : BOOLEAN]]
  /\ \A e \in Events : Ev[e].kind = "subscription" => Ev[e].sub # None
  /\ Unmapped \subseteq Events
  /\ Logins \subseteq Installations \X (Tenants \cup {None}) \X Tenants
  /\ MaxAttempts \in Nat \ {0}
  /\ Histories \subseteq SUBSET Events
  /\ None \notin Customers \cup Tenants \cup Subscriptions \cup Events

(* Stripe never moves a subscription to another customer.  The projection counts on it: it
   looks for open subscriptions of the event's customer and writes for the row's owner. *)
ASSUME OneCustomerAssumption ==
  \A d, e \in Events : Ev[d].kind = "subscription" /\ Ev[e].kind = "subscription" /\ Ev[d].sub = Ev[e].sub
                        => Ev[d].customer = Ev[e].customer

VARIABLES inbox,         \* billing_events: [Events -> row]
          account,       \* billing_customers: [Tenants -> row]
          sub,           \* billing_subscriptions: [Subscriptions -> row]
          installation   \* installations: [Installations -> row]

ledger == <<inbox, account, sub, installation>>

-----------------------------------------------------------------------------

Row == [state : {"absent", "due", "processed", "dead_letter"}, attempts : 0..MaxAttempts,
        class : {"none", "customer_not_linked", "other"}]

(* customer is None until a checkout links one; invoiceAt is 0 until an invoice event. *)
Account == [customer : Customers \cup {None}, tier : {"free", "team", "business"},
            status : {"active", "past_due", "incomplete", "canceled"},
            invoiceAt : Nat, paid : BOOLEAN]

(* tenant is None while there is no row; at is last_event_created_at. *)
Sub == [tenant : Tenants \cup {None},
        status : {"active", "past_due", "incomplete", "unpaid", "canceled"}, tier : {"free", "team", "business"}, at : Nat]

(* login is None while there is no row; kept remembers that plan was written before the row
   took this login. *)
Installation == [login : Tenants \cup {None}, plan : {"free", "team", "business"}, kept : BOOLEAN]

LedgerInit ==
  /\ inbox = [e \in Events |-> [state |-> "absent", attempts |-> 0, class |-> "none"]]
  /\ account = [t \in Tenants |-> [customer |-> None, tier |-> "free", status |-> "incomplete",
                                   invoiceAt |-> 0, paid |-> FALSE]]
  /\ sub = [s \in Subscriptions |-> [tenant |-> None, status |-> "incomplete", tier |-> "free", at |-> 0]]
  /\ installation = [i \in Installations |-> [login |-> None, plan |-> "free", kept |-> FALSE]]

(* The webhook stores a verified event once; a redelivery conflicts and changes nothing. *)
Record(e) ==
  /\ inbox[e].state = "absent"
  /\ \E H \in Histories : e \in H /\ {d \in Events : inbox[d].state # "absent"} \subseteq H
  /\ inbox' = [inbox EXCEPT ![e].state = "due"]
  /\ UNCHANGED <<account, sub, installation>>

(* GitHub reports an installation: a new row starts on the free plan whatever its account
   subscribes to, and a row whose account was renamed keeps the plan it has. *)
Upsert(i, t) ==
  /\ <<i, installation[i].login, t>> \in Logins
  /\ installation' = [installation EXCEPT ![i] =
       [login |-> t, plan |-> IF @.login = None THEN "free" ELSE @.plan, kept |-> @.login # None]]
  /\ UNCHANGED <<inbox, account, sub>>

-----------------------------------------------------------------------------
(* What a projection reads. *)

(* The tenant a customer is linked to, None before its checkout. *)
TenantOf(c) == IF \E t \in Tenants : account[t].customer = c
               THEN CHOOSE t \in Tenants : account[t].customer = c
               ELSE None

(* Another subscription of the tenant that has not ended, or, for an invoice, one that is paid for. *)
OtherOpen(t, s) == t # None /\ \E o \in Subscriptions \ {s} :
                                 sub[o].tenant = t /\ sub[o].status # "canceled"
OtherPaid(t, s) == t # None /\ \E o \in Subscriptions \ {s} :
                                 sub[o].tenant = t /\ sub[o].status \in {"active", "past_due"}

(* What forbids an event's write, for the tenant t its customer is linked to. *)
Clash(e, t) == CASE Ev[e].kind = "checkout" -> t \notin {None, Ev[e].tenant}
                 [] Ev[e].kind = "subscription" -> OtherOpen(t, Ev[e].sub)
                 [] Ev[e].kind = "invoice" -> OtherPaid(t, Ev[e].sub)
                 [] OTHER -> FALSE

-----------------------------------------------------------------------------
(* What becomes of an event. *)

Processed(e) == [inbox EXCEPT ![e] = [state |-> "processed", attempts |-> @.attempts, class |-> "none"]]
DeadLettered(e) == [inbox EXCEPT ![e] = [state |-> "dead_letter", attempts |-> @.attempts, class |-> "other"]]

(* A deferral spends an attempt; the last one makes a dead letter. *)
Deferred(e, reason) ==
  [inbox EXCEPT ![e] = [state |-> IF @.attempts + 1 >= MaxAttempts THEN "dead_letter" ELSE "due",
                        attempts |-> @.attempts + 1, class |-> reason]]

Woken_LiveOnly(c) == [e \in Events |-> inbox[e]]

(* wakePendingStripeCustomerEvents: events of the customer are due again, dead letters of a
   customer that was not linked included, with a fresh budget. *)
Woken(c) ==
  [e \in Events |->
     IF Ev[e].customer = c /\ inbox[e].state = "dead_letter" /\ inbox[e].class = "customer_not_linked"
     THEN [state |-> "due", attempts |-> 0, class |-> "none"]
     ELSE inbox[e]]

-----------------------------------------------------------------------------
(* The writes, given the tenant t and the clash that the projection read. *)

Binds(e, clash) == ~clash /\ account[Ev[e].tenant].customer \in {None, Ev[e].customer}

(* checkout.session.completed: a binding is made once, in either direction, and wakes the
   events that waited for it. *)
ApplyCheckout(e, clash) ==
  LET c == Ev[e].customer IN
  /\ IF Binds(e, clash)
     THEN /\ account' = [account EXCEPT ![Ev[e].tenant].customer = c]
          /\ inbox' = [Woken(c) EXCEPT ![e] = [state |-> "processed", attempts |-> inbox[e].attempts,
                                               class |-> "none"]]
     ELSE inbox' = DeadLettered(e) /\ UNCHANGED account
  /\ UNCHANGED <<sub, installation>>

Newer_OrSame(at, last) == at >= last

(* Strictly newer: two events of one second have no order. *)
Newer(at, last) == at > last

(* Stripe's other statuses ("unpaid", "paused") cancel the account, not the subscription. *)
CustomerStatus(v) == IF v.status = "unpaid" THEN "canceled" ELSE v.status

(* The account's status after a subscription event: an invoice event of a later second,
   or a failed one of the same second, keeps what it wrote. *)
StatusAfter(a, v) ==
  IF CustomerStatus(v) = "canceled" \/ a.invoiceAt < v.at \/ (a.invoiceAt = v.at /\ a.paid)
  THEN CustomerStatus(v) ELSE a.status

Granted(v) == IF v.status \in {"active", "past_due"} THEN v.tier ELSE "free"

(* A paid plan whose price is not configured cannot be granted yet. *)
Unpriced(e) == e \in Unmapped /\ Ev[e].status \in {"active", "past_due"}

SubscriptionApplies(e, t, clash) ==
  ~Unpriced(e) /\ t # None /\ ~clash /\ Newer(Ev[e].at, sub[Ev[e].sub].at)

SubscriptionOutcome(e, t, clash) ==
  IF Unpriced(e) THEN Deferred(e, "other")
  ELSE IF t = None THEN Deferred(e, "customer_not_linked")
  ELSE IF clash \/ Ev[e].at = sub[Ev[e].sub].at THEN DeadLettered(e)
  ELSE Processed(e)

(* customer.subscription.*: the subscription is upserted, and with it its owner's account and
   the plan of the installations that carry its owner's login, if there are any. *)
ApplySubscription(e, t, clash) ==
  LET v == Ev[e]
      owner == IF sub[v.sub].tenant = None THEN t ELSE sub[v.sub].tenant IN
  /\ inbox' = SubscriptionOutcome(e, t, clash)
  /\ IF SubscriptionApplies(e, t, clash)
     THEN /\ sub' = [sub EXCEPT ![v.sub] = [tenant |-> owner, status |-> v.status,
                                            tier |-> Granted(v), at |-> v.at]]
          /\ account' = [account EXCEPT ![owner] = [customer |-> @.customer, tier |-> Granted(v),
                           status |-> StatusAfter(@, v), invoiceAt |-> @.invoiceAt, paid |-> @.paid]]
          /\ installation' = [i \in Installations |->
                                IF installation[i].login = owner
                                THEN [login |-> owner, plan |-> Granted(v), kept |-> FALSE]
                                ELSE installation[i]]
     ELSE UNCHANGED <<sub, account, installation>>

InvoiceStatus(a, paid) == CASE paid /\ a.status = "past_due" -> "active"
                            [] ~paid /\ a.status # "canceled" -> "past_due"
                            [] OTHER -> a.status

InvoiceKnown(e, t) == t # None /\ Ev[e].sub # None /\ sub[Ev[e].sub].tenant = t

InvoiceApplies(e, t, clash) == InvoiceKnown(e, t) /\ ~clash /\ account[t].invoiceAt < Ev[e].at

InvoiceOutcome(e, t, clash) ==
  IF t = None THEN Deferred(e, "customer_not_linked")
  ELSE IF Ev[e].sub = None THEN DeadLettered(e)
  ELSE IF ~InvoiceKnown(e, t)
  THEN IF \E s \in Subscriptions : sub[s].tenant = t THEN DeadLettered(e) ELSE Deferred(e, "other")
  ELSE IF clash \/ (account[t].invoiceAt = Ev[e].at /\ account[t].paid # Ev[e].paid)
  THEN DeadLettered(e) ELSE Processed(e)

(* invoice.paid and invoice.payment_failed touch the account only, for a known subscription
   while no other one is paid for; an invoice of no subscription proves no payment. *)
ApplyInvoice(e, t, clash) ==
  /\ inbox' = InvoiceOutcome(e, t, clash)
  /\ account' = IF InvoiceApplies(e, t, clash)
                THEN [account EXCEPT ![t] = [customer |-> @.customer, tier |-> @.tier,
                        status |-> InvoiceStatus(@, Ev[e].paid), invoiceAt |-> Ev[e].at, paid |-> Ev[e].paid]]
                ELSE account
  /\ UNCHANGED <<sub, installation>>

(* An unreadable object of a known type, or a body that disagrees with its row, needs an
   operator; an unknown type is acknowledged. *)
ApplyOther(e) ==
  /\ inbox' = IF Ev[e].kind = "unhandled" THEN Processed(e) ELSE DeadLettered(e)
  /\ UNCHANGED <<account, sub, installation>>

-----------------------------------------------------------------------------
(* The ledger: events are projected one at a time, each on the state it finds. *)

Apply(e, t, clash) ==
  \/ Ev[e].kind = "checkout" /\ ApplyCheckout(e, clash)
  \/ Ev[e].kind = "subscription" /\ ApplySubscription(e, t, clash)
  \/ Ev[e].kind = "invoice" /\ ApplyInvoice(e, t, clash)
  \/ Ev[e].kind \in {"invalid", "unrecognized", "unhandled"} /\ ApplyOther(e)

Settle(e) ==
  LET t == TenantOf(Ev[e].customer) IN inbox[e].state = "due" /\ Apply(e, t, Clash(e, t))

(* An attempt fails and is counted. *)
PutOff(e) ==
  /\ inbox[e].state = "due"
  /\ inbox' = Deferred(e, "other")
  /\ UNCHANGED <<account, sub, installation>>

LedgerNext ==
  \/ \E e \in Events : Record(e) \/ Settle(e) \/ PutOff(e)
  \/ \E i \in Installations, t \in Tenants : Upsert(i, t)

LedgerSpec == LedgerInit /\ [][LedgerNext]_ledger
=============================================================================
