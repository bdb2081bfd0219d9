---------------------- MODULE StripeEntitlementProofs ----------------------
(***************************************************************************)
(* Proofs about EntitlementLedger and StripeEntitlement for any events,    *)
(* customers, tenants, subscriptions and number of workers, and any order  *)
(* of delivery.                                                            *)
(*                                                                         *)
(* The first part is serial: what one event at a time does to the ledger.  *)
(* The second part shows that the passes of any number of workers          *)
(* implement the ledger, by an argument about two locks.  The row lock     *)
(* gives an event to one pass, which alone settles it.  The customer lock  *)
(* makes a snapshot last: what a pass read of its customer is still true   *)
(* when it commits, because only a pass of that customer can write it.     *)
(***************************************************************************)
EXTENDS StripeEntitlement, TLAPS

-----------------------------------------------------------------------------
(* The inductive invariant of the ledger. *)

(* An event that may still be tried has an attempt left. *)
DueHasBudget == \A e \in Events : inbox[e].state \in {"absent", "due"} => inbox[e].attempts < MaxAttempts

LedgerTypes ==
  /\ inbox \in [Events -> Row]
  /\ account \in [Tenants -> Account]
  /\ sub \in [Subscriptions -> Sub]
  /\ installation \in [Installations -> Installation]
  /\ DueHasBudget

(* A customer is linked to one tenant. *)
OneTenant == \A t, u \in Tenants :
               account[t].customer # None /\ account[t].customer = account[u].customer => t = u

(* A subscription belongs to the tenant of the customer its events name. *)
SubscriptionOwned ==
  \A s \in Subscriptions : sub[s].tenant # None =>
    \E e \in Events : /\ Ev[e].kind = "subscription" /\ Ev[e].sub = s
                      /\ TenantOf(Ev[e].customer) = sub[s].tenant

LinkInv == OneTenant /\ SubscriptionOwned

(* A row that waits for a link waits for a customer that has none. *)
AwakeFor(e) == inbox[e].state = "dead_letter" /\ inbox[e].class = "customer_not_linked"
               => TenantOf(Ev[e].customer) = None

(* An acknowledged event, and what its subscription or account shows. *)
NewestFor(e) ==
  inbox[e].state = "processed" =>
    LET v == Ev[e]  t == TenantOf(v.customer) IN
    /\ v.kind = "subscription" => /\ v.at <= sub[v.sub].at
                                  /\ v.at = sub[v.sub].at => sub[v.sub].status = v.status
    /\ v.kind = "invoice" => /\ t # None
                             /\ v.at <= account[t].invoiceAt
                             /\ v.at = account[t].invoiceAt => account[t].paid = v.paid

EventInv == (\A e \in Events : AwakeFor(e) /\ NewestFor(e)) /\ EntitlementAgrees

LedgerInv == LedgerTypes /\ LinkInv /\ EventInv

-----------------------------------------------------------------------------
(* Rows: what the ways to settle an event do to the inbox. *)

(* What each outcome writes in its event's row. *)
LEMMA OutcomeRows ==
  ASSUME inbox \in [Events -> Row], NEW e \in Events, NEW reason \in {"customer_not_linked", "other"}
  PROVE  /\ Processed(e)[e].state = "processed"
         /\ DeadLettered(e)[e].state = "dead_letter" /\ DeadLettered(e)[e].class = "other"
         /\ Deferred(e, reason)[e].state \in {"due", "dead_letter"} /\ Deferred(e, reason)[e].class = reason
         /\ \A d \in Events \ {e} : /\ Processed(e)[d] = inbox[d]
                                    /\ DeadLettered(e)[d] = inbox[d]
                                    /\ Deferred(e, reason)[d] = inbox[d]
BY DEF Processed, DeadLettered, Deferred, Row

(* Settling a due event leaves every row well typed, and one that is still due with an attempt
   in its budget. *)
LEMMA OutcomeTypes ==
  ASSUME LedgerTypes, NEW e \in Events, inbox[e].state = "due",
         NEW reason \in {"customer_not_linked", "other"},
         inbox' \in {Processed(e), DeadLettered(e), Deferred(e, reason)}
  PROVE  inbox' \in [Events -> Row] /\ DueHasBudget'
<1> DEFINE row == IF inbox' = Processed(e)
                  THEN [state |-> "processed", attempts |-> inbox[e].attempts, class |-> "none"]
                  ELSE IF inbox' = DeadLettered(e)
                  THEN [state |-> "dead_letter", attempts |-> inbox[e].attempts, class |-> "other"]
                  ELSE [state |-> IF inbox[e].attempts + 1 >= MaxAttempts THEN "dead_letter" ELSE "due",
                        attempts |-> inbox[e].attempts + 1, class |-> reason]
<1>1. inbox' = [inbox EXCEPT ![e] = row]
  BY DEF LedgerTypes, Processed, DeadLettered, Deferred
<1>2. inbox[e] \in Row /\ inbox[e].attempts < MaxAttempts
  BY DEF LedgerTypes, DueHasBudget
<1>3. inbox[e].attempts \in Nat /\ inbox[e].attempts + 1 \in 0..MaxAttempts
  BY <1>2, LedgerAssumption DEF Row
<1>4. row \in Row
  BY <1>2, <1>3 DEF Row
<1>5. row.state \in {"absent", "due"} => row.attempts < MaxAttempts
  BY <1>3, LedgerAssumption
<1> HIDE DEF row
<1> QED BY <1>1, <1>4, <1>5 DEF LedgerTypes, DueHasBudget

(* Linking a customer makes rows due again, with the whole budget, and touches no other. *)
LEMMA WokenRows ==
  ASSUME LedgerTypes, NEW c \in Customers
  PROVE  /\ Woken(c) \in [Events -> Row]
         /\ \A e \in Events : Woken(c)[e].state \in {"absent", "due"} => Woken(c)[e].attempts < MaxAttempts
         /\ \A e \in Events : inbox[e].state # "dead_letter" => Woken(c)[e] = inbox[e]
BY LedgerAssumption DEF Woken, Row, DueHasBudget, LedgerTypes

-----------------------------------------------------------------------------
(* Types of the ledger. *)

(* A checkout binds its customer: the account's customer, and the rows of the inbox. *)
LEMMA CheckoutTypes ==
  ASSUME LedgerTypes, NEW e \in Events, inbox[e].state = "due", NEW clash, ApplyCheckout(e, clash)
  PROVE  LedgerTypes'
<1>1. CASE ~Binds(e, clash)
  BY <1>1, OutcomeTypes DEF ApplyCheckout, LedgerTypes
<1>2. CASE Binds(e, clash)
  <2> DEFINE c == Ev[e].customer  t == Ev[e].tenant
             row == [state |-> "processed", attempts |-> inbox[e].attempts, class |-> "none"]
  <2>1. /\ account' = [account EXCEPT ![t].customer = c]
        /\ inbox' = [Woken(c) EXCEPT ![e] = row]
        /\ UNCHANGED <<sub, installation>>
    BY <1>2 DEF ApplyCheckout
  <2>2. c \in Customers /\ t \in Tenants
    BY LedgerAssumption
  <2> HIDE DEF c, t
  <2>3. account' \in [Tenants -> Account]
    BY <2>1, <2>2 DEF LedgerTypes, Account
  <2>4. row \in Row /\ row.state = "processed"
    BY DEF LedgerTypes, Row
  <2> HIDE DEF row
  <2>5. inbox' \in [Events -> Row] /\ DueHasBudget'
    BY <2>1, <2>2, <2>4, WokenRows DEF DueHasBudget
  <2> QED BY <2>1, <2>3, <2>5 DEF LedgerTypes
<1> QED BY <1>1, <1>2

(* Every subscription event names a subscription. *)
LEMMA NamesSubscription ==
  ASSUME NEW e \in Events, Ev[e].kind = "subscription"
  PROVE  Ev[e].sub \in Subscriptions
<1>1. Ev[e].sub \in Subscriptions \cup {None} /\ Ev[e].sub # None
  BY LedgerAssumption
<1> QED BY <1>1

(* The projection of a subscription writes rows of the right type. *)
LEMMA SubscriptionTypes ==
  ASSUME LedgerTypes, NEW e \in Events, inbox[e].state = "due", Ev[e].kind = "subscription", NEW t \in Tenants \cup {None}, NEW clash,
         ApplySubscription(e, t, clash)
  PROVE  LedgerTypes'
<1> DEFINE v == Ev[e]
           owner == IF sub[v.sub].tenant = None THEN t ELSE sub[v.sub].tenant
           row == [customer |-> account[owner].customer, tier |-> Granted(v),
                   status |-> StatusAfter(account[owner], v), invoiceAt |-> account[owner].invoiceAt,
                   paid |-> account[owner].paid]
<1>1. inbox' \in [Events -> Row] /\ DueHasBudget'
  <2>1. PICK reason \in {"customer_not_linked", "other"} :
          inbox' \in {Processed(e), DeadLettered(e), Deferred(e, reason)}
    BY DEF ApplySubscription, SubscriptionOutcome
  <2> QED BY <2>1, OutcomeTypes
<1>2. CASE ~SubscriptionApplies(e, t, clash)
  BY <1>1, <1>2 DEF ApplySubscription, LedgerTypes
<1>3. CASE SubscriptionApplies(e, t, clash)
  <2>1. /\ v.sub \in Subscriptions /\ v.at \in Nat
        /\ v.status \in {"active", "past_due", "incomplete", "unpaid", "canceled"}
        /\ v.tier \in {"free", "team", "business"}
    BY LedgerAssumption, NamesSubscription
  <2>2. owner \in Tenants
    BY <1>3, <2>1 DEF SubscriptionApplies, LedgerTypes, Sub
  <2>3. account' = [account EXCEPT ![owner] = row]
        /\ sub' = [sub EXCEPT ![v.sub] = [tenant |-> owner, status |-> v.status,
                                          tier |-> Granted(v), at |-> v.at]]
        /\ installation' = [i \in Installations |->
                              IF installation[i].login = owner
                              THEN [login |-> owner, plan |-> Granted(v), kept |-> FALSE]
                              ELSE installation[i]]
    BY <1>3, <2>2 DEF ApplySubscription, LedgerTypes
  <2> HIDE DEF v, owner
  <2>4. Granted(v) \in {"free", "team", "business"}
    BY <2>1 DEF Granted
  <2>5. account[owner] \in Account
    BY <2>2 DEF LedgerTypes
  <2>6. CustomerStatus(v) \in {"active", "past_due", "incomplete", "canceled"}
    BY <2>1 DEF CustomerStatus
  <2>7. StatusAfter(account[owner], v) \in {"active", "past_due", "incomplete", "canceled"}
    BY <2>5, <2>6 DEF StatusAfter, Account
  <2>8. row \in Account
    BY <2>4, <2>5, <2>7 DEF Account
  <2>9. [tenant |-> owner, status |-> v.status, tier |-> Granted(v), at |-> v.at] \in Sub
    BY <2>1, <2>2, <2>4 DEF Sub
  <2> HIDE DEF row
  <2>10. [login |-> owner, plan |-> Granted(v), kept |-> FALSE] \in Installation
    BY <2>2, <2>4 DEF Installation
  <2>11. installation' \in [Installations -> Installation]
    BY <2>3, <2>10 DEF LedgerTypes
  <2> QED BY <1>1, <2>1, <2>2, <2>3, <2>8, <2>9, <2>11 DEF LedgerTypes
<1> QED BY <1>2, <1>3

(* The projection of an invoice writes an account row of the right type. *)
LEMMA InvoiceTypes ==
  ASSUME LedgerTypes, NEW e \in Events, inbox[e].state = "due", NEW t \in Tenants \cup {None}, NEW clash,
         ApplyInvoice(e, t, clash)
  PROVE  LedgerTypes'
<1> DEFINE row == [customer |-> account[t].customer, tier |-> account[t].tier,
                   status |-> InvoiceStatus(account[t], Ev[e].paid), invoiceAt |-> Ev[e].at,
                   paid |-> Ev[e].paid]
<1>1. inbox' \in [Events -> Row] /\ DueHasBudget' /\ UNCHANGED <<sub, installation>>
  <2>1. PICK reason \in {"customer_not_linked", "other"} :
          inbox' \in {Processed(e), DeadLettered(e), Deferred(e, reason)}
    BY DEF ApplyInvoice, InvoiceOutcome
  <2> QED BY <2>1, OutcomeTypes DEF ApplyInvoice
<1>2. CASE ~InvoiceApplies(e, t, clash)
  BY <1>1, <1>2 DEF ApplyInvoice, LedgerTypes
<1>3. CASE InvoiceApplies(e, t, clash)
  <2>1. Ev[e].at \in Nat /\ Ev[e].paid \in BOOLEAN
    BY LedgerAssumption
  <2>2. t \in Tenants
    BY <1>3 DEF InvoiceApplies, InvoiceKnown
  <2>3. account' = [account EXCEPT ![t] = row]
    BY <1>3, <2>2 DEF ApplyInvoice, LedgerTypes
  <2>4. account[t] \in Account
    BY <2>2 DEF LedgerTypes
  <2>5. InvoiceStatus(account[t], Ev[e].paid) \in {"active", "past_due", "incomplete", "canceled"}
    BY <2>1, <2>4 DEF InvoiceStatus, Account
  <2>6. row \in Account
    BY <2>1, <2>4, <2>5 DEF Account
  <2> HIDE DEF row
  <2> QED BY <1>1, <2>2, <2>3, <2>6 DEF LedgerTypes
<1> QED BY <1>2, <1>3

LEMMA TenantOfType ==
  ASSUME NEW c
  PROVE  TenantOf(c) \in Tenants \cup {None}
BY DEF TenantOf

LEMMA LedgerTypesStep ==
  ASSUME LedgerTypes, [LedgerNext]_ledger
  PROVE  LedgerTypes'
<1>1. ASSUME NEW e \in Events, Record(e)
      PROVE  LedgerTypes'
  <2>1. inbox' \in [Events -> Row] /\ (\A d \in Events \ {e} : inbox'[d] = inbox[d])
        /\ inbox'[e].attempts = inbox[e].attempts
    BY <1>1 DEF Record, LedgerTypes, Row
  <2>2. inbox[e].attempts < MaxAttempts
    BY <1>1 DEF Record, LedgerTypes, DueHasBudget
  <2>3. DueHasBudget'
    BY <2>1, <2>2 DEF LedgerTypes, DueHasBudget
  <2> QED BY <1>1, <2>1, <2>3 DEF Record, LedgerTypes
<1>2. ASSUME NEW e \in Events, Settle(e)
      PROVE  LedgerTypes'
  <2> DEFINE t == TenantOf(Ev[e].customer)
  <2>1. t \in Tenants \cup {None}
    BY TenantOfType
  <2>2. inbox[e].state = "due" /\ Apply(e, t, Clash(e, t))
    BY <1>2 DEF Settle
  <2> HIDE DEF t
  <2>3. CASE ApplyOther(e)
    BY <2>2, <2>3, OutcomeTypes DEF ApplyOther, LedgerTypes
  <2> QED BY <2>1, <2>2, <2>3, CheckoutTypes, SubscriptionTypes, InvoiceTypes DEF Apply
<1>3. ASSUME NEW e \in Events, PutOff(e)
      PROVE  LedgerTypes'
  BY <1>3, OutcomeTypes DEF PutOff, LedgerTypes
<1>4. ASSUME NEW i \in Installations, NEW t \in Tenants, Upsert(i, t)
      PROVE  LedgerTypes'
  <2> DEFINE row == [login |-> t, plan |-> IF installation[i].login = None THEN "free" ELSE installation[i].plan,
                   kept |-> installation[i].login # None]
  <2>1. installation' = [installation EXCEPT ![i] = row] /\ row \in Installation
    BY <1>4 DEF Upsert, LedgerTypes, Installation
  <2> HIDE DEF row
  <2> QED BY <1>4, <2>1 DEF Upsert, LedgerTypes, DueHasBudget
<1>5. CASE UNCHANGED ledger
  BY <1>5 DEF ledger, LedgerTypes, DueHasBudget
<1> QED BY <1>1, <1>2, <1>3, <1>4, <1>5 DEF LedgerNext

-----------------------------------------------------------------------------
(* Links between customers and tenants. *)

(* TenantOf, of any state of the accounts. *)
LinkedIn(acc, c) == IF \E t \in Tenants : acc[t].customer = c
                    THEN CHOOSE t \in Tenants : acc[t].customer = c
                    ELSE None

LEMMA LinkedInIsUnique ==
  ASSUME NEW acc, NEW c \in Customers,
         \A t, u \in Tenants : acc[t].customer # None /\ acc[t].customer = acc[u].customer => t = u
  PROVE  /\ LinkedIn(acc, c) \in Tenants \cup {None}
         /\ \A t \in Tenants : LinkedIn(acc, c) = t <=> acc[t].customer = c
<1>1. c # None /\ None \notin Tenants
  BY LedgerAssumption
<1>2. CASE \E t \in Tenants : acc[t].customer = c
  <2>1. LinkedIn(acc, c) \in Tenants /\ acc[LinkedIn(acc, c)].customer = c
    BY <1>2 DEF LinkedIn
  <2> QED BY <1>1, <2>1
<1>3. CASE ~\E t \in Tenants : acc[t].customer = c
  BY <1>1, <1>3 DEF LinkedIn
<1> QED BY <1>2, <1>3

LEMMA TenantOfIsUnique ==
  ASSUME OneTenant, NEW c \in Customers
  PROVE  /\ TenantOf(c) \in Tenants \cup {None}
         /\ \A t \in Tenants : TenantOf(c) = t <=> account[t].customer = c
BY LinkedInIsUnique DEF OneTenant, TenantOf, LinkedIn

LEMMA TenantOfIsUniqueAfter ==
  ASSUME OneTenant', NEW c \in Customers
  PROVE  /\ TenantOf(c)' \in Tenants \cup {None}
         /\ \A t \in Tenants : TenantOf(c)' = t <=> account'[t].customer = c
BY LinkedInIsUnique DEF OneTenant, TenantOf, LinkedIn

(* A step that keeps every account's customer keeps the tenant of every customer. *)
LEMMA LinksKept ==
  ASSUME OneTenant, \A t \in Tenants : account'[t].customer = account[t].customer
  PROVE  OneTenant' /\ \A c \in Customers : TenantOf(c)' = TenantOf(c)
<1>1. OneTenant'
  BY DEF OneTenant
<1>2. ASSUME NEW c \in Customers
      PROVE  TenantOf(c)' = TenantOf(c)
  BY <1>1, LedgerAssumption, TenantOfIsUnique, TenantOfIsUniqueAfter
<1> QED BY <1>1, <1>2

(* A checkout that binds. *)
Bound(e) == LET clash == Clash(e, TenantOf(Ev[e].customer)) IN
            Ev[e].kind = "checkout" /\ ApplyCheckout(e, clash) /\ Binds(e, clash)

(* It links its customer to its tenant, if either was linked before then to the other, and
   changes no other link. *)
LEMMA LinkMade ==
  ASSUME LedgerTypes, OneTenant, NEW e \in Events, Bound(e),
         NEW c \in Customers, c = Ev[e].customer, NEW t \in Tenants, t = Ev[e].tenant
  PROVE  /\ TenantOf(c) \in {None, t} /\ account[t].customer \in {None, c}
         /\ account' = [account EXCEPT ![t].customer = c]
         /\ OneTenant'
         /\ TenantOf(c)' = t
         /\ \A d \in Customers \ {c} : TenantOf(d)' = TenantOf(d)
<1>1. account' = [account EXCEPT ![t].customer = c] /\ account[t].customer \in {None, c}
  BY DEF Bound, ApplyCheckout, Binds
<1>2. c # None /\ None \notin Tenants
  BY LedgerAssumption
<1>3. TenantOf(c) \in {None, t}
  BY DEF Bound, Binds, Clash
<1>4. \A u \in Tenants : account'[u].customer = IF u = t THEN c ELSE account[u].customer
  BY <1>1, <1>2 DEF LedgerTypes, Account
<1>5. \A u \in Tenants : TenantOf(c) = u <=> account[u].customer = c
  BY TenantOfIsUnique
<1>6. \A u \in Tenants : account[u].customer = c => u = t
  BY <1>2, <1>3, <1>5
<1>7. OneTenant'
  BY <1>4, <1>6 DEF OneTenant
<1>8. TenantOf(c)' = t
  BY <1>2, <1>4, <1>7, TenantOfIsUniqueAfter
<1>9. ASSUME NEW d \in Customers \ {c}
      PROVE  TenantOf(d)' = TenantOf(d)
  <2>1. \A u \in Tenants : account'[u].customer = d <=> account[u].customer = d
    BY <1>1, <1>4, LedgerAssumption
  <2>2. /\ TenantOf(d) \in Tenants \cup {None}
        /\ \A u \in Tenants : TenantOf(d) = u <=> account[u].customer = d
    BY TenantOfIsUnique
  <2>3. /\ TenantOf(d)' \in Tenants \cup {None}
        /\ \A u \in Tenants : TenantOf(d)' = u <=> account'[u].customer = d
    BY <1>7, TenantOfIsUniqueAfter
  <2> QED BY <1>2, <2>1, <2>2, <2>3
<1> QED BY <1>1, <1>3, <1>7, <1>8, <1>9

(* A subscription event that applies writes its subscription and account for the
   customer's tenant, when no other subscription of that tenant is open. *)
Projects(e) == LET t == TenantOf(Ev[e].customer)  clash == Clash(e, TenantOf(Ev[e].customer)) IN
               Ev[e].kind = "subscription" /\ ApplySubscription(e, t, clash) /\ SubscriptionApplies(e, t, clash)

LEMMA SubscriptionWrites ==
  ASSUME LedgerTypes, LinkInv, NEW e \in Events, Projects(e)
  PROVE  LET v == Ev[e]  t == TenantOf(Ev[e].customer) IN
         /\ t \in Tenants
         /\ v.sub \in Subscriptions /\ sub[v.sub].tenant \in {None, t} /\ ~OtherOpen(t, v.sub)
         /\ Newer(v.at, sub[v.sub].at)
         /\ sub'[v.sub].tenant = t /\ sub'[v.sub].status = v.status
         /\ sub'[v.sub].tier = Granted(v) /\ sub'[v.sub].at = v.at
         /\ \A o \in Subscriptions \ {v.sub} : sub'[o] = sub[o]
         /\ account'[t].customer = account[t].customer /\ account'[t].tier = Granted(v)
         /\ account'[t].invoiceAt = account[t].invoiceAt /\ account'[t].paid = account[t].paid
         /\ \A u \in Tenants \ {t} : account'[u] = account[u]
<1> DEFINE v == Ev[e]  t == TenantOf(Ev[e].customer)
<1>1. v.kind = "subscription" /\ ApplySubscription(e, t, Clash(e, t)) /\ SubscriptionApplies(e, t, Clash(e, t))
  BY DEF Projects
<1>2. t # None /\ ~Clash(e, t) /\ Newer(v.at, sub[v.sub].at)
  BY <1>1 DEF SubscriptionApplies
<1>3. t \in Tenants /\ v.sub \in Subscriptions
  BY <1>1, <1>2, TenantOfType, NamesSubscription
<1>4. ~OtherOpen(t, v.sub)
  BY <1>1, <1>2 DEF Clash
<1>5. sub[v.sub].tenant \in {None, t}
  <2> SUFFICES ASSUME sub[v.sub].tenant # None PROVE sub[v.sub].tenant = t
    OBVIOUS
  <2>1. PICK d \in Events : /\ Ev[d].kind = "subscription" /\ Ev[d].sub = v.sub
                            /\ TenantOf(Ev[d].customer) = sub[v.sub].tenant
    BY <1>3 DEF LinkInv, SubscriptionOwned
  <2>2. Ev[d].customer = v.customer
    BY <1>1, <2>1, OneCustomerAssumption
  <2> QED BY <2>1, <2>2
<1>6. (IF sub[v.sub].tenant = None THEN t ELSE sub[v.sub].tenant) = t
  BY <1>5
<1>7. /\ sub' = [sub EXCEPT ![v.sub] = [tenant |-> t, status |-> v.status,
                                        tier |-> Granted(v), at |-> v.at]]
      /\ account' = [account EXCEPT ![t] = [customer |-> @.customer, tier |-> Granted(v),
                       status |-> StatusAfter(@, v), invoiceAt |-> @.invoiceAt, paid |-> @.paid]]
  BY <1>1, <1>6 DEF ApplySubscription
<1> HIDE DEF v, t
<1>8. /\ sub'[v.sub].tenant = t /\ sub'[v.sub].status = v.status
      /\ sub'[v.sub].tier = Granted(v) /\ sub'[v.sub].at = v.at
      /\ \A o \in Subscriptions \ {v.sub} : sub'[o] = sub[o]
  BY <1>3, <1>7 DEF LedgerTypes
<1>9. \A u \in Tenants \ {t} : account'[u] = account[u]
  BY <1>3, <1>7 DEF LedgerTypes
<1>10. account'[t].customer = account[t].customer /\ account'[t].tier = Granted(v)
       /\ account'[t].invoiceAt = account[t].invoiceAt /\ account'[t].paid = account[t].paid
  BY <1>3, <1>7 DEF LedgerTypes
<1> QED BY <1>2, <1>3, <1>4, <1>5, <1>8, <1>9, <1>10 DEF v, t

(* It writes the plan of the installations that carry the tenant's login, and of no other. *)
LEMMA InstallationWrites ==
  ASSUME LedgerTypes, LinkInv, NEW e \in Events, Projects(e), NEW i \in Installations,
         NEW t \in Tenants, t = TenantOf(Ev[e].customer)
  PROVE  \/ installation[i].login # t /\ installation'[i] = installation[i]
         \/ installation'[i] = [login |-> t, plan |-> Granted(Ev[e]), kept |-> FALSE]
<1>1. (IF sub[Ev[e].sub].tenant = None THEN t ELSE sub[Ev[e].sub].tenant) = t
  BY SubscriptionWrites
<1>2. installation' = [j \in Installations |->
                         IF installation[j].login = t
                         THEN [login |-> t, plan |-> Granted(Ev[e]), kept |-> FALSE]
                         ELSE installation[j]]
  BY <1>1 DEF Projects, ApplySubscription
<1> QED BY <1>2

(* A settlement is a checkout that binds, a subscription that is projected, an invoice, or a
   step that only the inbox shows. *)
LEMMA SettleCases ==
  ASSUME NEW e \in Events, Settle(e)
  PROVE  \/ Bound(e)
         \/ Projects(e)
         \/ Ev[e].kind = "invoice" /\ ApplyInvoice(e, TenantOf(Ev[e].customer), Clash(e, TenantOf(Ev[e].customer)))
         \/ UNCHANGED <<account, sub, installation>>
BY DEF Settle, Apply, Bound, Projects, ApplyCheckout, ApplySubscription, ApplyOther

(* Every ledger step but a binding checkout keeps the accounts' customers. *)
LEMMA CustomersKept ==
  ASSUME LedgerTypes, LinkInv, [LedgerNext]_ledger, \A e \in Events : ~Bound(e), NEW t \in Tenants
  PROVE  account'[t].customer = account[t].customer
<1>1. ASSUME NEW e \in Events, Settle(e)
      PROVE  account'[t].customer = account[t].customer
  <2>1. CASE Projects(e)
    BY <2>1, SubscriptionWrites
  <2>2. ASSUME NEW u, NEW clash, ApplyInvoice(e, u, clash)
        PROVE  account'[t].customer = account[t].customer
    BY <2>2 DEF ApplyInvoice, LedgerTypes
  <2> QED BY <1>1, <2>1, <2>2, SettleCases
<1>2. CASE \E e \in Events : Record(e) \/ PutOff(e)
  BY <1>2 DEF Record, PutOff
<1>3. CASE UNCHANGED ledger \/ \E i \in Installations, u \in Tenants : Upsert(i, u)
  BY <1>3 DEF ledger, Upsert
<1> QED BY <1>1, <1>2, <1>3 DEF LedgerNext

(* Links are made, never unmade. *)
LinksLast == \A c \in Customers : TenantOf(c) # None => TenantOf(c)' = TenantOf(c)

LEMMA LinksLastStep ==
  ASSUME LedgerTypes, LinkInv, [LedgerNext]_ledger
  PROVE  OneTenant' /\ LinksLast
<1>1. CASE \A e \in Events : ~Bound(e)
  BY <1>1, CustomersKept, LinksKept DEF LinkInv, LinksLast
<1>2. ASSUME NEW e \in Events, Bound(e)
      PROVE  OneTenant' /\ LinksLast
  <2>1. PICK c \in Customers, t \in Tenants : c = Ev[e].customer /\ t = Ev[e].tenant
    BY LedgerAssumption
  <2> QED BY <1>2, <2>1, LinkMade DEF LinkInv, LinksLast
<1> QED BY <1>1, <1>2

LEMMA LinkStep ==
  ASSUME LedgerTypes, LinkInv, [LedgerNext]_ledger
  PROVE  LinkInv'
<1>1. OneTenant' /\ LinksLast
  BY LinksLastStep
<1>2. \A d \in Events : Ev[d].customer \in Customers
  BY LedgerAssumption
<1>3. ASSUME NEW s \in Subscriptions, sub'[s] = sub[s], sub[s].tenant # None
      PROVE  \E d \in Events : /\ Ev[d].kind = "subscription" /\ Ev[d].sub = s
                               /\ TenantOf(Ev[d].customer)' = sub'[s].tenant
  <2>1. PICK d \in Events : /\ Ev[d].kind = "subscription" /\ Ev[d].sub = s
                            /\ TenantOf(Ev[d].customer) = sub[s].tenant
    BY <1>3 DEF LinkInv, SubscriptionOwned
  <2> QED BY <1>1, <1>2, <1>3, <2>1 DEF LinksLast
<1>4. ASSUME NEW e \in Events, Projects(e)
      PROVE  SubscriptionOwned'
  <2> SUFFICES ASSUME NEW s \in Subscriptions, sub'[s].tenant # None
               PROVE  \E d \in Events : /\ Ev[d].kind = "subscription" /\ Ev[d].sub = s
                                        /\ TenantOf(Ev[d].customer)' = sub'[s].tenant
    BY DEF SubscriptionOwned
  <2>1. CASE s = Ev[e].sub
    <3>1. /\ Ev[e].kind = "subscription" /\ TenantOf(Ev[e].customer) \in Tenants
          /\ sub'[s].tenant = TenantOf(Ev[e].customer)
      BY <1>4, <2>1, SubscriptionWrites DEF Projects
    <3>2. TenantOf(Ev[e].customer)' = TenantOf(Ev[e].customer)
      BY <1>1, <1>2, <3>1, LedgerAssumption DEF LinksLast
    <3> QED BY <2>1, <3>1, <3>2
  <2>2. CASE s # Ev[e].sub
    BY <1>3, <1>4, <2>2, SubscriptionWrites
  <2> QED BY <2>1, <2>2
<1>5. ASSUME sub' = sub
      PROVE  SubscriptionOwned'
  BY <1>3, <1>5 DEF SubscriptionOwned
<1>6. ASSUME NEW e \in Events, Settle(e), ~Projects(e)
      PROVE  sub' = sub
  BY <1>6, SettleCases DEF Bound, ApplyCheckout, ApplyInvoice
<1>7. ASSUME \/ UNCHANGED ledger \/ \E e \in Events : Record(e) \/ PutOff(e)
             \/ \E i \in Installations, u \in Tenants : Upsert(i, u)
      PROVE  sub' = sub
  BY <1>7 DEF ledger, Record, PutOff, Upsert
<1> QED BY <1>1, <1>4, <1>5, <1>6, <1>7 DEF LinkInv, LedgerNext

-----------------------------------------------------------------------------
(* The promises. *)

(* Subscriptions and accounts move to later events only. *)
Advances ==
  /\ \A s \in Subscriptions : sub'[s].at > sub[s].at \/ (sub'[s].at = sub[s].at /\ sub'[s].status = sub[s].status)
  /\ \A t \in Tenants : \/ account'[t].invoiceAt > account[t].invoiceAt
                        \/ account'[t].invoiceAt = account[t].invoiceAt /\ account'[t].paid = account[t].paid

(* An event acknowledged before an advance is shown, or succeeded, after it. *)
LEMMA NewestKept ==
  ASSUME LedgerTypes, LedgerTypes', OneTenant, LinksLast, Advances,
         NEW e \in Events, NewestFor(e), inbox'[e] = inbox[e]
  PROVE  NewestFor(e)'
<1> DEFINE v == Ev[e]  c == Ev[e].customer
<1>1. v.at \in Nat /\ c \in Customers
  BY LedgerAssumption
<1>2. /\ \A s \in Subscriptions : sub[s].at \in Nat /\ sub'[s].at \in Nat
      /\ \A t \in Tenants : account[t].invoiceAt \in Nat /\ account'[t].invoiceAt \in Nat
  BY DEF LedgerTypes, Sub, Account
<1> SUFFICES ASSUME inbox[e].state = "processed"
             PROVE  NewestFor(e)'
  BY DEF NewestFor
<1>3. ASSUME v.kind = "subscription"
      PROVE  v.at <= sub'[v.sub].at /\ (v.at = sub'[v.sub].at => sub'[v.sub].status = v.status)
  <2>1. v.at <= sub[v.sub].at /\ (v.at = sub[v.sub].at => sub[v.sub].status = v.status)
    BY <1>3 DEF NewestFor
  <2>2. v.sub \in Subscriptions
    BY <1>3, NamesSubscription
  <2> QED BY <1>1, <1>2, <2>1, <2>2 DEF Advances
<1>4. ASSUME v.kind = "invoice"
      PROVE  /\ TenantOf(c)' # None
             /\ v.at <= account'[TenantOf(c)'].invoiceAt
             /\ v.at = account'[TenantOf(c)'].invoiceAt => account'[TenantOf(c)'].paid = v.paid
  <2>1. PICK t \in Tenants : /\ TenantOf(c) = t /\ v.at <= account[t].invoiceAt
                             /\ v.at = account[t].invoiceAt => account[t].paid = v.paid
    BY <1>1, <1>4, TenantOfIsUnique DEF NewestFor
  <2>2. TenantOf(c)' = t /\ t # None
    BY <1>1, <2>1, LedgerAssumption DEF LinksLast
  <2>3. v.at <= account'[t].invoiceAt /\ (v.at = account'[t].invoiceAt => account'[t].paid = v.paid)
    BY <1>1, <1>2, <2>1 DEF Advances
  <2> QED BY <2>2, <2>3
<1> QED BY <1>3, <1>4 DEF NewestFor

(* A step that keeps every account's tier, the subscriptions and the installations keeps what
   they grant. *)
LEMMA EntitlementKept ==
  ASSUME EntitlementAgrees, sub' = sub, installation' = installation, LedgerTypes,
         \A t \in Tenants : account'[t].tier = account[t].tier
  PROVE  EntitlementAgrees'
<1>1. \A i \in Installations : installation[i].login \in Tenants \cup {None}
  BY DEF LedgerTypes, Installation
<1> QED BY <1>1 DEF EntitlementAgrees, Open

(* A step that changes no account, subscription or installation keeps the promises, if every row it
   changes keeps them. *)
LEMMA InboxStep ==
  ASSUME LedgerInv, LedgerTypes', LinksLast, account' = account, sub' = sub, installation' = installation,
         \A e \in Events : \/ inbox'[e] = inbox[e]
                           \/ inbox'[e].state = "due"
                           \/ inbox'[e].state = "dead_letter" /\ inbox'[e].class = "other"
                           \/ inbox'[e].state = "dead_letter" /\ TenantOf(Ev[e].customer) = None
                           \/ inbox'[e].state = "processed" /\ NewestFor(e)'
  PROVE  EventInv'
<1>1. \A c \in Customers : TenantOf(c)' = TenantOf(c)
  BY LinksKept DEF LedgerInv, LinkInv
<1>2. ASSUME NEW e \in Events
      PROVE  AwakeFor(e)' /\ NewestFor(e)'
  <2>1. Ev[e].customer \in Customers /\ TenantOf(Ev[e].customer)' = TenantOf(Ev[e].customer)
    BY <1>1, LedgerAssumption
  <2>2. CASE inbox'[e] = inbox[e]
    <3>1. NewestFor(e)'
      BY <2>2, NewestKept DEF LedgerInv, EventInv, LinkInv, Advances
    <3>2. AwakeFor(e)'
      BY <2>1, <2>2 DEF LedgerInv, EventInv, AwakeFor
    <3> QED BY <3>1, <3>2
  <2>3. CASE inbox'[e] # inbox[e] /\ inbox'[e].state = "processed"
    BY <2>3 DEF AwakeFor
  <2>4. CASE inbox'[e] # inbox[e] /\ inbox'[e].state # "processed"
    BY <2>1, <2>4 DEF AwakeFor, NewestFor
  <2> QED BY <2>2, <2>3, <2>4
<1>3. EntitlementAgrees'
  BY EntitlementKept DEF LedgerInv, EventInv
<1> QED BY <1>2, <1>3 DEF EventInv

(* A link wakes whatever waited for it. *)
LEMMA LinkKeepsEvents ==
  ASSUME LedgerInv, LedgerTypes', LinksLast, NEW e \in Events, Bound(e)
  PROVE  EventInv'
<1>1. PICK c \in Customers, t \in Tenants : c = Ev[e].customer /\ t = Ev[e].tenant
  BY LedgerAssumption
<1>2. /\ account' = [account EXCEPT ![t].customer = c]
      /\ \A d \in Customers \ {c} : TenantOf(d)' = TenantOf(d)
  BY <1>1, LinkMade DEF LedgerInv, LinkInv
<1>3. /\ inbox' = [Woken(c) EXCEPT ![e] = [state |-> "processed", attempts |-> inbox[e].attempts, class |-> "none"]]
      /\ UNCHANGED <<sub, installation>> /\ Ev[e].kind = "checkout"
  BY <1>1 DEF Bound, ApplyCheckout
<1>4. inbox'[e].state = "processed" /\ \A d \in Events \ {e} : inbox'[d] = Woken(c)[d]
  BY <1>3 DEF Woken
<1>5. \A u \in Tenants : /\ account'[u].tier = account[u].tier /\ account'[u].paid = account[u].paid
                         /\ account'[u].invoiceAt = account[u].invoiceAt
  BY <1>2 DEF LedgerInv, LedgerTypes, Account
<1>6. EntitlementAgrees'
  BY <1>3, <1>5, EntitlementKept DEF LedgerInv, EventInv
<1>7. ASSUME NEW d \in Events
      PROVE  AwakeFor(d)' /\ NewestFor(d)'
  <2>1. CASE d = e
    BY <1>3, <1>4, <2>1 DEF AwakeFor, NewestFor
  <2>2. CASE d # e /\ inbox'[d] = inbox[d]
    <3>1. NewestFor(d)'
      BY <1>3, <1>5, <2>2, NewestKept DEF LedgerInv, EventInv, LinkInv, Advances
    <3>2. AwakeFor(d)'
      <4> SUFFICES ASSUME inbox[d].state = "dead_letter", inbox[d].class = "customer_not_linked"
                   PROVE  TenantOf(Ev[d].customer)' = None
        BY <2>2 DEF AwakeFor
      <4>1. Ev[d].customer # c
        <5> SUFFICES ASSUME Ev[d].customer = c PROVE FALSE
          OBVIOUS
        <5>1. inbox'[d].state = "due"
          BY <1>4, <2>2 DEF Woken
        <5> QED BY <2>2, <5>1
      <4>2. TenantOf(Ev[d].customer) = None
        BY DEF LedgerInv, EventInv, AwakeFor
      <4>3. Ev[d].customer \in Customers
        BY LedgerAssumption
      <4> QED BY <1>2, <4>1, <4>2, <4>3
    <3> QED BY <3>1, <3>2
  <2>3. CASE d # e /\ inbox'[d] # inbox[d]
    <3>1. inbox'[d].state = "due"
      BY <1>4, <2>3 DEF Woken
    <3> QED BY <3>1 DEF AwakeFor, NewestFor
  <2> QED BY <2>1, <2>2, <2>3
<1> QED BY <1>6, <1>7 DEF EventInv

(* With no other subscription of the tenant open, the one that is written decides the account's
   tier and the plan of every installation that carries its login. *)
LEMMA SubscriptionKeepsEntitlement ==
  ASSUME LedgerInv, NEW e \in Events, Projects(e)
  PROVE  EntitlementAgrees'
<1> DEFINE v == Ev[e]  s == Ev[e].sub
<1> PICK t \in Tenants : t = TenantOf(Ev[e].customer)
  BY SubscriptionWrites DEF LedgerInv
<1>1. /\ s \in Subscriptions /\ sub[s].tenant \in {None, t} /\ ~OtherOpen(t, s)
      /\ sub'[s].tenant = t /\ sub'[s].status = v.status /\ sub'[s].tier = Granted(v)
      /\ \A o \in Subscriptions \ {s} : sub'[o] = sub[o]
      /\ account'[t].tier = Granted(v)
      /\ \A u \in Tenants \ {t} : account'[u] = account[u]
  BY SubscriptionWrites DEF LedgerInv
<1>2. Open(t)' = IF v.status = "canceled" THEN {} ELSE {s}
  BY <1>1, LedgerAssumption DEF Open, OtherOpen
<1>3. v.status = "canceled" => Granted(v) = "free"
  BY DEF Granted
<1>4. ASSUME NEW u \in Tenants \ {t}
      PROVE  Open(u)' = Open(u) /\ \A r \in Open(u) : sub'[r] = sub[r]
  BY <1>1, LedgerAssumption DEF Open
<1>5. ASSUME NEW u \in Tenants
      PROVE  /\ \A r, q \in Open(u)' : r = q
             /\ \A r \in Open(u)' : account'[u].tier = sub'[r].tier
             /\ Open(u)' = {} => account'[u].tier = "free"
  <2>1. CASE u = t
    BY <1>1, <1>2, <1>3, <2>1
  <2>2. CASE u # t
    BY <1>1, <1>4, <2>2 DEF EntitlementAgrees, LedgerInv, EventInv
  <2> QED BY <2>1, <2>2
<1>6. ASSUME NEW i \in Installations, installation'[i].login # None, ~installation'[i].kept
      PROVE  installation'[i].plan \in {"free", account'[installation'[i].login].tier}
  <2>0. \/ installation'[i] = [login |-> t, plan |-> Granted(v), kept |-> FALSE]
        \/ installation[i].login # t /\ installation'[i] = installation[i]
    BY InstallationWrites DEF LedgerInv
  <2>1. CASE installation'[i] = [login |-> t, plan |-> Granted(v), kept |-> FALSE]
    BY <1>1, <2>1
  <2>2. CASE installation[i].login # t /\ installation'[i] = installation[i]
    <3>1. installation[i].login \in Tenants \ {t}
      BY <1>6, <2>2 DEF LedgerInv, LedgerTypes, Installation
    <3> QED BY <1>1, <1>6, <2>2, <3>1 DEF EntitlementAgrees, LedgerInv, EventInv
  <2> QED BY <2>0, <2>1, <2>2
<1> QED BY <1>5, <1>6 DEF EntitlementAgrees

LEMMA ProjectionKeepsEvents ==
  ASSUME LedgerInv, LedgerTypes', LinksLast, NEW e \in Events, Projects(e)
  PROVE  EventInv'
<1> DEFINE v == Ev[e]
<1>1. /\ v.kind = "subscription" /\ v.sub \in Subscriptions
      /\ inbox' = SubscriptionOutcome(e, TenantOf(v.customer), Clash(e, TenantOf(v.customer)))
  BY LedgerAssumption DEF Projects, ApplySubscription
<1>2. /\ sub'[v.sub].at = v.at /\ sub'[v.sub].status = v.status /\ v.at > sub[v.sub].at
      /\ \A s \in Subscriptions \ {v.sub} : sub'[s] = sub[s]
      /\ \A u \in Tenants : /\ account'[u].customer = account[u].customer
                            /\ account'[u].invoiceAt = account[u].invoiceAt
                            /\ account'[u].paid = account[u].paid
  BY SubscriptionWrites DEF Newer, LedgerInv
<1>3. \A c \in Customers : TenantOf(c)' = TenantOf(c)
  BY <1>2, LinksKept DEF LedgerInv, LinkInv
<1>4. Advances
  BY <1>2 DEF Advances
<1>5. inbox'[e].state \in {"processed", "dead_letter"} /\ inbox'[e].class # "customer_not_linked"
      /\ \A d \in Events \ {e} : inbox'[d] = inbox[d]
  <2>1. inbox' = DeadLettered(e) \/ inbox' = Processed(e)
    BY <1>1 DEF Projects, SubscriptionApplies, SubscriptionOutcome
  <2>2. Processed(e)[e].class = "none"
    BY DEF Processed, LedgerInv, LedgerTypes
  <2> QED BY <2>1, <2>2, OutcomeRows DEF LedgerInv, LedgerTypes
<1>6. ASSUME NEW d \in Events \ {e}
      PROVE  AwakeFor(d)' /\ NewestFor(d)'
  <2>1. inbox'[d] = inbox[d] /\ Ev[d].customer \in Customers
    BY <1>5, LedgerAssumption
  <2> QED BY <1>3, <1>4, <2>1, NewestKept DEF LedgerInv, EventInv, LinkInv, AwakeFor
<1>7. AwakeFor(e)'
  BY <1>5 DEF AwakeFor
<1>8. NewestFor(e)'
  <2>1. v.at \in Nat
    BY LedgerAssumption
  <2> QED BY <1>1, <1>2, <2>1 DEF NewestFor
<1>9. EntitlementAgrees'
  BY SubscriptionKeepsEntitlement
<1> QED BY <1>6, <1>7, <1>8, <1>9 DEF EventInv

(* A subscription event that does not apply is put off, quarantined or stale. *)
LEMMA StaleKeepsEvents ==
  ASSUME LedgerInv, LedgerTypes', LinksLast, NEW e \in Events, Ev[e].kind = "subscription",
         NEW t, t = TenantOf(Ev[e].customer), NEW clash,
         ApplySubscription(e, t, clash), ~SubscriptionApplies(e, t, clash)
  PROVE  EventInv'
<1>1. UNCHANGED <<account, sub, installation>> /\ inbox' = SubscriptionOutcome(e, t, clash)
  BY DEF ApplySubscription
<1>2. CASE inbox' = Deferred(e, "other") \/ inbox' = DeadLettered(e)
  <2>1. \A d \in Events : \/ inbox'[d] = inbox[d]
                          \/ inbox'[d].state = "due"
                          \/ inbox'[d].state = "dead_letter" /\ inbox'[d].class = "other"
    BY <1>2, OutcomeRows DEF LedgerInv, LedgerTypes
  <2> QED BY <1>1, <2>1, InboxStep
<1>3. CASE t = None /\ inbox' = Deferred(e, "customer_not_linked")
  <2>1. \A d \in Events : \/ inbox'[d] = inbox[d]
                          \/ inbox'[d].state = "due"
                          \/ inbox'[d].state = "dead_letter" /\ TenantOf(Ev[d].customer) = None
    <3>1. TenantOf(Ev[e].customer) = None /\ inbox'[e].state \in {"due", "dead_letter"}
      BY <1>3, OutcomeRows DEF LedgerInv, LedgerTypes
    <3>2. \A d \in Events \ {e} : inbox'[d] = inbox[d]
      BY <1>3, OutcomeRows DEF LedgerInv, LedgerTypes
    <3> QED BY <3>1, <3>2
  <2> QED BY <1>1, <2>1, InboxStep
<1>4. CASE /\ ~Unpriced(e) /\ t # None /\ ~(clash \/ Ev[e].at = sub[Ev[e].sub].at)
           /\ inbox' = Processed(e)
  <2>1. Ev[e].sub \in Subscriptions /\ Ev[e].at \in Nat /\ sub[Ev[e].sub].at \in Nat
    BY LedgerAssumption DEF LedgerInv, LedgerTypes, Sub
  <2>2. Ev[e].at < sub[Ev[e].sub].at
    BY <1>4, <2>1 DEF SubscriptionApplies, Newer
  <2>3. NewestFor(e)'
    BY <1>1, <2>1, <2>2 DEF NewestFor
  <2>4. \A d \in Events : \/ inbox'[d] = inbox[d]
                          \/ inbox'[d].state = "processed" /\ NewestFor(d)'
    <3>1. inbox'[e].state = "processed" /\ \A d \in Events \ {e} : inbox'[d] = inbox[d]
      BY <1>4, OutcomeRows DEF LedgerInv, LedgerTypes
    <3> QED BY <2>3, <3>1
  <2> QED BY <1>1, <2>4, InboxStep
<1> QED BY <1>1, <1>2, <1>3, <1>4 DEF SubscriptionOutcome

LEMMA InvoiceKeepsEvents ==
  ASSUME LedgerInv, LedgerTypes', LinksLast, NEW e \in Events, Ev[e].kind = "invoice",
         NEW t, t = TenantOf(Ev[e].customer), NEW clash, ApplyInvoice(e, t, clash)
  PROVE  EventInv'
<1> DEFINE v == Ev[e]
<1>1. /\ v.customer \in Customers /\ v.at \in Nat /\ t \in Tenants \cup {None}
      /\ None \notin Tenants
      /\ inbox' = InvoiceOutcome(e, t, clash) /\ UNCHANGED <<sub, installation>>
  BY LedgerAssumption, TenantOfType DEF ApplyInvoice
<1>2. ~InvoiceApplies(e, t, clash) => account' = account
  BY DEF ApplyInvoice
<1>3. InvoiceApplies(e, t, clash) => t \in Tenants
  BY <1>1 DEF InvoiceApplies, InvoiceKnown
<1>4. ASSUME InvoiceApplies(e, t, clash)
      PROVE  /\ account'[t].invoiceAt = v.at /\ account'[t].paid = v.paid /\ v.at > account[t].invoiceAt
             /\ account'[t].customer = account[t].customer /\ account'[t].tier = account[t].tier
             /\ \A u \in Tenants \ {t} : account'[u] = account[u]
  <2>1. account' = [account EXCEPT ![t] = [customer |-> @.customer, tier |-> @.tier,
                       status |-> InvoiceStatus(@, v.paid), invoiceAt |-> v.at, paid |-> v.paid]]
    BY <1>4 DEF ApplyInvoice
  <2>2. t \in Tenants /\ account[t].invoiceAt < v.at /\ account[t].invoiceAt \in Nat
    BY <1>3, <1>4 DEF InvoiceApplies, LedgerInv, LedgerTypes, Account
  <2> HIDE DEF v
  <2>3. v.at > account[t].invoiceAt
    BY <1>1, <2>2 DEF v
  <2> QED BY <2>1, <2>2, <2>3 DEF LedgerInv, LedgerTypes
<1>5. \A u \in Tenants : account'[u].customer = account[u].customer /\ account'[u].tier = account[u].tier
  BY <1>2, <1>4
<1>6. \A c \in Customers : TenantOf(c)' = TenantOf(c)
  BY <1>5, LinksKept DEF LedgerInv, LinkInv
<1>7. Advances
  BY <1>1, <1>2, <1>4 DEF Advances
<1>8. EntitlementAgrees'
  BY <1>1, <1>5, EntitlementKept DEF LedgerInv, EventInv
<1>9. ASSUME NEW d \in Events \ {e}
      PROVE  AwakeFor(d)' /\ NewestFor(d)'
  <2>1. inbox'[d] = inbox[d] /\ Ev[d].customer \in Customers
    BY <1>1, OutcomeRows, LedgerAssumption DEF InvoiceOutcome, LedgerInv, LedgerTypes
  <2> QED BY <1>6, <1>7, <2>1, NewestKept DEF LedgerInv, EventInv, LinkInv, AwakeFor
<1>10. AwakeFor(e)' /\ NewestFor(e)'
  <2>1. CASE t = None
    <3>1. inbox' = Deferred(e, "customer_not_linked")
      BY <1>1, <2>1 DEF InvoiceOutcome
    <3>2. inbox'[e].state # "processed"
      BY <3>1, OutcomeRows DEF LedgerInv, LedgerTypes
    <3>3. TenantOf(v.customer)' = None
      BY <1>1, <1>6, <2>1
    <3> QED BY <3>2, <3>3 DEF AwakeFor, NewestFor
  <2>2. CASE inbox' = DeadLettered(e) \/ inbox' = Deferred(e, "other")
    BY <2>2, OutcomeRows DEF LedgerInv, LedgerTypes, AwakeFor, NewestFor
  <2>3. CASE /\ t # None /\ InvoiceKnown(e, t) /\ ~clash
             /\ ~(account[t].invoiceAt = v.at /\ account[t].paid # v.paid)
             /\ inbox' = Processed(e)
    <3>1. t = TenantOf(v.customer)' /\ t \in Tenants
      BY <1>1, <1>6, <2>3
    <3>2. inbox'[e].state = "processed"
      BY <2>3, OutcomeRows DEF LedgerInv, LedgerTypes
    <3>3. v.at <= account'[t].invoiceAt /\ (v.at = account'[t].invoiceAt => account'[t].paid = v.paid)
      <4>1. account[t].invoiceAt \in Nat
        BY <3>1 DEF LedgerInv, LedgerTypes, Account
      <4>2. CASE InvoiceApplies(e, t, clash)
        BY <1>1, <1>4, <4>2
      <4>3. CASE ~InvoiceApplies(e, t, clash)
        BY <1>1, <1>2, <2>3, <4>1, <4>3 DEF InvoiceApplies
      <4> QED BY <4>2, <4>3
    <3>4. TenantOf(v.customer)' # None /\ v.kind = "invoice"
      BY <1>1, <3>1
    <3> QED BY <3>1, <3>2, <3>3, <3>4 DEF AwakeFor, NewestFor
  <2> QED BY <1>1, <2>1, <2>2, <2>3 DEF InvoiceOutcome
<1> QED BY <1>8, <1>9, <1>10 DEF EventInv

(* Every event that is settled keeps the promises, whatever its order and outcome. *)
LEMMA SettleKeepsEvents ==
  ASSUME LedgerInv, LedgerTypes', LinksLast, NEW e \in Events, Settle(e)
  PROVE  EventInv'
<1> PICK t : t = TenantOf(Ev[e].customer)
  OBVIOUS
<1> PICK clash : clash = Clash(e, t)
  OBVIOUS
<1>1. Apply(e, t, clash)
  BY DEF Settle
<1>2. CASE Bound(e)
  BY <1>2, LinkKeepsEvents
<1>3. CASE Projects(e)
  BY <1>3, ProjectionKeepsEvents
<1>4. CASE Ev[e].kind = "subscription" /\ ApplySubscription(e, t, clash) /\ ~Projects(e)
  <2>1. ~SubscriptionApplies(e, t, clash)
    BY <1>4 DEF Projects
  <2> QED BY <1>4, <2>1, StaleKeepsEvents
<1>5. CASE Ev[e].kind = "invoice" /\ ApplyInvoice(e, t, clash)
  BY <1>5, InvoiceKeepsEvents
<1>6. CASE \/ Ev[e].kind = "checkout" /\ ApplyCheckout(e, clash) /\ ~Bound(e)
           \/ Ev[e].kind \in {"invalid", "unrecognized", "unhandled"} /\ ApplyOther(e)
  <2>1. UNCHANGED <<account, sub, installation>>
    BY <1>6 DEF Bound, ApplyCheckout, ApplyOther
  <2>2. inbox' = DeadLettered(e) \/ (inbox' = Processed(e) /\ Ev[e].kind = "unhandled")
    BY <1>6 DEF Bound, ApplyCheckout, ApplyOther
  <2>3. \A d \in Events \ {e} : inbox'[d] = inbox[d]
    BY <2>2, OutcomeRows DEF LedgerInv, LedgerTypes
  <2>4. \/ inbox'[e].state = "dead_letter" /\ inbox'[e].class = "other"
        \/ inbox'[e].state = "processed" /\ NewestFor(e)'
    BY <2>2, OutcomeRows DEF LedgerInv, LedgerTypes, NewestFor
  <2> QED BY <2>1, <2>3, <2>4, InboxStep
<1> QED BY <1>1, <1>2, <1>3, <1>4, <1>5, <1>6 DEF Apply

LEMMA EventStep ==
  ASSUME LedgerInv, [LedgerNext]_ledger
  PROVE  EventInv'
<1>1. LedgerTypes' /\ LinksLast
  BY LedgerTypesStep, LinksLastStep DEF LedgerInv
<1>2. ASSUME NEW e \in Events, Record(e) \/ PutOff(e)
      PROVE  EventInv'
  <2>1. UNCHANGED <<account, sub, installation>> /\ \A d \in Events \ {e} : inbox'[d] = inbox[d]
    BY <1>2, OutcomeRows DEF Record, PutOff, LedgerInv, LedgerTypes
  <2>2. inbox'[e].state = "due" \/ (inbox'[e].state = "dead_letter" /\ inbox'[e].class = "other")
    BY <1>2, OutcomeRows DEF Record, PutOff, LedgerInv, LedgerTypes, Row
  <2> QED BY <1>1, <2>1, <2>2, InboxStep
<1>3. ASSUME NEW i \in Installations, NEW t \in Tenants, Upsert(i, t)
      PROVE  EventInv'
  <2>1. UNCHANGED <<inbox, account, sub>> /\ \A j \in Installations \ {i} : installation'[j] = installation[j]
    BY <1>3 DEF Upsert, LedgerInv, LedgerTypes
  <2>2. /\ installation'[i].kept = (installation[i].login # None)
        /\ installation[i].login = None => installation'[i].plan = "free"
    BY <1>3 DEF Upsert, LedgerInv, LedgerTypes
  <2>3. EntitlementAgrees'
    <3>1. ASSUME NEW j \in Installations, installation'[j].login # None, ~installation'[j].kept
          PROVE  installation'[j].plan \in {"free", account[installation'[j].login].tier}
      <4>1. CASE j = i
        BY <2>2, <3>1, <4>1
      <4>2. CASE j # i
        BY <2>1, <3>1, <4>2 DEF LedgerInv, EventInv, EntitlementAgrees
      <4> QED BY <4>1, <4>2
    <3> QED BY <2>1, <3>1 DEF LedgerInv, EventInv, EntitlementAgrees, Open
  <2>4. \A e \in Events : AwakeFor(e)' /\ NewestFor(e)'
    BY <2>1 DEF LedgerInv, EventInv, AwakeFor, NewestFor, TenantOf
  <2> QED BY <2>3, <2>4 DEF EventInv
<1>4. CASE UNCHANGED ledger
  BY <1>1, <1>4, InboxStep DEF ledger
<1> QED BY <1>1, <1>2, <1>3, <1>4, SettleKeepsEvents DEF LedgerNext

(* The serial ledger keeps its promises. *)
LEMMA LedgerStep ==
  ASSUME LedgerInv, [LedgerNext]_ledger
  PROVE  LedgerInv'
BY LedgerTypesStep, LinkStep, EventStep DEF LedgerInv

-----------------------------------------------------------------------------
(* The inductive invariant of the passes: who holds which lock. *)

Holding(w) == pass[w].stage \in {"claimed", "evaluated"}

(* A pass that holds a row lock holds it alone, and its event is due. *)
RowLocks ==
  /\ \A w \in Workers : pass[w].stage # "idle" => pass[w].event \in Events
  /\ \A w \in Workers : Holding(w) => inbox[pass[w].event].state = "due"
  /\ \A v, w \in Workers : Holding(v) /\ Holding(w) /\ pass[v].event = pass[w].event => v = w

(* One pass at a time evaluates events of a customer. *)
CustomerLocks ==
  \A v, w \in Workers :
    /\ pass[v].stage = "evaluated" /\ pass[w].stage = "evaluated"
    /\ Ev[pass[v].event].customer = Ev[pass[w].event].customer
    => v = w

(* An evaluated pass would read again what it read. *)
SnapshotLasts ==
  \A w \in Workers, e \in Events :
    pass[w].stage = "evaluated" /\ pass[w].event = e => pass[w] = Snapshot(e)

PassTypes == pass \in [Workers -> Pass] /\ faults \in 0..MaxFaults

PassInv == PassTypes /\ RowLocks /\ CustomerLocks /\ SnapshotLasts

-----------------------------------------------------------------------------
(* The passes implement the ledger. *)

(* What a pass commits is what the ledger does with its event: the lock of the row keeps the
   event due, the lock of the customer what was read about it. *)
LEMMA CommitSettles ==
  ASSUME RowLocks, SnapshotLasts, NEW w \in Workers, DropInvalid(w) \/ Commit(w),
         NEW e \in Events, e = pass[w].event
  PROVE  Settle(e) /\ Holding(w) /\ Committed(w)
<1>1. Holding(w) /\ Committed(w)
  BY DEF DropInvalid, Commit, CommitCheckout, CommitSubscription, CommitInvoice, CommitOther,
         Evaluated, Holding
<1>2. inbox[e].state = "due"
  BY <1>1 DEF RowLocks
<1>3. CASE DropInvalid(w)
  BY <1>1, <1>2, <1>3 DEF DropInvalid, Settle, Apply
<1>4. CASE Commit(w)
  <2> PICK t : t = TenantOf(Ev[e].customer)
    OBVIOUS
  <2>1. pass[w].stage = "evaluated"
    BY <1>4 DEF Commit, CommitCheckout, CommitSubscription, CommitInvoice, CommitOther, Evaluated
  <2>2. pass[w].tenant = t /\ pass[w].clash = Clash(e, t)
    <3>1. pass[w] = Snapshot(e)
      BY <2>1 DEF SnapshotLasts
    <3> QED BY <3>1 DEF Snapshot
  <2>3. Apply(e, t, Clash(e, t))
    BY <1>4, <2>2 DEF Commit, CommitCheckout, CommitSubscription, CommitInvoice, CommitOther,
                      Evaluated, Apply
  <2> QED BY <1>1, <1>2, <2>3 DEF Settle
<1> QED BY <1>3, <1>4

(* A failure that is counted puts its event off, or finds it settled. *)
LEMMA FailurePutsOff ==
  ASSUME RowLocks, NEW w \in Workers, CountFailure(w), NEW e \in Events, e = pass[w].event
  PROVE  /\ PutOff(e) \/ UNCHANGED ledger
         /\ \A v \in Workers : Holding(v) => pass[v].event # e
         /\ Ended(w) /\ faults' = faults
BY DEF CountFailure, RowLocked, Holding

(* Every step of the workers is a step of the ledger, or none. *)
LEMMA Simulation ==
  ASSUME RowLocks, SnapshotLasts, [Next]_vars
  PROVE  [LedgerNext]_ledger
<1>1. ASSUME NEW e \in Events, RecordEvent(e)
      PROVE  LedgerNext
  BY <1>1 DEF RecordEvent, LedgerNext
<1>2. ASSUME NEW w \in Workers, Commit(w) \/ DropInvalid(w)
      PROVE  LedgerNext
  <2>1. PICK e \in Events : e = pass[w].event
    BY <1>2 DEF DropInvalid, Commit, CommitCheckout, CommitSubscription, CommitInvoice, CommitOther,
                Evaluated, RowLocks
  <2> QED BY <1>2, <2>1, CommitSettles DEF LedgerNext
<1>3. ASSUME NEW w \in Workers, CountFailure(w)
      PROVE  [LedgerNext]_ledger
  <2>1. PICK e \in Events : e = pass[w].event
    BY <1>3 DEF CountFailure, RowLocks
  <2> QED BY <1>3, <2>1, FailurePutsOff DEF LedgerNext
<1>4. ASSUME NEW i \in Installations, NEW t \in Tenants, UpsertInstallation(i, t)
      PROVE  LedgerNext
  BY <1>4 DEF UpsertInstallation, LedgerNext
<1>5. ASSUME \/ \E w \in Workers, e \in Events : ClaimEvent(w, e)
             \/ \E w \in Workers : Project(w) \/ Abort(w) \/ Crash(w)
             \/ UNCHANGED vars
      PROVE  UNCHANGED ledger
  BY <1>5 DEF ClaimEvent, Project, Abort, Crash, vars
<1> QED BY <1>1, <1>2, <1>3, <1>4, <1>5 DEF Next, Work

(* A settlement leaves what was read of other customers' events as it was: it links no other
   customer, and the subscription it writes is of no other tenant. *)
LEMMA SettleIsLocal ==
  ASSUME LedgerTypes, LinkInv, NEW e \in Events, Settle(e),
         NEW d \in Events, Ev[d].customer # Ev[e].customer
  PROVE  Snapshot(d)' = Snapshot(d)
<1> PICK c \in Customers : c = Ev[d].customer
  BY LedgerAssumption
<1>1. Ev[e].customer \in Customers /\ None \notin Tenants /\ LedgerNext
  BY LedgerAssumption DEF LedgerNext
<1>2. TenantOf(c)' = TenantOf(c)
  <2>1. CASE Bound(e)
    <3>1. PICK b \in Customers, t \in Tenants : b = Ev[e].customer /\ t = Ev[e].tenant
      BY LedgerAssumption
    <3> QED BY <2>1, <3>1, LinkMade DEF LinkInv
  <2>2. CASE ~Bound(e)
    <3>1. ASSUME NEW u, NEW clash, ApplyInvoice(e, u, clash), NEW t \in Tenants
          PROVE  account'[t].customer = account[t].customer
      BY <3>1 DEF ApplyInvoice, LedgerTypes
    <3>2. \A t \in Tenants : account'[t].customer = account[t].customer
      BY <2>2, <3>1, SettleCases, SubscriptionWrites
    <3> QED BY <3>2, LinksKept DEF LinkInv
  <2> QED BY <2>1, <2>2
<1> PICK u \in Tenants \cup {None} : u = TenantOf(c)
  BY TenantOfType
<1>3. ASSUME u # None, NEW o \in Subscriptions
      PROVE  sub'[o].tenant = u <=> sub[o].tenant = u
  <2>1. CASE Projects(e)
    <3>1. PICK t \in Tenants : t = TenantOf(Ev[e].customer) /\ t # u
      BY <1>1, <1>3, <2>1, SubscriptionWrites, TenantOfIsUnique DEF LinkInv
    <3> QED BY <1>3, <2>1, <3>1, SubscriptionWrites
  <2>2. CASE ~Projects(e)
    <3>1. sub' = sub
      BY <2>2, SettleCases DEF Bound, ApplyCheckout, ApplyInvoice
    <3> QED BY <3>1
  <2> QED BY <2>1, <2>2
<1>4. ASSUME NEW o \in Subscriptions, sub[o].tenant = u, u # None
      PROVE  sub'[o] = sub[o]
  <2>1. CASE Projects(e)
    <3>1. PICK t \in Tenants : t = TenantOf(Ev[e].customer) /\ t # u
      BY <1>1, <1>4, <2>1, SubscriptionWrites, TenantOfIsUnique DEF LinkInv
    <3> QED BY <1>1, <1>4, <2>1, <3>1, SubscriptionWrites
  <2>2. CASE ~Projects(e)
    BY <2>2, SettleCases DEF Bound, ApplyCheckout, ApplyInvoice
  <2> QED BY <2>1, <2>2
<1>5. Clash(d, u)' = Clash(d, u)
  <2>1. (OtherOpen(u, Ev[d].sub)' <=> OtherOpen(u, Ev[d].sub)) /\ (OtherPaid(u, Ev[d].sub)' <=> OtherPaid(u, Ev[d].sub))
    BY <1>3, <1>4 DEF OtherOpen, OtherPaid
  <2> QED BY <2>1 DEF Clash
<1> QED BY <1>2, <1>5 DEF Snapshot

(* A step that shows in the inbox only leaves what a pass would read. *)
LEMMA SnapshotKept ==
  ASSUME UNCHANGED <<account, sub>>, NEW e \in Events
  PROVE  Snapshot(e)' = Snapshot(e)
BY DEF Snapshot, TenantOf, Clash, OtherOpen, OtherPaid

(* Settling an event, or putting it off, takes no other event from its holder. *)
LEMMA OthersStayDue ==
  ASSUME LedgerTypes, NEW e \in Events, Settle(e) \/ PutOff(e),
         NEW d \in Events \ {e}, inbox[d].state = "due"
  PROVE  inbox'[d].state = "due"
<1>1. ASSUME NEW reason \in {"customer_not_linked", "other"},
             inbox' \in {Processed(e), DeadLettered(e), Deferred(e, reason)}
      PROVE  inbox'[d].state = "due"
  BY <1>1, OutcomeRows DEF LedgerTypes
<1>2. CASE PutOff(e)
  BY <1>1, <1>2 DEF PutOff
<1>3. ASSUME NEW t, NEW clash, ApplySubscription(e, t, clash) \/ ApplyInvoice(e, t, clash)
      PROVE  inbox'[d].state = "due"
  BY <1>1, <1>3 DEF ApplySubscription, SubscriptionOutcome, ApplyInvoice, InvoiceOutcome
<1>4. ASSUME NEW clash, ApplyCheckout(e, clash)
      PROVE  inbox'[d].state = "due"
  <2>1. CASE ~Binds(e, clash)
    BY <1>1, <1>4, <2>1 DEF ApplyCheckout
  <2>2. CASE Binds(e, clash)
    <3>1. Ev[e].customer \in Customers
      BY LedgerAssumption
    <3>2. inbox'[d] = Woken(Ev[e].customer)[d]
      BY <1>4, <2>2 DEF ApplyCheckout, Woken
    <3> QED BY <3>1, <3>2, WokenRows
  <2> QED BY <2>1, <2>2
<1>5. CASE ApplyOther(e)
  BY <1>1, <1>5 DEF ApplyOther
<1> QED BY <1>2, <1>3, <1>4, <1>5 DEF Settle, Apply

(* A transaction that ends, known to its pass or not, is over: the pass is idle, or it has the
   failure of an event to count. *)
Over(w) == Ended(w) \/ \E e \in Events : pass' = [pass EXCEPT ![w] =
             [event |-> e, stage |-> "aborted", tenant |-> None, clash |-> FALSE]]

(* The end of a pass releases its locks, and the others keep theirs. *)
LEMMA EndKeepsPasses ==
  ASSUME PassInv, NEW w \in Workers, Over(w), faults' \in 0..MaxFaults,
         \A v \in Workers \ {w}, d \in Events :
           /\ Holding(v) /\ pass[v].event = d => inbox'[d].state = "due"
           /\ pass[v].stage = "evaluated" /\ pass[v].event = d => Snapshot(d)' = Snapshot(d)
  PROVE  PassInv'
<1>1. PICK row \in Pass : /\ pass' = [pass EXCEPT ![w] = row]
                        /\ \/ row.stage = "idle"
                           \/ row.stage = "aborted" /\ row.event \in Events
  <2>1. CASE Ended(w)
    <3>1. Idle \in Pass /\ Idle.stage = "idle"
      BY DEF Idle, Pass
    <3> QED BY <2>1, <3>1 DEF Ended
  <2>2. ASSUME NEW e \in Events,
               pass' = [pass EXCEPT ![w] = [event |-> e, stage |-> "aborted", tenant |-> None, clash |-> FALSE]]
        PROVE  \E row \in Pass : /\ pass' = [pass EXCEPT ![w] = row]
                                /\ row.stage = "aborted" /\ row.event \in Events
    <3> DEFINE row == [event |-> e, stage |-> "aborted", tenant |-> None, clash |-> FALSE]
    <3>1. row \in Pass /\ row.stage = "aborted" /\ row.event \in Events
      BY DEF Pass
    <3>2. pass' = [pass EXCEPT ![w] = row]
      BY <2>2
    <3> QED BY <3>1, <3>2
  <2> QED BY <2>1, <2>2 DEF Over
<1>2. /\ pass' \in [Workers -> Pass] /\ \A v \in Workers \ {w} : pass'[v] = pass[v]
      /\ pass'[w].stage \in {"idle", "aborted"}
      /\ pass'[w].stage # "idle" => pass'[w].event \in Events
  BY <1>1 DEF PassInv, PassTypes
<1>3. RowLocks'
  <2>1. \A v \in Workers : Holding(v)' => v # w /\ Holding(v) /\ pass'[v] = pass[v]
    BY <1>2 DEF Holding
  <2>2. \A v \in Workers : Holding(v) => pass[v].event \in Events
    BY DEF PassInv, RowLocks, Holding
  <2> QED BY <1>2, <2>1, <2>2 DEF PassInv, RowLocks
<1>4. CustomerLocks'
  BY <1>2 DEF PassInv, CustomerLocks
<1>5. SnapshotLasts'
  <2> SUFFICES ASSUME NEW v \in Workers, NEW d \in Events, pass'[v].stage = "evaluated", pass'[v].event = d
               PROVE  pass'[v] = Snapshot(d)'
    BY DEF SnapshotLasts
  <2> QED BY <1>2 DEF PassInv, SnapshotLasts
<1> QED BY <1>2, <1>3, <1>4, <1>5 DEF PassInv, PassTypes

(* A pass that moves on with its event, and claims it alone or reads it under its customer's
   lock, leaves the others as they are. *)
LEMMA MoveKeepsPasses ==
  ASSUME PassInv, UNCHANGED ledger, faults' \in 0..MaxFaults, NEW w \in Workers, NEW e \in Events,
         NEW row \in Pass, pass' = [pass EXCEPT ![w] = row], row.event = e,
         \/ row.stage = "aborted"
         \/ row.stage = "claimed" /\ inbox[e].state = "due" /\ ~RowLocked(e)
         \/ row = Snapshot(e) /\ Holding(w) /\ pass[w].event = e /\ ~CustomerLocked(e)
  PROVE  PassInv'
<1>1. pass' \in [Workers -> Pass] /\ pass'[w] = row /\ \A v \in Workers \ {w} : pass'[v] = pass[v]
  BY DEF PassInv, PassTypes
<1>2. \A d \in Events : Snapshot(d)' = Snapshot(d)
  BY SnapshotKept DEF ledger
<1>3. row = Snapshot(e) => row.stage = "evaluated"
  BY DEF Snapshot
<1>4. RowLocks'
  BY <1>1, <1>3 DEF PassInv, RowLocks, Holding, RowLocked, ledger
<1>5. CustomerLocks'
  BY <1>1 DEF PassInv, CustomerLocks, CustomerLocked
<1>6. SnapshotLasts'
  <2> SUFFICES ASSUME NEW v \in Workers, NEW d \in Events, pass'[v].stage = "evaluated", pass'[v].event = d
               PROVE  pass'[v] = Snapshot(d)'
    BY DEF SnapshotLasts
  <2> QED BY <1>1, <1>2 DEF PassInv, SnapshotLasts
<1> QED BY <1>1, <1>4, <1>5, <1>6 DEF PassInv, PassTypes

(* Every step of the workers keeps the locks and what was read under them. *)
LEMMA PassStep ==
  ASSUME LedgerInv, PassInv, [Next]_vars
  PROVE  PassInv'
<1>1. ASSUME NEW e \in Events, RecordEvent(e)
      PROVE  PassInv'
  <2>1. /\ \A d \in Events : inbox[d].state = "due" => inbox'[d].state = "due"
        /\ UNCHANGED <<account, sub, pass, faults>>
    BY <1>1 DEF RecordEvent, Record, LedgerInv, LedgerTypes
  <2>2. \A d \in Events : Snapshot(d)' = Snapshot(d)
    BY <2>1, SnapshotKept
  <2>3. SnapshotLasts'
    BY <2>1, <2>2 DEF PassInv, SnapshotLasts
  <2> QED BY <2>1, <2>3 DEF PassInv, PassTypes, RowLocks, Holding, CustomerLocks
<1>2. ASSUME NEW w \in Workers, NEW e \in Events, ClaimEvent(w, e)
      PROVE  PassInv'
  <2>1. [event |-> e, stage |-> "claimed", tenant |-> None, clash |-> FALSE] \in Pass
    BY DEF Pass
  <2> QED BY <1>2, <2>1, MoveKeepsPasses DEF ClaimEvent, PassInv, PassTypes
<1>3. ASSUME NEW w \in Workers, Project(w)
      PROVE  PassInv'
  <2>1. PICK e \in Events : e = pass[w].event
    BY <1>3 DEF Project, PassInv, RowLocks
  <2>2. UNCHANGED ledger /\ faults' \in 0..MaxFaults /\ Holding(w)
    BY <1>3 DEF Project, Holding, PassInv, PassTypes
  <2>3. CASE CustomerLocked(e)
    <3>1. Ended(w)
      BY <1>3, <2>1, <2>3 DEF Project, Ended
    <3> QED BY <2>2, <3>1, EndKeepsPasses, SnapshotKept DEF Over, ledger, PassInv, RowLocks
  <2>4. CASE ~CustomerLocked(e)
    <3>1. Snapshot(e) \in Pass /\ Snapshot(e).event = e
      BY TenantOfType DEF Snapshot, Pass, Clash, OtherOpen, OtherPaid
    <3>2. pass' = [pass EXCEPT ![w] = Snapshot(e)]
      BY <1>3, <2>1, <2>4 DEF Project
    <3> QED BY <2>1, <2>2, <2>4, <3>1, <3>2, MoveKeepsPasses
  <2> QED BY <2>3, <2>4
<1>4. ASSUME NEW w \in Workers, Abort(w)
      PROVE  PassInv'
  <2>1. PICK e \in Events : e = pass[w].event
    BY <1>4 DEF Abort, PassInv, RowLocks
  <2>2. [event |-> e, stage |-> "aborted", tenant |-> None, clash |-> FALSE] \in Pass
    BY DEF Pass
  <2>3. pass' = [pass EXCEPT ![w] = [event |-> e, stage |-> "aborted", tenant |-> None, clash |-> FALSE]]
    BY <1>4, <2>1 DEF Abort, Failed
  <2>4. UNCHANGED ledger /\ faults' \in 0..MaxFaults
    BY <1>4, PassAssumption DEF Abort, Failed, PassInv, PassTypes
  <2> QED BY <2>2, <2>3, <2>4, MoveKeepsPasses
<1>5. ASSUME NEW w \in Workers, Crash(w)
      PROVE  PassInv'
  <2>1. UNCHANGED ledger /\ faults' \in 0..MaxFaults /\ Ended(w)
    BY <1>5, PassAssumption DEF Crash, PassInv, PassTypes
  <2> QED BY <2>1, EndKeepsPasses, SnapshotKept DEF Over, ledger, PassInv, RowLocks
<1>6. ASSUME NEW w \in Workers, CountFailure(w)
      PROVE  PassInv'
  <2>1. PICK e \in Events : e = pass[w].event
    BY <1>6 DEF CountFailure, PassInv, RowLocks
  <2>2. /\ PutOff(e) \/ UNCHANGED ledger
        /\ \A v \in Workers : Holding(v) => pass[v].event # e
        /\ Ended(w) /\ faults' \in 0..MaxFaults
    BY <1>6, <2>1, FailurePutsOff DEF PassInv, PassTypes
  <2>3. \A d \in Events : Snapshot(d)' = Snapshot(d)
    BY <2>2, SnapshotKept DEF PutOff, ledger
  <2>4. \A d \in Events \ {e} : inbox[d].state = "due" => inbox'[d].state = "due"
    BY <2>2, OthersStayDue DEF LedgerInv, ledger
  <2> QED BY <2>2, <2>3, <2>4, EndKeepsPasses DEF Over, PassInv, RowLocks
<1>7. ASSUME NEW w \in Workers, DropInvalid(w) \/ Commit(w)
      PROVE  PassInv'
  <2>1. PICK e \in Events : e = pass[w].event
    BY <1>7 DEF DropInvalid, Commit, CommitCheckout, CommitSubscription, CommitInvoice, CommitOther,
                Evaluated, PassInv, RowLocks
  <2>2. Settle(e) /\ Holding(w) /\ Over(w) /\ faults' \in 0..MaxFaults
    <3>1. Settle(e) /\ Holding(w) /\ Committed(w)
      BY <1>7, <2>1, CommitSettles DEF PassInv
    <3> QED BY <2>1, <3>1, PassAssumption DEF Committed, Failed, Over, PassInv, PassTypes
  <2>3. ASSUME NEW v \in Workers \ {w}, NEW d \in Events, Holding(v), pass[v].event = d
        PROVE  inbox'[d].state = "due"
    <3>1. d # e /\ inbox[d].state = "due"
      BY <2>1, <2>2, <2>3 DEF PassInv, RowLocks
    <3> QED BY <2>2, <3>1, OthersStayDue DEF LedgerInv
  <2>4. ASSUME NEW v \in Workers \ {w}, NEW d \in Events, pass[v].stage = "evaluated", pass[v].event = d
        PROVE  Snapshot(d)' = Snapshot(d)
    <3>1. CASE DropInvalid(w)
      BY <3>1, SnapshotKept DEF DropInvalid, ApplyOther
    <3>2. CASE Commit(w)
      <4>1. pass[w].stage = "evaluated"
        BY <3>2 DEF Commit, CommitCheckout, CommitSubscription, CommitInvoice, CommitOther, Evaluated
      <4>2. Ev[d].customer # Ev[e].customer
        BY <2>1, <2>4, <4>1 DEF PassInv, CustomerLocks
      <4> QED BY <2>2, <4>2, SettleIsLocal DEF LedgerInv
    <3> QED BY <1>7, <3>1, <3>2
  <2> QED BY <2>2, <2>3, <2>4, EndKeepsPasses
<1>8. CASE UNCHANGED vars \/ \E i \in Installations, t \in Tenants : UpsertInstallation(i, t)
  <2>1. UNCHANGED <<inbox, account, sub, pass, faults>>
    BY <1>8 DEF vars, ledger, UpsertInstallation, Upsert
  <2>2. \A d \in Events : Snapshot(d)' = Snapshot(d)
    BY <2>1, SnapshotKept
  <2>3. SnapshotLasts'
    BY <2>1, <2>2 DEF PassInv, SnapshotLasts
  <2> QED BY <2>1, <2>3 DEF PassInv, PassTypes, RowLocks, Holding, CustomerLocks
<1> QED BY <1>1, <1>2, <1>3, <1>4, <1>5, <1>6, <1>7, <1>8 DEF Next, Work

-----------------------------------------------------------------------------
(* The serial theorems. *)

LEMMA LedgerStart == LedgerInit => LedgerInv
<1> SUFFICES ASSUME LedgerInit PROVE LedgerInv
  OBVIOUS
<1>1. LedgerTypes
  BY LedgerAssumption DEF LedgerInit, LedgerTypes, DueHasBudget, Row, Account, Sub, Installation
<1>2. LinkInv
  BY DEF LedgerInit, LinkInv, OneTenant, SubscriptionOwned
<1>3. \A t \in Tenants : Open(t) = {}
  BY LedgerAssumption DEF LedgerInit, Open
<1>4. EventInv
  BY <1>3 DEF LedgerInit, EventInv, AwakeFor, NewestFor, EntitlementAgrees
<1> QED BY <1>1, <1>2, <1>4 DEF LedgerInv

(* Events projected one at a time, in any order, with any number of failures, keep every
   promise of the ledger: links are unique, what waited for a link is awake, the newest event
   is shown, a tenant's tier is that of its one open subscription, and an installation that
   carries its login shows that tier or the free plan. *)
THEOREM LedgerIsSound == LedgerSpec => []LedgerInv
BY LedgerStart, LedgerStep, PTL DEF LedgerSpec

(* An acknowledged event is never taken up again, and a subscription never goes back to an
   older event or over to another tenant. *)
ProgressLasts ==
  /\ \A e \in Events : inbox[e].state = "processed" => inbox'[e] = inbox[e]
  /\ \A s \in Subscriptions : sub'[s] = sub[s] \/ sub'[s].at > sub[s].at
  /\ \A s \in Subscriptions : sub[s].tenant # None => sub'[s].tenant = sub[s].tenant

LEMMA ProgressStep ==
  ASSUME LedgerInv, LedgerNext
  PROVE  ProgressLasts
<1>1. ASSUME NEW e \in Events, Settle(e) \/ PutOff(e), NEW d \in Events, inbox[d].state = "processed"
      PROVE  inbox'[d] = inbox[d]
  <2>1. d # e
    BY <1>1 DEF Settle, PutOff
  <2>2. ASSUME NEW reason \in {"customer_not_linked", "other"},
               inbox' \in {Processed(e), DeadLettered(e), Deferred(e, reason)}
        PROVE  inbox'[d] = inbox[d]
    BY <2>1, <2>2, OutcomeRows DEF LedgerInv, LedgerTypes
  <2>3. ASSUME NEW t, NEW clash, ApplySubscription(e, t, clash) \/ ApplyInvoice(e, t, clash)
        PROVE  inbox'[d] = inbox[d]
    BY <2>2, <2>3 DEF ApplySubscription, SubscriptionOutcome, ApplyInvoice, InvoiceOutcome
  <2>4. ASSUME NEW clash, ApplyCheckout(e, clash)
        PROVE  inbox'[d] = inbox[d]
    BY <1>1, <2>1, <2>2, <2>4 DEF ApplyCheckout, Woken
  <2>5. CASE PutOff(e) \/ ApplyOther(e)
    BY <2>2, <2>5 DEF PutOff, ApplyOther
  <2> QED BY <1>1, <2>3, <2>4, <2>5 DEF Settle, Apply
<1>2. ASSUME NEW e \in Events, Record(e), NEW d \in Events, inbox[d].state = "processed"
      PROVE  inbox'[d] = inbox[d]
  BY <1>2 DEF Record, LedgerInv, LedgerTypes
<1>3. ASSUME NEW s \in Subscriptions
      PROVE  /\ sub'[s] = sub[s] \/ sub'[s].at > sub[s].at
             /\ sub[s].tenant # None => sub'[s].tenant = sub[s].tenant
  <2>1. ASSUME NEW e \in Events, Projects(e)
        PROVE  /\ sub'[s] = sub[s] \/ sub'[s].at > sub[s].at
               /\ sub[s].tenant # None => sub'[s].tenant = sub[s].tenant
    BY <2>1, SubscriptionWrites DEF Newer, LedgerInv
  <2>2. ASSUME NEW e \in Events, Settle(e), ~Projects(e)
        PROVE  sub' = sub
    BY <2>2, SettleCases DEF Bound, ApplyCheckout, ApplyInvoice
  <2>3. ASSUME \/ \E e \in Events : Record(e) \/ PutOff(e)
               \/ \E i \in Installations, t \in Tenants : Upsert(i, t)
        PROVE  sub' = sub
    BY <2>3 DEF Record, PutOff, Upsert
  <2> QED BY <2>1, <2>2, <2>3 DEF LedgerNext
<1>4. ASSUME NEW i \in Installations, NEW t \in Tenants, Upsert(i, t)
      PROVE  inbox' = inbox
  BY <1>4 DEF Upsert
<1> QED BY <1>1, <1>2, <1>3, <1>4 DEF LedgerNext, ProgressLasts

-----------------------------------------------------------------------------
(* The theorems about workers. *)

LEMMA Inductive == Spec => [](LedgerInv /\ PassInv)
<1>1. Init => LedgerInv /\ PassInv
  <2>1. Init => PassInv
    BY PassAssumption
       DEF Init, PassInv, PassTypes, RowLocks, CustomerLocks, SnapshotLasts, Holding, Pass, Idle
  <2> QED BY <2>1, LedgerStart DEF Init
<1>2. LedgerInv /\ PassInv /\ [Next]_vars => (LedgerInv /\ PassInv)'
  <2> SUFFICES ASSUME LedgerInv, PassInv, [Next]_vars
               PROVE  LedgerInv' /\ PassInv'
    OBVIOUS
  <2>1. [LedgerNext]_ledger
    BY Simulation DEF PassInv
  <2> QED BY <2>1, LedgerStep, PassStep
<1> QED BY <1>1, <1>2, PTL DEF Spec

(* Whatever the number of workers, and however their passes overlap, fail and crash, the
   entitlements are those of some order of the events, each settled alone and at most once on
   the state it finds. *)
THEOREM SerializesEvents == Spec => ImplementsLedger
<1>1. Init => LedgerInit
  BY DEF Init
<1>2. LedgerInv /\ PassInv /\ [Next]_vars => [LedgerNext]_ledger
  BY Simulation DEF PassInv
<1> QED BY <1>1, <1>2, Inductive, PTL DEF Spec, ImplementsLedger, LedgerSpec

(* Every state of the inbox, the accounts, the subscriptions and the passes is well typed: no
   event is tried more often than its budget, and no tier outside the known ones is granted. *)
THEOREM TypeCorrect == Spec => []TypeOK
<1>1. LedgerInv /\ PassInv => TypeOK
  BY DEF LedgerInv, LedgerTypes, PassInv, PassTypes, TypeOK
<1> QED BY <1>1, Inductive, PTL

(* No dead letter waits for a link that exists: a customer's first checkout revives every
   event that gave up because the customer was unknown. *)
THEOREM CustomersAwake == Spec => []LinkedCustomersAwake
<1>1. LedgerInv => LinkedCustomersAwake
  BY DEF LedgerInv, EventInv, AwakeFor, LinkedCustomersAwake
<1> QED BY <1>1, Inductive, PTL

(* Whatever the order of delivery and whoever projects, what an acknowledged event said is
   shown by its subscription or account, or was replaced by a later event's word. *)
THEOREM NewestWins == Spec => []NewestEventWins
<1>1. LedgerInv => NewestEventWins
  BY DEF LedgerInv, EventInv, NewestFor, NewestEventWins
<1> QED BY <1>1, Inductive, PTL

(* A tenant never has two open subscriptions, and its account's tier is the open one's, or free
   once it ended: two replicas never both grant one.  An installation that was not renamed since
   its plan was written shows that tier or, installed later, the free plan. *)
THEOREM OneEntitlement == Spec => []EntitlementAgrees
<1>1. LedgerInv => EntitlementAgrees
  BY DEF LedgerInv, EventInv
<1> QED BY <1>1, Inductive, PTL

(* A customer is linked to one tenant at most, and once linked it stays with that tenant. *)
THEOREM LinksArePermanent == Spec => []OneTenant /\ [][LinksLast]_vars
<1>1. LedgerInv => OneTenant
  BY DEF LedgerInv, LinkInv
<1>2. LedgerInv /\ PassInv /\ [Next]_vars => [LinksLast]_vars
  BY Simulation, LinksLastStep DEF LedgerInv, PassInv
<1> QED BY <1>1, <1>2, Inductive, PTL DEF Spec

(* What a pass read under its customer's lock is what it would read when it commits. *)
THEOREM SnapshotsLast == Spec => [](CustomerLocks /\ SnapshotLasts)
<1>1. PassInv => CustomerLocks /\ SnapshotLasts
  BY DEF PassInv
<1> QED BY <1>1, Inductive, PTL

(* Acknowledgements and the order of a subscription's events are never undone by any worker. *)
THEOREM ProgressIsPermanent == Spec => [][ProgressLasts]_ledger
<1>1. LedgerInv /\ PassInv /\ [Next]_vars => [ProgressLasts]_ledger
  BY Simulation, ProgressStep DEF PassInv
<1> QED BY <1>1, Inductive, PTL DEF Spec
=============================================================================
