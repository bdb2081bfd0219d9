----------------------- MODULE MCStripeEntitlement -----------------------
(* A checkout, two rival ones, and events of two subscriptions that overlap in time. *)
EXTENDS StripeEntitlement, TLC

CONSTANTS c1, c2, t1, t2, s1, s2, i1

Event(kind, customer, tenant, s, at, status, tier, paid) ==
  [kind |-> kind, customer |-> customer, tenant |-> tenant, sub |-> s, at |-> at,
   status |-> status, tier |-> tier, paid |-> paid]

MCEv ==
  "link"     :> Event("checkout", c1, t1, s1, 1, "active", "free", FALSE) @@
  "relink"   :> Event("checkout", c1, t2, s1, 1, "active", "free", FALSE) @@
  "started"  :> Event("subscription", c1, t1, s1, 1, "active", "team", FALSE) @@
  "ended"    :> Event("subscription", c1, t1, s1, 2, "canceled", "team", FALSE) @@
  "upgraded" :> Event("subscription", c1, t1, s1, 2, "active", "business", FALSE) @@
  "lapsed"   :> Event("subscription", c1, t1, s1, 2, "unpaid", "team", FALSE) @@
  "second"   :> Event("subscription", c1, t1, s2, 2, "active", "business", FALSE) @@
  "unpaid"   :> Event("invoice", c1, t1, s1, 2, "active", "free", FALSE) @@
  "paid"     :> Event("invoice", c1, t1, s1, 2, "active", "free", TRUE) @@
  "oneoff"   :> Event("invoice", c1, t1, None, 2, "active", "free", TRUE) @@
  "rival"    :> Event("checkout", c2, t1, s1, 1, "active", "free", FALSE) @@
  "foreign"  :> Event("invalid", c1, t1, s1, 1, "active", "free", FALSE) @@
  "broken"   :> Event("unrecognized", c1, t1, s1, 1, "active", "free", FALSE) @@
  "unknown"  :> Event("unhandled", c1, t1, s1, 1, "active", "free", FALSE)

MCHistories == {{"link", "started", "ended", "second"},
                {"link", "started", "unpaid", "paid"},
                {"link", "relink", "started"},
                {"link", "rival"},
                {"link", "ended", "lapsed", "upgraded"},
                {"link", "second", "unpaid"},
                {"link", "started", "oneoff"},
                {"foreign", "broken", "unknown"}}

MCEvents == DOMAIN MCEv

(* Installed by the tenant that subscribes, before or after; then its account is renamed. *)
MCLogins == {<<i1, None, t1>>, <<i1, t1, t2>>}
=============================================================================
