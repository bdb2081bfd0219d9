---------------------------- MODULE WebhookIntake ----------------------------
(***************************************************************************)
(* What the webhook endpoint promises for every GitHub delivery it answers *)
(* with HTTP 202: the delivery is held durably until it has been processed *)
(* or is visible as a dead letter, a settled delivery is reopened only by  *)
(* an operator's replay of a dead letter, and it is forgotten only after   *)
(* it has settled.  Workers, leases, attempts and crashes do not appear.   *)
(***************************************************************************)
CONSTANT Deliveries

VARIABLE state

States == {"absent", "pending", "done", "dead"}

(* The changes one delivery may make in one step. *)
Move == { <<"absent", "pending">>,     \* accepted by the endpoint
          <<"pending", "done">>,       \* processed
          <<"pending", "dead">>,       \* attempts exhausted
          <<"dead", "pending">>,       \* replayed by an operator
          <<"done", "absent">>,        \* retention
          <<"dead", "absent">> }

Init == state = [d \in Deliveries |-> "absent"]

(* One transaction may settle several deliveries at once: the claim         *)
(* function dead-letters every exhausted lease it finds expired.            *)
Next == /\ state' \in [Deliveries -> States]
        /\ \A d \in Deliveries : \/ state'[d] = state[d]
                                 \/ <<state[d], state'[d]>> \in Move

Spec == Init /\ [][Next]_state

=============================================================================
