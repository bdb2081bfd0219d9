------------------------- MODULE NotificationOutbox -------------------------
(***************************************************************************)
(* Outbound notifications: the channels of an installation, the outbox of  *)
(* deliveries that an event fans out to, and the passes of the worker      *)
(* replicas that claim a batch under a lease, call the destinations one by *)
(* one and record each outcome (notification-store.ts and                  *)
(* notification-worker.ts).                                                *)
(*                                                                         *)
(* The outcome names the delivery and nothing else: a pass whose lease has *)
(* run out still writes.  Backoff delays are abstracted to fairness.       *)
(***************************************************************************)
EXTENDS Naturals, FiniteSets

CONSTANTS Channels, News, Workers,
          MaxAttempts,  \* maximumAttempts, 6 in the code
          BatchSize,    \* deliveries a pass claims at most, 20 in the code
          MaxUpdates,   \* bound: edits of channels
          MaxFaults,    \* bound: crashes and rejected database calls
          None

Deliveries == Channels \X News

ASSUME ConstantsAssumption ==
  /\ MaxAttempts \in Nat \ {0} /\ BatchSize \in Nat \ {0}
  /\ MaxUpdates \in Nat /\ MaxFaults \in Nat
  /\ IsFiniteSet(Workers)
  /\ None \notin Deliveries

VARIABLES channel,   \* [Channels -> state of the channel]
          delivery,  \* notification_deliveries: [Deliveries -> row]
          pass,      \* [Workers -> the pass it runs]
          received,  \* what the destinations got: [Deliveries -> Nat]
          updates, faults

vars == <<channel, delivery, pass, received, updates, faults>>

-----------------------------------------------------------------------------

(* A muted channel is enabled and not subscribed to the event. *)
ChannelStates == {"absent", "enabled", "muted", "disabled", "deleted"}

(* leased: lease_expires_at lies in the future. *)
Row == [status : {"absent", "pending", "delivering", "delivered", "dead_letter"},
        attempts : Nat, leased : BOOLEAN]

(* batch: claimed and still to be sent; current and outcome: the delivery whose outcome is to be recorded. *)
Pass == [batch : SUBSET Deliveries, current : Deliveries \cup {None},
         outcome : {"none", "delivered", "retryable", "permanent"}]

NoRow == [status |-> "absent", attempts |-> 0, leased |-> FALSE]
Idle == [batch |-> {}, current |-> None, outcome |-> "none"]

Init ==
  /\ channel = [c \in Channels |-> "absent"]
  /\ delivery = [d \in Deliveries |-> NoRow]
  /\ pass = [w \in Workers |-> Idle]
  /\ received = [d \in Deliveries |-> 0]
  /\ updates = 0 /\ faults = 0

-----------------------------------------------------------------------------
(* The settings page. *)

CreateChannel(c) ==
  /\ channel[c] = "absent"
  /\ channel' = [channel EXCEPT ![c] = "enabled"]
  /\ UNCHANGED <<delivery, pass, received, updates, faults>>

UpdateChannel(c, s) ==
  /\ channel[c] \in {"enabled", "muted", "disabled"} /\ s # channel[c]
  /\ updates < MaxUpdates /\ updates' = updates + 1
  /\ channel' = [channel EXCEPT ![c] = s]
  /\ UNCHANGED <<delivery, pass, received, faults>>

(* The deliveries of the channel go with it. *)
DeleteChannel(c) ==
  /\ channel[c] \in {"enabled", "muted", "disabled"}
  /\ updates < MaxUpdates /\ updates' = updates + 1
  /\ channel' = [channel EXCEPT ![c] = "deleted"]
  /\ delivery' = [d \in Deliveries |-> IF d[1] = c THEN NoRow ELSE delivery[d]]
  /\ UNCHANGED <<pass, received, faults>>

(* One statement fans the event out; a delivery that exists is left as it is. *)
EnqueueEvent(n) ==
  /\ delivery' = [d \in Deliveries |->
                    IF d[2] = n /\ channel[d[1]] = "enabled" /\ delivery[d].status = "absent"
                    THEN [status |-> "pending", attempts |-> 0, leased |-> FALSE]
                    ELSE delivery[d]]
  /\ delivery' # delivery
  /\ UNCHANGED <<channel, pass, received, updates, faults>>

-----------------------------------------------------------------------------
(* The delivery pass of a worker. *)

Claimable_PendingOnly(d) ==
  delivery[d].status = "pending" /\ ~delivery[d].leased /\ channel[d[1]] \in {"enabled", "muted"}

(* A delivery in flight is claimed again when its lease has run out. *)
Claimable(d) ==
  /\ delivery[d].status \in {"pending", "delivering"} /\ ~delivery[d].leased
  /\ channel[d[1]] \in {"enabled", "muted"}

Claimed_CountedOnFailure(row) == [status |-> "delivering", attempts |-> row.attempts, leased |-> TRUE]

(* The claim itself counts as the attempt. *)
Claimed(row) == [status |-> "delivering", attempts |-> row.attempts + 1, leased |-> TRUE]

(* A batch of due rows, as many as there are up to the limit. *)
ClaimDeliveries(w) ==
  /\ pass[w] = Idle
  /\ \E S \in SUBSET {d \in Deliveries : Claimable(d)} :
       /\ S # {} /\ Cardinality(S) <= BatchSize
       /\ delivery' = [d \in Deliveries |-> IF d \in S THEN Claimed(delivery[d]) ELSE delivery[d]]
       /\ pass' = [pass EXCEPT ![w] = [batch |-> S, current |-> None, outcome |-> "none"]]
  /\ UNCHANGED <<channel, received, updates, faults>>

(* The destination answers, or the call times out whether or not the message arrived. *)
Deliver(w, d, o, arrived) ==
  /\ d \in pass[w].batch /\ pass[w].current = None
  /\ o = "delivered" => arrived
  /\ o = "permanent" => ~arrived
  /\ pass' = [pass EXCEPT ![w] = [batch |-> @.batch \ {d}, current |-> d, outcome |-> o]]
  /\ received' = [received EXCEPT ![d] = IF arrived THEN @ + 1 ELSE @]
  /\ UNCHANGED <<channel, delivery, updates, faults>>

(* Where id = the delivery: a row that is gone is left alone. *)
Recorded(d, row) == IF delivery[d].status = "absent" THEN delivery ELSE [delivery EXCEPT ![d] = row]

(* On to the next delivery of the batch. *)
PassWithout(w) == [pass EXCEPT ![w] = [batch |-> @.batch, current |-> None, outcome |-> "none"]]

CompleteDelivery_AnyAnswer(w) ==
  LET d == pass[w].current IN
  /\ pass[w].outcome \in {"delivered", "retryable"}
  /\ delivery' = Recorded(d, [status |-> "delivered", attempts |-> delivery[d].attempts, leased |-> FALSE])
  /\ pass' = PassWithout(w)
  /\ UNCHANGED <<channel, received, updates, faults>>

CompleteDelivery(w) ==
  LET d == pass[w].current IN
  /\ pass[w].outcome = "delivered"
  /\ delivery' = Recorded(d, [status |-> "delivered", attempts |-> delivery[d].attempts, leased |-> FALSE])
  /\ pass' = PassWithout(w)
  /\ UNCHANGED <<channel, received, updates, faults>>

Exhausted(row) == row.attempts >= MaxAttempts

Failed(row, permanent) ==
  [status |-> IF permanent \/ Exhausted(row) THEN "dead_letter" ELSE "pending",
   attempts |-> row.attempts, leased |-> FALSE]

FailDelivery(w) ==
  LET d == pass[w].current IN
  /\ pass[w].outcome \in {"retryable", "permanent"}
  /\ delivery' = Recorded(d, Failed(delivery[d], pass[w].outcome = "permanent"))
  /\ pass' = PassWithout(w)
  /\ UNCHANGED <<channel, received, updates, faults>>

(* A call to the database is rejected, or the process dies: the rest of the batch is dropped
   and waits for its leases to run out. *)
LosePass(w) ==
  /\ pass[w] # Idle
  /\ faults < MaxFaults /\ faults' = faults + 1
  /\ pass' = [pass EXCEPT ![w] = Idle]
  /\ UNCHANGED <<channel, delivery, received, updates>>

(* 120 seconds pass: less than a batch of 20 calls of up to 10 seconds may take. *)
ExpireLease(d) ==
  /\ delivery[d].leased
  /\ delivery' = [delivery EXCEPT ![d].leased = FALSE]
  /\ UNCHANGED <<channel, pass, received, updates, faults>>

-----------------------------------------------------------------------------

Send(w) == \E d \in pass[w].batch, o \in {"delivered", "retryable", "permanent"}, arrived \in BOOLEAN :
             Deliver(w, d, o, arrived)

Step(w) == Send(w) \/ CompleteDelivery(w) \/ FailDelivery(w)

Next ==
  \/ \E c \in Channels : CreateChannel(c) \/ DeleteChannel(c)
  \/ \E c \in Channels, s \in {"enabled", "muted", "disabled"} : UpdateChannel(c, s)
  \/ \E n \in News : EnqueueEvent(n)
  \/ \E w \in Workers : ClaimDeliveries(w) \/ Step(w) \/ LosePass(w)
  \/ \E d \in Deliveries : ExpireLease(d)

Spec == Init /\ [][Next]_vars

(* Passes run on an interval, calls time out, and clocks advance. *)
FairSpec ==
  /\ Spec
  /\ \A w \in Workers : WF_vars(Step(w))
  /\ WF_vars(\E w \in Workers : ClaimDeliveries(w))
  /\ WF_vars(\E d \in Deliveries : ExpireLease(d))

-----------------------------------------------------------------------------

(* The attempt counter is not checked by the claim: a delivery at its budget can still be
   claimed by every other replica, and once more for each pass that was lost. *)
AttemptLimit == MaxAttempts + Cardinality(Workers) - 1 + MaxFaults

(* Types; only a delivery in flight holds a lease, and only an answered one has an outcome. *)
TypeOK ==
  /\ channel \in [Channels -> ChannelStates]
  /\ delivery \in [Deliveries -> Row]
  /\ pass \in [Workers -> Pass]
  /\ received \in [Deliveries -> Nat]
  /\ \A d \in Deliveries : delivery[d].leased => delivery[d].status = "delivering"
  /\ \A w \in Workers : pass[w].current = None <=> pass[w].outcome = "none"
  /\ updates \in 0..MaxUpdates /\ faults \in 0..MaxFaults

(* Every receipt, and every message a pass still has to send, is an attempt of its own, and no
   destination is called more often than the outbox admits, AttemptLimit times in all, even when
   leases run out under slow passes and rows are claimed again. *)
ReceiptsBounded ==
  \A d \in Deliveries : delivery[d].status # "absent" =>
    /\ received[d] + Cardinality({w \in Workers : d \in pass[w].batch}) <= delivery[d].attempts
    /\ delivery[d].attempts <= AttemptLimit

(* What the outbox reports as delivered has been received, whichever pass wrote last. *)
DeliveredMeansReceived == \A d \in Deliveries : delivery[d].status = "delivered" => received[d] >= 1

(* A destination that is down produces a dead letter rather than a lost or an endless delivery. *)
DeliveriesSettle ==
  <>[](\A d \in Deliveries : delivery[d].status \in {"pending", "delivering"} => channel[d[1]] = "disabled")
=============================================================================
