----------------------- MODULE NotificationOutboxProofs -----------------------
(***************************************************************************)
(* Proofs about the notification outbox, for any channels, events,         *)
(* workers, batch size and attempt budget.                                 *)
(***************************************************************************)
EXTENDS NotificationOutbox, FiniteSetTheorems, TLAPS

USE ConstantsAssumption

(* The passes that still have to send d, and those that have not recorded its outcome. *)
Sending(d) == {w \in Workers : d \in pass[w].batch}
Holders(d) == {w \in Workers : d \in pass[w].batch \/ pass[w].current = d}

(* A row that is not there was never sent, unless its channel is gone for good. *)
FreshRow(d) ==
  delivery[d].status = "absent" =>
    /\ delivery[d].attempts = 0
    /\ channel[d[1]] # "deleted" => received[d] = 0 /\ Sending(d) = {}

ReceiptsCounted(d) ==
  delivery[d].status # "absent" =>
    received[d] + Cardinality(Sending(d)) <= delivery[d].attempts

(* Past its budget an unsettled row was claimed by passes that still hold it or were lost:
   one recorded outcome would have settled it. *)
Overdrawn(d) ==
  delivery[d].status \in {"pending", "delivering"} /\ delivery[d].attempts >= MaxAttempts =>
    delivery[d].attempts + 1 <= MaxAttempts + Cardinality(Holders(d)) + faults

RowInv(d) == /\ FreshRow(d) /\ ReceiptsCounted(d) /\ Overdrawn(d)
             /\ delivery[d].attempts <= AttemptLimit
             /\ delivery[d].status = "delivered" => received[d] >= 1

AnswersReceived ==
  \A w \in Workers : pass[w].outcome = "delivered" => received[pass[w].current] >= 1

IInv == TypeOK /\ AnswersReceived /\ \A d \in Deliveries : RowInv(d)

-----------------------------------------------------------------------------
(* Counting passes. *)

LEMMA CountType ==
  ASSUME NEW S \in SUBSET Workers
  PROVE  IsFiniteSet(S) /\ Cardinality(S) \in Nat /\ Cardinality(S) <= Cardinality(Workers)
         /\ Cardinality(Workers) \in Nat
BY FS_Subset, FS_CardinalityType

LEMMA OneMore ==
  ASSUME NEW S \in SUBSET Workers, NEW w \in Workers, w \notin S
  PROVE  Cardinality(S \cup {w}) = Cardinality(S) + 1
BY CountType, FS_AddElement

LEMMA OneLess ==
  ASSUME NEW S \in SUBSET Workers, NEW w \in S
  PROVE  Cardinality(S \ {w}) = Cardinality(S) - 1
BY CountType, FS_RemoveElement

LEMMA SubsetCount ==
  ASSUME NEW S \in SUBSET Workers, NEW T \in SUBSET S
  PROVE  Cardinality(T) <= Cardinality(S)
BY CountType, FS_Subset

LEMMA LimitType == AttemptLimit \in Nat /\ AttemptLimit >= 0
<1>1. Cardinality(Workers) \in Nat
  BY CountType
<1>2. MaxAttempts - 1 \in Nat
  OBVIOUS
<1> QED BY <1>1, <1>2 DEF AttemptLimit

LEMMA TypeParts ==
  ASSUME TypeOK
  PROVE  /\ \A d \in Deliveries : /\ delivery[d] \in Row /\ received[d] \in Nat
                                  /\ delivery[d].attempts \in Nat
                                  /\ d[1] \in Channels
         /\ \A w \in Workers : /\ pass[w] \in Pass /\ pass[w].batch \subseteq Deliveries
                               /\ pass[w].outcome # "none" => pass[w].current \in Deliveries
         /\ \A d \in Deliveries : /\ Sending(d) \subseteq Workers
                                  /\ Holders(d) \subseteq Workers
                                  /\ Cardinality(Sending(d)) \in Nat
                                  /\ Cardinality(Holders(d)) \in Nat
<1>1. \A d \in Deliveries : /\ delivery[d] \in Row /\ received[d] \in Nat
                            /\ delivery[d].attempts \in Nat
                            /\ d[1] \in Channels
  BY DEF TypeOK, Row, Deliveries
<1>2. ASSUME NEW w \in Workers
      PROVE  /\ pass[w] \in Pass /\ pass[w].batch \subseteq Deliveries
             /\ pass[w].outcome # "none" => pass[w].current \in Deliveries
  BY DEF TypeOK, Pass
<1>3. \A d \in Deliveries : Sending(d) \subseteq Workers /\ Holders(d) \subseteq Workers
  BY DEF Sending, Holders
<1> QED BY <1>1, <1>2, <1>3, CountType

LEMMA RowTypes == /\ NoRow \in Row /\ Idle \in Pass
                  /\ [status |-> "pending", attempts |-> 0, leased |-> FALSE] \in Row
                  /\ \A r \in Row : Claimed(r) \in Row
BY DEF NoRow, Idle, Row, Pass, Claimed

-----------------------------------------------------------------------------
(* Type correctness *)

LEMMA TypeStep == TypeOK /\ [Next]_vars => TypeOK'
<1> SUFFICES ASSUME TypeOK, [Next]_vars PROVE TypeOK'
  OBVIOUS
<1> USE DEF TypeOK
<1>1. ASSUME NEW c \in Channels, CreateChannel(c) PROVE TypeOK'
  BY <1>1 DEF CreateChannel, ChannelStates
<1>2. ASSUME NEW c \in Channels, DeleteChannel(c) PROVE TypeOK'
  <2>1. delivery' \in [Deliveries -> Row]
    BY <1>2, RowTypes DEF DeleteChannel
  <2>2. \A d \in Deliveries : delivery'[d].leased => delivery'[d].status = "delivering"
    BY <1>2 DEF DeleteChannel, NoRow
  <2>3. channel' \in [Channels -> ChannelStates] /\ updates' \in 0..MaxUpdates
    BY <1>2 DEF DeleteChannel, ChannelStates
  <2> QED BY <1>2, <2>1, <2>2, <2>3 DEF DeleteChannel
<1>3. ASSUME NEW c \in Channels, NEW s \in {"enabled", "muted", "disabled"}, UpdateChannel(c, s)
      PROVE  TypeOK'
  BY <1>3 DEF UpdateChannel, ChannelStates
<1>4. ASSUME NEW n \in News, EnqueueEvent(n) PROVE TypeOK'
  <2>1. delivery' \in [Deliveries -> Row]
    BY <1>4, RowTypes DEF EnqueueEvent
  <2>2. \A d \in Deliveries : delivery'[d].leased => delivery'[d].status = "delivering"
    BY <1>4 DEF EnqueueEvent
  <2> QED BY <1>4, <2>1, <2>2 DEF EnqueueEvent
<1>5. ASSUME NEW w \in Workers, ClaimDeliveries(w) PROVE TypeOK'
  <2>1. PICK S \in SUBSET Deliveries :
          /\ delivery' = [d \in Deliveries |-> IF d \in S THEN Claimed(delivery[d]) ELSE delivery[d]]
          /\ pass' = [pass EXCEPT ![w] = [batch |-> S, current |-> None, outcome |-> "none"]]
    BY <1>5 DEF ClaimDeliveries
  <2>2. delivery' \in [Deliveries -> Row]
    BY <2>1, RowTypes
  <2>3. \A d \in Deliveries : delivery'[d].leased => delivery'[d].status = "delivering"
    BY <2>1 DEF Claimed
  <2>4. [batch |-> S, current |-> None, outcome |-> "none"] \in Pass
    BY DEF Pass
  <2>5. pass' \in [Workers -> Pass]
    BY <2>1, <2>4
  <2>6. \A v \in Workers : pass'[v].current = None <=> pass'[v].outcome = "none"
    BY <2>1
  <2> QED BY <1>5, <2>2, <2>3, <2>5, <2>6 DEF ClaimDeliveries
<1>6. ASSUME NEW w \in Workers, Send(w) PROVE TypeOK'
  <2>1. PICK d \in pass[w].batch, o \in {"delivered", "retryable", "permanent"}, a \in BOOLEAN :
          Deliver(w, d, o, a)
    BY <1>6 DEF Send
  <2>2. d \in Deliveries /\ pass[w].batch \subseteq Deliveries /\ pass[w] \in Pass
    BY <2>1, TypeParts
  <2>3. [batch |-> pass[w].batch \ {d}, current |-> d, outcome |-> o] \in Pass
    BY <2>2 DEF Pass
  <2>4. pass' \in [Workers -> Pass]
    BY <2>1, <2>3 DEF Deliver
  <2>5. \A v \in Workers : pass'[v].current = None <=> pass'[v].outcome = "none"
    BY <2>1, <2>2 DEF Deliver
  <2>6. received' \in [Deliveries -> Nat]
    <3>1. received \in [Deliveries -> Nat]
      OBVIOUS
    <3>2. received' = [received EXCEPT ![d] = IF a THEN received[d] + 1 ELSE received[d]]
      BY <2>1 DEF Deliver
    <3> QED BY ONLY <2>2, <3>1, <3>2
  <2> QED BY <2>1, <2>4, <2>5, <2>6 DEF Deliver
<1>7. ASSUME NEW w \in Workers, CompleteDelivery(w) \/ FailDelivery(w) PROVE TypeOK'
  <2> DEFINE d == pass[w].current
  <2>1. d \in Deliveries /\ delivery[d] \in Row /\ pass[w] \in Pass
    BY <1>7, TypeParts DEF CompleteDelivery, FailDelivery
  <2>2. PICK row \in Row : /\ delivery' = Recorded(d, row)
                           /\ ~row.leased
    <3>1. [status |-> "delivered", attempts |-> delivery[d].attempts, leased |-> FALSE] \in Row
      BY <2>1 DEF Row
    <3>2. \A p \in BOOLEAN : Failed(delivery[d], p) \in Row /\ ~Failed(delivery[d], p).leased
      BY <2>1 DEF Row, Failed
    <3> QED BY <1>7, <3>1, <3>2 DEF CompleteDelivery, FailDelivery
  <2> HIDE DEF d
  <2>3. delivery' \in [Deliveries -> Row]
    BY <2>1, <2>2 DEF Recorded
  <2>4. \A e \in Deliveries : delivery'[e].leased => delivery'[e].status = "delivering"
    BY <2>1, <2>2 DEF Recorded
  <2>5. pass' = [pass EXCEPT ![w] = [batch |-> pass[w].batch, current |-> None, outcome |-> "none"]]
    BY <1>7 DEF CompleteDelivery, FailDelivery, PassWithout
  <2>6. [batch |-> pass[w].batch, current |-> None, outcome |-> "none"] \in Pass
    BY <2>1 DEF Pass
  <2>7. pass' \in [Workers -> Pass]
    BY <2>5, <2>6
  <2>8. \A v \in Workers : pass'[v].current = None <=> pass'[v].outcome = "none"
    BY <2>5
  <2> QED BY <1>7, <2>3, <2>4, <2>7, <2>8 DEF CompleteDelivery, FailDelivery
<1>8. ASSUME NEW w \in Workers, LosePass(w) PROVE TypeOK'
  <2>1. pass' \in [Workers -> Pass]
    BY <1>8, RowTypes DEF LosePass
  <2>2. \A v \in Workers : pass'[v].current = None <=> pass'[v].outcome = "none"
    BY <1>8 DEF LosePass, Idle
  <2> QED BY <1>8, <2>1, <2>2 DEF LosePass
<1>9. ASSUME NEW d \in Deliveries, ExpireLease(d) PROVE TypeOK'
  <2>1. delivery' \in [Deliveries -> Row]
    BY <1>9 DEF ExpireLease, Row
  <2> QED BY <1>9, <2>1 DEF ExpireLease
<1>10. CASE UNCHANGED vars
  BY <1>10 DEF vars
<1> QED
  BY <1>1, <1>2, <1>3, <1>4, <1>5, <1>6, <1>7, <1>8, <1>9, <1>10 DEF Next, Step

LEMMA TypeInit == Init => TypeOK
<1>1. 0 \in 0..MaxUpdates /\ 0 \in 0..MaxFaults
  OBVIOUS
<1> QED BY <1>1, RowTypes DEF Init, TypeOK, ChannelStates, NoRow, Idle

(* Channels, rows and passes hold values of their types; only a delivery in
   flight holds a lease. *)
THEOREM TypeCorrect == Spec => []TypeOK
BY TypeInit, TypeStep, PTL DEF Spec

-----------------------------------------------------------------------------
(* Receipts *)

(* Steps that only look at channels: rows, passes and receipts stay, or rows are removed. *)
LEMMA ChannelStep ==
  ASSUME IInv, UNCHANGED <<pass, received, faults>>,
         \A d \in Deliveries :
           \/ delivery'[d] = delivery[d] /\ (channel'[d[1]] = "deleted" \/ channel[d[1]] # "deleted")
           \/ delivery'[d] = NoRow /\ channel'[d[1]] = "deleted"
  PROVE  AnswersReceived' /\ \A d \in Deliveries : RowInv(d)'
<1>1. AnswersReceived'
  BY DEF IInv, AnswersReceived
<1>2. ASSUME NEW d \in Deliveries PROVE RowInv(d)'
  <2>1. RowInv(d)
    BY DEF IInv
  <2>2. Sending(d)' = Sending(d) /\ Holders(d)' = Holders(d)
    BY DEF Sending, Holders
  <2>3. CASE delivery'[d] = delivery[d] /\ (channel'[d[1]] = "deleted" \/ channel[d[1]] # "deleted")
    BY <2>1, <2>2, <2>3 DEF RowInv, FreshRow, ReceiptsCounted, Overdrawn, AttemptLimit
  <2>4. CASE delivery'[d] = NoRow /\ channel'[d[1]] = "deleted"
    BY <2>2, <2>4, LimitType DEF RowInv, FreshRow, ReceiptsCounted, Overdrawn, NoRow, AttemptLimit
  <2> QED BY <2>3, <2>4
<1> QED BY <1>1, <1>2

LEMMA EnqueueStep ==
  ASSUME IInv, NEW n \in News, EnqueueEvent(n)
  PROVE  AnswersReceived' /\ \A d \in Deliveries : RowInv(d)'
<1>0. UNCHANGED <<channel, pass, received, faults>>
  BY DEF EnqueueEvent
<1>1. AnswersReceived'
  BY <1>0 DEF IInv, AnswersReceived
<1>2. ASSUME NEW d \in Deliveries PROVE RowInv(d)'
  <2>1. RowInv(d)
    BY DEF IInv
  <2>2. Sending(d)' = Sending(d) /\ Holders(d)' = Holders(d)
    BY <1>0 DEF Sending, Holders
  <2>3. CASE delivery'[d] = delivery[d]
    BY <1>0, <2>1, <2>2, <2>3 DEF RowInv, FreshRow, ReceiptsCounted, Overdrawn, AttemptLimit
  <2>4. CASE delivery'[d] # delivery[d]
    <3>1. /\ delivery'[d] = [status |-> "pending", attempts |-> 0, leased |-> FALSE]
          /\ channel[d[1]] = "enabled" /\ delivery[d].status = "absent"
      BY <2>4 DEF EnqueueEvent
    <3>2. received[d] = 0 /\ Sending(d) = {}
      BY <2>1, <3>1 DEF RowInv, FreshRow
    <3> QED
      BY <1>0, <2>2, <3>1, <3>2, LimitType, FS_EmptySet
         DEF RowInv, FreshRow, ReceiptsCounted, Overdrawn, AttemptLimit
  <2> QED BY <2>3, <2>4
<1> QED BY <1>1, <1>2

LEMMA ClaimStep ==
  ASSUME IInv, NEW w \in Workers, ClaimDeliveries(w)
  PROVE  AnswersReceived' /\ \A d \in Deliveries : RowInv(d)'
<1>0. UNCHANGED <<channel, received, faults>> /\ pass[w] = Idle /\ TypeOK
  BY DEF ClaimDeliveries, IInv
<1>1. PICK S \in SUBSET {d \in Deliveries : Claimable(d)} :
        /\ delivery' = [d \in Deliveries |-> IF d \in S THEN Claimed(delivery[d]) ELSE delivery[d]]
        /\ pass' = [pass EXCEPT ![w] = [batch |-> S, current |-> None, outcome |-> "none"]]
  BY DEF ClaimDeliveries
<1>2. /\ pass'[w] = [batch |-> S, current |-> None, outcome |-> "none"]
      /\ \A v \in Workers : v # w => pass'[v] = pass[v]
  BY <1>0, <1>1 DEF TypeOK
<1>3. AnswersReceived'
  BY <1>0, <1>2 DEF IInv, AnswersReceived
<1>4. ASSUME NEW d \in Deliveries PROVE RowInv(d)'
  <2>1. /\ RowInv(d) /\ d # None
        /\ delivery[d].attempts \in Nat /\ received[d] \in Nat
        /\ Sending(d) \subseteq Workers /\ Holders(d) \subseteq Workers
        /\ Cardinality(Sending(d)) \in Nat /\ Cardinality(Holders(d)) \in Nat
    BY <1>0, TypeParts DEF IInv
  <2>2. w \notin Sending(d) /\ w \notin Holders(d)
    BY <1>0, <2>1 DEF Idle, Sending, Holders
  <2>3. CASE d \notin S
    <3>1. Sending(d)' = Sending(d) /\ Holders(d)' = Holders(d)
      BY <1>2, <2>1, <2>2, <2>3 DEF Sending, Holders
    <3>2. delivery'[d] = delivery[d]
      BY <1>1, <2>3
    <3> QED BY <1>0, <2>1, <3>1, <3>2
            DEF RowInv, FreshRow, ReceiptsCounted, Overdrawn, AttemptLimit
  <2>4. CASE d \in S
    <3>1. Sending(d)' = Sending(d) \cup {w} /\ Holders(d)' = Holders(d) \cup {w}
      BY <1>2, <2>4 DEF Sending, Holders
    <3>2. /\ Cardinality(Sending(d)') = Cardinality(Sending(d)) + 1
          /\ Cardinality(Holders(d)') = Cardinality(Holders(d)) + 1
          /\ Cardinality(Holders(d)') <= Cardinality(Workers)
          /\ Cardinality(Workers) \in Nat
      <4>1. Holders(d)' \subseteq Workers
        BY <2>1, <3>1
      <4> QED BY <2>1, <2>2, <3>1, <4>1, OneMore, CountType
    <3>3. /\ delivery'[d].status = "delivering"
          /\ delivery'[d].attempts = delivery[d].attempts + 1
          /\ delivery[d].status \in {"pending", "delivering"}
      BY <1>1, <2>4 DEF Claimed, Claimable
    <3>4. ReceiptsCounted(d)'
      BY <1>0, <2>1, <3>2, <3>3 DEF RowInv, ReceiptsCounted
    <3>5. delivery'[d].attempts >= MaxAttempts =>
            delivery'[d].attempts + 1 <= MaxAttempts + Cardinality(Holders(d)') + faults
      <4>0. faults \in Nat
        BY <1>0 DEF TypeOK
      <4>1. CASE delivery[d].attempts >= MaxAttempts
        BY <2>1, <3>2, <3>3, <4>0, <4>1 DEF RowInv, Overdrawn
      <4>2. CASE ~(delivery[d].attempts >= MaxAttempts)
        BY <2>1, <3>2, <3>3, <4>0, <4>2
      <4> QED BY <4>1, <4>2
    <3>6. delivery'[d].attempts <= AttemptLimit
      <4>1. faults \in Nat /\ faults <= MaxFaults
        BY <1>0 DEF TypeOK
      <4> QED BY <2>1, <3>2, <3>3, <3>5, <4>1 DEF AttemptLimit
    <3> QED BY <1>0, <3>3, <3>4, <3>5, <3>6 DEF RowInv, FreshRow, Overdrawn, AttemptLimit
  <2> QED BY <2>3, <2>4
<1> QED BY <1>3, <1>4

LEMMA SendStep ==
  ASSUME IInv, NEW w \in Workers, Send(w)
  PROVE  AnswersReceived' /\ \A d \in Deliveries : RowInv(d)'
<1>0. UNCHANGED <<channel, delivery, faults>> /\ TypeOK
  BY DEF Send, Deliver, IInv
<1>1. PICK s \in pass[w].batch, o \in {"delivered", "retryable", "permanent"}, a \in BOOLEAN :
        Deliver(w, s, o, a)
  BY DEF Send
<1>2. /\ s \in Deliveries /\ s # None /\ pass[w].current = None
      /\ pass'[w] = [batch |-> pass[w].batch \ {s}, current |-> s, outcome |-> o]
      /\ \A v \in Workers : v # w => pass'[v] = pass[v]
      /\ \A d \in Deliveries : received'[d] = IF d = s /\ a THEN received[d] + 1 ELSE received[d]
  BY <1>0, <1>1, TypeParts DEF Deliver, TypeOK
<1>3. \A d \in Deliveries : received[d] \in Nat /\ received'[d] \in Nat /\ received[d] <= received'[d]
  BY <1>0, <1>2, TypeParts
<1>4. AnswersReceived'
  <2> SUFFICES ASSUME NEW v \in Workers, pass'[v].outcome = "delivered"
               PROVE  received'[pass'[v].current] >= 1
    BY DEF AnswersReceived
  <2>1. CASE v = w
    <3>1. o = "delivered" /\ pass'[v].current = s
      BY <1>2, <2>1
    <3>2. a
      BY <1>1, <3>1 DEF Deliver
    <3> QED BY <1>2, <1>3, <3>1, <3>2
  <2>2. CASE v # w
    <3>1. /\ pass[v].outcome = "delivered" /\ pass'[v].current = pass[v].current
          /\ pass[v].current \in Deliveries
      BY <1>0, <1>2, <2>2, TypeParts
    <3>2. received[pass[v].current] >= 1
      BY <3>1 DEF IInv, AnswersReceived
    <3> QED BY <1>3, <3>1, <3>2
  <2> QED BY <2>1, <2>2
<1>5. ASSUME NEW d \in Deliveries PROVE RowInv(d)'
  <2>1. /\ RowInv(d) /\ d # None
        /\ delivery[d].attempts \in Nat
        /\ Sending(d) \subseteq Workers
        /\ Cardinality(Sending(d)) \in Nat
    BY <1>0, TypeParts DEF IInv
  <2>2. Holders(d)' = Holders(d)
    BY <1>1, <1>2, <2>1 DEF Holders
  <2>3. CASE d = s
    <3>1. w \in Sending(d) /\ Sending(d)' = Sending(d) \ {w}
      BY <1>1, <1>2, <2>3 DEF Sending
    <3>2. Cardinality(Sending(d)') = Cardinality(Sending(d)) - 1
      BY <2>1, <3>1, OneLess
    <3>3. received'[d] <= received[d] + 1
      BY <1>2, <1>3
    <3>4. ReceiptsCounted(d)'
      BY <1>0, <1>3, <2>1, <3>2, <3>3 DEF RowInv, ReceiptsCounted
    <3>5. FreshRow(d)'
      BY <1>0, <2>1, <3>1, <1>2 DEF RowInv, FreshRow
    <3> QED BY <1>0, <1>3, <2>1, <2>2, <3>4, <3>5 DEF RowInv, Overdrawn, AttemptLimit
  <2>4. CASE d # s
    <3>1. Sending(d)' = Sending(d) /\ received'[d] = received[d]
      BY <1>2, <2>4 DEF Sending
    <3> QED BY <1>0, <2>1, <2>2, <3>1
            DEF RowInv, FreshRow, ReceiptsCounted, Overdrawn, AttemptLimit
  <2> QED BY <2>3, <2>4
<1> QED BY <1>4, <1>5

(* A pass records an outcome: the row it names is settled, or may be tried again within its
   budget, or is gone. *)
LEMMA RecordStep ==
  ASSUME IInv, NEW w \in Workers, CompleteDelivery(w) \/ FailDelivery(w)
  PROVE  AnswersReceived' /\ \A d \in Deliveries : RowInv(d)'
<1>0. UNCHANGED <<channel, received, faults>> /\ TypeOK
  BY DEF CompleteDelivery, FailDelivery, IInv
<1> DEFINE s == pass[w].current
<1>1. s \in Deliveries /\ s # None /\ pass[w].outcome # "none"
  BY <1>0, TypeParts DEF CompleteDelivery, FailDelivery
<1>2. /\ pass'[w] = [batch |-> pass[w].batch, current |-> None, outcome |-> "none"]
      /\ \A v \in Workers : v # w => pass'[v] = pass[v]
  BY <1>0 DEF CompleteDelivery, FailDelivery, PassWithout, TypeOK
<1>3. AnswersReceived'
  BY <1>0, <1>2 DEF IInv, AnswersReceived
<1>4. \A d \in Deliveries : d # s => delivery'[d] = delivery[d]
  BY <1>0, <1>1 DEF CompleteDelivery, FailDelivery, Recorded, TypeOK
<1>5. delivery[s].status = "absent" => delivery'[s] = delivery[s]
  BY DEF CompleteDelivery, FailDelivery, Recorded
<1>6. delivery[s].status # "absent" =>
        /\ delivery'[s].attempts = delivery[s].attempts
        /\ \/ delivery'[s].status = "delivered" /\ received[s] >= 1
           \/ delivery'[s].status = "dead_letter"
           \/ delivery'[s].status = "pending" /\ ~(delivery[s].attempts >= MaxAttempts)
  <2>1. CASE CompleteDelivery(w)
    <3>1. received[s] >= 1
      BY <2>1 DEF CompleteDelivery, IInv, AnswersReceived
    <3> QED BY <1>0, <1>1, <2>1, <3>1 DEF CompleteDelivery, Recorded, TypeOK
  <2>2. CASE FailDelivery(w)
    BY <1>0, <1>1, <2>2 DEF FailDelivery, Recorded, Failed, Exhausted, TypeOK
  <2> QED BY <2>1, <2>2
<1> HIDE DEF s
<1>7. ASSUME NEW d \in Deliveries PROVE RowInv(d)'
  <2>1. /\ RowInv(d) /\ d # None
        /\ delivery[d].attempts \in Nat /\ received[d] \in Nat
    BY <1>0, TypeParts DEF IInv
  <2>2. Sending(d)' = Sending(d)
    BY <1>2 DEF Sending
  <2>3. CASE d # s
    <3>1. Holders(d)' = Holders(d)
      BY <1>2, <2>1, <2>3 DEF Holders, s
    <3> QED BY <1>0, <1>4, <2>1, <2>2, <2>3, <3>1
            DEF RowInv, FreshRow, ReceiptsCounted, Overdrawn, AttemptLimit
  <2>4. CASE d = s /\ delivery[s].status = "absent"
    BY <1>0, <1>5, <2>1, <2>2, <2>4
       DEF RowInv, FreshRow, ReceiptsCounted, Overdrawn, AttemptLimit
  <2>5. CASE d = s /\ delivery[s].status # "absent"
    BY <1>0, <1>6, <2>1, <2>2, <2>5
       DEF RowInv, FreshRow, ReceiptsCounted, Overdrawn, AttemptLimit
  <2> QED BY <2>3, <2>4, <2>5
<1> QED BY <1>3, <1>7

LEMMA LoseStep ==
  ASSUME IInv, NEW w \in Workers, LosePass(w)
  PROVE  AnswersReceived' /\ \A d \in Deliveries : RowInv(d)'
<1>0. /\ UNCHANGED <<channel, delivery, received>> /\ TypeOK
      /\ faults' = faults + 1 /\ faults \in Nat
  BY DEF LosePass, IInv, TypeOK
<1>1. /\ pass'[w] = Idle
      /\ \A v \in Workers : v # w => pass'[v] = pass[v]
  BY <1>0 DEF LosePass, TypeOK
<1>2. AnswersReceived'
  BY <1>0, <1>1 DEF IInv, AnswersReceived, Idle
<1>3. ASSUME NEW d \in Deliveries PROVE RowInv(d)'
  <2>1. /\ RowInv(d) /\ d # None
        /\ delivery[d].attempts \in Nat /\ received[d] \in Nat
        /\ Sending(d) \subseteq Workers /\ Holders(d) \subseteq Workers
        /\ Cardinality(Sending(d)) \in Nat /\ Cardinality(Holders(d)) \in Nat
    BY <1>0, TypeParts DEF IInv
  <2>2. Sending(d)' = Sending(d) \ {w} /\ Holders(d)' = Holders(d) \ {w}
    BY <1>1, <2>1 DEF Sending, Holders, Idle
  <2>3. Cardinality(Sending(d)') \in Nat /\ Cardinality(Sending(d)') <= Cardinality(Sending(d))
    <3>1. Sending(d)' \in SUBSET Sending(d) /\ Sending(d)' \in SUBSET Workers
      BY <2>1, <2>2
    <3> QED BY <2>1, <3>1, SubsetCount, CountType
  <2>4. Cardinality(Holders(d)') \in Nat /\ Cardinality(Holders(d)') + 1 >= Cardinality(Holders(d))
    <3>1. CASE w \in Holders(d)
      <4>1. Cardinality(Holders(d)') = Cardinality(Holders(d)) - 1
        BY <2>1, <2>2, <3>1, OneLess
      <4>2. Holders(d)' \in SUBSET Workers
        BY <2>1, <2>2
      <4> QED BY <2>1, <4>1, <4>2, CountType
    <3>2. CASE w \notin Holders(d)
      <4>1. Holders(d)' = Holders(d)
        BY <2>2, <3>2
      <4> QED BY <2>1, <4>1
    <3> QED BY <3>1, <3>2
  <2>5. FreshRow(d)'
    BY <1>0, <2>1, <2>2 DEF RowInv, FreshRow
  <2>6. ReceiptsCounted(d)'
    BY <1>0, <2>1, <2>3 DEF RowInv, ReceiptsCounted
  <2>7. Overdrawn(d)'
    BY <1>0, <2>1, <2>4 DEF RowInv, Overdrawn
  <2> QED BY <1>0, <2>1, <2>5, <2>6, <2>7 DEF RowInv, AttemptLimit
<1> QED BY <1>2, <1>3

(* Steps that change nothing the invariant tells of a row. *)
LEMMA StillStep ==
  ASSUME IInv, UNCHANGED <<channel, pass, received, faults>>,
         \A d \in Deliveries : /\ delivery'[d].status = delivery[d].status
                               /\ delivery'[d].attempts = delivery[d].attempts
  PROVE  AnswersReceived' /\ \A d \in Deliveries : RowInv(d)'
<1>1. \A d \in Deliveries : Sending(d)' = Sending(d) /\ Holders(d)' = Holders(d)
  BY DEF Sending, Holders
<1> QED BY <1>1 DEF IInv, AnswersReceived, RowInv, FreshRow, ReceiptsCounted, Overdrawn, AttemptLimit

LEMMA IInvStep == IInv /\ [Next]_vars => IInv'
<1> SUFFICES ASSUME IInv, [Next]_vars
             PROVE  AnswersReceived' /\ \A d \in Deliveries : RowInv(d)'
  BY TypeStep DEF IInv
<1>0. TypeOK /\ \A d \in Deliveries : d[1] \in Channels
  BY TypeParts DEF IInv
<1>1. ASSUME NEW c \in Channels, CreateChannel(c) \/ DeleteChannel(c)
      PROVE  AnswersReceived' /\ \A d \in Deliveries : RowInv(d)'
  BY <1>0, <1>1, ChannelStep DEF CreateChannel, DeleteChannel, TypeOK
<1>2. ASSUME NEW c \in Channels, NEW s \in {"enabled", "muted", "disabled"}, UpdateChannel(c, s)
      PROVE  AnswersReceived' /\ \A d \in Deliveries : RowInv(d)'
  BY <1>0, <1>2, ChannelStep DEF UpdateChannel, TypeOK
<1>3. ASSUME NEW d \in Deliveries, ExpireLease(d)
      PROVE  AnswersReceived' /\ \A e \in Deliveries : RowInv(e)'
  BY <1>0, <1>3, StillStep DEF ExpireLease, TypeOK, Row
<1>4. CASE UNCHANGED vars
  BY <1>4, StillStep DEF vars
<1> QED
  BY <1>1, <1>2, <1>3, <1>4, EnqueueStep, ClaimStep, SendStep, RecordStep, LoseStep DEF Next, Step

LEMMA IInvInit == Init => IInv
<1> SUFFICES ASSUME Init PROVE AnswersReceived /\ \A d \in Deliveries : RowInv(d)
  BY TypeInit DEF IInv
<1>1. AnswersReceived
  BY DEF Init, AnswersReceived, Idle
<1>2. ASSUME NEW d \in Deliveries PROVE RowInv(d)
  <2>1. delivery[d] = NoRow /\ received[d] = 0 /\ Sending(d) = {}
    BY <1>2 DEF Init, Sending, Idle
  <2> QED BY <2>1, LimitType DEF RowInv, FreshRow, ReceiptsCounted, Overdrawn, NoRow
<1> QED BY <1>1, <1>2

(* A destination is called at most as often as the outbox counts, and that many times at most,
   for any number of replicas whose leases run out under them. *)
THEOREM ReceiptsAreBounded == Spec => []ReceiptsBounded
<1>1. IInv => ReceiptsBounded
  BY DEF IInv, RowInv, ReceiptsCounted, Sending, ReceiptsBounded
<1> QED BY <1>1, IInvInit, IInvStep, PTL DEF Spec

(* Whoever wrote last, a delivery reported as delivered has arrived. *)
THEOREM DeliveredIsReceived == Spec => []DeliveredMeansReceived
<1>1. IInv => DeliveredMeansReceived
  BY DEF IInv, RowInv, DeliveredMeansReceived
<1> QED BY <1>1, IInvInit, IInvStep, PTL DEF Spec

=============================================================================
