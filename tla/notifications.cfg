\* An event that fans out to two channels, two replicas, a lost pass and a channel edit.
SPECIFICATION FairSpec
CONSTANTS
  Channels = {c1, c2}
  News = {n1}
  Workers = {w1, w2}
  MaxAttempts = 2
  BatchSize = 2
  MaxUpdates = 1
  MaxFaults = 1
  None = None
INVARIANTS ReceiptsBounded DeliveredMeansReceived
PROPERTIES DeliveriesSettle
CHECK_DEADLOCK FALSE
