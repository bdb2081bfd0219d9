\* Eight histories of up to four events, in any order of arrival, projected by two replicas.
SPECIFICATION FairSpec
CONSTANTS
  c1 = c1
  c2 = c2
  t1 = t1
  t2 = t2
  s1 = s1
  s2 = s2
  i1 = i1
  Events <- MCEvents
  Ev <- MCEv
  Unmapped = {"upgraded"}
  Customers = {c1, c2}
  Tenants = {t1, t2}
  Subscriptions = {s1, s2}
  Installations = {i1}
  Logins <- MCLogins
  Workers = {w1, w2}
  MaxAttempts = 2
  Histories <- MCHistories
  MaxFaults = 1
  None = None
INVARIANTS LinkedCustomersAwake NewestEventWins EntitlementAgrees
PROPERTIES ImplementsLedger EventsSettle
CHECK_DEADLOCK FALSE
