\* One run, two workers: retries, expiry, a crash and a replay.
SPECIFICATION FairSpec
CONSTANTS
  Runs = {1}
  CommitOf <- PushOrder
  w1 = w1
  w2 = w2
  Workers = {w1, w2}
  None = None
  DispatchMode = "github-actions"
  Skips = {TRUE, FALSE}
  MaxAttempts = 2
  ClaimLimit = 1
  MaxRequests = 1
  MaxReruns = 0
  MaxReplays = 1
  MaxCrashes = 1
INVARIANTS DispatchesAccountedFor EffectsMatchRuns
PROPERTIES QueuedRunSettles SkippedRunIsConcluded
CHECK_DEADLOCK FALSE
