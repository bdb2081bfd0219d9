\* transactional-outbox.md on workflow dispatch.
SPECIFICATION Spec
CONSTANTS
  Runs = {1}
  CommitOf <- PushOrder
  w1 = w1
  w2 = w2
  Workers = {w1, w2}
  None = None
  DispatchMode = "github-actions"
  Skips = {FALSE}
  MaxAttempts = 2
  ClaimLimit = 1
  MaxRequests = 1
  MaxReruns = 0
  MaxReplays = 0
  MaxCrashes = 0
SYMMETRY Symmetry
INVARIANTS AtMostOneDispatch
CHECK_DEADLOCK FALSE
