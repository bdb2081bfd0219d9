\* One loop of each kind and one request, no replay.
SPECIFICATION Spec
CONSTANTS
  None = None
  Results <- MCResults
  Handlers = {h1}
  WorkflowLoops = {w1}
  CheckLoops = {c1}
  MaxChecks = 2
  MaxSubmits = 1
INVARIANT PublishedIsShown
CHECK_DEADLOCK FALSE
