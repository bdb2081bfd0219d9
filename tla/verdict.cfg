\* One loop observes workflows, two repair the check run; a progress report and a verdict, or two verdicts.
SPECIFICATION FairSpec
CONSTANTS
  None = None
  Results <- MCResults
  Handlers = {h1}
  WorkflowLoops = {w1}
  CheckLoops = {c1, c2}
  MaxChecks = 2
  MaxSubmits = 2
INVARIANTS VerdictIsTheReported GreenIsSigned
PROPERTIES ReportedVerdictIsFinal EveryRunDecided CheckConcluded
CHECK_DEADLOCK FALSE
