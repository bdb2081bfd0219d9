\* Three claims of one run, two concurrent result requests, a lease of two ticks that renewals extend to three.
SPECIFICATION FairSpec
CONSTANTS
  None = None
  Results <- MCResults
  Handlers = {h1, h2}
  MaxAttempts = 3
  LeaseTicks = 2
  MaxTicks = 3
INVARIANTS RunningIsHeld OneHolder
PROPERTIES ImplementsCustody VerdictEndsTheLease HeldRunIsReleased
CHECK_DEADLOCK FALSE
