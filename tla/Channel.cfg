SPECIFICATION FairSpec
CONSTANTS
  c1 = c1
  c2 = c2
  t1 = t1
  t2 = t2
  Calls <- MCCalls
  Shutdowners <- MCShutdowners
  Permits = {TRUE, FALSE}
  Faults <- MCAllFaults
CHECK_DEADLOCK FALSE
INVARIANTS
  OneOwner
  ResourcesMatchState
  ShutdownUnblocksAll
PROPERTIES
  ShutdownVerdict
  CallsReturn
  ShutdownReturns
