SPECIFICATION Spec
CONSTANTS
  c1 = c1
  c2 = c2
  t1 = t1
  t2 = t2
  Calls <- MCCalls
  Shutdowners <- MCShutdowners
  Permits = {TRUE}
  Faults <- MCNoFaults
PROPERTIES
  RefusalSparesInFlight
