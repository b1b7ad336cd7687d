SPECIFICATION FairSpec
CONSTANTS
  Delays <- MCDelays
  UnitsPerMs = 2
  MaxTimeoutMs = 2
  MaxTimers = 3
  MaxClock = 5
INVARIANTS
  EntriesMatchCallbacks
  NeverPolledShort
  NeverSleptOver
PROPERTIES
  ImplementsTimerSet
  TimersFire
