SPECIFICATION FairSpec
CONSTANTS
  p1 = p1
  p2 = p2
  s1 = s1
  s2 = s2
  t1 = t1
  Posters <- MCPosters
  Stoppers <- MCStoppers
  Timers <- MCTimers
  MaxPosts = 2
  EventFdMax = 2
  PollCanFail = TRUE
INVARIANTS
  NoLostWakeup
  SingleJoin
PROPERTIES
  StopReturns
  EventsServed
  ImplementsOpQueue
