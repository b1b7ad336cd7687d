SPECIFICATION ApiSpec
CHECK_DEADLOCK FALSE
CONSTANTS
  TimeoutUnits <- MCUnits
  MaxTimeoutDigitsValue = 9
  MaxMessage = 15
  PrefixSpan = 32
  Calls <- MCCalls
  Waiters = {w1, w2, w3}
  Tags = {a, b, c}
  Threads = {main, worker}
  Starter = main
  Reactors = {"unary", "read", "write", "bidi"}
  MaxHolds = 3
INVARIANTS
  
  
  TransportHeadersOnce
  
  MessageSurvives
  ResponseIsServers
  FramePrefixExact
  ChannelAsAsked
  DrainedBeforeFalse
  StatusBeforeTag
PROPERTIES
  NobodyOversleeps
