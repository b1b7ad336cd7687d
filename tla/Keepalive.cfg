SPECIFICATION Spec
CONSTANTS
  Options <- MCOptions
  PeerDelay = 1
  LoopDelay = 1
  MaxClock = 18
INVARIANTS
  LivePeerNeverDead
  DeadPeerFound
PROPERTIES
  PingsSpaced
