SPECIFICATION FairSpec
CHECK_DEADLOCK FALSE
CONSTANTS
  Threads = {main, worker}
  Starter = main
  Reactors = {"unary", "read", "write", "bidi"}
  MaxHolds = 2
PROPERTY
  DoneFires
