SPECIFICATION Spec
CONSTANTS
  Addresses = 2
  MaxFd = 2
  MaxOpens = 1
  MaxFlights = 1
INVARIANTS
  OwnerPollsFd
