SPECIFICATION TransportSpec
CONSTANTS
  Addresses = 3
  MaxFd = 3
  MaxOpens = 3
  MaxFlights = 2
  Streams = {1, 2}
  BodyLength = 2
  RecordMax = 2
  Room = 2
  Window = 2
  MaxPings = 1
INVARIANTS
  OneDescriptor
  FirstAnswerDecides
  WireInOrder
PROPERTIES
  ConnectEnds
  GoodAddressConnects
  RequestsSent
