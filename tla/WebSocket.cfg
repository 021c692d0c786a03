SPECIFICATION Spec
CONSTANTS
  MaxFrame = 3
  MaxMessage = 2
  Sizes = {1, 3, 4}
  MaxMessages = 2
  MaxSends = 1
  MaxInFlight = 2
  Peers = {p1, p2, p3}
  MaxConnections = 2
CHECK_DEADLOCK FALSE
INVARIANTS
    MessagesWhole
PROPERTIES
    ListenerStops
