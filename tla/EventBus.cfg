SPECIFICATION FairSpec
CONSTANTS
  p1 = p1 p2 = p2
  Publishers = {p1, p2}
  Clients = {c1, c2}
  Capacity = 2
  MaxEvents <- ThreeAndOne
INVARIANTS NoSendOnClosed InOrder
PROPERTY PublisherNeverWaits
PROPERTY GoneClientReleased
CHECK_DEADLOCK FALSE
