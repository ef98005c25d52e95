SPECIFICATION Spec
INVARIANTS
  StateShown
  ClientsKnow
  AudioInOrder
PROPERTIES
  AppliedAsSeen
  DiscoveryEnds
CHECK_DEADLOCK FALSE
