SPECIFICATION Spec
INVARIANTS
  PairingAgrees
  SessionsAgree
  HandsFreeAgrees
PROPERTIES
  WaitsEnd
CHECK_DEADLOCK FALSE
