SPECIFICATION Spec
CONSTANTS a1 = a1 a2 = a2 a3 = a3
INVARIANTS
  StreamsAgree
  Reassembled
  RemoteMirrored
  LabelsAccounted
  MediumMatchesScene
  Understood
  InputHeard
CHECK_DEADLOCK FALSE
