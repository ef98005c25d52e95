SPECIFICATION FairSpec
CONSTANTS
  Mtu = 2
  MaxCredits = 3
  Threshold = 1
  Initial1 = 1
  Initial2 = 0
  MaxWrite = 3
  MaxBytes = 6
INVARIANTS
  CreditsConserved
PROPERTIES
  IsByteStream
  Delivered
CHECK_DEADLOCK FALSE
