SPECIFICATION FairSpec
CONSTANTS
  Caps <- TwoCaps
  MaxLinks = 1
  MaxRotation = 1
  MaxActions = 1
  Ops <- BondOps
INVARIANTS
  AnswersAwaited
PROPERTIES
  KeyNeedsConsent
  PairingResolves
