SPECIFICATION Spec
CONSTANTS
  Caps <- OneCap
  MaxLinks = 1
  MaxRotation = 1
  MaxActions = 1
  Ops <- LinkOps
INVARIANTS
  BondsAgree
  EncryptionMirrored
