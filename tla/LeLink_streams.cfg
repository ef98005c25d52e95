SPECIFICATION Spec
CONSTANTS
  N = 2
  HandleMask = 4096
  CisHandles = {101, 102}
  Keys = {1}
  PhyPrefs <- FewPrefs
  MaxHandle = 2
  MaxCis = 2
  MaxDue = 2
  MaxActions = 2
  Ops <- StreamOps
INVARIANTS
  CisRidesAcl
  CisMirrored
