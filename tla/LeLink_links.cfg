SPECIFICATION Spec
CONSTANTS
  N = 2
  HandleMask = 4096
  CisHandles = {101}
  Keys = {1}
  PhyPrefs <- FewPrefs
  MaxHandle = 1
  MaxCis = 1
  MaxDue = 1
  MaxActions = 2
  Ops <- LinkOps
INVARIANTS
  LinksAgree
