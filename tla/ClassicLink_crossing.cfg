SPECIFICATION Spec
CONSTANTS
  N = 2
  PageTimeoutTicks = 3
  MaxHandle = 2
  MaxActions = 2
  Ops = {"scan", "create", "answer"}
INVARIANTS
  OneAclPerPair
