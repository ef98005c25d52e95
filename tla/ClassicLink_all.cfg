SPECIFICATION Spec
CONSTANTS
  N = 2
  PageTimeoutTicks = 3
  MaxHandle = 2
  MaxActions = 1
  Ops = {"scan", "create", "cancel", "answer", "disconnect", "sco", "answerSco", "reset"}
INVARIANTS
  TypeOK
  CreatePromiseKept
  HostToldOfLinks
  LinksMirrored
  ScoRidesAcl
  InboundScoLive
  HandlesUnique
