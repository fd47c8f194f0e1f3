SPECIFICATION FairSpec
CONSTANTS
  r1 = r1
  Main = Main
  Req = {r1}
  InitNodes = 1
  MaxNode = 2
  MaxPid = 2
  MaxCrash = 1
  Ops = {"create", "start", "stop", "restart", "delete", "update", "status"}
  Serial = TRUE
INVARIANTS
  TypeOK
  RecoverySettles
  NoProcessLeaks
  OneProcessPerNode
PROPERTIES
  StartResolves
  DeletedNodesVanish
CHECK_DEADLOCK FALSE
