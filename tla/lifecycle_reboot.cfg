SPECIFICATION RebootSpec
CONSTANTS
  r1 = r1
  Main = Main
  Req = {r1}
  InitNodes = 1
  MaxNode = 1
  MaxPid = 2
  MaxCrash = 1
  Ops = {"start", "stop"}
  Serial = TRUE
INVARIANTS
  RecoveryTakesOwnProcess
CHECK_DEADLOCK FALSE
