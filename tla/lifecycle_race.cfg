SPECIFICATION Spec
CONSTANTS
  r1 = r1
  r2 = r2
  Main = Main
  Req = {r1, r2}
  InitNodes = 1
  MaxNode = 1
  MaxPid = 2
  MaxCrash = 0
  Ops = {"start", "stop"}
  Serial = FALSE
SYMMETRY ReqSymmetry
INVARIANTS
  OneProcessPerNode
CHECK_DEADLOCK FALSE
