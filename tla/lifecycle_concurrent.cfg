SPECIFICATION Spec
CONSTANTS
  r1 = r1
  r2 = r2
  Main = Main
  Req = {r1, r2}
  InitNodes = 2
  MaxNode = 2
  MaxPid = 2
  MaxCrash = 0
  Ops = {"start", "stop", "update"}
  Serial = FALSE
SYMMETRY ReqSymmetry
INVARIANTS
  RecordedPidIsOwn
  StatusMatchesPid
PROPERTIES
  SignalsOwnProcess
CHECK_DEADLOCK FALSE
