SPECIFICATION Spec
CONSTANTS
  r1 = r1
  s1 = s1
  s2 = s2
  Main = Main
  NoSrc = NoSrc
  Req = {r1}
  Src = {s1, s2}
  Bad = {}
  Prios = {0}
  InitNodes = 2
  MaxNode = 2
  MaxRule = 2
  MaxPrio = 2
  MaxCrash = 1
  Serial = FALSE
  Churn = FALSE
  Starts = TRUE
  Faults = FALSE
SYMMETRY RulesSymmetry
INVARIANTS
  InstalledWhileRunning
CHECK_DEADLOCK FALSE
