SPECIFICATION Spec
CONSTANTS
  r1 = r1
  r2 = r2
  s1 = s1
  Main = Main
  NoSrc = NoSrc
  Req = {r1, r2}
  Src = {s1}
  Bad = {}
  Prios = {0}
  InitNodes = 1
  MaxNode = 2
  MaxRule = 2
  MaxPrio = 2
  MaxCrash = 0
  Serial = TRUE
  Churn = TRUE
  Starts = FALSE
  Faults = TRUE
SYMMETRY RulesSymmetry
INVARIANTS
  NoStrayRule
  InstalledUnlessMissed
  RouterFollows
CHECK_DEADLOCK FALSE
