SPECIFICATION Spec
CONSTANTS
  r1 = r1
  s1 = s1
  s2 = s2
  Main = Main
  NoSrc = NoSrc
  Req = {r1}
  Src = {s1, s2}
  Bad = {}
  Prios = {0, 2}
  InitNodes = 1
  MaxNode = 1
  MaxRule = 2
  MaxPrio = 2
  MaxCrash = 1
  Serial = TRUE
  Churn = TRUE
  Starts = TRUE
  Faults = TRUE
SYMMETRY RulesSymmetry
INVARIANTS
  TypeOK
  NoStrayRule
  InstalledUnlessMissed
  RouterFollows
CHECK_DEADLOCK FALSE
