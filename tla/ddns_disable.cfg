SPECIFICATION Spec
CONSTANTS
  r1 = r1
  a1 = a1
  a2 = a2
  Updater = Updater
  NoAddr = NoAddr
  Req = {r1}
  Addr = {a1, a2}
  MaxRow = 1
  MaxRec = 2
  MaxMove = 0
  MaxFault = 0
  MaxRemote = 0
  MaxReq = 3
  OnePage = TRUE
INVARIANTS
  DisableHolds
CHECK_DEADLOCK FALSE
