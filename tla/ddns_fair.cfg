SPECIFICATION FairSpec
CONSTANTS
  r1 = r1
  a1 = a1
  a2 = a2
  Updater = Updater
  NoAddr = NoAddr
  Req = {r1}
  Addr = {a1, a2}
  MaxRow = 2
  MaxRec = 5
  MaxMove = 1
  MaxFault = 1
  MaxRemote = 0
  MaxReq = 3
  OnePage = TRUE
INVARIANTS
  RowTellsTruth
  OneRecordPerName
PROPERTIES
  Converges
CHECK_DEADLOCK FALSE
