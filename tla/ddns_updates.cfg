SPECIFICATION Spec
CONSTANTS
  r1 = r1
  a1 = a1
  a2 = a2
  Updater = Updater
  NoAddr = NoAddr
  Req = {r1}
  Addr = {a1, a2}
  MaxRow = 1
  MaxRec = 5
  MaxMove = 1
  MaxFault = 1
  MaxRemote = 1
  MaxReq = 3
  OnePage = FALSE
INVARIANTS
  TypeOK
  RowTellsTruth
  OneRecordPerName
CHECK_DEADLOCK FALSE
