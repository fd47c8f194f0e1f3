SPECIFICATION Spec
CONSTANTS
  r1 = r1
  r2 = r2
  p1 = p1
  p2 = p2
  NoReq = NoReq
  NoPort = NoPort
  Req = {r1, r2}
  MaxId = 2
  Port = {p1, p2}
  Masqs = {TRUE}
  MaxReq = 4
  MaxFault = 1
SYMMETRY NATSymmetry
INVARIANTS
  TypeOK
  InSync
  MutexHolder
PROPERTIES
  MirrorsWhole
CHECK_DEADLOCK FALSE
