CONSTANTS
  c1 = c1
  c2 = c2
  s1 = s1
  Conn = {c1, c2}
  Service = {s1}
  NoOne = NoOne
  MaxFd = 2
  Fd <- MCFd
  Rings <- AllRings
  MaxData = 0
  MaxQueue = 1
  Inactivity = 1
  Lap = 1
  MaxClock = 3
  MaxSetBacks = 1
  SelectFails = FALSE
  Inherits = FALSE
SPECIFICATION FairSpec
PROPERTIES GoneIsRemoved WaitingIsTaken OverdueIsClosed
