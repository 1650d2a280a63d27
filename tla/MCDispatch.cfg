CONSTANTS
  c1 = c1
  c2 = c2
  c3 = c3
  s1 = s1
  Conn = {c1, c2, c3}
  Service = {s1}
  NoOne = NoOne
  MaxFd = 3
  Fd <- MCFd
  Rings <- AllRings
  MaxData = 1
  MaxQueue = 2
  Inactivity = 1
  Lap = 2
  MaxClock = 1
  MaxSetBacks = 0
  SelectFails = TRUE
  Inherits = TRUE
SYMMETRY Symmetry
SPECIFICATION Spec
INVARIANTS TypeOK TableConsistent DescriptorsOwned EveryReadyIsServed
