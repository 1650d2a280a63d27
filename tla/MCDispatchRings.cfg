CONSTANTS
  c1 = c1
  c2 = c2
  s1 = s1
  Conn = {c1, c2}
  Service = {s1}
  NoOne = NoOne
  MaxFd = 2
  Fd <- MCFd
  Rings <- CreatedRings
  MaxData = 1
  MaxQueue = 1
  Inactivity = 2
  Lap = 2
  MaxClock = 3
  MaxSetBacks = 0
  SelectFails = FALSE
  Inherits = FALSE
SYMMETRY Symmetry
SPECIFICATION Spec
INVARIANT NoCrash
