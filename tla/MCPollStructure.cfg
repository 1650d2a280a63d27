CONSTANTS
  c1 = c1
  c2 = c2
  c3 = c3
  s1 = s1
  s2 = s2
  Conn = {c1, c2, c3}
  Service = {s1, s2}
  NoOne = NoOne
  Fd = {1, 2, 3, 4}
  MaxData = 1
  MaxQueue = 1
  Versions = {"stored"}
SPECIFICATION PollSpec
INVARIANT StructureIsOwn
CHECK_DEADLOCK FALSE
