CONSTANTS
  c1 = c1
  c2 = c2
  s1 = s1
  Conn = {c1, c2}
  Service = {s1}
  NoOne = NoOne
  Fd = {1, 2, 3}
  MaxData = 1
  MaxQueue = 1
  Versions = {"stored"}
SPECIFICATION PollSpec
INVARIANT AcceptedIsListed
CHECK_DEADLOCK FALSE
