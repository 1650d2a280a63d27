CONSTANTS
  Size = 3
  MaxRoom = 2
  MaxBytes = 5
  c1 = c1
  c2 = c2
  s1 = s1
  s2 = s2
  Conn = {c1, c2}
  Service = {s1, s2}
  NoOne = NoOne
  Fd = {0, 1, 2}
  MaxData = 1
  MaxQueue = 1
  Versions = {"written", "stored", "described"}
SPECIFICATION BothSpec
INVARIANTS TypeOK EchoesInOrder RoomForNext EveryEventIsHandled
PROPERTIES KeepsStream LoopComesToEnd EchoIsDelivered EndedIsRemoved ResetIsRemoved WaitingIsAccepted
CHECK_DEADLOCK FALSE
