CONSTANTS
  Entry = {e1, e2, e3}
  None = None
  NULL = NULL
  Slots = 2
  MaxTick = 4
  MAXNUM = 4
  Kilo = 2
  Builds = {"posix", "mach", "windows"}
  SleepTick = 3
  MaxUs = 9
  MaxLate = 3
  MaxTime = 30
  Names = 3
  Functions = 2
CONSTANT Time <- MCTime
SPECIFICATION LibrarySpec
INVARIANTS TypeOK CellsAndPrevAgree ListsHoldLinked BlockIsLargeEnough NullOnlyForNothing FirstLibrary NeverMixed
PROPERTIES ImplementsRing SearchComesToEnd RemoveReturns ShortOnlyOnMach NoLongerThanAsked SleepEnds
CHECK_DEADLOCK FALSE
