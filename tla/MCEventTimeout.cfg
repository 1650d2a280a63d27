SPECIFICATION FairSpec
CONSTANTS
  Entry = {e1, e2, e3}
  None = None
  Slots = 3
  MaxTick = 5
  LateAdds = FALSE
CONSTANT Time <- MCTime
INVARIANTS TypeOK NeverRunsAhead
PROPERTIES KeepsPromise NullMeansNoneOlder EventuallyLeaves
