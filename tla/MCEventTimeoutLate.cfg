SPECIFICATION Spec
CONSTANTS
  Entry = {e1, e2, e3}
  None = None
  Slots = 3
  MaxTick = 7
  LateAdds = TRUE
CONSTANT Time <- MCTime
SYMMETRY Symmetry
PROPERTY NullMeansNoneOlder
