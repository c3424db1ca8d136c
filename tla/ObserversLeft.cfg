CONSTANTS
  MaxAppearances = 2
  MaxReads = 1
  MaxRemovals = 1
  MaxOthers = 2
  MaxDrops = 1
SPECIFICATION Spec
CHECK_DEADLOCK FALSE
INVARIANT
  ObserverGoesWithScreen
