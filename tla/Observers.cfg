CONSTANTS
  MaxAppearances = 2
  MaxReads = 1
  MaxRemovals = 1
  MaxOthers = 2
  MaxDrops = 1
SPECIFICATION FairSpec
CHECK_DEADLOCK FALSE
INVARIANTS
  ShownIsTrue
PROPERTIES
  NeverOlder
  TapsAnswered
