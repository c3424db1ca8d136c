CONSTANTS
  MaxWrites = 3
  MaxMessages = 3
SPECIFICATION FairSpec
CHECK_DEADLOCK FALSE
PROPERTIES
  TagsFollowTheRules
  ObserverIsServed
