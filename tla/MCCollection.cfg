SPECIFICATION Spec
CONSTANTS
  Counts <- MCCounts
  Indexes <- MCIndexes
INVARIANTS
  TypeOK
  ElementsAreReached
  UnitIsElements
CHECK_DEADLOCK FALSE
