CONSTANTS
  d1 = d1
  d2 = d2
  Drivers <- TwoRuns
  OptionSets <- MCOptionSets
SPECIFICATION Spec
INVARIANTS
  ListingOnce
CHECK_DEADLOCK FALSE
