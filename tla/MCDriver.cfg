CONSTANTS
  d1 = d1
  d2 = d2
  Drivers <- TwoRuns
  OptionSets <- MCOptionSets
SPECIFICATION FairSpec
INVARIANTS
  TypeOK
  NothingLeftBehind
  ExecutableIsSound
PROPERTIES
  SuccessIsTrue
  EveryRunEnds
CHECK_DEADLOCK FALSE
