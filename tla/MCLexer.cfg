CONSTANTS
  Sources <- MCSources
SPECIFICATION FairSpec
INVARIANTS
  TypeOK
  TokensAreMaximal
  PlacesAreRight
  AbortsAtEdgesOnly
PROPERTIES
  Decides
CHECK_DEADLOCK FALSE
