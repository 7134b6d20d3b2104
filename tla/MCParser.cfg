CONSTANTS
  Ident <- MCIdent
  Inputs <- MCInputs
  IntMax = 1
  Garbage <- MCGarbage
SPECIFICATION FairSpec
INVARIANTS
  TypeOK
  TreeIsRight
  NodesHaveShape
PROPERTIES
  Decides
CHECK_DEADLOCK FALSE
