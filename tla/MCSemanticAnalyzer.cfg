CONSTANTS
  Ident <- MCIdent
  Node <- MCNode
SPECIFICATION FairSpec
INVARIANTS
  TypeOK
  ScopesBalanced
  UniqueNames
  VerdictIsRight
PROPERTIES
  Decides
CHECK_DEADLOCK FALSE
