CONSTANTS
  Ident <- MCIdent
  Node <- MCNode
SPECIFICATION Spec
INVARIANTS
  NeverCrashes
CHECK_DEADLOCK FALSE
