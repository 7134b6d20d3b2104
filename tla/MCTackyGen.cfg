CONSTANTS
  Ident <- MCIdent
  Node <- MCNode
SPECIFICATION Spec
INVARIANTS
  TypeOK
  IInv
  LabelsDefinedOnce
  JumpsForward
  TempsSettledWhenRead
CHECK_DEADLOCK FALSE
