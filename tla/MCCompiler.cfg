CONSTANTS
  WordHalf = 8
  ByteSize = 4
  Ident <- MCIdent
  Node <- MCNode
  Garbage <- MCGarbage
  GarbageInRegs <- MCGarbageInRegs
SPECIFICATION Spec
INVARIANTS
  TackyPrecondition
  CodeGenPrecondition
  ResultIsRightWithoutHiding
PROPERTIES
  CompilesAndEnds
CHECK_DEADLOCK FALSE
