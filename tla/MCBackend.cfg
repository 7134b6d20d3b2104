CONSTANTS
  WordHalf = 4
  ByteSize = 4
  Ident <- MCIdent
  TackyCode <- MCTackyCode
  Called <- MCCalled
  Garbage <- MCGarbage
  GarbageInRegs <- MCGarbageInRegs
SPECIFICATION BackSpec
INVARIANTS
  TypeOK
  SlotsDisjoint
  PrintedEncodable
  FlagsOfComparison
  ReturnsToCaller
PROPERTIES
  ImplementsTacky
CHECK_DEADLOCK FALSE
