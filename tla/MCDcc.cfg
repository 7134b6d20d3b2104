CONSTANTS
  Files <- MCFiles
  CSources <- MCCSources
  Unescaped <- MCUnescaped
  UnescapedValue <- MCUnescapedValue
  Numeral <- MCNumeral
  TooLarge <- MCTooLarge
  TooSmall <- MCTooSmall
  Argument <- MCArgument
  CommandLines <- MCCommandLines
  Earlier <- MCEarlier
SPECIFICATION FairSpec
INVARIANTS
  LineTypeOK
  OutcomeIsRight
  ErrorIsRight
  UsageIsAccepted
PROPERTIES
  KeepsPromise
  Ends
CHECK_DEADLOCK FALSE
