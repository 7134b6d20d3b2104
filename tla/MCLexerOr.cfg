CONSTANTS
  Sources <- MCSources
SPECIFICATION Spec
INVARIANTS
  ReadFromSpelling
CHECK_DEADLOCK FALSE
