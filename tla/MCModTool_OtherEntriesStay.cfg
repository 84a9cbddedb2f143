CONSTANTS
  Blocks <- MCBlocks
  Patterns <- MCPatterns
  MaxCommands = 2
  MaxNo = 1
SPECIFICATION Spec
INVARIANTS
  OtherEntriesStay
CHECK_DEADLOCK FALSE
