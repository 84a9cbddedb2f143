CONSTANTS
  Blocks <- MCBlocks
  Patterns <- MCPatterns
  MaxCommands = 2
  MaxNo = 1
SPECIFICATION Spec
INVARIANTS
  RemovalIsExact
  DisabledEverywhere
PROPERTIES
  FilesComeFirst
CHECK_DEADLOCK FALSE
