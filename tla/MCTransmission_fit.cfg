SPECIFICATION Spec
CONSTANTS
  Messages = {"repeated", "whole", "far", "failed"}
  Plan <- ThePlan
  BlockSize = 3
  Transfers = 2
  HeapLimit = 3
  Frequencies = {"f1", "f2"}
  MaxErrors = 1
INVARIANTS MessagesAreSentWhole InterpreterStaysInCode
PROPERTIES DrainedBeforeStop InBandMessagesAreSent
CHECK_DEADLOCK FALSE
