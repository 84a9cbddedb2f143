SPECIFICATION Spec
CONSTANTS
  Messages = {"repeated", "whole", "far", "failed"}
  Plan <- ThePlan
  BlockSize = 3
  Transfers = 2
  HeapLimit = 3
  Frequencies = {"f1", "f2"}
  MaxErrors = 1
PROPERTY AcceptedMessagesAreSent
CHECK_DEADLOCK FALSE
