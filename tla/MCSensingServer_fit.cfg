SPECIFICATION NodeSpec
CONSTANTS
  Clients = {"viewer", "c1"}
  Viewer = "viewer"
  MaxPieces = 3
  MaxErrors = 1
INVARIANTS PiecesReachAll FramingIsKept NoMessageIsLeft
PROPERTY TalkingClientsAreServed
CHECK_DEADLOCK FALSE
