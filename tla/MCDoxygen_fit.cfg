CONSTANTS
  Roots <- MCRoots
  MaxNodes <- MCMaxNodes
SPECIFICATION Spec
INVARIANTS
  ChildrenAreKept
  ExportIsTheDocument
  DescriptionIsItsText
CHECK_DEADLOCK FALSE
