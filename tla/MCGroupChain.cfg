SPECIFICATION Spec
CONSTANTS
  Assets = {"USDA"}
  MaxAmount = 7
  Entities = {"a", "b"}
  Books <- MCBooks
  Figures <- MCFigures
  MaxReports = 2
  MaxMembers = 3
  MaxFaults = 2
  Nothing = Nothing
INVARIANTS
  PassedChainBounds
  PassedChainIsCommitted
  HonestChainPasses
CHECK_DEADLOCK FALSE
