SPECIFICATION Spec
CONSTANTS
  Assets = {"CBTC", "USDA"}
  BalanceMaps <- MCBalances
  MaxAmount = 6
  Figures <- MCFigures
  MaxLeaves = 7
  MaxDump = 3
  MaxFaults <- MCMaxFaults
INVARIANTS
  TypeOK
  EveryLevelTotalsTheLeaves
  LoopsBuildTheTree
  EveryCustomerPasses
  PassedBoundsOwnBalance
  PassedIsCommitted
  RecomputedTotalsAreOwed
CHECK_DEADLOCK FALSE
