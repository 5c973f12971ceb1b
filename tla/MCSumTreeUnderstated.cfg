SPECIFICATION Spec
CONSTANTS
  Assets = {"USDA"}
  BalanceMaps <- MCOwed
  MaxAmount = 4
  Figures <- MCSums
  MaxLeaves = 2
  MaxDump = 0
  MaxFaults <- MCFaults
INVARIANT NotUnderstated
CHECK_DEADLOCK FALSE
