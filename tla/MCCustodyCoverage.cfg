SPECIFICATION Spec
CONSTANTS
  Assets <- SomeKeys
  MaxAmount = 2
  None = None
  Worth <- SomeWorth
  Owes = 2
  Opening <- SomeOpening
  Step = 200
  MaxTime = 400
  MaxMoves = 2
  MaxReads = 2
  MaxBooks = 1
INVARIANTS
  SameSnapshotSameRoot
  AcceptedCoverageIsOfTheLedger
  HonestCoverageAccepted
PROPERTIES ImplementsAtomicCustody ReadReturns
CHECK_DEADLOCK FALSE
