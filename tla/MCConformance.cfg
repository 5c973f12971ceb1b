SPECIFICATION Spec
CONSTANTS
  Assets <- KeySet
  MaxAmount = 1000000
  None = None
  Suite <- Cases
  Implementations <- SomeImplementations
  Revisable <- SomeRevisable
INVARIANTS
  DecidedAsDeclared
  ReportedIsRead
  OverclaimIsNoticed
  OmissionIsNoticed
CHECK_DEADLOCK FALSE
