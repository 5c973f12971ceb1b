SPECIFICATION Spec
CONSTANTS
  Assets <- SomeKeys
  MaxAmount = 4
  None = None
  Plans <- SomePlans
  Trusted <- SomeTrusted
  Strangers = {"clerk"}
  Fields = {"root_sums", "mark_prices"}
  Graphs <- SomeGraphs
  MaxDays = 3
  MaxDocuments = 3
INVARIANTS
  PackagingsCommitToOneBook
  AcceptedReportIsTheVenues
  AttestedWasVouchedFor
  VerifiedIsCommitted
  DerivedIsAnchoredThatDay
  GraphAnswersAgree
  ReductionsAreReported
  AnchoredIsWhatWasPublished
  HonestClaimIsAccepted
CHECK_DEADLOCK FALSE
