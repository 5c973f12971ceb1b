SPECIFICATION Spec
CONSTANTS
  r1 = r1
  p1 = p1
  p2 = p2
  v1 = v1
  v2 = v2
  Reports = {r1}
  Publishers = {p1, p2}
  Versions = {v1, v2}
  Operators = {p1}
  AnchorVersion = v1
  Times = {1, 2, 3}
  Offsets = {1, 2}
  TimeRank <- MCTimeRank
  OffsetRank <- MCOffsetRank
  Instant <- MCTimeRank
  Position <- MCOffsetRank
  OutsideProfile = 0
  NoPrev = NoPrev
  EmptyPrev = EmptyPrev
  MaxDocs = 3
  MaxEdits = 1
  MaxChain = 3
  MaxAccepted = 2
INVARIANTS
  TypeOK
  AcceptedIsWholeHistory
  SharedAnchorSharedPast
  EditedPastWasNamed
  AcceptedIsOrdered
  HonestHistoryNotRejected
CHECK_DEADLOCK FALSE
