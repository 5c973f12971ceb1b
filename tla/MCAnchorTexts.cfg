SPECIFICATION Spec
CONSTANTS
  r1 = r1
  p1 = p1
  v1 = v1
  Reports = {r1}
  Publishers = {p1}
  Versions = {v1}
  Operators = {p1}
  AnchorVersion = v1
  Times <- MCTimes
  Offsets = {1}
  TimeRank <- MCTimeRank
  OffsetRank <- MCOffsetRank
  Instant <- MCInstant
  Position <- MCOffsetRank
  OutsideProfile <- MCOutside
  NoPrev = NoPrev
  EmptyPrev = EmptyPrev
  MaxDocs = 2
  MaxEdits = 0
  MaxChain = 2
  MaxAccepted = 1
INVARIANT
  AcceptedTimesInProfile
CHECK_DEADLOCK FALSE
