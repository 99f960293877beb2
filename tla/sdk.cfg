SPECIFICATION FairSpec
CONSTANTS
  Handler = {h1, h2}
  Request = {q1, q2, q3}
  MaxBuffer = 2
  MaxActive = 2
  Owner = {o1, o2}
  Call = {c1, c2}
  MaxLayers = 3
  None = None
  Xhr = {x1, x2}
  Message = {m1, m2, m3}
  MaxRequests = 4
  MaxStarts = 4
  MaxTime = 3
  Window = 1
  MaxRecent = 2
INVARIANTS
  EventsAccountedFor
  CallsReportedOnce
  OriginalsComeBack
  XhrEndsOnce
  NoEchoes
PROPERTIES
  TracedRequestsEnd
CHECK_DEADLOCK FALSE
