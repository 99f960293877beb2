SPECIFICATION CaptureSpec
CONSTANTS
  MaxHalves = 1
  MaxConnects = 1
  MaxBuffer = 3
  Traces = {}
  Request = {r1}
  MaxActive = 1
  MaxPending = 1
  MaxRuns = 1
  MaxEnds = 1
  Op = {o1}
  MaxLaunches = 0
  Logs = 0
  MaxEvents = 0
  Arrivals = {}
  Strategies <- MCStrategies
  Window = 1
  GroupTimeout = 1
  MaxRetained = 5
  MaxGroups = 3
  MaxPerGroup = 3
  MaxNow = 0
  None = None
INVARIANT ForwardsTheRequest
CHECK_DEADLOCK FALSE
