SPECIFICATION CaptureSpec
CONSTANTS
  MaxHalves = 8
  MaxConnects = 2
  MaxBuffer = 3
  Traces = {2}
  Request = {r1, r2, r3}
  MaxActive = 1
  MaxPending = 1
  MaxRuns = 2
  MaxEnds = 2
  Op = {o1, o2, o3}
  MaxLaunches = 2
  Logs = 2
  MaxEvents = 4
  Arrivals <- MCArrivals
  Strategies <- MCStrategies
  Window = 1
  GroupTimeout = 1
  MaxRetained = 5
  MaxGroups = 3
  MaxPerGroup = 3
  MaxNow = 5
  None = None
INVARIANTS
  LinesAreExact
  AnsweredOnce
  ConnectionsCounted
  ClosedIsQuiet
  SavedIsComplete
  GroupedOnce
  ErrorsAreVisible
CHECK_DEADLOCK FALSE
