SPECIFICATION FairSpec
CONSTANTS
  FailureThreshold = 2
  HalfOpenMax = 1
  Call = {c1, c2}
  Session = {s1}
  Event = {e1, e2}
  MaxAttempts = 2
  MaxFaults = 2
  Replica = {r1, r2}
  LastVersion = 2
  MaxDeaths = 1
  Writer = {w1, w2, w3}
  Dir = {d1}
  Patch = {p1, p2}
  Batches <- MCBatches
  Garbage = Garbage
  None = None
  MaxCrashes = 1
INVARIANTS
  CountAgrees
  MigrationsRunOnce
  UpdatesSurvive
  TornLineEatsOne
PROPERTIES
  Recovers
  EveryoneBoots
CHECK_DEADLOCK FALSE
