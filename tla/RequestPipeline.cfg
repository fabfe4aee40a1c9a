\* Two requests in flight, four rows over windows of one tick, every failure.
SPECIFICATION FairSpec
CONSTANTS
  Requests = {r1, r2}
  Window = 1
  MaxPerWindow = 2
  Failures = {"count", "log", "crash"}
  MaxTime = 2
  MaxRows = 4
INVARIANTS TypeOK BurstBounded
PROPERTIES EventuallyDone
CHECK_DEADLOCK FALSE
