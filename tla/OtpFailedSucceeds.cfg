SPECIFICATION Spec
CONSTANTS
  Requests = {r1,r2}
  Verifications = {v1}
  MaxAttempts = 5
  TTL = 1
  MaxTime = 1
  MaxWrongs = 12
  Failures = {}
PROPERTY FailedNeverSucceeds
CHECK_DEADLOCK FALSE
