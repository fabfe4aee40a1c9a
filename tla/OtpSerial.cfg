\* One request at a time: the table implements OtpPolicy.
SPECIFICATION Spec
CONSTANTS
  Requests = {r1}
  Verifications = {v1, v2}
  MaxAttempts = 3
  TTL = 1
  MaxTime = 3
  MaxWrongs = 5
  Failures = {"crash"}
INVARIANTS EventsAgreeWithRow
PROPERTIES ImplementsPolicy
CHECK_DEADLOCK FALSE
