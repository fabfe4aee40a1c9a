\* Two tabs of one new developer.
SPECIFICATION Spec
CONSTANTS
  Users = {u1}
  Calls = {c1, c2}
  Failures = {}
  Stamps = {}
INVARIANTS RepeatedCallsAgree
CHECK_DEADLOCK FALSE
