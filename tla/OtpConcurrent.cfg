\* Three requests race for one verification; requests are killed and updates lost part way.
\* MaxWrongs is above the budget (19 for three requests and three attempts).
SPECIFICATION Spec
CONSTANTS
  Requests = {r1, r2, r3}
  Verifications = {v1}
  MaxAttempts = 3
  TTL = 1
  MaxTime = 2
  MaxWrongs = 24
  Failures = {"crash", "write"}
SYMMETRY RequestSymmetry
INVARIANTS TypeOK AttemptsBounded ClosedForCause BudgetKept
CHECK_DEADLOCK FALSE
