\* One publication to two developers in batches of one, with every failure.
SPECIFICATION Spec
CONSTANTS
  Announcements = {a1}
  Users = {u1, u2}
  BatchSize = 1
  Failures = {"read", "cap", "write", "key", "send", "audit", "crash"}
SYMMETRY Symmetry
INVARIANTS UnreportedMeansDelivered OptedOutIsSpared AuditIsTruthful
CHECK_DEADLOCK FALSE
