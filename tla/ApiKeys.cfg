\* Three dashboard calls and one request with every failure: a key can be rotated
\* and revoked while a request with its first secret is under way.
SPECIFICATION FairSpec
CONSTANTS
  Calls = {c1, c2, c3}
  Requests = {q1}
  Failures = {"read", "write", "audit", "crash"}
  Direct = {c1}
INVARIANTS TypeOK NoDeadSecretAccepted AnnouncedIsTrue
PROPERTIES RevocationStands EventFollows
CHECK_DEADLOCK FALSE
