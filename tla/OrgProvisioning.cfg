\* Two developers and four calls: one developer can come to own two organizations,
\* be invited by the other, and call again.
SPECIFICATION Spec
CONSTANTS
  Users = {u1, u2}
  Calls = {c1, c2, c3, c4}
  Failures = {"trigger", "abort", "reply", "slug"}
  Stamps = {0}
SYMMETRY Symmetry
INVARIANTS OwnerIsMember NeverForbidden SerialCallsAgree
CHECK_DEADLOCK FALSE
