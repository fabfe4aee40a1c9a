\* Two developers and an administrator, two organizations, two projects, one row.
SPECIFICATION Spec
CONSTANTS
  None = None
  Users = {root, u1, u2}
  FirstAdmins = {root}
  Orgs = {o1, o2}
  Projects = {p1, p2}
  Rows = {r1}
SYMMETRY Interchangeable
INVARIANTS ReadersWereLetIn OnlyInsidersChange
CHECK_DEADLOCK FALSE
