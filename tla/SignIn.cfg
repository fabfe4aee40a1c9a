\* Both dashboards, an administrator and a developer, every failure.
SPECIFICATION FairSpec
CONSTANTS
  Accounts = {adm, dev}
  Admins = {adm}
  Apps = {"developer", "admin"}
  Failures = {"aal", "list", "role"}
  Budget = 2
INVARIANTS GuardCatchesUp ShownAfterYes RoleIsOfSession
PROPERTY DashboardSettles
CHECK_DEADLOCK FALSE
