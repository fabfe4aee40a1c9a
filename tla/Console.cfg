\* Every page with two to four runs, a failure, and two rows, cells or components.
SPECIFICATION ConsoleSpec
CONSTANTS
  first = first
  dev1 = dev1
  dev2 = dev2
  Users = {first, dev1, dev2}
  FirstAdmin = first
  Nobody = nobody
  Pages <- AccountPages
  Jobs = {j1, j2, j3, j4}
  Failures = 1
  p1 = p1
  p2 = p2
  Projects <- ListedProjects
  Items = {i1, i2}
  NoProject = noProject
  NoItem = noItem
  Calls = {c1, c2, c3}
  Faults = 1
  x = x
  y = y
  Cells = {x, y}
  Choice = choice
  NoRow = noRow
  Saves = {s1, s2, s3}
  Refusals = 3
  v1 = v1
  v2 = v2
  Views = {v1, v2}
  Values = {white, black}
  NoValue = noValue
  Edits = {e1, e2}
  Mishaps = 1
  web = web
  api = api
  Parts = {web, api}
  Levels = {"operational", "degraded", "maintenance"}
  t1 = t1
  t2 = t2
  Texts = {t1, t2}
  NoText = noText
  NoPart = noPart
  Runs = {r1, r2, r3}
  Upsets = 1
  Limits <- ListLimits
INVARIANTS
  SuspendedByElder OwnChangesShow TrailAgrees
  ListIsOfSelected RevealedSecretIsCurrent CopyIsSaved
  OwnEditsShow SubscriberCatchesUp
  BoardIsCurrent ChosenStands VisitorIsTold
SYMMETRY Alike
CHECK_DEADLOCK FALSE
