CONSTANTS
  j1 = j1
  j2 = j2
  j3 = j3
  s1 = s1
  s2 = s2
  p1 = p1
  p2 = p2
  d = d
  e = e
  User = User
  NoJob = NoJob
  None = None
  u1 = u1
  u2 = u2
  u3 = u3
  Jobs = {j1, j2, j3}
  Rounds = 1
  MaxStops = 1
  Scans = {s1, s2}
  Profiles = {p1, p2}
  Paths = {d, e}
  Quota = 1
  Layouts <- MCLayouts
  Users = {u1, u2, u3}
  Questions = {u3}
  MaxContainers = 4
  Tasks <- AllTasks
SPECIFICATION AnalysesSpec
CHECK_DEADLOCK FALSE
INVARIANTS AnalysesSound SandboxSound
PROPERTY TasksEnd
