SPECIFICATION Spec
CONSTANTS
  alice = alice  bob = bob  s1 = s1  s2 = s2
  r1 = r1  r2 = r2  q1 = q1  q2 = q2  p1 = p1  p2 = p2
  Sessions = {s1, s2}
  Owner <- TwoSessions
  Managers = {}
  Runs = {r1, r2}
  Reqs = {q1}
  Reaper = reaper
  Pids = {p1, p2}
  OtherPids = {}
  MaxConcurrentRuns = 1
  TimeoutS = 1
  GraceS = 1
  MaxUnread = 1
  MaxRestarts = 0
  None = None
  Other = Other
PROPERTY CapCountsEveryUser
