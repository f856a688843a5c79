SPECIFICATION FairSpec
CONSTANTS
  alice = alice  bob = bob  s1 = s1  s2 = s2
  r1 = r1  r2 = r2  q1 = q1  q2 = q2  p1 = p1  p2 = p2
  Sessions = {s1}
  Owner <- OneSession
  Managers = {}
  Runs = {r1}
  Reqs = {q1}
  Reaper = reaper
  Pids = {p1, p2}
  OtherPids = {p1}
  MaxConcurrentRuns = 0
  TimeoutS = 1
  GraceS = 1
  MaxUnread = 1
  MaxRestarts = 2
  None = None
  Other = Other
INVARIANT TypeOK
PROPERTIES RunningResolves DeadlineEnforced
