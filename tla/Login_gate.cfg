SPECIFICATION FairSpec
CONSTANTS
  Reqs = {q1, q2}
  q1 = q1  q2 = q2
  MaxLogins = 2
  MaxTries = 2
  MaxRestarts = 1
INVARIANTS TypeOK ShownIsTracked LogoutSignalsLogins
PROPERTY GateClears
