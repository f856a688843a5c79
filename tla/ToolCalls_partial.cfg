SPECIFICATION Spec
CONSTANTS
  Calls = {c1, c2}
  Targets = {k1}
  Own = own
  Others = others
  MaxTries = 2
  MaxMints = 2
  LogMayFail = FALSE
  MaxRestarts = 0
SYMMETRY Interchangeable
INVARIANT FailedRolledBack
