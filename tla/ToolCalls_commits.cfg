SPECIFICATION FairSpec
CONSTANTS
  Calls = {c1, c2}
  Targets = {k1}
  Own = own
  Others = others
  MaxTries = 2
  MaxMints = 1
  LogMayFail = TRUE
  MaxRestarts = 1
INVARIANTS TypeOK LogTellsAnswer AnswersTrue
PROPERTIES EffectUnderToken PromiseKept CallsAnswered
