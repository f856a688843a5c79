SPECIFICATION BFairSpec
CONSTANTS
  Calls = {c1, c2}
  Targets = {k1}
  Own = own
  Others = others
  MaxTries = 2
  MaxMints = 1
  LogMayFail = FALSE
  MaxRestarts = 1
  ReadTools = {"orm_read"}
  DefaultTools = {"orm_read"}
  WriteTools = {"orm_write"}
  WebTools = {"web_search"}
  Policies <- SmallPolicies
  MaxChanges = 1
  MaxUnread = 2
  None = None
INVARIANTS BridgeTypeOK EffectGranted RepliesTrue OneReply
PROPERTY RequestsReplied
CHECK_DEADLOCK FALSE
