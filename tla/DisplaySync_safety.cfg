SPECIFICATION Spec
CONSTANTS
  ModuleCount = 2
  PropCnt = 2
  GetAlt = {0, 1}
  SetAlt = {1}
  Compare = {0, 1}
  StoresFirst = {1}
  Values = {a, b}
  Default = a
  Unsupported = a
  None = None
  MaxAttempts = 2
  PostsComing = TRUE
  ChainMayFail = TRUE
  WaitMayExpire = TRUE
INVARIANTS TypeOK AcceptedWriteKept FreshReply
PROPERTY ShowsOnlyAccepted
