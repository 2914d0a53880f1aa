SPECIFICATION Spec
CONSTANTS
  ModuleCount = 2
  PropCnt = 1
  GetAlt = {0}
  SetAlt = {0}
  Compare = {0}
  StoresFirst = {}
  Values = {a, b}
  Default = a
  Unsupported = a
  None = None
  MaxAttempts = 3
  PostsComing = TRUE
  ChainMayFail = FALSE
  WaitMayExpire = FALSE
INVARIANT EveryWriteKept
