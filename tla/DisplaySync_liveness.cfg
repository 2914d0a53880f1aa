SPECIFICATION FairSpec
CONSTANTS
  ModuleCount = 2
  PropCnt = 2
  GetAlt = {1}
  SetAlt = {0}
  Compare = {0, 1}
  StoresFirst = {}
  Values = {a, b}
  Default = a
  Unsupported = a
  None = None
  MaxAttempts = 2
  PostsComing = TRUE
  ChainMayFail = FALSE
  WaitMayExpire = FALSE
PROPERTIES WritesDrain WaiterIsWoken
