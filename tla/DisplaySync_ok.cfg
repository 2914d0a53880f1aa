SPECIFICATION Spec
CONSTANTS
  ModuleCount = 2
  PropCnt = 1
  GetAlt = {0}
  SetAlt = {}
  Compare = {}
  StoresFirst = {}
  Values = {a, b}
  Default = a
  Unsupported = a
  None = None
  MaxAttempts = 3
  PostsComing = FALSE
  ChainMayFail = TRUE
  WaitMayExpire = FALSE
INVARIANT OkMeansSynchronized
