SPECIFICATION LoopSpec
CONSTANTS
  Configs = {c1, c2}
  Erased = erased
  CommsIdle = 1
  MotorIdle = 2
  Wraps = {0, 2, 4}
  PowerFails = TRUE
  MaxMessages = 3
  MaxTurns = 1
  Distances = {0, 3}
  Deltas = {0, 1}
  Gaps = {40, 268435455}
  Supply = {TRUE, FALSE}
  SpinTicks = 1
  MaxTicks = 5
INVARIANTS LoopTypeOK StoredOrDue
PROPERTIES RebootIsSafe RebootFollows DrivesAsPlanned
