SPECIFICATION Spec
CONSTANTS
  Rev = 8
  ZeroWidth = 3
  MaxBack = 2
  LockoutPast = 2
  CounterHalf = 10
  BackTicks = 1
  Setpoints = {3}
  Offsets = {0, 11}
  Minima = {0, 2}
  Slips = TRUE
  Coasts = TRUE
  Power = {TRUE}
  MaxCommands = 2
INVARIANTS TypeOK Tracks DistanceHolds
