SPECIFICATION Spec
CONSTANTS
  Rev = 8
  ZeroWidth = 3
  MaxBack = 2
  LockoutPast = 2
  CounterHalf = 16
  BackTicks = 1
  Setpoints = {3}
  Offsets = {0, 3}
  Minima = {0}
  Slips = FALSE
  Coasts = FALSE
  Power = {TRUE, FALSE}
  MaxCommands = 2
PROPERTY OffsetHolds
