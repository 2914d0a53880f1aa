SPECIFICATION FairSpec
CONSTANTS
  Rev = 8
  ZeroWidth = 3
  MaxBack = 2
  LockoutPast = 2
  CounterHalf = 16
  BackTicks = 2
  Setpoints = {0, 3}
  Offsets = {0}
  Minima = {0, 2}
  Slips = TRUE
  Coasts = FALSE
  Power = {TRUE}
  MaxCommands = 2
PROPERTIES NeverBack Arrives
