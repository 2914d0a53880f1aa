SPECIFICATION DriverSpec
CONSTANTS
  Capacity = 4
  DmaSize = 2
  MaxWrite = 4
  MaxRead = 3
  Bytes = {0, 1}
INVARIANTS TypeOK SoleReader CountsHold
PROPERTIES IsByteQueue RingDrains
