SPECIFICATION MSpec
CONSTANTS
  World = 2
  Tasks = {1, 2, 3}
  Length <- OneLonger
  MaxActive = 2
  Every = 2
  Cancels = {1, 3}
INVARIANT CancelledStops
CHECK_DEADLOCK FALSE
