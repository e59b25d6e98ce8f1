SPECIFICATION FairSpec
CONSTANTS
  Session = {1, 2}
  Request = {1, 2, 3}
  Scripts <- Several
  MaxMessages = 3
  MaxInference = 1
  MaxRounds = 1
  MaxSessions = 2
  MaxParts = 1
  MaxRestarts = 1
INVARIANTS PendingIsWork ReadAsStored
PROPERTY StreamsEnd
CHECK_DEADLOCK FALSE
