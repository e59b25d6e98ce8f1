SPECIFICATION DSpec
CONSTANTS
  s1 = s1
  s2 = s2
  c1 = c1
  c2 = c2
  Shards = {s1, s2}
  Slots = {c1, c2}
  MaxCommands = 3
  Plans <- AllPlans
  Disks = {"absent", "complete", "readonly"}
  Offline = {TRUE, FALSE}
  Indexed = {TRUE, FALSE}
  Drifts = FALSE
  Files = {"i", "w"}
  Index = "i"
  Weights = {"w"}
  Size <- TwoVersions
  Dirs <- TwoDirs
  Attempts = 2
  MaxRuns = 2
SYMMETRY Interchangeable
CONSTRAINT Uncrossed
INVARIANTS ActiveIsAlive NoOrphans CompletedOnDisk TransfersAreWhole
CHECK_DEADLOCK FALSE
