SPECIFICATION RFairSpec
CONSTANTS
  Commands = {"c1", "c2"}
  Instances = {"i1", "i2"}
  Nodes = {"n1", "n2"}
  Setups <- Mixed
INVARIANT EndedLeavesNothing
PROPERTIES RequestsEnd OngoingEnds
CHECK_DEADLOCK FALSE
