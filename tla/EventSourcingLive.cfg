CONSTANTS
  m = m
  a = a
  sm = sm
  sa = sa
  Node <- MCNode
  Source <- MCSource
  Home <- MCHome
  Trace = {}
  Master = m
  ReplyLimit = 1
  MaxEmit <- LiveEmit
SPECIFICATION LiveSpec
PROPERTIES
  ReachesEveryNode
  RetriesEnd
CHECK_DEADLOCK FALSE
