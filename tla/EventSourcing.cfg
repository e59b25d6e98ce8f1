CONSTANTS
  m = m
  a = a
  sm = sm
  sa = sa
  Node <- MCNode
  Source <- MCSource
  Home <- MCHome
  Trace <- MCTrace
  Master = m
  ReplyLimit = 1
  MaxEmit <- BothEmit
SPECIFICATION Spec
INVARIANTS
  TypeOK
  IndexedOnceInOrder
  NeverForgotten
  Agreement
  NoIndexClash
  NackIsCurrent
PROPERTY ImplementsReplicatedLog
