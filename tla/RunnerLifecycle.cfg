SPECIFICATION FairSpec
CONSTANTS
  N = 2
  Setups <- AllSetups
INVARIANTS NothingUnexpected InStep
PROPERTY ComesUpOrGoes
CHECK_DEADLOCK FALSE
