CONSTANTS
  P <- MC_P
  EncBits <- MC_EncBits
  LimbBits <- MC_LimbBits
  ScalarBytes <- MC_ScalarBytes
  InputPoints <- MC_InputPoints
  ScalarSet <- MC_ScalarSet
SPECIFICATION Spec
\* The function returns after the last window: the final state has no
\* successor.
CHECK_DEADLOCK FALSE
INVARIANTS
  TableSafe
  WindowInvariant
