CONSTANTS
  P <- MC_P
  EncBits <- MC_EncBits
  LimbBits <- MC_LimbBits
  ChunkBytes <- MC_ChunkBytes
  UintBits <- MC_UintBits
  BasePoint <- MC_BasePoint
  BaseOrder <- MC_BaseOrder
  ScalarSet <- MC_ScalarSet
SPECIFICATION Spec
\* The function returns when the loop ends: the final state has no
\* successor.
CHECK_DEADLOCK FALSE
INVARIANTS
  SmallPrecompCorrect
