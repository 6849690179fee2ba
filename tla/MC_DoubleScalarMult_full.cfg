CONSTANTS
  P <- MC_P
  EncBits <- MC_EncBits
  LimbBits <- MC_LimbBits
  SlideBits <- MC_SlideBits
  BasePoint <- MC_BasePoint
  InputPoints <- MC_InputPoints
  ScalarsA <- MC_ScalarsAll
  ScalarsB <- MC_ScalarsBZero
SPECIFICATION Spec
\* The function returns after the loop: the final state has no successor.
CHECK_DEADLOCK FALSE
\* The claim of the comment above ge_double_scalarmult_vartime, for every
\* scalar a of SlideBits bits.
INVARIANT
  DoubleScalarMultCorrect
