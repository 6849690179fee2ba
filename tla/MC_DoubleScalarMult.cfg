CONSTANTS
  P <- MC_P
  EncBits <- MC_EncBits
  LimbBits <- MC_LimbBits
  SlideBits <- MC_SlideBits
  BasePoint <- MC_BasePoint
  InputPoints <- MC_InputPoints
  ScalarsA <- MC_ScalarsReduced
  ScalarsB <- MC_ScalarsB
SPECIFICATION Spec
\* The function returns after the loop: the final state has no successor.
CHECK_DEADLOCK FALSE
INVARIANTS
  SlideDigitsInRange
  DoubleScalarMultCorrect
