CONSTANTS
  P <- MC_P
  EncBits <- MC_EncBits
  LimbBits <- MC_LimbBits
SPECIFICATION Spec
\* One call of one operation: the state after the call has no successor.
CHECK_DEADLOCK FALSE
INVARIANTS
  GroupLawAgrees
  EncodingRoundTrip
