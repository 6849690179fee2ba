CONSTANTS
  P <- MC_P
  EncBits <- MC_EncBits
  LimbBits <- MC_LimbBits
  ScalarBytes <- MC_ScalarBytes
\* Spec with weak fairness of the steps of a call under way.
SPECIFICATION FairSpec
\* The function returns after Finish: the final state has no successor.
CHECK_DEADLOCK FALSE
INVARIANTS
  TypeOK
  LadderInvariant
  ScalarMultCorrect
PROPERTY
  Termination
