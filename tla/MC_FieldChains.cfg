CONSTANTS
  Moduli <- MC_Moduli
SPECIFICATION Spec
\* The function returns after its last instruction.
CHECK_DEADLOCK FALSE
INVARIANTS
  ChainExponent
