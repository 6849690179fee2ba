CONSTANTS
  Moduli <- MCModuli
  ReduceInputs <- MCReduceInputs
  MuladdInputs <- MCMuladdInputs
SPECIFICATION Spec
INVARIANTS
  NoOverflow
  ValueKept
  LimbsFitOutput
  PackCorrect
\* Both routines are straight-line code: a run ends when the last carry is done.
CHECK_DEADLOCK FALSE
