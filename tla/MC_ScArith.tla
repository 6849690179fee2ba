----------------------------- MODULE MC_ScArith -----------------------------
(* x25519_sc_reduce and sc_muladd on a few byte strings, each followed     *)
(* modulo a few small moduli, primes and powers of primes.                *)
EXTENDS ScArith

\* All bytes 0xff: every limb at its largest, s23 at 2^29 - 1.
MCAllOnes(n) == [k \in 1 .. n |-> 255]
\* A pattern that mixes large and small bytes.
MCPattern(n, x) == [k \in 1 .. n |-> (k * 73 + x) % 256]

MCModuli == {3, 4, 5, 7, 9, 11, 13, 16, 37}
MCReduceInputs == {MCAllOnes(64), MCPattern(64, 41)}
MCMuladdInputs ==
  {[a |-> MCAllOnes(32), b |-> MCAllOnes(32), c |-> MCAllOnes(32)],
   [a |-> MCPattern(32, 41), b |-> MCPattern(32, 7), c |-> MCPattern(32, 200)]}
=============================================================================
