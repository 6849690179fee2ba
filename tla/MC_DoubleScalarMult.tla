-------------------------- MODULE MC_DoubleScalarMult --------------------------
(* GF(293) as in MC_ScalarMultBase: B = (116, 118) of prime order 37, and  *)
(* A = (11, 91), which generates the whole group of order 296 = 8 * 37.    *)
(* Scalars have 8 bits.  The run for the code's callers takes every a      *)
(* below 2^7 (reduced scalars leave the top bits clear, as l < 2^253 does  *)
(* for 256 bits) and b from a set whose recodings carry, subtract and     *)
(* merge windows; the run for the comment's claim takes every 8-bit a.     *)
EXTENDS DoubleScalarMult

MC_P == 293
MC_EncBits == 10
MC_LimbBits == 9
MC_SlideBits == 8
MC_BasePoint == <<116, 118>>
MC_InputPoints == {<<11, 91>>}
MC_ScalarsReduced == 0 .. 2^(MC_SlideBits - 1) - 1
MC_ScalarsAll == 0 .. 2^MC_SlideBits - 1
MC_ScalarsB == {0, 1, 23, 37, 85, 100, 119, 127}
MC_ScalarsBZero == {0}
=============================================================================
