---------------------------- MODULE MC_GeScalarMult ----------------------------
(* GF(197) as in MC_GeCalls, two-byte scalars (four windows, taken from    *)
(* both bytes), and two input points: (1, 41), which generates the whole   *)
(* group of order 204 so that Ai[0..15] are sixteen distinct points, and   *)
(* (14, 0) of order 4, for which the table repeats and holds the identity. *)
(* The scalars are the 256 whose two bytes are each one of Bytes: sixteen  *)
(* bytes in which every nibble value occurs once high and once low, so     *)
(* every window takes every index 0 .. 15.                                 *)
EXTENDS GeScalarMult

MC_P == 197
MC_EncBits == 9
MC_LimbBits == 8
MC_ScalarBytes == 2
MC_InputPoints == {<<1, 41>>, <<14, 0>>}
Bytes == {16 * h + ((7 * h + 3) % 16) : h \in 0 .. 15}
MC_ScalarSet == {256 * hi + lo : hi, lo \in Bytes}
=============================================================================
