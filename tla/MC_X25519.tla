------------------------------ MODULE MC_X25519 ------------------------------
(* The ladder over GF(2^7 - 19) with one-byte scalars: the clamped scalars *)
(* are 64, 72, ..., 120 and the loop runs over bits 6 .. 0.                *)
EXTENDS X25519

MC_P == 109
MC_EncBits == 8
MC_LimbBits == 8
MC_ScalarBytes == 1
=============================================================================
