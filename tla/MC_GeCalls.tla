------------------------------ MODULE MC_GeCalls ------------------------------
(* GF(197): 197 = 5 (mod 8) like 2^255 - 19, and d = -121665/121666 is not *)
(* a square mod 197, so the addition law is complete as it is for Ed25519. *)
(* The group has 204 = 4 * 3 * 17 points, with the identity, the point of  *)
(* order 2 and two of order 4 among them.  Encodings are 9 bits: 8 for y   *)
(* (values 197 .. 255 are non-canonical) and the sign bit.                 *)
EXTENDS GeCalls

MC_P == 197
MC_EncBits == 9
MC_LimbBits == 8
=============================================================================
