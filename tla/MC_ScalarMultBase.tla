--------------------------- MODULE MC_ScalarMultBase ---------------------------
(* GF(293): 293 = 5 (mod 8), d is not a square, and the base point       *)
(* (x, 4/5) with x even, as for Ed25519, has prime order 37 like the     *)
(* Ed25519 base point; 2^0, 2^8, 2^16 and 2^24 are distinct mod 37, so    *)
(* the four chunks have distinct weights.  Chunks of one byte (four-byte  *)
(* scalars, eight iterations), a 16-bit unsigned counter.  The scalars are the 256 *)
(* whose bytes are each 0x00, 0xff, 0xa5 or 0x5a, so that at every i each *)
(* chunk bit takes both values and every index 0 .. 15 is selected.        *)
EXTENDS ScalarMultBase

MC_P == 293
MC_EncBits == 10
MC_LimbBits == 9
MC_ChunkBytes == 1
MC_UintBits == 16
MC_BasePoint == <<116, 118>>
MC_BaseOrder == 37
MC_ScalarSet == [0 .. 3 -> {0, 255, 165, 90}]
=============================================================================
