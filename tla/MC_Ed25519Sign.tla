---------------------------- MODULE MC_Ed25519Sign ----------------------------
(* GF(293) and B = (116, 118) of prime order 37, as in MC_ScalarMultBase. *)
(* Four-byte scalars (eight-byte digests), four seeds and two messages;  *)
(* two signing calls per behaviour, so that one seed signs one message   *)
(* twice, possibly with two different public halves.                    *)
EXTENDS Ed25519Sign
MC_P == 293
MC_EncBits == 10
MC_LimbBits == 9
MC_ScalarBytes == 4
MC_BasePoint == <<116, 118>>
MC_BaseOrder == 37
MC_Seeds == {1, 2, 3, 4}
MC_Messages == {7, 8}
=============================================================================
