--------------------------- MODULE MC_FieldChains ---------------------------
(* Every modulus from 2 to 200: their lcm exceeds 2^256, so agreement     *)
(* modulo all of them is equality of the exponents.                      *)
EXTENDS FieldChains

MC_Moduli == 2 .. 200
=============================================================================
