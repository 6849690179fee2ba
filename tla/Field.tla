-------------------------------- MODULE Field --------------------------------
(***************************************************************************)
(* The field GF(P) of avb_curve25519.c, with P a prime of the same shape   *)
(* as 2^255 - 19.  In the code a field element is ten 25.5-bit limbs       *)
(* (fe, fe_loose); here it is the integer it represents, reduced mod P.   *)
(* The limb bounds checked by assert_fe / assert_fe_loose and the carry    *)
(* step fe_carry do not change the value and are left out.  fe_cswap and   *)
(* fe_cmov are kept bitwise, on a limb of LimbBits bits, because their     *)
(* correctness depends on the mask 0 - b.                                  *)
(***************************************************************************)
EXTENDS Integers, Bitwise

CONSTANTS
  P,        \* the field prime (2^255 - 19 in the code)
  EncBits,  \* bits of the byte encoding of an element (256 in the code)
  LimbBits  \* width of fe_limb_t (32 in the code)

ASSUME P \in Nat /\ P > 2 /\ P < 2^(EncBits - 1)
ASSUME \A d \in 2 .. P - 1 : P % d # 0   \* P is prime
ASSUME LimbBits \in Nat /\ P < 2^LimbBits

F == 0 .. P - 1

\* All encodings of EncBits bits (uint8_t s[32] in the code).
Encodings == 0 .. 2^EncBits - 1

RECURSIVE PowMod(_, _)
PowMod(z, k) ==
  IF k = 0 THEN 1
  ELSE LET h == PowMod(z, k \div 2)
       IN IF k % 2 = 0 THEN (h * h) % P ELSE (h * h * z) % P

\* Mutant: decoding without clearing the top bit of s[31].
FeFromBytesUnmasked(s) == s % P

\* fe_frombytes: copy, clear the top bit (s_copy[31] &= 0x7f), decode.
\* Encodings in [P, 2^(EncBits-1)) are accepted and denote their value mod P.
FeFromBytes(s) == (s % 2^(EncBits - 1)) % P

\* fe_tobytes: the canonical encoding (fiat_25519_to_bytes fully reduces).
FeToBytes(f) == f % P

FeAdd(f, g) == (f + g) % P
FeSub(f, g) == (f - g) % P
FeMul(f, g) == (f * g) % P
FeSq(f) == (f * f) % P
FeNeg(f) == (0 - f) % P
\* Mutant: the RFC 7748 constant a24 = 121665, which belongs to the other
\* arrangement of the ladder-step formula.
FeMul121665(f) == (121665 * f) % P
FeMul121666(f) == (121666 * f) % P

\* fe_invert / fe_loose_invert: the addition chain computes z^(P-2), which
\* is the inverse of z for z # 0 and 0 for z = 0.
\* The powers are tabulated once over F.
InvertTable == [z \in F |-> PowMod(z, P - 2)]
FeInvert(z) == InvertTable[z % P]

\* fe_pow22523: z^((P-5)/8), the exponent used for square roots.
Pow22523Table == [z \in F |-> PowMod(z, (P - 5) \div 8)]
FePow22523(z) == Pow22523Table[z % P]

\* fe_isnonzero: 1 iff the canonical encoding differs from zero.
FeIsNonzero(f) == IF FeToBytes(f) # 0 THEN 1 ELSE 0

\* fe_isnegative: the low bit of the canonical encoding.
FeIsNegative(f) == FeToBytes(f) % 2

\* The mask b = 0 - b of fe_cswap / fe_cmov, as a fe_limb_t.
LimbMask(b) == (0 - b) % 2^LimbBits

\* fe_cswap: x = (f ^ g) & mask; f ^= x; g ^= x.  Returns <<f', g'>>.
FeCswap(f, g, b) ==
  LET x == (f ^^ g) & LimbMask(b)
  IN <<f ^^ x, g ^^ x>>

\* fe_cmov: x = (f ^ g) & mask; f ^= x.
FeCmov(f, g, b) == f ^^ ((f ^^ g) & LimbMask(b))
=============================================================================
