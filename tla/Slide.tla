-------------------------------- MODULE Slide --------------------------------
(***************************************************************************)
(* slide (avb_curve25519.c): the signed sliding-window recoding of a       *)
(* scalar used by ge_double_scalarmult_vartime.  r starts as the bits of   *)
(* a; for every nonzero r[i], the next up to six digits r[i+b] are folded  *)
(* into r[i] while |r[i]| stays <= 15, a subtraction propagating a carry   *)
(* upwards.  The scalar has SlideBits bits (256 in the code).  The three   *)
(* nested loops are recursive operators; each takes the exits of the      *)
(* code's loops (the bounds, break) in the same order.                     *)
(***************************************************************************)
EXTENDS Integers

CONSTANT SlideBits   \* bits of the scalar (256 in the code)

ASSUME SlideBits \in Nat \ {0}

Pos == 0 .. SlideBits - 1

\* for (i = 0; i < 256; ++i) r[i] = 1 & (a[i >> 3] >> (i & 7));
SlideInit(a) == [i \in Pos |-> (a \div 2^i) % 2]

\* Mutant: the carry not propagated (the subtraction left unbalanced).
SlideCarryNone(r, k) == r

\* for (k = i + b; k < 256; ++k) {
\*   if (!r[k]) { r[k] = 1; break; }  r[k] = 0; }
RECURSIVE SlideCarry(_, _)
SlideCarry(r, k) ==
  IF k >= SlideBits THEN r
  ELSE IF r[k] = 0 THEN [r EXCEPT ![k] = 1]
  ELSE SlideCarry([r EXCEPT ![k] = 0], k + 1)

\* Mutant: the bound of a 5-bit window (<= 31) instead of <= 15.
SlideFitsWide(x) == x <= 31

\* The test r[i] + (r[i + b] << b) <= 15.
SlideFits(x) == x <= 15

\* for (b = 1; b <= 6 && i + b < 256; ++b) { if (r[i + b]) {
\*   if (r[i] + (r[i + b] << b) <= 15) { r[i] += ...; r[i + b] = 0; }
\*   else if (r[i] - (r[i + b] << b) >= -15) { r[i] -= ...; carry }
\*   else break; } }
RECURSIVE SlideInner(_, _, _)
SlideInner(r, i, b) ==
  IF ~(b <= 6 /\ i + b < SlideBits) THEN r
  ELSE IF r[i + b] = 0 THEN SlideInner(r, i, b + 1)
  ELSE LET sh == r[i + b] * 2^b
       IN IF SlideFits(r[i] + sh)
          THEN SlideInner([r EXCEPT ![i] = r[i] + sh, ![i + b] = 0], i, b + 1)
          ELSE IF r[i] - sh >= -15
          THEN SlideInner(SlideCarry([r EXCEPT ![i] = r[i] - sh], i + b),
                          i, b + 1)
          ELSE r

\* for (i = 0; i < 256; ++i) if (r[i]) { ... }
RECURSIVE SlideOuter(_, _)
SlideOuter(r, i) ==
  IF i >= SlideBits THEN r
  ELSE SlideOuter(IF r[i] # 0 THEN SlideInner(r, i, 1) ELSE r, i + 1)

Slide(a) == SlideOuter(SlideInit(a), 0)

\* The value of a digit string: sum of r[i] * 2^i.
RECURSIVE DigitsValue(_, _)
DigitsValue(r, i) ==
  IF i >= SlideBits THEN 0 ELSE r[i] * 2^i + DigitsValue(r, i + 1)
=============================================================================
