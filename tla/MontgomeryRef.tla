----------------------------- MODULE MontgomeryRef -----------------------------
(***************************************************************************)
(* Reference definition of scalar multiplication on the Montgomery curve   *)
(* B*y^2 = x^3 + A*x^2 + x over GF(P), with A = 486662 mod P as in         *)
(* Curve25519, by the affine chord-and-tangent group law and repeated      *)
(* addition.  Every x in GF(P) is the x-coordinate of a point either of    *)
(* the curve (B = 1) or of its quadratic twist (B a non-residue); the      *)
(* ladder of x25519_scalar_mult_generic works on both, so the reference    *)
(* covers both.  This module is the yardstick, not a model of code.        *)
(***************************************************************************)
EXTENDS Integers, Sequences, Field

CurveA == 486662 % P

ASSUME (CurveA * CurveA) % P # 4

Inf == <<>>   \* the point at infinity

IsSquare(v) == \E y \in F : (y * y) % P = v

NonResidue == CHOOSE n \in F : ~IsSquare(n)

Rhs(x) == (x * x * x + CurveA * x * x + x) % P

\* The twist coefficient B of the curve on which x lies.
TwistOf(x) == IF IsSquare(Rhs(x)) THEN 1 ELSE NonResidue

\* One point with x-coordinate x on the curve (or twist) of coefficient B.
LiftX(x) ==
  LET B == TwistOf(x)
  IN <<x, CHOOSE y \in F : (B * y * y) % P = Rhs(x)>>

Div(a, b) == FeMul(a, FeInvert(b))

\* The affine group law on B*y^2 = x^3 + A*x^2 + x.
EcAdd(B, p, q) ==
  IF p = Inf THEN q
  ELSE IF q = Inf THEN p
  ELSE IF p[1] = q[1] /\ (p[2] + q[2]) % P = 0 THEN Inf
  ELSE LET lambda == IF p = q
                     THEN Div((3 * p[1] * p[1] + 2 * CurveA * p[1] + 1) % P,
                              (2 * B * p[2]) % P)
                     ELSE Div((q[2] - p[2]) % P, (q[1] - p[1]) % P)
           x3 == (B * lambda * lambda - CurveA - p[1] - q[1]) % P
       IN <<x3, (lambda * (p[1] - x3) - p[2]) % P>>

\* k*Q for Q = LiftX(x), by double-and-add over the affine group law.
RECURSIVE MulRef(_, _)
MulRef(x, k) ==
  IF k = 0 THEN Inf
  ELSE LET B    == TwistOf(x)
           half == MulRef(x, k \div 2)
           dbl  == EcAdd(B, half, half)
       IN IF k % 2 = 0 THEN dbl ELSE EcAdd(B, dbl, LiftX(x))

\* The pair (X : Z) represents the x-coordinate of point pt (to_xz in the
\* comment of x25519_scalar_mult_generic): infinity is (X : 0) with X # 0,
\* a finite point is (x*Z : Z) with Z # 0.
XZRepresents(X, Z, pt) ==
  IF pt = Inf THEN Z = 0 /\ X # 0
  ELSE Z # 0 /\ X = FeMul(pt[1], Z)

\* The affine x-coordinate the code outputs: X * Z^-1, which is 0 for the
\* point at infinity because fe_invert(0) = 0.
XOut(pt) == IF pt = Inf THEN 0 ELSE pt[1]
=============================================================================
