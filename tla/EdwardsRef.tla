------------------------------ MODULE EdwardsRef ------------------------------
(***************************************************************************)
(* Reference definition of the twisted Edwards group of Ed25519,          *)
(* -x^2 + y^2 = 1 + d*x^2*y^2 over GF(P) with d = -121665/121666, by the  *)
(* affine addition law and double-and-add; and what it means for each of  *)
(* the code's coordinate systems (ge_p2, ge_p3, ge_p1p1, ge_cached,         *)
(* ge_precomp of avb_curve25519.c) to represent an affine point.  This    *)
(* module is the yardstick, not a model of code: the constants d, 2d and  *)
(* sqrt(-1), which the code takes from curve25519_tables.h, are defined   *)
(* here by what they are.                                                 *)
(***************************************************************************)
EXTENDS Integers, Field

EdD    == FeMul((0 - 121665) % P, FeInvert(121666 % P))
EdD2   == FeAdd(EdD, EdD)
\* 2^((P-1)/4) squares to -1 when P = 5 (mod 8), as 2^((p-1)/4) does for p.
SqrtM1 == PowMod(2, (P - 1) \div 4)

\* The addition law is complete only when d is not a square.
ASSUME ~\E r \in F : FeSq(r) = EdD
ASSUME FeSq(SqrtM1) = P - 1

OnCurve(x, y) ==
  FeAdd(FeNeg(FeSq(x)), FeSq(y)) = FeAdd(1, FeMul(EdD, FeMul(FeSq(x), FeSq(y))))

\* The points, one x at a time (an enumerated set, not a filter of F \X F).
Points   == UNION {{<<x, y>> : y \in {v \in F : OnCurve(x, v)}} : x \in F}
Identity == <<0, 1>>

EdDiv(a, b) == FeMul(a, FeInvert(b))

\* The affine Edwards addition law (a = -1).
EdAdd(p, q) ==
  LET t == FeMul(EdD, FeMul(FeMul(p[1], q[1]), FeMul(p[2], q[2])))
  IN << EdDiv(FeAdd(FeMul(p[1], q[2]), FeMul(p[2], q[1])), FeAdd(1, t)),
        EdDiv(FeAdd(FeMul(p[2], q[2]), FeMul(p[1], q[1])), FeSub(1, t)) >>

EdNeg(p) == <<FeNeg(p[1]), p[2]>>

\* k*p by double-and-add.
RECURSIVE EdMul(_, _)
EdMul(p, k) ==
  IF k = 0 THEN Identity
  ELSE LET h == EdMul(p, k \div 2)
           d2 == EdAdd(h, h)
       IN IF k % 2 = 0 THEN d2 ELSE EdAdd(d2, p)

\* What each coordinate system of the code means (comments at the top of
\* the ge_* section of the code):
\*   ge_p2   (X:Y:Z)     x = X/Z, y = Y/Z
\*   ge_p3   (X:Y:Z:T)   x = X/Z, y = Y/Z, X*Y = Z*T
\*   ge_p1p1 ((X:Z),(Y:T)) x = X/Z, y = Y/T
\*   ge_cached (Y+X, Y-X, Z, 2dT) of a ge_p3
\*   ge_precomp (y+x, y-x, 2dxy) of an affine point
P2Rep(r, pt) ==
  r.Z # 0 /\ r.X = FeMul(pt[1], r.Z) /\ r.Y = FeMul(pt[2], r.Z)

P3Rep(r, pt) == P2Rep(r, pt) /\ FeMul(r.X, r.Y) = FeMul(r.Z, r.T)

P1P1Rep(r, pt) ==
  r.Z # 0 /\ r.T # 0 /\ r.X = FeMul(pt[1], r.Z) /\ r.Y = FeMul(pt[2], r.T)

CachedRep(r, pt) ==
  /\ r.Z # 0
  /\ r.YplusX  = FeMul(FeAdd(pt[2], pt[1]), r.Z)
  /\ r.YminusX = FeMul(FeSub(pt[2], pt[1]), r.Z)
  /\ r.T2d     = FeMul(EdD2, FeMul(FeMul(pt[1], pt[2]), r.Z))

PrecompRep(r, pt) ==
  /\ r.yplusx  = FeAdd(pt[2], pt[1])
  /\ r.yminusx = FeSub(pt[2], pt[1])
  /\ r.xy2d    = FeMul(EdD2, FeMul(pt[1], pt[2]))

\* Representatives used as inputs: a point scaled by a nonzero Z that
\* depends on the point, so that formulas that drop a Z are caught.
ZOf(pt) == 2 + ((pt[1] + 3 * pt[2]) % (P - 2))
P3Of(pt) ==
  LET z == ZOf(pt)
  IN [X |-> FeMul(pt[1], z), Y |-> FeMul(pt[2], z), Z |-> z,
      T |-> FeMul(FeMul(pt[1], pt[2]), z)]
PrecompOf(pt) ==
  [yplusx |-> FeAdd(pt[2], pt[1]), yminusx |-> FeSub(pt[2], pt[1]),
   xy2d |-> FeMul(EdD2, FeMul(pt[1], pt[2]))]

\* The encoding of RFC 8032: y, with the low bit of x in the top bit.
EncodeRef(pt) == pt[2] + 2^(EncBits - 1) * (pt[1] % 2)

\* The points an encoding s denotes under the decoding the code
\* implements: y is s with its top bit cleared, reduced mod P (so the
\* non-canonical y >= P are accepted), and x is the root whose low bit is
\* the top bit of s, or x = 0 whatever that bit is.
DecodeRef(s) ==
  {pt \in Points : /\ pt[2] = FeFromBytes(s)
                   /\ \/ pt[1] % 2 = s \div 2^(EncBits - 1)
                      \/ pt[1] = 0}
=============================================================================
