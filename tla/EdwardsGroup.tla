----------------------------- MODULE EdwardsGroup -----------------------------
(***************************************************************************)
(* The ge_* group operations of avb_curve25519.c, each an operator on the  *)
(* records of its coordinate system, with the field names of the C structs *)
(* and the sequence of field operations of the code (a temporary the code  *)
(* reuses is a LET name of its own; fe_carry changes no value).           *)
(***************************************************************************)
EXTENDS Integers, EdwardsRef

\* x25519_ge_tobytes / ge_p3_tobytes: s = y, s[31] ^= fe_isnegative(x) << 7.
GeToBytes(h) ==
  LET recip == FeInvert(h.Z)
      x     == FeMul(h.X, recip)
      y     == FeMul(h.Y, recip)
  IN FeToBytes(y) ^^ (FeIsNegative(x) * 2^(EncBits - 1))

\* Mutant: the sign test made on the x computed before the sqrt(-1)
\* correction.
GeFromBytesEarlySign(s) ==
  LET Y     == FeFromBytes(s)
      w     == FeSq(Y)
      vxx   == FeMul(w, EdD)
      u     == FeSub(w, 1)
      v     == FeAdd(vxx, 1)
      X0    == FeMul(FePow22523(FeMul(u, v)), u)
      vxx2  == FeMul(FeSq(X0), v)
      bad   == FeIsNonzero(FeSub(vxx2, u)) = 1
      X1    == IF bad THEN FeMul(X0, SqrtM1) ELSE X0
      X2    == IF FeIsNegative(X0) # s \div 2^(EncBits - 1)
               THEN FeNeg(X1) ELSE X1
  IN IF bad /\ FeIsNonzero(FeAdd(vxx2, u)) = 1
     THEN [ok |-> 0, X |-> X0, Y |-> Y, Z |-> 1, T |-> 0]
     ELSE [ok |-> 1, X |-> X2, Y |-> Y, Z |-> 1, T |-> FeMul(X2, Y)]

\* x25519_ge_frombytes_vartime: y from s, u = y^2 - 1, v = d*y^2 + 1,
\* x = u * (u*v)^((p-5)/8); if v*x^2 = u keep x, if v*x^2 = -u use
\* x*sqrt(-1), else return 0; negate x when its sign differs from the top
\* bit of s; T = X*Y.  On failure h->T is never written (the caller
\* discards h); it is 0 here.
GeFromBytes(s) ==
  LET Y     == FeFromBytes(s)
      w     == FeSq(Y)
      vxx   == FeMul(w, EdD)
      u     == FeSub(w, 1)
      v     == FeAdd(vxx, 1)
      X0    == FeMul(FePow22523(FeMul(u, v)), u)
      vxx2  == FeMul(FeSq(X0), v)
      bad   == FeIsNonzero(FeSub(vxx2, u)) = 1
      X1    == IF bad THEN FeMul(X0, SqrtM1) ELSE X0
      X2    == IF FeIsNegative(X1) # s \div 2^(EncBits - 1)
               THEN FeNeg(X1) ELSE X1
  IN IF bad /\ FeIsNonzero(FeAdd(vxx2, u)) = 1
     THEN [ok |-> 0, X |-> X0, Y |-> Y, Z |-> 1, T |-> 0]
     ELSE [ok |-> 1, X |-> X2, Y |-> Y, Z |-> 1, T |-> FeMul(X2, Y)]

GeP2Zero     == [X |-> 0, Y |-> 1, Z |-> 1]
GeP3Zero     == [X |-> 0, Y |-> 1, Z |-> 1, T |-> 0]
GeCachedZero == [YplusX |-> 1, YminusX |-> 1, Z |-> 1, T2d |-> 0]
GePrecompZero == [yplusx |-> 1, yminusx |-> 1, xy2d |-> 0]

GeP3ToP2(p) == [X |-> p.X, Y |-> p.Y, Z |-> p.Z]

GeP3ToCached(p) ==
  [YplusX |-> FeAdd(p.Y, p.X), YminusX |-> FeSub(p.Y, p.X),
   Z |-> p.Z, T2d |-> FeMul(p.T, EdD2)]

GeP1P1ToP2(p) ==
  [X |-> FeMul(p.X, p.T), Y |-> FeMul(p.Y, p.Z), Z |-> FeMul(p.Z, p.T)]

GeP1P1ToP3(p) ==
  [X |-> FeMul(p.X, p.T), Y |-> FeMul(p.Y, p.Z), Z |-> FeMul(p.Z, p.T),
   T |-> FeMul(p.X, p.Y)]

GeP1P1ToCached(p) == GeP3ToCached(GeP1P1ToP3(p))

\* Mutant: ge_p2_dbl with trT = Z^2 (fe_sq_tt) instead of 2*Z^2 (fe_sq2_tt).
GeP2DblSq1(p) ==
  LET trX == FeSq(p.X)
      trZ == FeSq(p.Y)
      trT == FeSq(p.Z)
      t0  == FeSq(FeAdd(p.X, p.Y))
      rY  == FeAdd(trZ, trX)
      rZ  == FeSub(trZ, trX)
  IN [X |-> FeSub(t0, rY), Y |-> rY, Z |-> rZ, T |-> FeSub(trT, rZ)]

\* ge_p2_dbl: r = 2*p, as a ge_p1p1.
GeP2Dbl(p) ==
  LET trX == FeSq(p.X)
      trZ == FeSq(p.Y)
      trT == FeAdd(FeSq(p.Z), FeSq(p.Z))   \* fe_sq2_tt
      t0  == FeSq(FeAdd(p.X, p.Y))
      rY  == FeAdd(trZ, trX)
      rZ  == FeSub(trZ, trX)
  IN [X |-> FeSub(t0, rY), Y |-> rY, Z |-> rZ, T |-> FeSub(trT, rZ)]

GeP3Dbl(p) == GeP2Dbl(GeP3ToP2(p))

\* ge_madd (sign = 1) and ge_msub (sign = -1): p +/- q, q a ge_precomp;
\* msub exchanges yplusx and yminusx and the signs of the last two lines.
GeMixed(p, q, sign) ==
  LET qp  == IF sign = 1 THEN q.yplusx ELSE q.yminusx
      qm  == IF sign = 1 THEN q.yminusx ELSE q.yplusx
      trZ == FeMul(FeAdd(p.Y, p.X), qp)
      trY == FeMul(FeSub(p.Y, p.X), qm)
      trT == FeMul(q.xy2d, p.T)
      z2  == FeAdd(p.Z, p.Z)
  IN [X |-> FeSub(trZ, trY), Y |-> FeAdd(trZ, trY),
      Z |-> FeAdd(z2, (sign * trT) % P), T |-> FeSub(z2, (sign * trT) % P)]

GeMadd(p, q) == GeMixed(p, q, 1)
GeMsub(p, q) == GeMixed(p, q, -1)

\* x25519_ge_add (sign = 1) and x25519_ge_sub (sign = -1): p +/- q, q a
\* ge_cached.
GeAddSub(p, q, sign) ==
  LET qp  == IF sign = 1 THEN q.YplusX ELSE q.YminusX
      qm  == IF sign = 1 THEN q.YminusX ELSE q.YplusX
      trZ == FeMul(FeAdd(p.Y, p.X), qp)
      trY == FeMul(FeSub(p.Y, p.X), qm)
      trT == FeMul(q.T2d, p.T)
      trX == FeMul(p.Z, q.Z)
      z2  == FeAdd(trX, trX)
  IN [X |-> FeSub(trZ, trY), Y |-> FeAdd(trZ, trY),
      Z |-> FeAdd(z2, (sign * trT) % P), T |-> FeSub(z2, (sign * trT) % P)]

GeAdd(p, q) == GeAddSub(p, q, 1)
GeSub(p, q) == GeAddSub(p, q, -1)

\* cmov of ge_precomp and cmov_cached: fe_cmov on every field.
CmovPrecomp(t, u, b) ==
  [yplusx |-> FeCmov(t.yplusx, u.yplusx, b),
   yminusx |-> FeCmov(t.yminusx, u.yminusx, b),
   xy2d |-> FeCmov(t.xy2d, u.xy2d, b)]

CmovCached(t, u, b) ==
  [YplusX |-> FeCmov(t.YplusX, u.YplusX, b),
   YminusX |-> FeCmov(t.YminusX, u.YminusX, b),
   Z |-> FeCmov(t.Z, u.Z, b), T2d |-> FeCmov(t.T2d, u.T2d, b)]
=============================================================================
