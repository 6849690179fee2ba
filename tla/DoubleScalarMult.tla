--------------------------- MODULE DoubleScalarMult ---------------------------
(***************************************************************************)
(* ge_double_scalarmult_vartime (avb_curve25519.c): r = a*A + b*B, where  *)
(* B is the base point.  Both scalars are recoded by slide; Ai holds the   *)
(* odd multiples A, 3A, .., 15A (ge_cached) and Bi the odd multiples of B  *)
(* (ge_precomp, from curve25519_tables.h); from the highest position where *)
(* either recoding is nonzero down to 0, r is doubled and the selected     *)
(* odd multiples are added or subtracted.  One call is one behaviour; an   *)
(* iteration of the main loop is DoubleStep, AddA and AddB.               *)
(***************************************************************************)
EXTENDS Integers, Sequences, EdwardsGroup, Slide

CONSTANTS
  BasePoint,    \* the base point B
  InputPoints,  \* the points A the call is made with
  ScalarsA,     \* the scalars a the call is made with, as integers
  ScalarsB      \* the scalars b

ASSUME BasePoint \in Points /\ InputPoints \subseteq Points
ASSUME ScalarsA \cup ScalarsB \subseteq 0 .. 2^SlideBits - 1

\* Bi[k] = (2k+1)*B as ge_precomp: the table Bi of curve25519_tables.h.
Bi == [k \in 0 .. 7 |-> PrecompOf(EdMul(BasePoint, 2 * k + 1))]

\* Ai[0] = A; A2 = 2A; Ai[k] = A2 + Ai[k-1], each through ge_p1p1_to_p3
\* and x25519_ge_p3_to_cached (lines 858-881).
OddMultiples(A3) ==
  LET A2 == GeP1P1ToP3(GeP3Dbl(A3))
      RECURSIVE Tbl(_)
      Tbl(k) == IF k = 0 THEN <<GeP3ToCached(A3)>>
                ELSE LET prev == Tbl(k - 1)
                         u    == GeP1P1ToP3(GeAdd(A2, prev[k]))
                     IN Append(prev, GeP3ToCached(u))
  IN [k \in 0 .. 7 |-> Tbl(7)[k + 1]]

\* for (i = 255; i >= 0; --i) if (aslide[i] || bslide[i]) break;
RECURSIVE TopNonzero(_, _, _)
TopNonzero(as, bs, i) ==
  IF i < 0 THEN i
  ELSE IF as[i] # 0 \/ bs[i] # 0 THEN i
  ELSE TopNonzero(as, bs, i - 1)

\* The recodings and tables of the inputs, computed once (they are
\* functions of the constants).
SlideOf == [x \in ScalarsA \cup ScalarsB |-> Slide(x)]
AiOf == [pt \in InputPoints |-> OddMultiples(P3Of(pt))]

VARIABLES
  A,       \* ghost: the affine point the argument A represents
  a, b,    \* the scalars
  aslide,  \* the recoding of a
  bslide,  \* the recoding of b
  Ai,      \* ge_cached Ai[8]
  r,       \* the result ge_p2
  t,       \* the ge_p1p1 t of an iteration
  i,       \* the loop counter
  pc       \* "start", "loop", "adda", "addb" or "done"

vars == <<A, a, b, aslide, bslide, Ai, r, t, i, pc>>

Zeros == [k \in Pos |-> 0]

\* t before its first write, which comes before any read.
TUnset == [X |-> 0, Y |-> 1, Z |-> 1, T |-> 1]

Init ==
  /\ A = Identity /\ a = 0 /\ b = 0
  /\ aslide = Zeros /\ bslide = Zeros
  /\ Ai = [k \in 0 .. 7 |-> GeCachedZero]
  /\ r = GeP2Zero /\ t = TUnset /\ i = 0 /\ pc = "start"

\* Everything before the main loop: slide both scalars, build Ai,
\* ge_p2_0(r), find the first nonzero position.
Start ==
  /\ pc = "start"
  /\ \E pt \in InputPoints, sa \in ScalarsA, sb \in ScalarsB :
       LET as == SlideOf[sa]
           bs == SlideOf[sb]
       IN /\ A' = pt /\ a' = sa /\ b' = sb
          /\ aslide' = as /\ bslide' = bs
          /\ Ai' = AiOf[pt]
          /\ i' = TopNonzero(as, bs, SlideBits - 1)
  /\ r' = GeP2Zero /\ pc' = "loop"
  /\ UNCHANGED t

\* Top of an iteration of for (; i >= 0; --i): ge_p2_dbl(&t, r).
DoubleStep ==
  /\ pc = "loop" /\ i >= 0
  /\ t' = GeP2Dbl(r) /\ pc' = "adda"
  /\ UNCHANGED <<A, a, b, aslide, bslide, Ai, r, i>>

\* The digit of a: t = u + Ai[digit / 2] (x25519_ge_add) or
\* t = u - Ai[-digit / 2] (x25519_ge_sub), u the ge_p3 of t; t is left
\* alone for a zero digit.
AddA ==
  /\ pc = "adda"
  /\ LET da == aslide[i]
     IN t' = CASE da > 0 -> GeAdd(GeP1P1ToP3(t), Ai[da \div 2])
               [] da < 0 -> GeSub(GeP1P1ToP3(t), Ai[(-da) \div 2])
               [] OTHER  -> t
  /\ pc' = "addb"
  /\ UNCHANGED <<A, a, b, aslide, bslide, Ai, r, i>>

\* The digit of b, by ge_madd / ge_msub with Bi, then
\* x25519_ge_p1p1_to_p2(r, &t) and --i.
AddB ==
  /\ pc = "addb"
  /\ LET db == bslide[i]
         t2 == CASE db > 0 -> GeMadd(GeP1P1ToP3(t), Bi[db \div 2])
                 [] db < 0 -> GeMsub(GeP1P1ToP3(t), Bi[(-db) \div 2])
                 [] OTHER  -> t
     IN r' = GeP1P1ToP2(t2)
  /\ i' = i - 1 /\ pc' = "loop"
  /\ UNCHANGED <<A, a, b, aslide, bslide, Ai, t>>

Finish ==
  /\ pc = "loop" /\ i < 0
  /\ pc' = "done"
  /\ UNCHANGED <<A, a, b, aslide, bslide, Ai, r, t, i>>

Next == Start \/ DoubleStep \/ AddA \/ AddB \/ Finish

Spec == Init /\ [][Next]_vars

-----------------------------------------------------------------------------

\* Every digit slide produces is 0 or odd with |digit| <= 15, so that the
\* table indices |digit| / 2 of Ai[8] and Bi[8] are within 0 .. 7.
SlideDigitsInRange ==
  pc # "start" =>
    \A k \in Pos :
      \A dg \in {aslide[k], bslide[k]} :
        dg = 0 \/ (dg % 2 = 1 /\ -15 <= dg /\ dg <= 15)

\* k*pt for the points and scalars of the model, computed once.
MulOf == [pt \in InputPoints \cup {BasePoint}, k \in 0 .. 2^SlideBits - 1 |->
            EdMul(pt, k)]

\* The comment of ge_double_scalarmult_vartime: r = a*A + b*B, where a and
\* b are the integers their bytes encode.
DoubleScalarMultCorrect ==
  pc = "done" =>
    P2Rep(r, EdAdd(MulOf[A, a], MulOf[BasePoint, b]))
=============================================================================
