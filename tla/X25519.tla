-------------------------------- MODULE X25519 --------------------------------
(***************************************************************************)
(* x25519_scalar_mult_generic (avb_curve25519.c): the Montgomery ladder    *)
(* computing the x-coordinate of e*P from a 32-byte scalar and the         *)
(* encoded x-coordinate of P.  One call of the function is one behaviour:  *)
(* Start is the code before the loop (clamping, decoding, initial          *)
(* projective points), Step is one iteration of the loop at bit pos, and   *)
(* Finish is the final conditional swap, inversion and encoding.           *)
(*                                                                         *)
(* The field is GF(P) of module Field and the scalar has ScalarBytes bytes *)
(* (32 in the code); the loop runs from bit 8*ScalarBytes - 2 (254) down   *)
(* to 0 exactly as in the code.                                            *)
(***************************************************************************)
EXTENDS Integers, Sequences, MontgomeryRef

CONSTANT ScalarBytes

ASSUME ScalarBytes \in Nat \ {0}

VARIABLES
  kRef,    \* ghost: the scalar RFC 7748 decodes from the scalar argument
  uRef,    \* ghost: the coordinate RFC 7748 decodes from the point argument
  pc,      \* "start", "loop" or "done"
  e,       \* the clamped scalar, as an integer (little-endian bytes)
  x1,      \* the decoded input coordinate
  x2, z2,  \* projective point (x2 : z2)
  x3, z3,  \* projective point (x3 : z3)
  swap,    \* the pending conditional swap
  pos,     \* the next bit to process
  out      \* the encoded result

vars == <<kRef, uRef, pc, e, x1, x2, z2, x3, z3, swap, pos, out>>

ScalarBits == 8 * ScalarBytes
Scalars == 0 .. 2^ScalarBits - 1
TopPos == ScalarBits - 2

\* Byte i of a little-endian integer: e[i] in the code.
ByteOf(n, i) == (n \div 2^(8 * i)) % 256

\* The clamping of e: e[0] &= 248; e[31] &= 127; e[31] |= 64.
Clamp(s) ==
  LET low  == s & (2^ScalarBits - 1 - 7)
      top  == low & (2^(ScalarBits - 1) - 1)
  IN top | 2^(ScalarBits - 2)

\* Mutant: the bit extraction without the mask 1 &.
LadderBitUnmasked(n, p) == shiftR(ByteOf(n, p \div 8), p % 8)

\* unsigned b = 1 & (e[pos / 8] >> (pos & 7));
LadderBit(n, p) == 1 & shiftR(ByteOf(n, p \div 8), p % 8)

\* x-coordinates of 0*Q .. 2^(ScalarBits-1)*Q for every input coordinate,
\* enough for r + 1 where r = e >> (pos + 1) and e < 2^(ScalarBits - 1).
MulTable == [x \in F, k \in 0 .. 2^(ScalarBits - 1) |-> MulRef(x, k)]

\* Mutant: the loop counter never decremented.
PosDecrNone(p) == p

\* --pos at the end of each iteration of the loop.
PosDecr(p) == p - 1

\* The scalar and coordinate that RFC 7748 decodes from the argument bytes:
\* the scalar with its three low bits and its top bit cleared and its
\* second-highest bit set, the coordinate with its top bit ignored.
DecodeScalar(k) ==
  ((k - (k % 8)) % 2^(ScalarBits - 1)) + (IF (k \div 2^(ScalarBits - 2)) % 2 = 1
                                      THEN 0 ELSE 2^(ScalarBits - 2))
DecodeU(u) == (u % 2^(EncBits - 1)) % P

Init ==
  /\ pc = "start"
  /\ kRef = 0 /\ uRef = 0
  /\ e = 0 /\ x1 = 0 /\ x2 = 0 /\ z2 = 0 /\ x3 = 0 /\ z3 = 0
  /\ swap = 0 /\ pos = 0 /\ out = 0

\* Lines before the loop, for every scalar and every encoded point.
Start ==
  /\ pc = "start"
  /\ \E scalar \in Scalars, point \in Encodings :
       LET u == FeFromBytes(point)
       IN /\ kRef' = DecodeScalar(scalar) /\ uRef' = DecodeU(point)
          /\ e' = Clamp(scalar)
          /\ x1' = u
          /\ x2' = 1 /\ z2' = 0     \* fe_1(&x2); fe_0(&z2)
          /\ x3' = u /\ z3' = 1     \* fe_copy(&x3, &x1); fe_1(&z3)
  /\ swap' = 0
  /\ pos' = TopPos
  /\ pc' = "loop"
  /\ UNCHANGED out

\* One iteration of for (pos = 254; pos >= 0; --pos): swap, ladder step.
\* The temporaries of the code that are used more than once (the swap
\* bit, the swapped pairs, tmp0 = (x2 - z2)^2, tmp1 = (x2 + z2)^2 and the
\* two products z3 and z2 of the differential addition) are bound by \E
\* to their single value, so that ENABLED Step, which the fairness of
\* FairSpec needs, is evaluated once per temporary.
Step ==
  /\ pc = "loop"
  /\ pos >= 0
  /\ \E sw \in {swap ^^ LadderBit(e, pos)} :
     \E X \in {FeCswap(x2, x3, sw)}, Z \in {FeCswap(z2, z3, sw)} :
     \E tmp0 \in {FeSq(FeSub(X[1], Z[1]))}, tmp1 \in {FeSq(FeAdd(X[1], Z[1]))} :
     \E z3a \in {FeMul(FeSub(X[2], Z[2]), FeAdd(X[1], Z[1]))},
        z2a \in {FeMul(FeAdd(X[2], Z[2]), FeSub(X[1], Z[1]))} :
       /\ x2' = FeMul(tmp1, tmp0)
       /\ z2' = FeMul(FeSub(tmp1, tmp0), FeAdd(tmp0, FeMul121666(FeSub(tmp1, tmp0))))
       /\ x3' = FeSq(FeAdd(z3a, z2a))
       /\ z3' = FeMul(x1, FeSq(FeSub(z3a, z2a)))
  /\ swap' = LadderBit(e, pos)
  /\ pos' = PosDecr(pos)
  /\ UNCHANGED <<kRef, uRef, pc, e, x1, out>>

\* After the loop: final swap, z2 := z2^-1, x2 := x2 * z2, fe_tobytes.
Finish ==
  /\ pc = "loop"
  /\ pos = -1
  /\ LET X == FeCswap(x2, x3, swap)
         Z == FeCswap(z2, z3, swap)
         zi == FeInvert(Z[1])
     IN /\ x2' = FeMul(X[1], zi) /\ z2' = zi
        /\ x3' = X[2] /\ z3' = Z[2]
        /\ out' = FeToBytes(FeMul(X[1], zi))
  /\ pc' = "done"
  /\ UNCHANGED <<kRef, uRef, e, x1, swap, pos>>

Next == Start \/ Step \/ Finish

Spec == Init /\ [][Next]_vars

\* The function is straight-line code around a counted loop: once called,
\* each iteration and the final step follow without waiting on anything.
\* Whether the function is called at all is up to the caller, so Start
\* gets no fairness.
FairSpec == Spec /\ WF_vars(Step) /\ WF_vars(Finish)

-----------------------------------------------------------------------------

TypeOK ==
  /\ pc \in {"start", "loop", "done"}
  /\ kRef \in Scalars /\ uRef \in F
  /\ e \in Scalars /\ x1 \in F
  /\ {x2, z2, x3, z3, out} \subseteq F
  /\ swap \in {0, 1}
  /\ pos \in -1 .. TopPos

\* The loop invariant stated in the comment of x25519_scalar_mult_generic,
\* for x1 # 0: with r = e >> (pos + 1), (x2 : z2) represents r*P and
\* (x3 : z3) represents (r+1)*P, exchanged when swap = 1; a pair with zero
\* Z has nonzero X.  It ties the pending swap, the bits already consumed
\* and both projective points together.
LadderInvariant ==
  pc = "loop" /\ x1 # 0 =>
    LET r    == e \div 2^(pos + 1)
        cur  == IF swap = 1 THEN <<x3, z3>> ELSE <<x2, z2>>
        nxt  == IF swap = 1 THEN <<x2, z2>> ELSE <<x3, z3>>
    IN /\ XZRepresents(cur[1], cur[2], MulTable[x1, r])
       /\ XZRepresents(nxt[1], nxt[2], MulTable[x1, r + 1])

\* x25519_scalar_mult_generic writes the x-coordinate of k*P, for the
\* scalar k and point P decoded from its arguments, for every argument:
\* points of the curve and of its twist, the low-order points, u = 0 and
\* non-canonical encodings u >= P.
ScalarMultCorrect ==
  pc = "done" =>
    out = XOut(MulTable[uRef, kRef])

\* Under the fairness above, every call that has started returns: the
\* loop counter pos runs down from 254 to -1 and Finish follows.
Termination == pc = "loop" ~> pc = "done"
=============================================================================
