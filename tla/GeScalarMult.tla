----------------------------- MODULE GeScalarMult -----------------------------
(***************************************************************************)
(* x25519_ge_scalarmult (avb_curve25519.c): r = scalar * A with a 4-bit    *)
(* fixed window.  The first loop builds the table Ai[j] = j*A (ge_cached)  *)
(* and the half table Ai_p2[j] = j*A (ge_p2) it doubles from; the second   *)
(* loop, one window of four bits per iteration from the top, doubles r     *)
(* four times and adds the table entry selected by constant-time cmov.    *)
(* One call is one behaviour; TableStep and WindowStep are one iteration   *)
(* of each loop.  The scalar has ScalarBytes bytes (32 in the code).       *)
(***************************************************************************)
EXTENDS Integers, FiniteSets, EdwardsGroup

CONSTANTS
  ScalarBytes,  \* bytes of the scalar (32 in the code)
  InputPoints,  \* the points A the call is made with
  ScalarSet     \* the scalars the call is made with

ScalarBits == 8 * ScalarBytes
Scalars == 0 .. 2^ScalarBits - 1

ASSUME ScalarBytes \in Nat \ {0} /\ InputPoints \subseteq Points
ASSUME ScalarSet \subseteq Scalars

\* An entry of Ai_p2 that has not been written: its content is whatever
\* the stack held.
NoP2 == [X |-> -1, Y |-> -1, Z |-> -1]

VARIABLES
  A,       \* ghost: the affine point the argument A represents
  scalar,  \* the scalar, as an integer (little-endian bytes)
  pc,      \* "start", "table", "loop" or "done"
  Ai,      \* ge_cached Ai[16]
  AiP2,    \* ge_p2 Ai_p2[8]
  i,       \* the loop counter of the current loop
  r,       \* the result ge_p2
  fault    \* "none", or the memory error the code made

vars == <<A, scalar, pc, Ai, AiP2, i, r, fault>>

\* Mutant: the guard of the write of Ai_p2[i] as i <= 8.
TableGuardLowLe(n) == n <= 8
\* if (i < 8): the guard of the write of Ai_p2[i].
TableGuardLow(n) == n < 8
\* if (i < 7): the guard of the write of Ai_p2[i + 1].
TableGuardHigh(n) == n < 7

\* A write of Ai_p2[k]: outside 0..7 it corrupts the stack.
WriteP2(arr, k, v) == IF k \in 0 .. 7 THEN [arr EXCEPT ![k] = v] ELSE arr
WriteFault(k) == IF k \in 0 .. 7 THEN "none" ELSE "oob"

\* Mutant: the window taken from byte i/8 instead of byte 31 - i/8.
WindowIndexLowByte(s, n) ==
  LET byte == (s \div 2^(8 * (n \div 8))) % 256
  IN shiftR(byte, 4 - (n & 4)) & 15

\* index = scalar[31 - i / 8]; index >>= 4 - (i & 4); index &= 0xf;
WindowIndex(s, n) ==
  LET byte == (s \div 2^(8 * (ScalarBytes - 1 - n \div 8))) % 256
  IN shiftR(byte, 4 - (n & 4)) & 15

\* selected = ge_cached_0; for (j = 0; j < 16; j++)
\*   cmov_cached(&selected, &Ai[j], 1 & constant_time_eq_w(index, j));
\* constant_time_eq_w (crypto/internal.h) is all ones when equal, else 0.
SelectCached(table, index) ==
  LET RECURSIVE Sel(_)
      Sel(j) == IF j < 0 THEN GeCachedZero
                ELSE CmovCached(Sel(j - 1), table[j],
                                1 & (IF index = j THEN 2^LimbBits - 1 ELSE 0))
  IN Sel(15)

Init ==
  /\ pc = "start" /\ A = Identity /\ scalar = 0
  /\ Ai = [j \in 0 .. 15 |-> GeCachedZero]
  /\ AiP2 = [j \in 0 .. 7 |-> NoP2]
  /\ i = 0 /\ r = GeP2Zero /\ fault = "none"

\* ge_cached_0(&Ai[0]); Ai[1] = A; Ai_p2[1] = A; i = 2.
Start ==
  /\ pc = "start"
  /\ \E pt \in InputPoints, s \in ScalarSet :
       /\ A' = pt /\ scalar' = s
       /\ Ai' = [Ai EXCEPT ![0] = GeCachedZero, ![1] = GeP3ToCached(P3Of(pt))]
       /\ AiP2' = [AiP2 EXCEPT ![1] = GeP3ToP2(P3Of(pt))]
  /\ i' = 2 /\ pc' = "table"
  /\ UNCHANGED <<r, fault>>

\* One iteration of for (i = 2; i < 16; i += 2).
TableStep ==
  /\ pc = "table" /\ i < 16
  /\ LET src == AiP2[i \div 2]
         t1  == GeP2Dbl(src)
         c1  == GeP1P1ToCached(t1)
         t2  == GeAdd(P3Of(A), c1)
         w1  == IF TableGuardLow(i) THEN WriteP2(AiP2, i, GeP1P1ToP2(t1))
                ELSE AiP2
         w2  == IF TableGuardHigh(i) THEN WriteP2(w1, i + 1, GeP1P1ToP2(t2))
                ELSE w1
         f   == CASE src = NoP2                               -> "uninit"
                  [] TableGuardLow(i) /\ WriteFault(i) # "none" -> "oob"
                  [] TableGuardHigh(i) /\ WriteFault(i + 1) # "none" -> "oob"
                  [] OTHER -> fault
     IN /\ Ai' = [Ai EXCEPT ![i] = c1, ![i + 1] = GeP1P1ToCached(t2)]
        /\ AiP2' = w2
        /\ fault' = f
  /\ i' = i + 2
  /\ UNCHANGED <<A, scalar, pc, r>>

\* ge_p2_0(r); i = 0: leave the table loop.
TableDone ==
  /\ pc = "table" /\ i >= 16
  /\ r' = GeP2Zero /\ i' = 0 /\ pc' = "loop"
  /\ UNCHANGED <<A, scalar, Ai, AiP2, fault>>

\* One iteration of for (i = 0; i < 256; i += 4): four doublings, the
\* selection of Ai[index], one addition.
WindowStep ==
  /\ pc = "loop" /\ i < ScalarBits
  /\ LET d1 == GeP1P1ToP2(GeP2Dbl(r))
         d2 == GeP1P1ToP2(GeP2Dbl(d1))
         d3 == GeP1P1ToP2(GeP2Dbl(d2))
         u  == GeP1P1ToP3(GeP2Dbl(d3))
         selected == SelectCached(Ai, WindowIndex(scalar, i))
     IN r' = GeP1P1ToP2(GeAdd(u, selected))
  /\ i' = i + 4
  /\ UNCHANGED <<A, scalar, pc, Ai, AiP2, fault>>

WindowDone ==
  /\ pc = "loop" /\ i >= ScalarBits
  /\ pc' = "done"
  /\ UNCHANGED <<A, scalar, Ai, AiP2, i, r, fault>>

Next == Start \/ TableStep \/ TableDone \/ WindowStep \/ WindowDone

Spec == Init /\ [][Next]_vars

-----------------------------------------------------------------------------

\* k*A, with k reduced by the group order.
GroupOrder == Cardinality(Points)
MulA == [pt \in InputPoints, k \in 0 .. GroupOrder - 1 |-> EdMul(pt, k)]
KA(k) == MulA[A, k % GroupOrder]

\* Building the table never writes outside Ai_p2[0..7] and never doubles
\* an entry of Ai_p2 that was not written before (the guards i < 8 and
\* i < 7 must be exactly right for both), and every entry written so far
\* holds the right multiple: Ai[j] = j*A and Ai_p2[j] = j*A.
TableSafe ==
  /\ fault = "none"
  /\ pc \in {"table", "loop", "done"} =>
       LET built == IF pc = "table" THEN 0 .. i - 1 ELSE 0 .. 15
       IN /\ \A j \in built : CachedRep(Ai[j], KA(j))
          /\ \A j \in 1 .. 7 : j \in built => P2Rep(AiP2[j], KA(j))

\* Before each window r holds (scalar >> (ScalarBits - i)) * A, the
\* multiple of A by the windows already consumed, and at the end r holds
\* scalar * A.
WindowInvariant ==
  pc \in {"loop", "done"} =>
    P2Rep(r, KA(scalar \div 2^(ScalarBits - i)))
=============================================================================
