---------------------------- MODULE ScalarMultBase ----------------------------
(***************************************************************************)
(* x25519_ge_scalarmult_small_precomp / x25519_ge_scalarmult_base          *)
(* (avb_curve25519.c): h = a * B.  The scalar is cut into four chunks of   *)
(* ChunkBytes bytes (8 in the code); iteration i of the main loop forms a  *)
(* 4-bit index from bit i of each chunk, selects multiples[index - 1] =    *)
(* the sum of 2^(ChunkBits * j) * B over the bits j of index by            *)
(* constant-time cmov, and computes h = 2h + selected.  The loop counter   *)
(* is unsigned: for (i = 63; i < 64; i--) ends when i-- wraps around.     *)
(***************************************************************************)
EXTENDS Integers, EdwardsGroup

CONSTANTS
  ChunkBytes,  \* bytes per chunk (8 in the code; the scalar has 4 chunks)
  UintBits,    \* width of unsigned (32 in the code)
  BasePoint,   \* the base point B
  BaseOrder,   \* the order of B (l in the code)
  ScalarSet    \* the scalars a the call is made with, as byte arrays

ChunkBits == 8 * ChunkBytes
ScalarBytes == 4 * ChunkBytes
ByteArrays == [0 .. ScalarBytes - 1 -> 0 .. 255]

ASSUME ChunkBytes \in Nat \ {0} /\ UintBits > ChunkBits
ASSUME BasePoint \in Points /\ ScalarSet \subseteq ByteArrays
ASSUME EdMul(BasePoint, BaseOrder) = Identity

\* Multiples of B are taken modulo the order of B, so that no integer
\* exceeds TLC's range: Weight(j) = 2^(ChunkBits * j) mod l.
Weight(j) == (2^(ChunkBits * j)) % BaseOrder

\* The 15 entries of k25519SmallPrecomp (curve25519_tables.h) as affine
\* points: entry index - 1 is the sum of 2^(ChunkBits * j) * B over the
\* bits j of index.
RECURSIVE PrecompSum(_, _)
PrecompSum(n, j) ==
  IF j < 0 THEN Identity
  ELSE IF (n \div 2^j) % 2 = 1
       THEN EdAdd(PrecompSum(n, j - 1), EdMul(BasePoint, Weight(j)))
       ELSE PrecompSum(n, j - 1)

SmallPrecomp == [n \in 1 .. 15 |-> PrecompSum(n, 3)]

\* The first loop: multiples[i] from the bytes of x and y of entry i, which
\* holds (i + 1)*B.
ExpandPrecomp(pt) ==
  [yplusx |-> FeAdd(pt[2], pt[1]), yminusx |-> FeSub(pt[2], pt[1]),
   xy2d |-> FeMul(FeMul(pt[1], pt[2]), EdD2)]

Multiples == [n \in 0 .. 14 |-> ExpandPrecomp(SmallPrecomp[n + 1])]

ByteAt(s, k) == s[k]

\* Mutant: the chunks taken as bytes j*ChunkBytes + i % 8 (i & 7 for i / 8).
WindowIndexMixed(s, n) ==
  LET bit(j) == 1 & shiftR(ByteAt(s, ChunkBytes * j + (n & 7)), n & 7)
  IN bit(0) + 2 * bit(1) + 4 * bit(2) + 8 * bit(3)

\* for (j = 0; j < 4; j++) {
\*   bit = 1 & (a[(8 * j) + (i / 8)] >> (i & 7)); index |= (bit << j); }
WindowIndex(s, n) ==
  LET bit(j) == 1 & shiftR(ByteAt(s, ChunkBytes * j + n \div 8), n & 7)
  IN bit(0) + 2 * bit(1) + 4 * bit(2) + 8 * bit(3)

\* constant_time_eq_w (crypto/internal.h): all ones when equal, else 0.
ConstantTimeEqW(x, y) == IF x = y THEN 2^LimbBits - 1 ELSE 0

VARIABLES
  a,      \* the scalar: a[k] is byte k (little-endian)
  pc,     \* "start", "loop", "select" or "done"
  i,      \* the unsigned loop counter
  h,      \* the result ge_p3
  index,  \* the 4-bit index of iteration i
  e,      \* the ge_precomp selected so far
  j       \* the counter of the selection loop

vars == <<a, pc, i, h, index, e, j>>

Init ==
  /\ pc = "start" /\ a = [k \in 0 .. ScalarBytes - 1 |-> 0] /\ i = 0
  /\ h = GeP3Zero /\ index = 0 /\ e = GePrecompZero /\ j = 0

\* The expansion of the table (a function of the constants here), then
\* ge_p3_0(h) and i = 63.
Start ==
  /\ pc = "start"
  /\ \E s \in ScalarSet : a' = s
  /\ h' = GeP3Zero /\ i' = ChunkBits - 1 /\ pc' = "loop"
  /\ UNCHANGED <<index, e, j>>

\* Mutant: i-- without the wrap of an unsigned counter (as for a signed i
\* with the test i >= 0 written as i < 64).
DecrSigned(n) == n - 1

\* i-- on an unsigned: 0 - 1 wraps to UINT_MAX.
Decr(n) == (n - 1) % 2^UintBits

\* Top of an iteration: the index from bit i of the four chunks, then
\* ge_precomp_0(&e) and j = 1.
Iterate ==
  /\ pc = "loop" /\ i < ChunkBits
  /\ index' = WindowIndex(a, i)
  /\ e' = GePrecompZero /\ j' = 1 /\ pc' = "select"
  /\ UNCHANGED <<a, i, h>>

\* for (j = 1; j < 16; j++)
\*   cmov(&e, &multiples[j - 1], 1 & constant_time_eq_w(index, j));
SelectStep ==
  /\ pc = "select" /\ j < 16
  /\ e' = CmovPrecomp(e, Multiples[j - 1], 1 & ConstantTimeEqW(index, j))
  /\ j' = j + 1
  /\ UNCHANGED <<a, pc, i, h, index>>

\* The rest of the iteration: h = h + h by ge_add, h = h + e by ge_madd,
\* i--.
Accumulate ==
  /\ pc = "select" /\ j >= 16
  /\ LET h2 == GeP1P1ToP3(GeAdd(h, GeP3ToCached(h)))
     IN h' = GeP1P1ToP3(GeMadd(h2, e))
  /\ i' = Decr(i) /\ pc' = "loop"
  /\ UNCHANGED <<a, index, e, j>>

\* The loop test i < 64 fails.
Exit ==
  /\ pc = "loop" /\ ~(i < ChunkBits)
  /\ pc' = "done"
  /\ UNCHANGED <<a, i, h, index, e, j>>

Next == Start \/ Iterate \/ SelectStep \/ Accumulate \/ Exit

Spec == Init /\ [][Next]_vars

-----------------------------------------------------------------------------

Chunk(s, c) ==
  LET RECURSIVE Val(_)
      Val(k) == IF k < 0 THEN 0 ELSE Val(k - 1) + s[ChunkBytes * c + k] * 2^(8 * k)
  IN Val(ChunkBytes - 1)
ValueOf(s) ==
  (Chunk(s, 0) * Weight(0) + Chunk(s, 1) * Weight(1)
   + Chunk(s, 2) * Weight(2) + Chunk(s, 3) * Weight(3)) % BaseOrder

\* The bits above position m of every chunk, modulo l: the
\* part of a consumed by the iterations before the one at i = m.
Consumed(s, m) ==
  (  (Chunk(s, 0) \div 2^(m + 1)) * Weight(0)
   + (Chunk(s, 1) \div 2^(m + 1)) * Weight(1)
   + (Chunk(s, 2) \div 2^(m + 1)) * Weight(2)
   + (Chunk(s, 3) \div 2^(m + 1)) * Weight(3)) % BaseOrder

\* k*B for k < l, computed once.
MulB == [k \in 0 .. BaseOrder - 1 |-> EdMul(BasePoint, k)]

\* The loop runs exactly ChunkBits times, from i = ChunkBits - 1 down to
\* 0, and leaves through the wrap of i; before the iteration at i, h
\* holds (the bits of every chunk above i) * B as a ge_p3 with consistent
\* T; when the loop ends h holds a * B.
SmallPrecompCorrect ==
  /\ pc \in {"loop", "select"} =>
       /\ i \in (0 .. ChunkBits - 1) \cup {2^UintBits - 1}
       /\ P3Rep(h, MulB[IF i < ChunkBits THEN Consumed(a, i) ELSE ValueOf(a)])
  /\ pc = "done" => P3Rep(h, MulB[ValueOf(a)])
=============================================================================
