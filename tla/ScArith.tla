------------------------------- MODULE ScArith -------------------------------
(***************************************************************************)
(* x25519_sc_reduce and sc_muladd (avb_curve25519.c): arithmetic mod the   *)
(* group order l on 21-bit limbs held in int64_t.  Both are straight-line  *)
(* code: the bytes are loaded into limbs, (sc_muladd) the products are     *)
(* summed, the high limbs are folded into the low ones with the limbs of   *)
(* 2^252 - l, and passes of carries bring the limbs back to 21 bits.  A    *)
(* routine is a program of those steps, one instruction per group of       *)
(* statements of the code, run in two abstract domains at once:            *)
(*  - values modulo a small modulus m: a limb is its residue, and q counts *)
(*    (mod m) the multiples of l the folds have taken away.  A carry moves *)
(*    carry * 2^21 from one limb to the next, which keeps the value        *)
(*    whatever the carry is; the carry itself needs 64-bit integers, so    *)
(*    the model takes the limb's residue as the carry (nonzero in general, *)
(*    so a carry added to the wrong limb changes the value).               *)
(*  - magnitudes: mag[arr][i] bounds |limb| from above, carried through   *)
(*    sums, products and shifts as the worst case over all inputs; peak is *)
(*    the exponent of the largest intermediate value computed so far.      *)
(***************************************************************************)
EXTENDS Integers, Sequences, Bitwise

CONSTANTS
  Moduli,        \* the moduli m the values are followed under
  ReduceInputs,  \* inputs s of x25519_sc_reduce: 64-tuples of bytes
  MuladdInputs   \* inputs of sc_muladd: [a, b, c], 32-tuples of bytes

ASSUME Moduli \subseteq Nat \ {0, 1}

Limbs == 0 .. 23
Arrays == {"s", "a", "b", "c"}
MaxOf(x, y) == IF x > y THEN x ELSE y
MinOf(x, y) == IF x < y THEN x ELSE y
AbsOf(x) == IF x < 0 THEN -x ELSE x

RECURSIVE ModPow(_, _, _)
ModPow(x, n, md) ==
  IF n = 0 THEN 1 % md
  ELSE LET h == ModPow(x, n \div 2, md)
       IN (h * h * (IF n % 2 = 1 THEN x ELSE 1)) % md

\* l = 2^252 + 27742317777372353535851937790883648493 (the comment above
\* x25519_sc_reduce), modulo m, from its decimal digits.
LDigits == <<2, 7, 7, 4, 2, 3, 1, 7, 7, 7, 7, 3, 7, 2, 3, 5, 3, 5, 3, 5,
             8, 5, 1, 9, 3, 7, 7, 9, 0, 8, 8, 3, 6, 4, 8, 4, 9, 3>>
RECURSIVE DecMod(_, _, _)
DecMod(ds, n, md) == IF n = 0 THEN 0 ELSE (DecMod(ds, n - 1, md) * 10 + ds[n]) % md
LMod(md) == (ModPow(2, 252, md) + DecMod(LDigits, Len(LDigits), md)) % md

\* The value of a little-endian byte tuple, modulo m.
RECURSIVE BytesMod(_, _, _)
BytesMod(bs, n, md) ==
  IF n = 0 THEN 0 ELSE (BytesMod(bs, n - 1, md) + bs[n] * ModPow(256, n - 1, md)) % md

\* The loads of x25519_sc_reduce, s_i = 2097151 & (load_w(s + off) >> sh),
\* as <<off, w, sh, masked>>; s23 is not masked.
ReduceLoads ==
  << <<0, 3, 0, TRUE>>,  <<2, 4, 5, TRUE>>,  <<5, 3, 2, TRUE>>,  <<7, 4, 7, TRUE>>,
     <<10, 4, 4, TRUE>>, <<13, 3, 1, TRUE>>, <<15, 4, 6, TRUE>>, <<18, 3, 3, TRUE>>,
     <<21, 3, 0, TRUE>>, <<23, 4, 5, TRUE>>, <<26, 3, 2, TRUE>>, <<28, 4, 7, TRUE>>,
     <<31, 4, 4, TRUE>>, <<34, 3, 1, TRUE>>, <<36, 4, 6, TRUE>>, <<39, 3, 3, TRUE>>,
     <<42, 3, 0, TRUE>>, <<44, 4, 5, TRUE>>, <<47, 3, 2, TRUE>>, <<49, 4, 7, TRUE>>,
     <<52, 4, 4, TRUE>>, <<55, 3, 1, TRUE>>, <<57, 4, 6, TRUE>>, <<60, 4, 3, FALSE>> >>

\* The loads of a, b and c in sc_muladd: limbs 0..10 as above, limb 11
\* (load_4(x + 28) >> 7) not masked.
MuladdLoads == [k \in 1 .. 11 |-> ReduceLoads[k]] \o << <<28, 4, 7, FALSE>> >>

\* load_3 / load_4 at in + off, shifted right by sh (in is 1-indexed).
LoadShift(bs, ld) ==
  LET lo == bs[ld[1] + 1] + 256 * bs[ld[1] + 2] + 65536 * bs[ld[1] + 3]
  IN lo \div 2^ld[3] + (IF ld[2] = 4 THEN bs[ld[1] + 4] * 2^(24 - ld[3]) ELSE 0)
LoadLimb(bs, ld) == IF ld[4] THEN LoadShift(bs, ld) & 2097151 ELSE LoadShift(bs, ld)
\* The largest value a load can give.
LoadBound(ld) == IF ld[4] THEN 2097151 ELSE 2^(8 * ld[2] - ld[3]) - 1

\* Mutant: the last constant mistyped.
FoldConstsTypo == <<666643, 470296, 654183, -997805, 136657, -683902>>

\* The limbs of 2^252 - l: s_(j-12+k) += s_j * FoldConsts[k+1]; s_j = 0.
FoldConsts == <<666643, 470296, 654183, -997805, 136657, -683901>>

Instr(op, arr, i) == [op |-> op, arr |-> arr, i |-> i]
Loads(arr, n) == [k \in 1 .. n |-> Instr("load", arr, k - 1)]
\* The carries of limbs lo, lo + step, .., hi.
Carries(op, lo, hi, step) ==
  [k \in 1 .. (hi - lo) \div step + 1 |-> Instr(op, "s", lo + step * (k - 1))]
Folds(hi, lo) == [k \in 1 .. hi - lo + 1 |-> Instr("fold", "s", hi - k + 1)]
Products == [k \in 1 .. 24 |-> Instr("mul", "s", k - 1)]

\* Mutant: the last pass of carries left out.
ReduceTailNoLastPass ==
  Folds(23, 18) \o Carries("round", 6, 16, 2) \o Carries("round", 7, 15, 2)
  \o Folds(17, 12) \o Carries("round", 0, 10, 2) \o Carries("round", 1, 11, 2)
  \o Folds(12, 12) \o Carries("floor", 0, 11, 1) \o Folds(12, 12)

\* From the fold of s23 to the end, common to both routines.
ReduceTail ==
  Folds(23, 18) \o Carries("round", 6, 16, 2) \o Carries("round", 7, 15, 2)
  \o Folds(17, 12) \o Carries("round", 0, 10, 2) \o Carries("round", 1, 11, 2)
  \o Folds(12, 12) \o Carries("floor", 0, 11, 1) \o Folds(12, 12)
  \o Carries("floor", 0, 10, 1)

\* Mutant: only the odd carries after the products.
MuladdCarriesOddOnly == Carries("round", 1, 21, 2)

\* The carries of sc_muladd between the products and the first fold.
MuladdCarries == Carries("round", 0, 22, 2) \o Carries("round", 1, 21, 2)

Progs ==
  [reduce |-> Loads("s", 24) \o ReduceTail,
   muladd |-> Loads("a", 12) \o Loads("b", 12) \o Loads("c", 12) \o Products
              \o MuladdCarries \o ReduceTail]

\* The instructions before the value of s is complete.
Prefix == [reduce |-> 24, muladd |-> 60]

\* Magnitudes: <<u, e>> stands for the bound |x| <= u * 2^e, with u below
\* 2^MantBits so that a product of two of them fits TLC's integers; a
\* bound is only ever rounded up.
MantBits == 15
RECURSIVE MagNorm(_, _)
MagNorm(u, e) ==
  IF u < 2^MantBits THEN <<u, e>> ELSE MagNorm((u + 1) \div 2, e + 1)
MagOf(u) == MagNorm(u, 0)
Mag0 == <<0, 0>>
MagAdd(x, y) ==
  LET d  == MaxOf(x[2], y[2])
      \* z in units of 2^d, rounded up
      Up(z) == IF z[1] = 0 \/ z[2] = d THEN z[1]
               ELSE IF d - z[2] >= MantBits THEN 1
               ELSE (z[1] + 2^(d - z[2]) - 1) \div 2^(d - z[2])
  IN MagNorm(Up(x) + Up(y), d)
MagMul(x, y) == MagNorm(x[1] * y[1], x[2] + y[2])
\* Mutant: a logical shift; a negative int64 limb shifts to up to 2^43.
MagShr21Logical(x) == IF x[1] = 0 THEN Mag0 ELSE <<1, 43>>
MagShr21(x) ==
  IF x[2] >= 21 THEN <<x[1], x[2] - 21>>
  ELSE MagOf((x[1] + 2^(21 - x[2]) - 1) \div 2^(21 - x[2]))
\* The least k with u * 2^e <= 2^k.
RECURSIVE CeilLog2(_)
CeilLog2(u) == IF u <= 1 THEN 0 ELSE CeilLog2((u + 1) \div 2) + 1
MagLog(x) == x[2] + CeilLog2(x[1])
\* u * 2^e <= 2^k.
MagAtMost(x, k) ==
  IF x[1] = 0 THEN TRUE
  ELSE IF x[2] > k THEN FALSE
  ELSE k - x[2] >= MantBits \/ x[1] <= 2^(k - x[2])
MaxSet(S) == CHOOSE x \in S : \A y \in S : y <= x

VARIABLES
  routine,  \* "reduce" or "muladd"
  m,        \* the modulus the values are followed under
  in,       \* the input bytes
  pc,       \* the next instruction
  L,        \* L[arr][i]: limb i of s, a, b or c, modulo m
  q,        \* multiples of l taken away by the folds, modulo m
  mag,      \* mag[arr][i]: a magnitude bound of limb i
  peak      \* |x| <= 2^peak for every intermediate value x so far

vars == <<routine, m, in, pc, L, q, mag, peak>>

Zero == [arr \in Arrays |-> [i \in Limbs |-> 0]]
MagZero == [arr \in Arrays |-> [i \in Limbs |-> Mag0]]
Ins == Progs[routine][pc]
Running == pc <= Len(Progs[routine])

Init ==
  /\ \/ routine = "reduce" /\ in \in ReduceInputs
     \/ routine = "muladd" /\ in \in MuladdInputs
  /\ m \in Moduli
  /\ pc = 1 /\ L = Zero /\ q = 0 /\ mag = MagZero /\ peak = 0

\* One line int64_t x_i = 2097151 & (load_w(x + off) >> sh).
LoadStep ==
  /\ Running /\ Ins.op = "load"
  /\ LET i   == Ins.i
         ld  == IF routine = "reduce" THEN ReduceLoads[i + 1] ELSE MuladdLoads[i + 1]
         src == IF routine = "reduce" THEN in ELSE in[Ins.arr]
     IN /\ L' = [L EXCEPT ![Ins.arr][i] = LoadLimb(src, ld) % m]
        /\ mag' = [mag EXCEPT ![Ins.arr][i] = MagOf(LoadBound(ld))]
        /\ peak' = MaxOf(peak, MagLog(MagOf(LoadBound(ld))))
  /\ pc' = pc + 1
  /\ UNCHANGED <<routine, m, in, q>>

\* s_k = c_k + a_0 * b_k + a_1 * b_(k-1) + ..; s23 = 0.
MulStep ==
  /\ Running /\ Ins.op = "mul"
  /\ LET k  == Ins.i
         lo == MaxOf(0, k - 11)
         n  == MinOf(k, 11) - lo + 1
         RECURSIVE Prods(_), ProdMag(_)
         Prods(j) == IF j = 0 THEN 0
                     ELSE Prods(j - 1) + L["a"][lo + j - 1] * L["b"][k - lo - j + 1]
         ProdMag(j) ==
           IF j = 0 THEN (IF k <= 11 THEN mag["c"][k] ELSE Mag0)
           ELSE MagAdd(ProdMag(j - 1),
                       MagMul(mag["a"][lo + j - 1], mag["b"][k - lo - j + 1]))
         v  == (IF k <= 11 THEN L["c"][k] ELSE 0) + Prods(n)
     IN /\ L' = [L EXCEPT !["s"][k] = v % m]
        /\ mag' = [mag EXCEPT !["s"][k] = ProdMag(n)]
        /\ peak' = MaxOf(peak, MagLog(ProdMag(n)))
  /\ pc' = pc + 1
  /\ UNCHANGED <<routine, m, in, q>>

\* s_(j-12) += s_j * 666643; ..; s_(j-7) -= s_j * 683901; s_j = 0.
FoldStep ==
  /\ Running /\ Ins.op = "fold"
  /\ LET j   == Ins.i
         sv  == L["s"]
         Hit == j - 12 .. j - 7
         nb  == [t \in Hit |->
                  MagAdd(mag["s"][t], MagMul(mag["s"][j], MagOf(AbsOf(FoldConsts[t - j + 13]))))]
     IN /\ L' = [L EXCEPT !["s"] =
                   [t \in Limbs |-> IF t = j THEN 0
                                    ELSE IF t \in Hit
                                         THEN (sv[t] + sv[j] * FoldConsts[t - j + 13]) % m
                                         ELSE sv[t]]]
        /\ q' = (q + sv[j] * ModPow(2, 21 * (j - 12), m)) % m
        /\ mag' = [mag EXCEPT !["s"] =
                     [t \in Limbs |-> IF t = j THEN Mag0
                                      ELSE IF t \in Hit THEN nb[t] ELSE @[t]]]
        /\ peak' = MaxOf(peak, MaxSet({MagLog(nb[t]) : t \in Hit}))
  /\ pc' = pc + 1
  /\ UNCHANGED <<routine, m, in>>

\* After s_i -= carry << 21 the limb is in [-2^20, 2^20) (rounding carry)
\* or [0, 2^21) (floor carry).
CarryResidue(x) == MagOf(2^21)

\* Rounding carry: carry_i = (s_i + (1 << 20)) >> 21; floor carry:
\* carry_i = s_i >> 21; then s_(i+1) += carry_i; s_i -= carry_i << 21.
\* The shifts are arithmetic shifts of int64_t: |x >> 21| <= ceil(|x| / 2^21).
CarryStep ==
  /\ Running /\ Ins.op \in {"round", "floor"}
  /\ LET i  == Ins.i
         x  == mag["s"][i]
         f  == IF Ins.op = "round" THEN MagAdd(x, MagOf(2^20)) ELSE x
         cb == MagShr21(f)
         cv == L["s"][i]
         nx == MagAdd(mag["s"][i + 1], cb)
     IN /\ L' = [L EXCEPT !["s"][i + 1] = (@ + cv) % m,
                          !["s"][i] = (@ - cv * ModPow(2, 21, m)) % m]
        /\ mag' = [mag EXCEPT !["s"][i + 1] = nx, !["s"][i] = CarryResidue(x)]
        /\ peak' = MaxOf(peak, MaxSet({MagLog(f), MagLog(cb) + 21, MagLog(nx)}))
  /\ pc' = pc + 1
  /\ UNCHANGED <<routine, m, in, q>>

Next == LoadStep \/ MulStep \/ FoldStep \/ CarryStep

Spec == Init /\ [][Next]_vars

-----------------------------------------------------------------------------
\* The value of the 24 limbs of s, sum s_i * 2^(21 i), modulo m.
SValue == LET RECURSIVE V(_)
              V(k) == IF k < 0 THEN 0
                      ELSE (V(k - 1) + L["s"][k] * ModPow(2, 21 * k, m)) % m
          IN V(23)

\* What the routine computes, modulo m: s mod l (x25519_sc_reduce), or
\* a * b + c mod l (sc_muladd).
Target ==
  IF routine = "reduce" THEN BytesMod(in, 64, m)
  ELSE (BytesMod(in.a, 32, m) * BytesMod(in.b, 32, m) + BytesMod(in.c, 32, m)) % m

Done == pc > Len(Progs[routine])

\* s[0..31] = s0 >> 0, s0 >> 8, (s0 >> 16) | (s1 << 5), ..: output byte k
\* is (s_lo >> r) | (s_hi << sl) cast to a byte, as <<lo, r, hi, sl>>
\* (hi = -1: no second limb).  Only the low 8 - sl bits of s_hi reach the
\* byte.
PackTableTypo ==
  << <<0,0,-1,0>>, <<0,8,-1,0>>, <<0,16,1,5>>, <<1,3,-1,0>>, <<1,11,-1,0>>,
     <<1,19,2,2>>, <<2,6,-1,0>>, <<2,14,3,7>>, <<3,1,-1,0>>, <<3,9,-1,0>>,
     <<3,17,4,4>>, <<4,4,-1,0>>, <<4,12,-1,0>>, <<4,20,5,1>>, <<5,7,-1,0>>,
     <<5,15,6,6>>, <<6,2,-1,0>>, <<6,10,-1,0>>, <<6,18,7,3>>, <<7,5,-1,0>>,
     <<7,13,-1,0>>, <<8,0,-1,0>>, <<8,8,-1,0>>, <<8,16,9,5>>, <<9,3,-1,0>>,
     <<9,11,-1,0>>, <<9,19,10,2>>, <<10,6,-1,0>>, <<10,14,11,6>>, <<11,1,-1,0>>,
     <<11,9,-1,0>>, <<11,17,-1,0>> >>

PackTable ==
  << <<0,0,-1,0>>, <<0,8,-1,0>>, <<0,16,1,5>>, <<1,3,-1,0>>, <<1,11,-1,0>>,
     <<1,19,2,2>>, <<2,6,-1,0>>, <<2,14,3,7>>, <<3,1,-1,0>>, <<3,9,-1,0>>,
     <<3,17,4,4>>, <<4,4,-1,0>>, <<4,12,-1,0>>, <<4,20,5,1>>, <<5,7,-1,0>>,
     <<5,15,6,6>>, <<6,2,-1,0>>, <<6,10,-1,0>>, <<6,18,7,3>>, <<7,5,-1,0>>,
     <<7,13,-1,0>>, <<8,0,-1,0>>, <<8,8,-1,0>>, <<8,16,9,5>>, <<9,3,-1,0>>,
     <<9,11,-1,0>>, <<9,19,10,2>>, <<10,6,-1,0>>, <<10,14,11,7>>, <<11,1,-1,0>>,
     <<11,9,-1,0>>, <<11,17,-1,0>> >>

Pack(s) ==
  [k \in 1 .. 32 |->
     LET e == PackTable[k]
     IN ((s[e[1]] \div 2^e[2]) % 256)
        | (IF e[3] >= 0 THEN (s[e[3]] % 2^(8 - e[4])) * 2^e[4] ELSE 0)]

-----------------------------------------------------------------------------
\* Every int64_t intermediate of the routine (a limb, a product, a sum, a
\* carry shifted back by 21) stays below 2^63 - 1 in magnitude: the carry
\* passes at lines 1021-1054 and after keep the folds of the next limbs
\* from overflowing, and no signed overflow happens.
NoOverflow == peak < 63

\* Once the loads (x25519_sc_reduce) or the products (sc_muladd) are done,
\* every fold and carry keeps s + q * l equal to the input s, or to
\* a * b + c, modulo m; and at the end the limbs 12..23 are zero, so the
\* value is in s0..s11.
ValueKept ==
  /\ pc > Prefix[routine] => (SValue + q * LMod(m)) % m = Target
  /\ Done => \A t \in 12 .. 23 : L["s"][t] = 0

\* At the end, s0..s10 are below 2^21 and s11 below 2^22 in magnitude, so
\* packing the 12 limbs into 32 bytes drops no bit of the value.
LimbsFitOutput ==
  Done => /\ \A t \in 0 .. 10 : MagAtMost(mag["s"][t], 21)
          /\ MagAtMost(mag["s"][11], 22)

\* Packing puts bit t of limb i (bit 21 i + t of the scalar) at bit
\* (21 i + t) % 8 of byte (21 i + t) \div 8, and nowhere else, for every
\* bit of the 21-bit limbs and the top bits of s11.
PackCorrect ==
  \A i \in 0 .. 11 : \A t \in 0 .. (IF i = 11 THEN 24 ELSE 20) :
    LET p == 21 * i + t
    IN Pack([u \in 0 .. 11 |-> IF u = i THEN 2^t ELSE 0])
       = [k \in 1 .. 32 |-> IF k - 1 = p \div 8 THEN 2^(p % 8) ELSE 0]
====
