----------------------------- MODULE FieldChains -----------------------------
(***************************************************************************)
(* The addition chains of fe_loose_invert and fe_pow22523.  Every value    *)
(* the chains compute is a power z^k of the input z, and squaring and      *)
(* multiplying act on the exponents as k -> 2k and (k1, k2) -> k1 + k2.   *)
(* The model runs each chain on the exponents modulo M, one squaring of a  *)
(* loop per step, for every modulus M in Moduli, and compares the final    *)
(* exponent with the one the function must compute for the real prime      *)
(* p = 2^255 - 19.  With Moduli = 2 .. 200, lcm(Moduli) exceeds 2^297,     *)
(* and both exponents are below 2^256, so agreement modulo every M means   *)
(* the chain computes exactly the intended exponent.                       *)
(***************************************************************************)
EXTENDS Integers, Sequences

CONSTANT Moduli

ASSUME Moduli \subseteq Nat \ {0, 1}

\* The registers: the input z, the temporaries t0..t3 and the output.
Regs == {"z", "t0", "t1", "t2", "t3", "out"}

\* Instructions: fe_sq (dst := a^2), fe_mul (dst := a*b) and the loops
\* for (i = 1; i < n; ++i) fe_sq_tt(&dst, &dst);
Sq(d, a)      == [op |-> "sq",   dst |-> d, a |-> a, b |-> a, n |-> 0]
Mul(d, a, b)  == [op |-> "mul",  dst |-> d, a |-> a, b |-> b, n |-> 0]
Loop(d, n)    == [op |-> "loop", dst |-> d, a |-> d, b |-> d, n |-> n]

\* Mutant: the chain of fe_loose_invert with the 50-squaring loop run once
\* too few times.
InvertChainShort ==
  << Sq("t0", "z"), Sq("t1", "t0"), Loop("t1", 2), Mul("t1", "z", "t1"),
     Mul("t0", "t0", "t1"), Sq("t2", "t0"), Mul("t1", "t1", "t2"),
     Sq("t2", "t1"), Loop("t2", 5), Mul("t1", "t2", "t1"),
     Sq("t2", "t1"), Loop("t2", 10), Mul("t2", "t2", "t1"),
     Sq("t3", "t2"), Loop("t3", 20), Mul("t2", "t3", "t2"),
     Sq("t2", "t2"), Loop("t2", 10), Mul("t1", "t2", "t1"),
     Sq("t2", "t1"), Loop("t2", 49), Mul("t2", "t2", "t1"),
     Sq("t3", "t2"), Loop("t3", 100), Mul("t2", "t3", "t2"),
     Sq("t2", "t2"), Loop("t2", 50), Mul("t1", "t2", "t1"),
     Sq("t1", "t1"), Loop("t1", 5), Mul("out", "t1", "t0") >>

\* fe_loose_invert, lines 311-365, in the order of the code.
InvertChain ==
  << Sq("t0", "z"), Sq("t1", "t0"), Loop("t1", 2), Mul("t1", "z", "t1"),
     Mul("t0", "t0", "t1"), Sq("t2", "t0"), Mul("t1", "t1", "t2"),
     Sq("t2", "t1"), Loop("t2", 5), Mul("t1", "t2", "t1"),
     Sq("t2", "t1"), Loop("t2", 10), Mul("t2", "t2", "t1"),
     Sq("t3", "t2"), Loop("t3", 20), Mul("t2", "t3", "t2"),
     Sq("t2", "t2"), Loop("t2", 10), Mul("t1", "t2", "t1"),
     Sq("t2", "t1"), Loop("t2", 50), Mul("t2", "t2", "t1"),
     Sq("t3", "t2"), Loop("t3", 100), Mul("t2", "t3", "t2"),
     Sq("t2", "t2"), Loop("t2", 50), Mul("t1", "t2", "t1"),
     Sq("t1", "t1"), Loop("t1", 5), Mul("out", "t1", "t0") >>

\* fe_pow22523, lines 404-454, in the order of the code.
Pow22523Chain ==
  << Sq("t0", "z"), Sq("t1", "t0"), Loop("t1", 2), Mul("t1", "z", "t1"),
     Mul("t0", "t0", "t1"), Sq("t0", "t0"), Mul("t0", "t1", "t0"),
     Sq("t1", "t0"), Loop("t1", 5), Mul("t0", "t1", "t0"),
     Sq("t1", "t0"), Loop("t1", 10), Mul("t1", "t1", "t0"),
     Sq("t2", "t1"), Loop("t2", 20), Mul("t1", "t2", "t1"),
     Sq("t1", "t1"), Loop("t1", 10), Mul("t0", "t1", "t0"),
     Sq("t1", "t0"), Loop("t1", 50), Mul("t1", "t1", "t0"),
     Sq("t2", "t1"), Loop("t2", 100), Mul("t1", "t2", "t1"),
     Sq("t1", "t1"), Loop("t1", 50), Mul("t0", "t1", "t0"),
     Sq("t0", "t0"), Loop("t0", 2), Mul("out", "t0", "z") >>

Chains == [invert |-> InvertChain, pow22523 |-> Pow22523Chain]

\* 2^k mod m.
RECURSIVE Pow2Mod(_, _)
Pow2Mod(k, m) ==
  IF k = 0 THEN 1 % m
  ELSE LET h == Pow2Mod(k \div 2, m)
       IN (h * h * (IF k % 2 = 1 THEN 2 ELSE 1)) % m

\* The exponent each function must compute for p = 2^255 - 19, mod m:
\* p - 2 = 2^255 - 21 and (p - 5) / 8 = 2^252 - 3.
Target(c, m) ==
  IF c = "invert" THEN (Pow2Mod(255, m) - 21) % m
  ELSE (Pow2Mod(252, m) - 3) % m

VARIABLES
  chain,  \* "invert" or "pow22523"
  m,      \* the modulus the exponents are reduced by
  reg,    \* register -> exponent of z mod m
  pc,     \* index of the next instruction; Len + 1 when returned
  i       \* the loop counter of a for (i = 1; i < n; ++i) loop

vars == <<chain, m, reg, pc, i>>

Prog == Chains[chain]
Instr == Prog[pc]

Init ==
  /\ chain \in DOMAIN Chains
  /\ m \in Moduli
  /\ reg = [r \in Regs |-> IF r = "z" THEN 1 % m ELSE 0]
  /\ pc = 1
  /\ i = 1

\* fe_sq_* : dst := a^2, then the next instruction.
Square ==
  /\ pc <= Len(Prog) /\ Instr.op = "sq"
  /\ reg' = [reg EXCEPT ![Instr.dst] = (2 * reg[Instr.a]) % m]
  /\ pc' = pc + 1 /\ i' = 1
  /\ UNCHANGED <<chain, m>>

\* fe_mul_* : dst := a * b, then the next instruction.
Multiply ==
  /\ pc <= Len(Prog) /\ Instr.op = "mul"
  /\ reg' = [reg EXCEPT ![Instr.dst] = (reg[Instr.a] + reg[Instr.b]) % m]
  /\ pc' = pc + 1 /\ i' = 1
  /\ UNCHANGED <<chain, m>>

\* One iteration of for (i = 1; i < n; ++i) fe_sq_tt(&dst, &dst);
LoopIter ==
  /\ pc <= Len(Prog) /\ Instr.op = "loop"
  /\ i < Instr.n
  /\ reg' = [reg EXCEPT ![Instr.dst] = (2 * reg[Instr.dst]) % m]
  /\ i' = i + 1
  /\ UNCHANGED <<chain, m, pc>>

\* The loop test fails: leave the loop.
LoopExit ==
  /\ pc <= Len(Prog) /\ Instr.op = "loop"
  /\ i >= Instr.n
  /\ pc' = pc + 1 /\ i' = 1
  /\ UNCHANGED <<chain, m, reg>>

Next == Square \/ Multiply \/ LoopIter \/ LoopExit

Spec == Init /\ [][Next]_vars

-----------------------------------------------------------------------------

TypeOK ==
  /\ chain \in DOMAIN Chains
  /\ m \in Moduli
  /\ reg \in [Regs -> 0 .. m - 1]
  /\ pc \in 1 .. Len(Prog) + 1
  /\ i \in 1 .. 100

\* When fe_loose_invert returns, out = z^(p-2), and when fe_pow22523
\* returns, out = z^((p-5)/8): the exponent its squarings and
\* multiplications build agrees with the target modulo every modulus.
ChainExponent ==
  pc = Len(Prog) + 1 => reg["out"] = Target(chain, m)
=============================================================================
