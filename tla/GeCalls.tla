------------------------------- MODULE GeCalls -------------------------------
(***************************************************************************)
(* One behaviour is one call of a ge_* operation of avb_curve25519.c on    *)
(* any input point(s) of the curve, in the coordinate system the operation *)
(* takes: a ge_p3 with a Z other than 1, a ge_cached made from one, or a   *)
(* ge_precomp.  The ghost variables a and b are the affine points the     *)
(* inputs represent; res is what the operation returns.                   *)
(***************************************************************************)
EXTENDS Integers, EdwardsGroup

VARIABLES
  op,   \* the operation called, or "none" before the call
  a,    \* ghost: the affine point the first argument represents
  b,    \* ghost: the affine point the second argument represents
  s,    \* the encoding passed to x25519_ge_frombytes_vartime
  res   \* the result

vars == <<op, a, b, s, res>>

Ops == {"none", "p3_dbl", "madd", "msub", "add", "sub", "p1p1_to_p3",
        "tobytes", "frombytes"}

Init ==
  /\ op = "none" /\ a = Identity /\ b = Identity /\ s = 0
  /\ res = GeP3Zero

CallP3Dbl ==
  /\ op = "none"
  /\ \E p \in Points :
       /\ a' = p
       /\ res' = GeP3Dbl(P3Of(p))
  /\ op' = "p3_dbl"
  /\ UNCHANGED <<b, s>>

\* ge_p1p1_to_p3 applied to the completed point ge_madd returns.
CallP1P1ToP3 ==
  /\ op = "none"
  /\ \E p, q \in Points :
       /\ a' = p /\ b' = q
       /\ res' = GeP1P1ToP3(GeMadd(P3Of(p), PrecompOf(q)))
  /\ op' = "p1p1_to_p3"
  /\ UNCHANGED s

CallMixed ==
  /\ op = "none"
  /\ \E p, q \in Points, o \in {"madd", "msub"} :
       /\ a' = p /\ b' = q /\ op' = o
       /\ res' = IF o = "madd" THEN GeMadd(P3Of(p), PrecompOf(q))
                               ELSE GeMsub(P3Of(p), PrecompOf(q))
  /\ UNCHANGED s

\* The cached argument is made by x25519_ge_p3_to_cached from a ge_p3.
CallAddSub ==
  /\ op = "none"
  /\ \E p, q \in Points, o \in {"add", "sub"} :
       /\ a' = p /\ b' = q /\ op' = o
       /\ res' = IF o = "add" THEN GeAdd(P3Of(p), GeP3ToCached(P3Of(q)))
                              ELSE GeSub(P3Of(p), GeP3ToCached(P3Of(q)))
  /\ UNCHANGED s

CallToBytes ==
  /\ op = "none"
  /\ \E p \in Points :
       /\ a' = p
       /\ res' = [enc |-> GeToBytes(P3Of(p))]
  /\ op' = "tobytes"
  /\ UNCHANGED <<b, s>>

CallFromBytes ==
  /\ op = "none"
  /\ \E enc \in Encodings :
       /\ s' = enc
       /\ res' = GeFromBytes(enc)
  /\ op' = "frombytes"
  /\ UNCHANGED <<a, b>>

Next ==
  \/ CallP3Dbl \/ CallP1P1ToP3 \/ CallMixed \/ CallAddSub
  \/ CallToBytes \/ CallFromBytes

Spec == Init /\ [][Next]_vars

-----------------------------------------------------------------------------

TypeOK ==
  /\ op \in Ops
  /\ a \in Points /\ b \in Points
  /\ s \in Encodings

\* Every group formula of the code returns a representation of the point
\* the affine law gives: doubling (ge_p2_dbl through ge_p3_dbl), mixed and
\* cached addition and subtraction, for every pair of points including
\* equal, opposite, identity and low-order ones, and ge_p1p1_to_p3 keeps
\* the extended coordinate T consistent (X*Y = Z*T) for the next addition.
GroupLawAgrees ==
  /\ op = "p3_dbl"     => P1P1Rep(res, EdAdd(a, a))
  /\ op \in {"madd", "add"} => P1P1Rep(res, EdAdd(a, b))
  /\ op \in {"msub", "sub"} => P1P1Rep(res, EdAdd(a, EdNeg(b)))
  /\ op = "p1p1_to_p3" => P3Rep(res, EdAdd(a, b))

\* x25519_ge_frombytes_vartime accepts exactly the encodings that denote a
\* point, and then returns that point as a ge_p3 (with T = X*Y/Z); the
\* encoding x25519_ge_tobytes writes decodes back to the same point.
EncodingRoundTrip ==
  /\ op = "frombytes" =>
       IF DecodeRef(s) = {} THEN res.ok = 0
       ELSE res.ok = 1 /\ \E pt \in DecodeRef(s) : P3Rep(res, pt)
  /\ op = "tobytes" =>
       res.enc = EncodeRef(a) /\ DecodeRef(res.enc) = {a}
=============================================================================
