------------------------------- MODULE MerkleRef -------------------------------
(***************************************************************************)
(* The Merkle tree of RFC 6962 section 2.1, the yardstick for the AFTL     *)
(* inclusion-proof verifier.  SHA-256 is a collision-free constructor: a   *)
(* digest is the byte sequence it was computed from, tagged.  Byte strings *)
(* are sequences of tokens (a prefix byte, a digest, a model value), so    *)
(* 0x00 || d and 0x01 || l || r are sequences too, and two hashes are      *)
(* equal exactly when their inputs are.                                     *)
(***************************************************************************)
EXTENDS Integers, Sequences

\* SHA-256 over a byte string, as an injective function.
Sha256(bytes) == <<"sha256", bytes>>

\* The leaf hash HASH(0x00 || d) of RFC 6962.
RfcLeafHash(d) == Sha256(<<0>> \o d)

\* The interior node hash HASH(0x01 || l || r) of RFC 6962.
RfcNodeHash(l, rt) == Sha256(<<1, l, rt>>)

\* D[lo:hi], the leaves lo .. hi-1 counted from 0.
Slice(D, lo, hi) == [n \in 1 .. hi - lo |-> D[lo + n]]

\* The largest power of two k with k < n, for n > 1.
RECURSIVE SplitFrom(_, _)
SplitFrom(n, k) == IF 2 * k < n THEN SplitFrom(n, 2 * k) ELSE k
Split(n) == SplitFrom(n, 1)

\* MTH(D[n]), the Merkle Tree Hash of a list of leaves.
RECURSIVE MTH(_)
MTH(D) ==
  IF Len(D) = 0 THEN Sha256(<<>>)
  ELSE IF Len(D) = 1 THEN RfcLeafHash(D[1])
  ELSE LET n == Len(D)
           k == Split(n)
       IN  RfcNodeHash(MTH(Slice(D, 0, k)), MTH(Slice(D, k, n)))

\* PATH(m, D[n]), the audit path of leaf m (from 0), leaf side first.
RECURSIVE PATH(_, _)
PATH(m, D) ==
  IF Len(D) <= 1 THEN <<>>
  ELSE LET n == Len(D)
           k == Split(n)
       IN  IF m < k
           THEN Append(PATH(m, Slice(D, 0, k)), MTH(Slice(D, k, n)))
           ELSE Append(PATH(m - k, Slice(D, k, n)), MTH(Slice(D, 0, k)))

\* Every subtree hash of D: the hashes of all contiguous runs of leaves.
Subtrees(D) ==
  {MTH(Slice(D, lo, hi)) : lo \in 0 .. Len(D) - 1, hi \in 1 .. Len(D)} \ {MTH(<<>>)}
================================================================================
