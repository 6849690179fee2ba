----------------------------- MODULE Ed25519Sign -----------------------------
(***************************************************************************)
(* ED25519_keypair_from_seed and ED25519_sign (avb_curve25519.c) over the  *)
(* toy Edwards group; a behaviour is a series of calls.  SHA-512 (not in   *)
(* src/) is an arbitrary fixed function of the bytes hashed, and a        *)
(* SHA512_CTX is the byte sequence hashed since its avb_sha512_init.       *)
(* Scalars have ScalarBytes bytes (32 in the code) and digests twice as    *)
(* many.  x25519_sc_reduce and sc_muladd are the arithmetic their comments *)
(* state, modulo the order l of B; x25519_ge_scalarmult_base is k*B, as    *)
(* checked in ScalarMultBase; seeds and messages are one byte long.        *)
(***************************************************************************)
EXTENDS Integers, Sequences, EdwardsGroup

CONSTANTS
  ScalarBytes,    \* bytes of a scalar (32 in the code)
  BasePoint,      \* B
  BaseOrder,      \* l, the order of B
  Seeds,          \* the one-byte seeds
  Messages,       \* the one-byte messages
  AnyPublicHalf,  \* may a private key carry a public key not made from its seed?
  MaxSigns        \* bound on the ED25519_sign calls of a behaviour

ASSUME ScalarBytes >= 2 /\ BasePoint \in Points
ASSUME Seeds \cup Messages \subseteq 0 .. 255
ASSUME AnyPublicHalf \in BOOLEAN /\ MaxSigns \in Nat

\* SHA-512 of a byte sequence: a fixed function with 2*ScalarBytes bytes.
RECURSIVE Mix(_, _)
Mix(data, n) ==
  IF n = 0 THEN 1 ELSE (Mix(data, n - 1) * 1103 + data[n] + 7) % 65521
SHA512(data) ==
  LET hv == Mix(data, Len(data))
  IN [j \in 1 .. 2 * ScalarBytes |-> ((hv * (37 * j + 11) + 13 * j) % 65521) % 256]

\* The little-endian value of a byte sequence, modulo m (m = 0: exact).
RECURSIVE LEFrom(_, _, _)
LEFrom(bs, m, i) ==
  IF i > Len(bs) THEN 0
  ELSE LET v == LEFrom(bs, m, i + 1) * 256 + bs[i]
       IN IF m = 0 THEN v ELSE v % m
LEMod(bs, m) == LEFrom(bs, m, 1)

\* x25519_sc_reduce (its comment: s mod l) of a digest; sc_muladd (ab + c)
\* mod l.  Scalars are kept as their values mod l.
ScReduce(d) == LEMod(d, BaseOrder)
\* Mutant: the nonce and the secret scalar in each other's place.
ScMuladdSwapped(a, b, c) == (a * c + b) % BaseOrder
ScMuladd(a, b, c) == (a * b + c) % BaseOrder

\* x25519_ge_scalarmult_base then ge_p3_tobytes, as the bytes of the
\* encoding.
MulB == [k \in 0 .. BaseOrder - 1 |-> EdMul(BasePoint, k)]
EncLen == (EncBits + 7) \div 8
EncodeBytes(k) ==
  LET e == GeToBytes(P3Of(MulB[k % BaseOrder]))
  IN [n \in 1 .. EncLen |-> (e \div 2^(8 * (n - 1))) % 256]

\* az[0] &= 248; az[31] &= top; az[31] |= 64 (top is 127 in
\* ED25519_keypair_from_seed, 63 in ED25519_sign).
Clamp(d, top) ==
  [d EXCEPT ![1] = d[1] & 248, ![ScalarBytes] = (d[ScalarBytes] & top) | 64]
Lower(d) == [n \in 1 .. ScalarBytes |-> d[n]]
Upper(d) == [n \in 1 .. ScalarBytes |-> d[ScalarBytes + n]]

\* ED25519_keypair_from_seed: the public key, the private key seed || A.
PublicKeyOf(seed) ==
  EncodeBytes(LEMod(Lower(Clamp(SHA512(<<seed>>), 127)), BaseOrder))
KeyPair(seed) == [seed |-> seed, pub |-> PublicKeyOf(seed)]

VARIABLES
  keys,   \* the key pairs ED25519_keypair_from_seed has returned
  pc,     \* "idle", or the next step of ED25519_sign
  key,    \* the private_key argument: [seed, pub]
  msg,    \* the message argument
  az,     \* az[64]
  ctx,    \* hash_ctx: the bytes hashed since its last avb_sha512_init
  digest, \* the digest of the last avb_sha512_final (nonce or hram)
  nonce,  \* the reduced nonce
  R,      \* out_sig[0..31]: the encoding of R
  sigs,   \* the signatures returned: [seed, pub, msg, R, S]
  nsigs   \* ED25519_sign calls so far

vars == <<keys, pc, key, msg, az, ctx, digest, nonce, R, sigs, nsigs>>

Init ==
  /\ keys = {} /\ pc = "idle" /\ key = KeyPair(CHOOSE s \in Seeds : TRUE)
  /\ msg = CHOOSE m \in Messages : TRUE
  /\ az = SHA512(<<>>) /\ ctx = <<>> /\ digest = SHA512(<<>>)
  /\ nonce = 0 /\ R = EncodeBytes(0) /\ sigs = {} /\ nsigs = 0

KeyPairCall ==
  /\ pc = "idle"
  /\ \E s \in Seeds : keys' = keys \cup {KeyPair(s)}
  /\ UNCHANGED <<pc, key, msg, az, ctx, digest, nonce, R, sigs, nsigs>>

\* The private keys a caller holds: those made by ED25519_keypair_from_seed,
\* or (AnyPublicHalf) a seed with the public key of another of them.
PrivateKeys ==
  IF AnyPublicHalf
  THEN {[seed |-> k1.seed, pub |-> k2.pub] : k1, k2 \in keys}
  ELSE keys

StartSign ==
  /\ pc = "idle" /\ nsigs < MaxSigns
  /\ \E k \in PrivateKeys, m \in Messages : key' = k /\ msg' = m
  /\ pc' = "seed"
  /\ UNCHANGED <<keys, az, ctx, digest, nonce, R, sigs, nsigs>>

\* Mutant: the clamp of ED25519_sign without az[31] |= 64.
SignClampNoSet(d) == [d EXCEPT ![1] = d[1] & 248, ![ScalarBytes] = d[ScalarBytes] & 63]

\* SHA512(private_key, 32, az); the clamp with az[31] &= 63.
SignClamp(d) == Clamp(d, 63)

SeedHash ==
  /\ pc = "seed"
  /\ az' = SignClamp(SHA512(<<key.seed>>))
  /\ pc' = "nonce"
  /\ UNCHANGED <<keys, key, msg, ctx, digest, nonce, R, sigs, nsigs>>

\* avb_sha512_init; update(az + 32); update(message); final.
NonceHash ==
  /\ pc = "nonce"
  /\ ctx' = Upper(az) \o <<msg>>
  /\ digest' = SHA512(ctx')
  /\ pc' = "R"
  /\ UNCHANGED <<keys, key, msg, az, nonce, R, sigs, nsigs>>

\* x25519_sc_reduce(nonce); x25519_ge_scalarmult_base; ge_p3_tobytes.
RStep ==
  /\ pc = "R"
  /\ nonce' = ScReduce(digest)
  /\ R' = EncodeBytes(nonce')
  /\ pc' = "hram"
  /\ UNCHANGED <<keys, key, msg, az, ctx, digest, sigs, nsigs>>

\* Mutant: the second hash without its avb_sha512_init.
HramCtxNoInit(c) == c

\* avb_sha512_init(&hash_ctx) before the second hash.
HramCtx(c) == <<>>

\* update(out_sig, 32); update(private_key + 32, 32); update(message); final.
HramHash ==
  /\ pc = "hram"
  /\ ctx' = HramCtx(ctx) \o R \o key.pub \o <<msg>>
  /\ digest' = SHA512(ctx')
  /\ pc' = "muladd"
  /\ UNCHANGED <<keys, key, msg, az, nonce, R, sigs, nsigs>>

\* x25519_sc_reduce(hram); sc_muladd(out_sig + 32, hram, az, nonce);
\* return 1.
Muladd ==
  /\ pc = "muladd"
  /\ LET S == ScMuladd(ScReduce(digest), LEMod(Lower(az), BaseOrder), nonce)
     IN sigs' = sigs \cup {[seed |-> key.seed, pub |-> key.pub, msg |-> msg,
                            R |-> R, S |-> S]}
  /\ nsigs' = nsigs + 1 /\ pc' = "idle"
  /\ UNCHANGED <<keys, key, msg, az, ctx, digest, nonce, R>>

Next ==
  KeyPairCall \/ StartSign \/ SeedHash \/ NonceHash \/ RStep \/ HramHash \/ Muladd

Spec == Init /\ [][Next]_vars

-----------------------------------------------------------------------------

\* The point an encoding (as bytes) denotes, under the RFC 8032 decoding.
PointOf(bs) ==
  CHOOSE pt \in DecodeRef(LEMod(bs, 0)) : TRUE
MulSub == [pt \in {MulB[k] : k \in 0 .. BaseOrder - 1},
           k \in 0 .. BaseOrder - 1 |-> EdMul(pt, k)]

\* Sign/verify round trip (spec section 8): every signature made with a key
\* pair of ED25519_keypair_from_seed satisfies S*B = R + k*A, where
\* k = SHA-512(R || A || M) mod l.  It takes the clamp of signing and of key
\* derivation to agree, the two hashes to be over the right bytes of fresh
\* contexts, and sc_muladd to get its arguments in order.
SignatureVerifies ==
  \A sg \in sigs :
    sg.pub = PublicKeyOf(sg.seed) =>
      LET k == ScReduce(SHA512(sg.R \o sg.pub \o <<sg.msg>>))
      IN MulB[sg.S] = EdAdd(PointOf(sg.R), MulSub[PointOf(sg.pub), k])

\* Ed25519 signing is deterministic in the seed (spec section 4.1): two
\* signatures of one message by one seed are the same.  Two with the same
\* R and different S would give away the secret scalar,
\* a = (S1 - S2) / (k1 - k2) mod l.
OneSignaturePerSeedAndMessage ==
  \A s1, s2 \in sigs :
    s1.seed = s2.seed /\ s1.msg = s2.msg => s1.S = s2.S
=============================================================================
