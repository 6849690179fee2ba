# TLA+ models of libavb: curve25519, AFTL and verified boot

This directory holds TLA+ models of the repository's C sources and the TLC
configurations that check them. `PROJECT.json` lists the components, the runs,
the map from every modelling definition to the source lines it translates,
and the hazards the properties are aimed at.

## 1. What is in the repository

`spec.md` describes a whole Android Verified Boot library: the vbmeta parser,
the chained-partition walker, rollback policy, the ops interface, AFTL and the
crypto primitives. The snapshot under `src/` holds only three files:

| File | What it is |
|---|---|
| `src/libavb/avb-crypto/curve25519/avb_curve25519.c` (1923 lines) | BoringSSL's 32-bit curve25519 code: GF(2^255-19) field operations, Edwards group operations, the Ed25519 scalar multiplications, scalar arithmetic mod l, `ED25519_sign`, `ED25519_keypair_from_seed`, and the X25519 Montgomery ladder |
| `src/libavb_aftl/avb_aftl_types.h` | packed struct declarations of the AFTL descriptor; no code |
| `src/Android.mk` | build rules |

The code is single-threaded and synchronous (spec §5): there is no
concurrency, no I/O and nothing persisted. What is hard about it is numeric:
loops that must run exactly the right number of times, conditional swaps and
moves whose masks must be 0 or all-ones, carries that must not fall off the
top, the edge inputs (zero, low-order points, twist points, non-canonical
encodings) and formulas whose every term must be in the right place.
Test vectors exercise a handful of inputs; a model checker over a small field
exercises every input. The verified-boot layer that spec.md describes around
this code (not in `src/`) does have persistent state, the rollback indexes
behind the ops interface, and faults: IO errors, power loss and reflashing.
`VbmetaVerify` models it from the spec.

### Components, their state, operations and correctness

* **Field arithmetic** (`fe_*`, lines 139-455). State: an element as ten
  limbs (`fe` tight, `fe_loose` loose bounds). Operations: decode/encode,
  add, sub, neg, mul, square, `fe_mul121666`, `fe_cswap`, `fe_cmov`,
  `fe_invert` and `fe_pow22523` (addition chains), `fe_isnonzero`,
  `fe_isnegative`. Correct when each computes its operation mod p, the
  swap/move masks are right, and the chains compute z^(p-2) and z^((p-5)/8).
* **Edwards group** (`ge_*`, lines 457-680). Points in projective (p2),
  extended (p3), completed (p1p1), cached and precomputed coordinates;
  doubling, addition, mixed addition/subtraction and conversions; point
  encoding and decoding (`x25519_ge_frombytes_vartime`, with a square root).
  Correct when each formula agrees with the affine group law.
* **Ed25519 scalar multiplications** (lines 680-914):
  `x25519_ge_scalarmult_small_precomp` (four interleaved 64-bit chunks,
  constant-time table selection), `x25519_ge_scalarmult` (4-bit fixed
  window with a 16-entry table), `slide` (signed sliding-window recoding)
  and `ge_double_scalarmult_vartime`. Correct when the result is a*A (+ b*B).
* **Scalar arithmetic** (`x25519_sc_reduce`, `sc_muladd`, lines 916-1752):
  21-bit limbs in `int64_t`; reduce a 512-bit value mod l, compute
  (ab + c) mod l.
* **Ed25519 signing** (`ED25519_sign`, `ED25519_keypair_from_seed`, lines
  1754-1812, and their `avb_` wrappers). A sequence of SHA-512 hashes,
  scalar clamping, two reductions and one multiply-add.
* **X25519** (`x25519_scalar_mult_generic`, lines 1814-1905). The Montgomery
  ladder: clamp, decode, 255 ladder steps with a deferred conditional swap,
  final swap, inversion, encoding.

* **AFTL descriptor** (`avb_aftl_types.h`). The header, the log root
  descriptor, the entry with its inclusion proof, and the descriptor. It
  declares types only. The verifier that reads them (spec.md 4.7) is not in
  the snapshot.

* **Verified boot** (spec.md 4.3-4.6, 6.1, 7; not in `src/`). The walk
  verifies the top-level vbmeta and every chained vbmeta, and yields the
  verified-boot state and the rollback indexes to commit. The caller
  commits them through `write_rollback_index` and boots.

How they interact: by direct calls only. The ladder and the group formulas
call the field operations; the scalar multiplications call the group
formulas; signing calls SHA-512 (outside `src/`), the base-point scalar
multiplication, the point encoding and the scalar arithmetic.

## 2. Plan and status

| # | Module(s) | Models | Status |
|---|---|---|---|
| 1 | `Field` | `fe_*` over GF(P), P of the shape 2^k - 19 | done |
| 2 | `MontgomeryRef`, `X25519` | `x25519_scalar_mult_generic` | done, run `x25519_ladder` |
| 3 | `FieldChains` | the addition chains of `fe_loose_invert` and `fe_pow22523` | done, run `field_chains` |
| 4 | `EdwardsRef`, `EdwardsGroup`, `GeCalls` | every `ge_*` formula, encoding and decoding | done, run `ge_formulas` |
| 5 | `GeScalarMult` | `x25519_ge_scalarmult` | done, run `ge_scalarmult` |
| 6 | `ScalarMultBase` | `x25519_ge_scalarmult_small_precomp` / `_base` | done, run `scalarmult_base` |
| 7 | `Slide`, `DoubleScalarMult` | `slide`, `ge_double_scalarmult_vartime` | done, runs `double_scalarmult`, `double_scalarmult_top_bit` |
| 8 | `Ed25519Sign` | `ED25519_sign`, `ED25519_keypair_from_seed` | done, runs `ed25519_sign`, `ed25519_key_mismatch` |
| 9 | `ScArith` | every load, product, fold, carry and the packing of `x25519_sc_reduce` and `sc_muladd`: values modulo small moduli, magnitudes as worst-case bounds | done, run `sc_arith` |
| 10 | `MerkleRef`, `AftlVerify` | the AFTL descriptor types of `avb_aftl_types.h`, and the inclusion-proof verifier of spec.md 4.7 (spec-modelled: its code is not in `src/`) | done, run `aftl_verify` |
| 11 | `BootAbstract`, `VbmetaVerify` | what a boot promises, and the chained-vbmeta walk, verdict and rollback commit that refine it of spec.md 4.3-4.6, 6.1 and 7 (spec-modelled: its code is not in `src/`), with IO errors, retries, power loss and reflashing | done, run `vbmeta_boot` |

## 3. Modules and how they correspond to the code

All the curve modules work over a toy prime field GF(P) and keep the code's
sequence of field operations. Scalars are a few bytes long instead of 32.
Each MC module gives the constants their values for TLC. One behaviour is
one call of the function, or a series of calls for `Ed25519Sign`.

### Field (`Field.tla`)

A field element is the integer it represents, reduced mod `P`. The ten-limb
representation, the bounds that `assert_fe`/`assert_fe_loose` assert and
`fe_carry` change no value, so they are not modelled. The `fiat_25519_*`
routines (in `curve25519_32.h`, not in `src/`) are taken to compute their
operation mod p.

`fe_frombytes` clears the top bit and reduces. So non-canonical encodings in
[P, 2^(EncBits-1)) are accepted, as in the code.

`fe_cswap` and `fe_cmov` are kept bitwise on a limb of `LimbBits` bits,
`x = (f ^ g) & (0 - b)`, using the `Bitwise` module. Whether they work
depends on `b` being 0 or 1.

`fe_invert` and `fe_pow22523` are the powers their chains compute. Module
`FieldChains` checks that they do. They are tabulated once over F
(`InvertTable`, `Pow22523Table`).

### FieldChains (`FieldChains.tla`)

Each value the chains compute is a power z^k of the input, so squaring and
multiplying act on exponents: k -> 2k and (k1, k2) -> k1 + k2. A chain is a
list of instructions, copied from the code:
* `Sq` is `fe_sq`.
* `Mul` is `fe_mul`.
* `Loop` is the `for (i = 1; i < n; ++i) fe_sq_tt` loops.

The model runs each chain on the exponents modulo M, one instruction or one
loop iteration per step, for every M in 2..200. `ChainExponent` says the
final exponent is p - 2 (or (p-5)/8) for the real p = 2^255 - 19, modulo M.
lcm(2..200) exceeds 2^256, so agreement for every M is agreement exactly.

### X25519 (`X25519.tla`, `MontgomeryRef.tla`, `MC_X25519.tla`)

| Action | Code |
|---|---|
| `Start` | lines 1820-1850: copy and clamp the scalar, `fe_frombytes`, `x2 = 1, z2 = 0, x3 = x1, z3 = 1`, `swap = 0`; the arguments range over every scalar and every encoding |
| `Step` | one iteration of the loop, lines 1851-1888: the bit, `swap ^= b`, two `fe_cswap`, `swap = b`, the 18 field operations of the ladder step |
| `Finish` | lines 1889-1896: final `fe_cswap`s, `fe_invert`, multiply, `fe_tobytes` |

Ghost variables `kRef` and `uRef` record the scalar and the coordinate that
RFC 7748 decodes from the arguments. They are written arithmetically,
independently of the code's masks. `MontgomeryRef` is the yardstick: the
affine law on the curve or its twist, and double-and-add.

`Step` binds the code's temporaries that are used more than once (the
swap bit, the swapped pairs, tmp0, tmp1 and the two products of the
differential addition) with `\E` over a one-element set. TLC does not
cache `LET` values while it evaluates `ENABLED`. Without the binding,
the fairness check of `x25519_ladder` runs for hours; with it, the run
takes under a minute.

Properties of `x25519_ladder`:
* `TypeOK` includes `swap \in {0, 1}`, the precondition of `fe_cswap`.
* `LadderInvariant` is the loop invariant of the code's comment (lines
  1852-1857).
* `ScalarMultCorrect`: the output is x(k*P) for every argument. That
  includes twist points, u = 0, small-order points and non-canonical
  encodings.

`x25519_ladder` checks these and one temporal property under `FairSpec`,
which is `Spec` with weak fairness of `Step` and `Finish`:
* `Termination` is `pc = "loop" ~> pc = "done"`: every started call
  returns. The mutant that leaves out `--pos` breaks it; a test would only
  see that as a hang.

### EdwardsRef, EdwardsGroup, GeCalls

`EdwardsRef` is the yardstick. It has:
* the affine twisted Edwards law with d = -121665/121666;
* `EdMul` (double-and-add);
* the "represents" predicates of each coordinate system (`P2Rep`, `P3Rep`,
  `P1P1Rep`, `CachedRep`, `PrecompRep`);
* the RFC 8032 encoding, and `DecodeRef`, the decoding the code implements.

The constants d, 2d and sqrt(-1) come from `curve25519_tables.h`, which is
not under `src/`. They are defined by what they are.

`EdwardsGroup` has each `ge_*` function of lines 457-680 as an operator on
records with the C struct's field names. It keeps the code's order of field
operations and its temporaries. `GeCalls` makes one call of an operation on
any point, or pair of points, in a coordinate system with Z other than 1.

Run `ge_formulas`:
* `GroupLawAgrees`: doubling, mixed and cached addition and subtraction, and
  `ge_p1p1_to_p3` agree with the affine law for all pairs of points. That
  includes equal, opposite, identity and low-order points.
* `EncodingRoundTrip`: `x25519_ge_frombytes_vartime` accepts exactly the
  encodings that denote a point and returns that point. `x25519_ge_tobytes`
  is inverted by decoding.

### GeScalarMult (`x25519_ge_scalarmult`, lines 750-800)

`Start` runs the first steps. `TableStep`/`TableDone` are the iterations of
the first loop: `Ai` (ge_cached) and the half table `Ai_p2` (ge_p2) with the
`i < 8` and `i < 7` guards. A write outside `Ai_p2[0..7]`, or a read of an
entry not yet written, sets `fault`. `WindowStep`/`WindowDone` are the
iterations of the second loop: four doublings, the window index taken from
byte 31 - i/8, and the constant-time selection (`SelectCached`).

Run `ge_scalarmult`:
* `TableSafe`: no fault, and every table entry built so far is the right
  multiple of A.
* `WindowInvariant`: before each window, r is the multiple of A by the
  windows consumed, so at the end r = scalar*A.

### ScalarMultBase (lines 680-742)

The precomputed table `k25519SmallPrecomp` is defined by its contents: sums
of 2^(64 j) B, with 2^(ChunkBits j) in the model. `Iterate`, `SelectStep`
and `Accumulate` are one iteration of the loop, and `Exit` is its end. The
counter `i` is unsigned with `UintBits` bits. `for (i = 63; i < 64; i--)`
ends when i-- wraps around to 2^UintBits - 1, and the model keeps that wrap.

Run `scalarmult_base`, `SmallPrecompCorrect`:
* i only takes the values 0..ChunkBits-1 and the wrapped value;
* before the iteration at i, h is (the chunk bits above i)*B;
* at the end h = a*B.

### Slide and DoubleScalarMult (lines 805-912)

`Slide` is the recoding: three nested loops as RECURSIVE operators
(`SlideOuter`, `SlideInner`, `SlideCarry`). They take the code's loop exits
and `break`s in the same order.

`DoubleScalarMult` has these actions:
* `Start` runs `slide` twice, builds `Ai` (odd multiples of A) and finds the
  top nonzero digit.
* `DoubleStep`, `AddA` and `AddB` are one iteration of the main loop.
* `Finish` ends the call.

`Bi` is the table of odd multiples of B in `curve25519_tables.h`. It is
defined by its contents.

Runs:
* `double_scalarmult`, for scalars a < 2^(SlideBits-1), the analogue of
  reduced scalars:
  * `SlideDigitsInRange`: every digit is 0 or odd with |digit| <= 15, so the
    table indices are within 0..7.
  * `DoubleScalarMultCorrect`: r = a*A + b*B.
* `double_scalarmult_top_bit` (violation) checks the same property for every
  scalar of SlideBits bits. See the findings.

### ScArith (`x25519_sc_reduce` lines 930-1261, `sc_muladd` lines 1271-1752)

Both functions are straight-line code on 24 `int64_t` limbs of 21 bits.
The model writes each function as a program, a sequence of instructions
(`Progs`), and runs it one instruction per step:

| Instruction / action | Code |
|---|---|
| `load` / `LoadStep` | `x_i = 2097151 & (load_w(x + off) >> sh)`; the table `ReduceLoads` (lines 931-954) and `MuladdLoads` (1275-1310), with s23, a11, b11 and c11 unmasked |
| `mul` / `MulStep` | `s_k = c_k + sum a_i * b_(k-i)` (lines 1359-1391) |
| `fold` / `FoldStep` | `s_(j-12) += s_j * 666643; ...; s_(j-7) -= s_j * 683901; s_j = 0` (e.g. lines 973-979) |
| `round`, `floor` / `CarryStep` | `carry = (s_i + (1 << 20)) >> 21` or `s_i >> 21`, then `s_(i+1) += carry; s_i -= int64_lshift21(carry)` |

`ReduceTail` lists the order of the folds and the carry passes after the
loads (lines 973-1227, repeated at 1464-1718 in `sc_muladd`).
`MuladdCarries` lists the two passes between the products and the first
fold (lines 1393-1462). The 64-bit limbs do not fit TLC's integers, so
each state carries two abstractions:
* **Values modulo m**, for every m in a small set. `L` holds the limbs
  mod m. `q` counts the multiples of l the folds took away: a fold
  replaces s_j * 2^(21j) by s_j * 2^(21(j-12)) * (2^252 - l). A carry
  moves c * 2^21 from one limb to the next, which keeps the value for
  every c. The model takes the limb's residue as the carry, so a carry
  added to the wrong limb, or taken with the wrong weight, changes the
  value.
* **Magnitudes**. `mag` holds an upper bound <<u, e>> (meaning
  |x| <= u * 2^e, u below 2^15) for every limb, for the worst case over
  all inputs. Sums, products and shifts only ever round the bound up.
  `peak` is the exponent of the largest intermediate so far: limbs,
  products, `s + 2^20` and `carry << 21`.

Properties of `sc_arith`:
* `NoOverflow`: no intermediate reaches 2^63. The mutant with only the odd
  carries after the products overflows, at the fold of s22. The carries
  shift negative limbs right (line 1150 and on), which C leaves to the
  implementation. `MagShr21` takes the arithmetic shift gcc and clang give.
  With a logical shift instead (`MagShr21Logical`), a negative limb carries
  up to 2^43, and `NoOverflow` fails at the next fold.
* `ValueKept`: after the loads (or products), `s + q * l` equals the input
  (or a*b + c) modulo every m, and at the end s12..s23 are zero. A
  mistyped fold constant breaks it.
* `LimbsFitOutput`: at the end, s0..s10 fit 21 bits and s11 fits 22. So the
  packing of lines 1229-1260 loses nothing. Leaving out the last carry pass
  breaks it.
* `PackCorrect`: the packing table sends every bit of every limb to its
  byte and bit position (21i + t) and nowhere else.

The magnitudes show the worst case is about 2^49 in `x25519_sc_reduce`
and 2^50 in `sc_muladd` (a11 * b11, with 25-bit limbs). The model
assumes that `>>` on a negative `int64_t` is an arithmetic shift. C
leaves it implementation-defined, and every compiler the code targets
does so.

### AftlVerify and MerkleRef (`avb_aftl_types.h`, spec.md 4.7)

The header file declares the packed AFTL descriptor and nothing else. The
verifier that reads it is not in the repository. `AftlVerify` translates
the structures from the header:
* `IsIcpHeader`, `IsLogRootDescriptor`, `IsIcpEntry` and
  `IsAftlDescriptor` give each field its width. An ASSUME requires every
  input descriptor to satisfy them.
* `IcpHeaderSize`, `LogRootDescriptorSize` and `IcpEntrySize` give the
  packed sizes.
* `LogRootSignedBytes` is the structure the log root signature covers.

The verifier's steps come from spec.md 4.7:

| Action | Step |
|---|---|
| `CheckHeader` | 1: magic, and `avb_icp_size` against the sizes of `icp_count` entries |
| `ParseEntry` | the entry's size fields (`root_hash_size` = 32, `inc_proof_size` = 32 * `proof_hash_count`), copying the root hash, then RFC 9162 steps 1-3: `leaf_index < tree_size`, fn, sn and the leaf hash SHA-256(0x00 \|\| leaf) |
| `WalkStep` | 2: one proof hash, RFC 9162 step 4 (`Advance`, with the shift past the right border in `SkipBorder`) |
| `CompareRoot` | 3: sn = 0 and the candidate root against `root_hash`, else `INVALID_METADATA` |
| `CheckSignature` | 4: the Ed25519 signature over the log root descriptor, else `VERIFICATION_ERROR` |
| `CheckCommit` | 5: the firmware-info leaf holds the vbmeta hash the caller supplies; then the next entry, or `OK` after the last |

The walk is the algorithm of RFC 6962/9162, which the spec names. It needs
the tree size as well as the leaf index. SHA-256 and Ed25519 are
constructors: a digest is its tagged input, and a signature is the key and
the message. So a hash collides only when the inputs are equal, and only
the key's holder can sign. `MerkleRef` is the yardstick. It defines the
RFC 6962 tree hash `MTH`, the audit path `PATH` and every subtree hash of
a list of leaves, each as a recursive definition of the RFC's text.

Properties of `aftl_verify`:
* `AcceptedOnlyIfLogged` (spec 8.7, soundness). The verifier says OK only
  if, for every entry, the leaf that commits to this vbmeta is the leaf at
  `leaf_index` of a tree the log signed, with the size the entry claims. A
  signature that leaves `tree_size` out of the signed bytes breaks it: a
  root signed for size 3 is then accepted as size 4. A loop that stops
  after the first entry also breaks it.
* `HonestProofAccepted` (spec 8.7 and S6, completeness). Every
  well-formed descriptor with the RFC 6962 audit path and the log's
  signature is accepted. That includes the leaf on the ragged right edge.
  A walk without the border shift breaks it.

### VbmetaVerify (spec.md 4.3-4.6, 6.1, 7)

No code of the walk is in the repository; every definition is marked
`spec_modelled`. An image is abstracted to what the walk decides on: key,
algorithm (NONE only for the top-level vbmeta), whether its signature and
its hash descriptors check out, its rollback index and at most one chain
descriptor (partition, location, pinned key). The ops predicate
`validate_vbmeta_public_key` is the constant `OpsKeys` (trusted key to
location and user flag). `images` and `stored` persist across boots; the
rest is the boot's memory.

| Action | Step |
|---|---|
| `PowerOn`, `Retry` | start a walk at the top-level vbmeta (`StartWalk`); a retry counts against `MaxRetries` |
| `VerifyHead` | one vbmeta, 4.3 steps 3-5 and 4.5 in order: key (ops predicate at the top, pinned key below), signature, stored index against the vbmeta's, hash descriptors, then 4.4: chain locations distinct across the walk and the depth bound. Without `ALLOW_VERIFICATION_ERROR` the first error ends the boot RED; with it the errors are recorded and the walk goes on with the good children. The intended index at the location becomes the maximum seen |
| `Decide` | the queue is empty: GREEN, or YELLOW for a user key; ORANGE or RED (unlocked or not) after a downgraded error or an unsigned top-level vbmeta (4.6, 7) |
| `CommitOne`, `FinishCommit` | after GREEN/YELLOW, `write_rollback_index` for each location with an intended value, lowest first, then boot |
| `IoError`, `GiveUp` | an ops read fails (6.1); after `MaxRetries` retries the caller gives up with RED_EIO (7) |
| `Crash`, `Shutdown`, `Install` | power loss at any point of a boot, the commit included; shutdown; new or older signed images flashed while off |

`BootAbstract` (`BootAbstract.tla`) is what a boot promises. A powered boot
is judged in one step (`Judge`): GREEN, or YELLOW for a user key, exactly
when `Deserved` holds; otherwise RED, or ORANGE when unlocked; RED_EIO at any
time. After a verified judgement, `Commit` writes `Targets`, one location at
a time. `Targets` maps each location on the chain to the index of the vbmeta
checked there. Power may go at any point. Weak fairness of `Judge` and
`Commit` says that a boot that stays powered is judged and its commit
completes. `Deserved` follows the chain from the top-level vbmeta
as a path (`ChainPath`), with the top key trusted, every image signed and its
hashes good, every pinned key matching, the locations distinct, the depth
within `MaxDepth` and every rollback index at least the stored one (spec
8.5, 8.6).

Properties of `vbmeta_boot`:
* `Refinement`: `VbmetaVerify` implements `BootAbstract` under the mapping
  power = (phase # off), verdict = "none" while walking or after an IO error
  and `bootState` after that, pending = `toCommit`. The walk steps, retries
  and the end of the commit are stuttering steps. The property includes the
  abstract fairness. Checking a chained key against the ops predicate instead
  of the pinned key breaks it. The two safety properties below follow from
  it; each is stated on its own so that it names its own hazard.
* `BootedImagesWithinRollback`: after a verified boot has committed, every
  booted vbmeta is at or above the index stored at its location, so the
  same images boot again. A caller that writes one running maximum to every
  location breaks it.
* `StoredNeverDecreases` (action property): no step, a commit cut by power
  loss included, lowers a stored index. A zero-filled `rollback_indexes[]`
  breaks it.
* `BootCompletes` (liveness): a walk ends booted, halted or off, even when
  every read fails. An uncounted retry breaks it.

### Ed25519Sign (lines 1754-1812)

The actions:
* `KeyPairCall` is `ED25519_keypair_from_seed`.
* `ED25519_sign` is `StartSign`, `SeedHash` (hash and clamp), `NonceHash`,
  `RStep` (reduce, times B, encode), `HramHash` and `Muladd`. Together these
  are the whole function, in its order.

The abstractions:
* SHA-512 is not under `src/`. `SHA512` is a fixed stand-in function of the
  bytes hashed, with 2*ScalarBytes output bytes.
* A hash context is the byte sequence hashed since its last
  `avb_sha512_init`. So a missing re-init shows up as a different digest.
* `x25519_sc_reduce` and `sc_muladd` are the arithmetic their header
  comments state, mod the order l of B.
* k*B is `EdMul`, which `ScalarMultBase` checks against the code.
* `PrivateKeys` are the keys a caller holds: those from
  `ED25519_keypair_from_seed`. With `AnyPublicHalf`, they also include a
  seed joined with another key's public half.

Runs:
* `ed25519_sign`, `SignatureVerifies` (spec §8 property 1): every signature
  made with a genuine key pair satisfies S*B = R + k*A, where
  k = H(R || A || M) mod l. It fails if:
  * the signing clamp disagrees with the key-derivation clamp;
  * the second hash reuses the context;
  * sc_muladd's arguments are swapped.
  Each of these is a mutant TLC catches.
* `ed25519_key_mismatch` (violation), `OneSignaturePerSeedAndMessage`:
  signing is deterministic in the seed (spec §4.1). See the findings.

## 4. Findings

* **`slide` drops the carry past the top bit** (avb_curve25519.c:823, run
  `double_scalarmult_top_bit`). The comment says
  `ge_double_scalarmult_vartime` computes a*A + b*B. When the top bits of a
  are set, the carry out of the last position is lost, and the result is
  (a - 2^256)*A + b*B. At 8 bits, TLC's trace has a = 241 = 0b11110001
  and b = 0. `slide` gives the single digit -15 at position 0, the carry
  into bit 8 is dropped, and the result is -15*A = (241 - 256)*A. Scalars below l
  (< 2^253) never reach it. The function has no caller in this file.
* **`ED25519_sign` does not check the public half of the private key**
  (avb_curve25519.c:1785, run `ed25519_key_mismatch`). The nonce depends
  only on the seed and the message. In TLC's trace, `KeyPairCall` makes
  the genuine pairs of seeds 1 and 2. The first call signs message 7 with
  seed 1 and its own public half. The second (State 10) signs message 7 with
  seed 1 and the public half of seed 2, a private key whose halves do not
  match. Both signatures have R = <<184, 2>>, and their S values differ (20
  and 19). From two such
  signatures, the secret scalar a = (S1 - S2)/(k1 - k2) mod l follows.
* Observations that are not findings:
  * spec.md 4.7 step 2 says the inclusion walk picks left or right "using
    the leaf index". Read literally, that rejects the RFC 6962 proof of the
    last leaf of a three-leaf tree. Its path is the one hash of the left
    subtree, and index 2 = 0b10 puts it on the right. Property 8.7 and
    scenario S6 ask for the RFC 6962 proofs. So `AftlVerify` walks as RFC
    9162 2.1.3.2 does, with `tree_size` too, and `HonestProofAccepted`
    holds for it.
  * spec.md 4.4 asks for distinct locations among the chain descriptors. If
    the top-level vbmeta's location (from the ops predicate) is not counted,
    a chain descriptor may share it, and 4.3 step 5's maximum then commits
    the larger of the two indexes there. The smaller image is refused on the
    next boot: the device bricks itself. `VbmetaVerify` counts the top-level
    location (`TopSeen`); without that, `BootedImagesWithinRollback` fails.
  * The final `fe_cswap` pair of the ladder (lines 1890-1891) never swaps,
    because clamping clears bit 0.
  * The clamps of signing (`&= 63`) and key derivation (`&= 127`) give equal
    scalars, because both then set bit 6.
  * `x25519_ge_frombytes_vartime` accepts non-canonical y (y >= P), and
    accepts x = 0 with either sign bit. RFC 8032 rejects both. `DecodeRef`
    states what the code accepts, and `EncodingRoundTrip` holds for it.

## 5. Bounds and why they are enough

* **X25519**, P = 109 = 2^7 - 19:
  * It has the same shape as 2^255 - 19 and is 5 mod 8.
  * 121666 mod 109 is the curve's a24.
  * Encodings are one byte, so 19 of them are non-canonical.
  * Every one of the 256 scalars and 256 encodings is tried.
* **Edwards modules**, P = 197 (`ge_formulas`, `ge_scalarmult`; group order
  204) and P = 293 (the rest):
  * Both are 5 mod 8, so the square root of the decoder takes both of its
    branches.
  * d is a non-square, so the addition law is complete, as for the real
    curve.
* **P = 293**: the group has order 296 = 8 * 37. The base point
  B = (116, 118) has prime order l = 37, and A = (11, 91) generates the
  whole group. The cofactor and low-order components are therefore
  present, as in Ed25519.
* **Scalar sizes**:
  * `ScalarMultBase` uses chunks of one byte (4-byte scalars) with a 16-bit
    unsigned counter, so the wrap is real. Its scalars are the bytes
    {0, 255, 165, 90} in every position.
  * `GeScalarMult` uses 2-byte scalars whose nibbles cover 0..15 in every
    window position.
  * `DoubleScalarMult` uses 8-bit scalars (all 128 reduced a), with b from
    a set that includes 0, l and 127.
  * Those bounds give every table index, both signs of every slide digit
    and the carry chains.
* **ScArith**: the moduli {3, 4, 5, 7, 9, 11, 13, 16, 37}, and two inputs
  per function. The first input is all bytes 0xff, the largest limbs. The
  second is a byte pattern that mixes large and small bytes. Two values
  that differ in some limb's carry differ modulo most of these moduli.
  The magnitudes do not depend on the input: they are the worst case for
  every input.
* **AftlVerify**: a log of three leaves <<v1, v2, v1>>. It has trees of
  sizes 1, 2 and 3. Size 3 is not a power of two, so leaf 2 sits on the
  ragged right edge. The vbmeta v1 is at leaves 0 and 2. The attacker's
  material:
  * proofs of up to two hashes, drawn from every subtree hash of the log
    and one forged hash; paths in these trees have at most two hashes, so
    a two-hash proof for a smaller tree is one hash too long;
  * leaf indices 0..3, one past the largest tree;
  * the log's three roots, each with its size raised by one, and a forged
    root;
  * the log's three signatures and one under another key.
* **VbmetaVerify**: four partitions, vbmeta -> boot -> system, and vendor
  reached only by a faulty build (one level too deep at `MaxDepth` = 2).
  The device starts with the release at index 1 or one of 13 variants with
  one thing wrong (each key, signature, hash, rollback index, a repeated
  location, the top location reused, no chain, too deep), every stored
  index in 0..1 at locations 0..3, locked or not, with the error flag or
  not. The releases at index 0 and 1 can be flashed between boots, so
  downgrades meet committed indexes. Two retries and two power losses:
  a crash can then fall between two commit writes and again in the boot
  after it.
* **Ed25519Sign**:
  * 4-byte scalars, so clamping touches byte 0 and the top byte as in the
    code.
  * 4 seeds and 2 messages, and at most 2 signatures. That is enough for
    two signatures of the same message by one seed.

## 6. Fairness

Every function modelled is sequential and returns. `x25519_ladder` uses
`FairSpec`, which adds weak fairness of `Step` and `Finish`, the steps of
a call already under way. A started function runs to its end, because
nothing in it waits. `Start` has no fairness: whether the function is
called is up to the caller. The single-call runs say `CHECK_DEADLOCK FALSE` because
the state after the return has no successor by design. `vbmeta_boot` gives
weak fairness to the boot path (`VerifyHead`, `Decide`, `Retry`, `GiveUp`,
`CommitOne`, `FinishCommit`): it is sequential code that does not wait.
Power-on, IO faults, power loss, shutdown and flashing get none; IO faults
may happen on every attempt. `BootAbstract` has weak fairness of `Judge`
and `Commit` only, the two steps the boot path owes. `ed25519_sign` keeps
deadlock checking on: key derivation can always be called.

## 7. Not modelled, and why

* The limb representation and its bounds (`assert_fe`), and the
  `fiat_25519_*` routines, which are not under `src/`.
* The exact 64-bit limbs of `x25519_sc_reduce` and `sc_muladd`. `ScArith`
  follows them modulo small moduli and as magnitude bounds. Nothing
  checks that the result is fully reduced below l: a residue modulo m
  cannot show it, and `Ed25519Sign` takes the result mod l as the
  comments state.
* SHA-512 (not under `src/`): a fixed stand-in function.
* Constant-time behaviour (spec §4.1): timing is not a property of states.
* `avb_aftl_types.h` has no operations; its structures are modelled in
  `AftlVerify`. The AFTL verifier is modelled from spec.md. Its steps are
  marked `spec_modelled` in the map. The header version fields
  (`required_icp_version_*`) are carried but not checked: 4.7 names no
  check for them. `Android.mk` is build glue.
* Of the verified-boot layer (not in the snapshot, modelled from spec.md in
  `VbmetaVerify`): the byte-level vbmeta parser (header bounds, descriptor
  decoding), hashtree descriptors and the kernel command line are not
  modelled; an image is abstracted to whether its checks pass. An image has
  at most one chain descriptor. A/B slot selection is outside the spec's
  scope.
