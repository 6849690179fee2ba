------------------------------ MODULE AftlVerify ------------------------------
(***************************************************************************)
(* The AFTL inclusion-proof verifier (spec.md 4.7) over the descriptor     *)
(* types of src/libavb_aftl/avb_aftl_types.h.  The verifier's code is not  *)
(* in the repository: its steps are modelled from the spec, the data it    *)
(* reads from the header file.  One action per step of 4.7: the header     *)
(* check, the parse of an entry, one step of the inclusion-path walk per   *)
(* proof hash, the root comparison, the log-root signature and the         *)
(* firmware-info commitment; then the next entry.  The walk is the one of  *)
(* RFC 6962/9162 that the spec names ("per the standard"), driven by the   *)
(* leaf index and the tree size.                                           *)
(***************************************************************************)
EXTENDS Integers, Sequences, MerkleRef

CONSTANTS
  Log,          \* the vbmeta images the transparency log holds, in order
  Vbmeta,       \* the vbmeta image the descriptor accompanies
  LogKey,       \* the trusted log public key supplied to the verifier
  AFTL_MAGIC,   \* the header magic (defined outside src/)
  Descriptors   \* the descriptors the verifier may be given

\* #define AFTL_HASH_SIZE 32
AFTL_HASH_SIZE == 32

\* An unsigned field of w bits; fields of 31 bits or more are never near
\* their limit in the bounded inputs.
IsUInt(x, w) == x \in Nat /\ (w >= 31 \/ x < 2^w)

\* struct AftlIcpHeader
IsIcpHeader(h) ==
  /\ DOMAIN h = {"magic", "required_icp_version_major",
                 "required_icp_version_minor", "avb_icp_size", "icp_count"}
  /\ IsUInt(h.avb_icp_size, 32) /\ IsUInt(h.icp_count, 16)

\* struct TrillianLogRootDescriptor (the metadata pointer is the bytes)
IsLogRootDescriptor(l) ==
  /\ DOMAIN l = {"version", "tree_size", "root_hash_size", "root_hash",
                 "timestamp", "metadata_size", "metadata"}
  /\ IsUInt(l.version, 16) /\ IsUInt(l.tree_size, 64)
  /\ IsUInt(l.root_hash_size, 8) /\ IsUInt(l.metadata_size, 16)

\* struct AftlIcpEntry; proofs holds the inc_proof_size bytes of proofs[].
IsIcpEntry(e) ==
  /\ DOMAIN e = {"log_url_size", "leaf_index", "proof_hash_count",
                 "inc_proof_size", "next", "log_url", "log_root_descriptor",
                 "fw_info_leaf_size", "fw_info_leaf", "log_root_sig_size",
                 "log_root_signature", "proofs"}
  /\ IsUInt(e.log_url_size, 32) /\ IsUInt(e.leaf_index, 64)
  /\ IsUInt(e.proof_hash_count, 8) /\ IsUInt(e.inc_proof_size, 32)
  /\ IsUInt(e.fw_info_leaf_size, 32) /\ IsUInt(e.log_root_sig_size, 16)
  /\ IsLogRootDescriptor(e.log_root_descriptor)
  /\ Len(e.proofs) * AFTL_HASH_SIZE = e.inc_proof_size

\* struct AftlDescriptor: the header, then icp_count entries.
IsAftlDescriptor(d) ==
  /\ IsIcpHeader(d.header)
  /\ \A j \in 1 .. Len(d.entries) : IsIcpEntry(d.entries[j])

\* Packed sizes of the structures on the wire.
IcpHeaderSize == 4 + 4 + 4 + 4 + 2
LogRootDescriptorSize(l) == 2 + 8 + 1 + l.root_hash_size + 8 + 2 + l.metadata_size
IcpEntrySize(e) ==
  4 + 8 + 1 + 4 + 1 + e.log_url_size + LogRootDescriptorSize(e.log_root_descriptor)
    + 4 + e.fw_info_leaf_size + 2 + e.log_root_sig_size + e.inc_proof_size

RECURSIVE EntriesSize(_, _)
EntriesSize(es, n) == IF n = 0 THEN 0 ELSE IcpEntrySize(es[n]) + EntriesSize(es, n - 1)

\* Mutant: the size field left out of the signed bytes.
LogRootSignedBytesNoSize(l) ==
  <<l.version, l.root_hash_size, l.root_hash, l.timestamp, l.metadata_size,
    l.metadata>>

\* "The log_root_signature is calculated over this structure", big-endian
\* in field order, metadata last.
LogRootSignedBytes(l) ==
  <<l.version, l.tree_size, l.root_hash_size, l.root_hash, l.timestamp,
    l.metadata_size, l.metadata>>

\* Ed25519 as an unforgeable signature: only the key's holder makes one.
Ed25519Sign(key, msg) == <<"ed25519", key, msg>>
Ed25519Verify(key, msg, sig) == sig = Ed25519Sign(key, msg)

\* 4.7 step 2: SHA-256(0x00 || fw_info_leaf) and SHA-256(0x01 || l || r).
LeafHash(d) == Sha256(<<0>> \o d)
NodeHash(l, rt) == Sha256(<<1, l, rt>>)

\* A firmware-info leaf holds the hash of the vbmeta it describes.
FwInfo(h) == <<"fw_info", h>>
VbmetaHash == Sha256(<<Vbmeta>>)

\* 4.7 step 1: the magic, and the total size over icp_count entries.
HeaderValid(d) ==
  /\ d.header.magic = AFTL_MAGIC
  /\ d.header.icp_count = Len(d.entries) /\ d.header.icp_count >= 1
  /\ d.header.avb_icp_size = IcpHeaderSize + EntriesSize(d.entries, Len(d.entries))

\* The entry's size fields agree with the fixed arrays and with each other.
EntrySizesValid(e) ==
  /\ e.log_root_descriptor.root_hash_size = AFTL_HASH_SIZE
  /\ e.inc_proof_size = e.proof_hash_count * AFTL_HASH_SIZE

\* What proofs[k] reads: past inc_proof_size it is whatever follows.
PastEnd == Sha256(<<"past_end">>)
ProofRead(e, k) == IF k <= Len(e.proofs) THEN e.proofs[k] ELSE PastEnd

\* RFC 9162 2.1.3.2 step 4b: after hashing from the right with fn even,
\* shift fn and sn until fn is odd or zero.
RECURSIVE SkipBorder(_, _)
SkipBorder(f, s) ==
  IF f % 2 = 1 \/ f = 0 THEN <<f, s>> ELSE SkipBorder(f \div 2, s \div 2)

\* Mutant: the right border not skipped.
AdvanceNoSkip(f, s, rt, p) ==
  IF f % 2 = 1 \/ f = s
  THEN <<f \div 2, s \div 2, NodeHash(p, rt)>>
  ELSE <<f \div 2, s \div 2, NodeHash(rt, p)>>

\* One proof hash p: <<fn, sn, r>> after RFC 9162 steps 4b and 4c.
Advance(f, s, rt, p) ==
  IF f % 2 = 1 \/ f = s
  THEN LET b == SkipBorder(f, s) IN <<b[1] \div 2, b[2] \div 2, NodeHash(p, rt)>>
  ELSE <<f \div 2, s \div 2, NodeHash(rt, p)>>

\* Every descriptor given to the verifier has the layout of the header file.
ASSUME \A d \in Descriptors : IsAftlDescriptor(d)

\* Mutant: the loop ends after the first entry.
IsLastEntryFirst(j, d) == j >= 1

\* The entry loop ends after icp_count entries.
IsLastEntry(j, d) == j = Len(d.entries)

VARIABLES
  desc,     \* the descriptor being verified
  pc,       \* the step: header, entry, walk, signature, commit, done
  i,        \* the entry being verified
  fn, sn,   \* the walk's node index and last index
  r,        \* the walk's running hash
  k,        \* the next proof hash to read
  result    \* the verifier's answer, "none" until done

vars == <<desc, pc, i, fn, sn, r, k, result>>

E == desc.entries[i]
LRD == E.log_root_descriptor

Init ==
  /\ desc \in Descriptors
  /\ pc = "header" /\ i = 0 /\ fn = 0 /\ sn = 0 /\ r = <<>> /\ k = 0
  /\ result = "none"

Return(code) == pc' = "done" /\ result' = code

\* 4.7 step 1.
CheckHeader ==
  /\ pc = "header"
  /\ IF HeaderValid(desc)
     THEN pc' = "entry" /\ i' = 1 /\ UNCHANGED result
     ELSE Return("INVALID_METADATA") /\ UNCHANGED i
  /\ UNCHANGED <<desc, fn, sn, r, k>>

\* Parse an entry, copy its root hash, and start the walk (4.7 step 2,
\* RFC 9162 steps 1-3).
ParseEntry ==
  /\ pc = "entry"
  /\ IF ~EntrySizesValid(E)
     THEN Return("INVALID_METADATA") /\ UNCHANGED <<fn, sn, r, k>>
     ELSE IF E.leaf_index >= LRD.tree_size
          THEN Return("INVALID_METADATA") /\ UNCHANGED <<fn, sn, r, k>>
          ELSE /\ fn' = E.leaf_index /\ sn' = LRD.tree_size - 1
               /\ r' = LeafHash(E.fw_info_leaf) /\ k' = 1
               /\ pc' = "walk" /\ UNCHANGED result
  /\ UNCHANGED <<desc, i>>

\* One proof hash of the inclusion path (RFC 9162 step 4; step 4a fails
\* when sn is 0 with proof hashes left).
WalkStep ==
  /\ pc = "walk" /\ k <= E.proof_hash_count
  /\ IF sn = 0
     THEN Return("INVALID_METADATA") /\ UNCHANGED <<fn, sn, r, k>>
     ELSE \E nx \in {Advance(fn, sn, r, ProofRead(E, k))} :
            /\ fn' = nx[1] /\ sn' = nx[2] /\ r' = nx[3] /\ k' = k + 1
            /\ UNCHANGED <<pc, result>>
  /\ UNCHANGED <<desc, i>>

\* 4.7 step 3, RFC 9162 step 5: sn is 0 and the candidate root is the
\* descriptor's root hash.
CompareRoot ==
  /\ pc = "walk" /\ k > E.proof_hash_count
  /\ IF sn = 0 /\ r = LRD.root_hash
     THEN pc' = "signature" /\ UNCHANGED result
     ELSE Return("INVALID_METADATA")
  /\ UNCHANGED <<desc, i, fn, sn, r, k>>

\* 4.7 step 4: the log root signature under the supplied key.
CheckSignature ==
  /\ pc = "signature"
  /\ IF Ed25519Verify(LogKey, LogRootSignedBytes(LRD), E.log_root_signature)
     THEN pc' = "commit" /\ UNCHANGED result
     ELSE Return("VERIFICATION_ERROR")
  /\ UNCHANGED <<desc, i, fn, sn, r, k>>

\* 4.7 step 5: the leaf commits to this vbmeta; then the next entry.
CheckCommit ==
  /\ pc = "commit"
  /\ IF E.fw_info_leaf # FwInfo(VbmetaHash)
     THEN Return("VERIFICATION_ERROR") /\ UNCHANGED i
     ELSE IF IsLastEntry(i, desc)
     THEN Return("OK") /\ UNCHANGED i
     ELSE pc' = "entry" /\ i' = i + 1 /\ UNCHANGED result
  /\ UNCHANGED <<desc, fn, sn, r, k>>

Next ==
  \/ CheckHeader \/ ParseEntry \/ WalkStep \/ CompareRoot
  \/ CheckSignature \/ CheckCommit

Spec == Init /\ [][Next]_vars

-----------------------------------------------------------------------------
(* The log: its leaves, and the roots it signs, one per tree size.         *)

LogLeaves == [n \in 1 .. Len(Log) |-> FwInfo(Sha256(<<Log[n]>>))]

LogRoot(n) ==
  [version |-> 1, tree_size |-> n, root_hash_size |-> AFTL_HASH_SIZE,
   root_hash |-> MTH(Slice(LogLeaves, 0, n)), timestamp |-> n,
   metadata_size |-> 0, metadata |-> <<>>]

LogRoots == {LogRoot(n) : n \in 1 .. Len(Log)}

\* The entry's leaf is this vbmeta's and sits at leaf_index of a tree whose
\* root, with its size, the log signed.
Logged(e) ==
  /\ e.log_root_descriptor \in LogRoots
  /\ e.leaf_index < e.log_root_descriptor.tree_size
  /\ e.fw_info_leaf = LogLeaves[e.leaf_index + 1]
  /\ e.fw_info_leaf = FwInfo(VbmetaHash)

\* An entry a correct log and device produce: logged, sizes that agree,
\* the RFC 6962 audit path and the log's signature.
Honest(e) ==
  /\ Logged(e)
  /\ e.inc_proof_size = e.proof_hash_count * AFTL_HASH_SIZE
  /\ e.proofs = PATH(e.leaf_index,
                     Slice(LogLeaves, 0, e.log_root_descriptor.tree_size))
  /\ e.log_root_signature
       = Ed25519Sign(LogKey, LogRootSignedBytes(e.log_root_descriptor))

\* Soundness (spec 8.7): the verifier answers OK only when every entry's
\* firmware-info leaf, the one committing to this vbmeta, is the leaf at
\* leaf_index of a tree the log signed, with the size the entry claims.
\* This is what the walk, the root comparison and the signature over the
\* log root descriptor establish together.
AcceptedOnlyIfLogged ==
  result = "OK" => \A j \in 1 .. Len(desc.entries) : Logged(desc.entries[j])

\* Completeness (spec 8.7, scenario S6): a well-formed descriptor whose
\* entries carry the RFC 6962 audit path of a logged leaf and the log's
\* signature is accepted, wherever the leaf sits in the tree, on the
\* ragged right edge of a tree whose size is not a power of two included.
HonestProofAccepted ==
  (pc = "done" /\ HeaderValid(desc)
   /\ \A j \in 1 .. Len(desc.entries) : Honest(desc.entries[j]))
    => result = "OK"
================================================================================
