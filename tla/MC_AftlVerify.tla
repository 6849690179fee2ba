---------------------------- MODULE MC_AftlVerify ----------------------------
(* The AFTL verifier against a log of three leaves (sizes 1, 2 and 3, the *)
(* last with a ragged right edge), for the vbmeta v1 at leaves 0 and 2.   *)
EXTENDS AftlVerify

CONSTANTS v1, v2, OtherKey, BadMagic

MCLog == <<v1, v2, v1>>

\* A hash nobody computed from the log.
MCForged == Sha256(<<"forged">>)

\* The log's signature over a log root descriptor, and an attacker's.
MCLogSig(l) == Ed25519Sign(LogKey, LogRootSignedBytes(l))
MCOtherSig(l) == Ed25519Sign(OtherKey, LogRootSignedBytes(l))

\* An entry whose size fields agree with what it carries.
MCEntry(leaf, idx, l, sig, proofs) ==
  [log_url_size |-> 24, leaf_index |-> idx, proof_hash_count |-> Len(proofs),
   inc_proof_size |-> Len(proofs) * AFTL_HASH_SIZE, next |-> 0,
   log_url |-> "log", log_root_descriptor |-> l, fw_info_leaf_size |-> 40,
   fw_info_leaf |-> leaf, log_root_sig_size |-> 64,
   log_root_signature |-> sig, proofs |-> proofs]

\* A descriptor whose header counts and sizes its entries.
MCDescriptor(es) ==
  [header |-> [magic |-> AFTL_MAGIC, required_icp_version_major |-> 1,
               required_icp_version_minor |-> 2,
               avb_icp_size |-> IcpHeaderSize + EntriesSize(es, Len(es)),
               icp_count |-> Len(es)],
   entries |-> es]

\* The honest entry for leaf idx of the tree of size n.
MCHonest(idx, n) ==
  MCEntry(LogLeaves[idx + 1], idx, LogRoot(n), MCLogSig(LogRoot(n)),
          PATH(idx, Slice(LogLeaves, 0, n)))

-----------------------------------------------------------------------------
(* Single entries: every leaf, index, log root (the log's, one with the   *)
(* size raised, one with a forged root), signature and proof of up to two *)
(* hashes drawn from the log's subtrees and a forged hash.                *)

MCLeaves == {FwInfo(Sha256(<<v>>)) : v \in {v1, v2}}
MCRoots ==
  LogRoots \cup {[l EXCEPT !.tree_size = l.tree_size + 1] : l \in LogRoots}
           \cup {[LogRoot(3) EXCEPT !.root_hash = MCForged]}
MCSiblings == Subtrees(LogLeaves) \cup {MCForged}
MCProofs ==
  {<<>>} \cup {<<a>> : a \in MCSiblings} \cup {<<a, b>> : a, b \in MCSiblings}

\* The signatures an attacker holds for a root: the log's over each of its
\* roots, and one of its own over this root.
MCSigs(l) == {MCLogSig(x) : x \in LogRoots} \cup {MCOtherSig(l)}

MCSingleDescriptors ==
  UNION {{MCDescriptor(<<MCEntry(leaf, idx, l, sig, pf)>>) :
            sig \in MCSigs(l), pf \in MCProofs} :
         leaf \in MCLeaves, idx \in 0 .. 3, l \in MCRoots}

-----------------------------------------------------------------------------
(* Descriptors of one and two entries from honest entries and entries      *)
(* whose size fields lie, with headers that agree or do not.              *)

MCHonestEntries == {MCHonest(0, 1), MCHonest(0, 2), MCHonest(0, 3), MCHonest(2, 3)}

\* proof_hash_count one above the hashes carried; root_hash_size 33.
MCLyingEntries ==
  {[MCHonest(2, 3) EXCEPT !.proof_hash_count = 2],
   [MCHonest(0, 3) EXCEPT !.log_root_descriptor.root_hash_size = 33],
   [MCHonest(0, 2) EXCEPT !.log_root_signature = MCOtherSig(LogRoot(2))]}

MCEntries == MCHonestEntries \cup MCLyingEntries

MCGoodHeaders ==
  {MCDescriptor(<<a>>) : a \in MCEntries}
    \cup {MCDescriptor(<<a, b>>) : a, b \in MCEntries}

MCMultiDescriptors ==
  MCGoodHeaders
    \cup {[d EXCEPT !.header.magic = BadMagic] : d \in MCGoodHeaders}
    \cup {[d EXCEPT !.header.avb_icp_size = @ + 1] : d \in MCGoodHeaders}
    \cup {[d EXCEPT !.header.icp_count = 1] : d \in MCGoodHeaders}

MCDescriptors == MCSingleDescriptors \cup MCMultiDescriptors
================================================================================
