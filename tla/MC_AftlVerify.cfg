\* One-entry descriptors with every leaf, index, log root, signature and
\* proof of up to two hashes (what an attacker can hand the verifier), and
\* descriptors of one and two entries, honest or with size fields that
\* disagree, under headers that agree with them or not.
CONSTANTS
  v1 = v1
  v2 = v2
  OtherKey = OtherKey
  BadMagic = BadMagic
  LogKey = LogKey
  AFTL_MAGIC = AFTL_MAGIC
  Log <- MCLog
  Vbmeta = v1
  Descriptors <- MCDescriptors
SPECIFICATION Spec
INVARIANTS
  AcceptedOnlyIfLogged
  HonestProofAccepted
\* The verifier returns: every behaviour ends with pc = "done".
CHECK_DEADLOCK FALSE
