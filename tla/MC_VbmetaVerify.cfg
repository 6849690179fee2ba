\* Verified boot over the vbmeta chain, the rollback commit, IO retries and
\* power loss, under the fairness of the boot path.
CONSTANTS
  Oem = Oem
  User = User
  Rogue = Rogue
  KBoot = KBoot
  KSys = KSys
  KVendor = KVendor
  Parts = {"vbmeta", "boot", "system", "vendor"}
  Locations = {0, 1, 2, 3}
  OpsKeys <- MCOpsKeys
  Configs <- MCConfigs
  Flashable <- MCFlashable
  MaxRollback = 1
  MaxDepth = 2
  MaxRetries = 2
  MaxCrashes = 2
SPECIFICATION Spec
PROPERTIES
  Refinement
  StoredNeverDecreases
  BootCompletes
INVARIANT
  BootedImagesWithinRollback
