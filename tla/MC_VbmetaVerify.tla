--------------------------- MODULE MC_VbmetaVerify ---------------------------
(* A device of four partitions: vbmeta pins boot, boot pins system; vendor  *)
(* is chained only by one faulty build.  The device starts with a release  *)
(* or a release with one thing wrong, and may be flashed with the releases *)
(* of rollback index 0 and 1 between boots.                                *)
EXTENDS VbmetaVerify, TLC

CONSTANTS Oem, User, Rogue, KBoot, KSys, KVendor

\* The ops trust the OEM key (location 0) and a user-set key.
MCOpsKeys ==
  (Oem :> [location |-> 0, user |-> FALSE]) @@ (User :> [location |-> 0, user |-> TRUE])

Chain(p, l, k) == [partition |-> p, location |-> l, key |-> k]

Image(k, rb, cs) ==
  [key |-> k, alg |-> "SHA256_RSA4096", sig_ok |-> TRUE, rollback |-> rb,
   hashes_ok |-> TRUE, chains |-> cs]

\* A signed release: every image at rollback index v.
Release(v) ==
  [p \in {"vbmeta", "boot", "system", "vendor"} |->
     CASE p = "vbmeta" -> Image(Oem, v, <<Chain("boot", 1, KBoot)>>)
       [] p = "boot"   -> Image(KBoot, v, <<Chain("system", 2, KSys)>>)
       [] p = "system" -> Image(KSys, v, <<>>)
       [] p = "vendor" -> Image(KVendor, v, <<>>)]

B == Release(1)

\* The release, and the release with one image wrong.
MCConfigs ==
  {B,
   [B EXCEPT !.vbmeta.key = User], [B EXCEPT !.vbmeta.key = Rogue],
   [B EXCEPT !.vbmeta.alg = "NONE"], [B EXCEPT !.vbmeta.sig_ok = FALSE],
   [B EXCEPT !.vbmeta.hashes_ok = FALSE], [B EXCEPT !.vbmeta.chains = <<>>],
   [B EXCEPT !.boot.key = Oem], [B EXCEPT !.boot.sig_ok = FALSE],
   [B EXCEPT !.boot.rollback = 0],
   [B EXCEPT !.boot.chains = <<Chain("system", 1, KSys)>>],
   [B EXCEPT !.vbmeta.chains = <<Chain("boot", 0, KBoot)>>, !.boot.rollback = 0],
   [B EXCEPT !.system.hashes_ok = FALSE],
   [B EXCEPT !.system.chains = <<Chain("vendor", 3, KVendor)>>]}

MCFlashable == {Release(0), Release(1)}
================================================================================
