----------------------------- MODULE VbmetaVerify -----------------------------
(***************************************************************************)
(* Verified boot over a chain of vbmeta images (spec.md 4.3-4.6, 6.1, 7),  *)
(* and the caller around it: boot, commit the rollback indexes, reboot.   *)
(* The code is not in the repository; every step is modelled from the     *)
(* spec.  An image is abstracted to what the walk decides on: its key,    *)
(* algorithm, whether its signature and hash descriptors check out, its   *)
(* rollback index and its chain descriptor.  The walk verifies one vbmeta *)
(* per step, breadth-first.  Faults: any ops read may fail with IO (the   *)
(* caller retries a bounded number of times), power may be lost at any    *)
(* point of a boot, the commit included, and images may be replaced       *)
(* (updated or flashed back) while the device is off.                     *)
(***************************************************************************)
EXTENDS Integers, Sequences, FiniteSets

CONSTANTS
  Parts,        \* partition names; Top is the top-level vbmeta
  Locations,    \* rollback-index locations
  OpsKeys,      \* validate_vbmeta_public_key: trusted key -> [location, user]
  Configs,      \* the images the device may start with: [Parts -> image]
  Flashable,    \* the image sets that may be installed between boots
  MaxRollback,  \* the largest rollback index in the bounded model
  MaxDepth,     \* the walk's depth bound (32 in spec 4.4)
  MaxRetries,   \* the caller's retries after IO
  MaxCrashes    \* power losses in one behaviour

Top == "vbmeta"
NoLoc == -1

\* A vbmeta image has at most one chain descriptor, and only the top-level
\* image may have algorithm NONE.
ASSUME \A c \in Configs \cup Flashable :
         \A p \in Parts : /\ Len(c[p].chains) <= 1
                          /\ p # Top => c[p].alg # "NONE"

Verified == {"GREEN", "YELLOW"}

VARIABLES
  images,      \* the partitions' contents (persistent)
  stored,      \* the rollback indexes the ops layer holds (persistent)
  unlocked,    \* read_is_device_unlocked()
  allowErr,    \* the caller's ALLOW_VERIFICATION_ERROR flag
  phase,       \* off, walk, io_error, commit, booted, halted
  queue,       \* vbmetas still to verify: [partition, location, key, depth]
  seen,        \* rollback-index locations the walk has met
  walked,      \* <<partition, location>> of every vbmeta verified
  errors,      \* error codes recorded, in order
  intended,    \* rollback value to commit per location, NoLoc for none
  unverified,  \* the top-level vbmeta has algorithm NONE
  userKey,     \* the ops predicate called the top-level key user-supplied
  bootState,   \* the verified-boot state of the last decision
  toCommit,    \* locations the caller has still to write
  retries,     \* retries after IO in this boot
  crashes      \* power losses so far

vars == <<images, stored, unlocked, allowErr, phase, queue, seen, walked,
          errors, intended, unverified, userKey, bootState, toCommit,
          retries, crashes>>
walkVars == <<queue, seen, walked, errors, intended, unverified, userKey>>

\* Mutant: the rollback_indexes[] of the result zero-filled.
NoIntentZero == [l \in Locations |-> 0]

\* No intended rollback value yet.
NoIntent == [l \in Locations |-> NoLoc]

TopEntry == [partition |-> Top, location |-> NoLoc, key |-> "ops", depth |-> 0]

\* A walk from the top-level vbmeta, for a boot or a retry.
StartWalk ==
  /\ phase' = "walk" /\ queue' = <<TopEntry>> /\ seen' = {} /\ walked' = {}
  /\ errors' = <<>> /\ intended' = NoIntent /\ unverified' = FALSE
  /\ userKey' = FALSE /\ bootState' = "none" /\ toCommit' = {}

\* 4.3 step 3: the ops predicate gives the top-level location; a chained
\* vbmeta has the location of its chain descriptor.
HeadLocation(h, img) ==
  IF h.partition # Top THEN h.location
  ELSE IF img.alg # "NONE" /\ img.key \in DOMAIN OpsKeys
       THEN OpsKeys[img.key].location ELSE NoLoc

\* Mutant: a chained key accepted when the ops predicate trusts it.
KeyRejectedByOps(h, img) ==
  img.alg # "NONE" /\ img.key \notin DOMAIN OpsKeys

\* 4.3 step 3 and 4.4: the top-level key must be trusted by the ops
\* predicate; a chained key must equal the pinned key bit for bit.
KeyRejected(h, img) ==
  IF h.partition = Top THEN img.alg # "NONE" /\ img.key \notin DOMAIN OpsKeys
  ELSE img.key # h.key

\* The locations met, with the top-level one once it is known.
TopSeen(h, loc, s) == IF h.partition = Top /\ loc # NoLoc THEN s \cup {loc} ELSE s

\* 4.4: a chain descriptor whose location was met, or one level too deep.
ChainBad(h, c, s) == c.location \in s \/ h.depth + 1 > MaxDepth

\* 4.3 steps 3-5, 4.5 hash descriptors and 4.4 chain checks, in order.
VbmetaErrors(h, img, loc, s) ==
  (IF KeyRejected(h, img) THEN <<"PUBLIC_KEY_REJECTED">> ELSE <<>>)
  \o (IF img.alg # "NONE" /\ ~img.sig_ok THEN <<"VERIFICATION_ERROR">> ELSE <<>>)
  \o (IF loc # NoLoc /\ stored[loc] > img.rollback THEN <<"ROLLBACK_INDEX">> ELSE <<>>)
  \o (IF ~img.hashes_ok THEN <<"VERIFICATION_ERROR">> ELSE <<>>)
  \o (IF \E j \in 1 .. Len(img.chains) : ChainBad(h, img.chains[j], s)
      THEN <<"INVALID_METADATA">> ELSE <<>>)

\* The children to verify: the chain descriptors that pass 4.4.
Children(h, img) ==
  [j \in 1 .. Len(img.chains) |->
     [partition |-> img.chains[j].partition, location |-> img.chains[j].location,
      key |-> img.chains[j].key, depth |-> h.depth + 1]]

GoodChildren(h, img, s) ==
  SelectSeq(Children(h, img), LAMBDA c : ~ChainBad(h, c, s))

\* Verify the vbmeta at the head of the queue.  Without
\* ALLOW_VERIFICATION_ERROR its first error ends the boot (7); with it, the
\* errors are recorded and the walk goes on (4.4).
VerifyHead ==
  /\ phase = "walk" /\ queue # <<>>
  /\ \E h \in {Head(queue)} : \E img \in {images[h.partition]} :
     \E loc \in {HeadLocation(h, img)} : \E s \in {TopSeen(h, loc, seen)} :
     \E errs \in {VbmetaErrors(h, img, loc, s)} :
       IF errs # <<>> /\ ~allowErr
       THEN /\ errors' = errs /\ bootState' = "RED" /\ phase' = "halted"
            /\ UNCHANGED <<queue, seen, walked, intended, unverified, userKey>>
       ELSE /\ queue' = Tail(queue) \o GoodChildren(h, img, s)
            /\ seen' = s \cup {img.chains[j].location : j \in 1 .. Len(img.chains)}
            /\ walked' = IF loc = NoLoc THEN walked ELSE walked \cup {<<h.partition, loc>>}
            /\ errors' = errors \o errs
            /\ intended' = IF loc = NoLoc \/ stored[loc] > img.rollback THEN intended
                           ELSE [intended EXCEPT ![loc] =
                                   IF @ > img.rollback THEN @ ELSE img.rollback]
            /\ unverified' = (unverified \/ (h.partition = Top /\ img.alg = "NONE"))
            /\ userKey' = (userKey \/ (h.partition = Top /\ loc # NoLoc
                                       /\ OpsKeys[img.key].user))
            /\ UNCHANGED <<phase, bootState>>
  /\ UNCHANGED <<images, stored, unlocked, allowErr, toCommit, retries, crashes>>

\* 4.6 and 7: the verified-boot state of a finished walk.
Verdict ==
  IF errors = <<>> /\ ~unverified
  THEN IF userKey THEN "YELLOW" ELSE "GREEN"
  ELSE IF unlocked THEN "ORANGE" ELSE "RED"

\* The walk is done: boot, committing the rollback indexes when verified.
Decide ==
  /\ phase = "walk" /\ queue = <<>>
  /\ bootState' = Verdict
  /\ toCommit' = IF Verdict \in Verified
                 THEN {l \in Locations : intended[l] # NoLoc} ELSE {}
  /\ phase' = IF Verdict \in Verified THEN "commit"
              ELSE IF Verdict = "ORANGE" THEN "booted" ELSE "halted"
  /\ UNCHANGED <<images, stored, unlocked, allowErr, walkVars, retries, crashes>>

\* Some ops read fails with IO (6.1); the walk stops.
IoError ==
  /\ phase = "walk" /\ phase' = "io_error"
  /\ UNCHANGED <<images, stored, unlocked, allowErr, walkVars, bootState,
                 toCommit, retries, crashes>>

\* Mutant: the retry not counted.
RetriesSame(n) == n

RetriesNext(n) == n + 1

\* 7: IO is recoverable; the caller verifies again.
Retry ==
  /\ phase = "io_error" /\ retries < MaxRetries
  /\ StartWalk /\ retries' = RetriesNext(retries)
  /\ UNCHANGED <<images, stored, unlocked, allowErr, crashes>>

\* 7: persistent IO escalates to RED_EIO.
GiveUp ==
  /\ phase = "io_error" /\ retries >= MaxRetries
  /\ bootState' = "RED_EIO" /\ phase' = "halted"
  /\ UNCHANGED <<images, stored, unlocked, allowErr, walkVars, toCommit,
                 retries, crashes>>

\* Mutant: one running maximum written to every location.
CommitOneMax ==
  /\ phase = "commit" /\ toCommit # {}
  /\ \E l \in toCommit :
       /\ \A m \in toCommit : l <= m
       /\ stored' = [stored EXCEPT ![l] =
                      CHOOSE v \in {intended[x] : x \in toCommit} :
                        \A x \in toCommit : intended[x] <= v]
       /\ toCommit' = toCommit \ {l}
  /\ UNCHANGED <<images, unlocked, allowErr, phase, walkVars, bootState,
                 retries, crashes>>

\* write_rollback_index for the lowest location left (6.1).
CommitOne ==
  /\ phase = "commit" /\ toCommit # {}
  /\ \E l \in toCommit :
       /\ \A m \in toCommit : l <= m
       /\ stored' = [stored EXCEPT ![l] = intended[l]]
       /\ toCommit' = toCommit \ {l}
  /\ UNCHANGED <<images, unlocked, allowErr, phase, walkVars, bootState,
                 retries, crashes>>

FinishCommit ==
  /\ phase = "commit" /\ toCommit = {} /\ phase' = "booted"
  /\ UNCHANGED <<images, stored, unlocked, allowErr, walkVars, bootState,
                 toCommit, retries, crashes>>

\* Power on: a boot from the top-level vbmeta.
PowerOn ==
  /\ phase = "off" /\ StartWalk /\ retries' = 0
  /\ UNCHANGED <<images, stored, unlocked, allowErr, crashes>>

\* Power lost during a boot: what is not persistent is gone.
Crash ==
  /\ phase \in {"walk", "io_error", "commit", "booted"} /\ crashes < MaxCrashes
  /\ phase' = "off" /\ crashes' = crashes + 1
  /\ UNCHANGED <<images, stored, unlocked, allowErr, walkVars, bootState,
                 toCommit, retries>>

Shutdown ==
  /\ phase \in {"booted", "halted"} /\ phase' = "off"
  /\ UNCHANGED <<images, stored, unlocked, allowErr, walkVars, bootState,
                 toCommit, retries, crashes>>

\* New images while the device is off: an update, or older signed images
\* flashed back.
Install ==
  /\ phase = "off" /\ images' \in Flashable
  /\ UNCHANGED <<stored, unlocked, allowErr, phase, walkVars, bootState,
                 toCommit, retries, crashes>>

Init ==
  /\ images \in Configs
  /\ stored \in [Locations -> 0 .. MaxRollback]
  /\ unlocked \in BOOLEAN /\ allowErr \in BOOLEAN
  /\ phase = "off" /\ queue = <<>> /\ seen = {} /\ walked = {}
  /\ errors = <<>> /\ intended = NoIntent /\ unverified = FALSE
  /\ userKey = FALSE /\ bootState = "none" /\ toCommit = {}
  /\ retries = 0 /\ crashes = 0

Next ==
  \/ VerifyHead \/ Decide \/ IoError \/ Retry \/ GiveUp
  \/ CommitOne \/ FinishCommit \/ PowerOn \/ Crash \/ Shutdown \/ Install

\* The boot path is sequential code: a step it can take is taken.  Power,
\* IO faults, installs and shutdown get no fairness.
Spec ==
  /\ Init /\ [][Next]_vars
  /\ WF_vars(VerifyHead) /\ WF_vars(Decide) /\ WF_vars(Retry)
  /\ WF_vars(GiveUp) /\ WF_vars(CommitOne) /\ WF_vars(FinishCommit)

-----------------------------------------------------------------------------
(* The walk implements the promise of BootAbstract: the walk, its retries *)
(* and the end of the commit are stuttering steps of one judgement.        *)

Abs == INSTANCE BootAbstract
         WITH power <- IF phase = "off" THEN "off" ELSE "on",
              verdict <- IF phase \in {"walk", "io_error"} THEN "none" ELSE bootState,
              pending <- toCommit

-----------------------------------------------------------------------------
(* Properties *)

\* The device behaves as BootAbstract says: each boot is judged once,
\* GREEN (YELLOW for a user key) exactly when the chain deserves it
\* (every vbmeta signed by the key its parent pins, the top one by a key
\* the ops trust, hashes good, indexes at least the stored ones, locations
\* distinct, depth within bound), and what the caller commits is, at each
\* location of the chain, the index of the vbmeta checked there.
Refinement == Abs!Spec

\* After a verified boot has committed, none of the vbmetas it booted is
\* below the index now stored at its location: the next boot of the same
\* images is not refused as a rollback (the commit never bricks).
BootedImagesWithinRollback ==
  phase = "booted" /\ bootState \in Verified =>
    \A w \in walked : images[w[1]].rollback >= stored[w[2]]

\* No step, the commit interrupted by power loss included, lowers a stored
\* rollback index.
StoredNeverDecreases ==
  [][\A l \in Locations : stored'[l] >= stored[l]]_stored

\* A walk that starts ends: the device boots, halts, or loses power, even
\* when IO fails on every attempt.
BootCompletes == phase = "walk" ~> phase \in {"booted", "halted", "off"}
================================================================================
