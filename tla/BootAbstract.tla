----------------------------- MODULE BootAbstract -----------------------------
(***************************************************************************)
(* What verified boot promises (spec.md 4.6, 7, 8.5, 8.6), without the     *)
(* walk.  A boot judges the images in one step: GREEN, or YELLOW for a     *)
(* user key, exactly when the chain deserves it; otherwise RED, or ORANGE  *)
(* on an unlocked device; RED_EIO whenever the storage fails.  After a     *)
(* verified judgement the rollback index of each vbmeta on the chain is    *)
(* written at its location, one location at a time; power may go at any   *)
(* point.                                                                  *)
(***************************************************************************)
EXTENDS Integers, Sequences

CONSTANTS Parts, Locations, OpsKeys, Configs, Flashable, MaxRollback, MaxDepth

VARIABLES
  images,    \* the partitions' contents
  stored,    \* the stored rollback indexes
  unlocked,  \* the device's lock state
  power,     \* "off" or "on"
  verdict,   \* "none" until this boot is judged
  pending    \* locations still to be written after a verified judgement

avars == <<images, stored, unlocked, power, verdict, pending>>

Top == "vbmeta"

\* The first n chain descriptors followed from partition p.
RECURSIVE ChainPath(_, _, _)
ChainPath(imgs, p, n) ==
  IF n = 0 \/ imgs[p].chains = <<>> THEN <<>>
  ELSE <<imgs[p].chains[1]>> \o ChainPath(imgs, imgs[p].chains[1].partition, n - 1)

\* The vbmeta images on the chain (the top-level one first) and the
\* rollback-index location each is checked against.
ChainImages(imgs) ==
  LET path == ChainPath(imgs, Top, MaxDepth + 1)
  IN  <<[img |-> imgs[Top], loc |-> OpsKeys[imgs[Top].key].location]>>
      \o [j \in 1 .. Len(path) |->
            [img |-> imgs[path[j].partition], loc |-> path[j].location]]

\* The images deserve a verified boot against the stored indexes: the top
\* key trusted by the ops, every pinned key matching, every image signed
\* with good hash descriptors and an index at least the stored one, the
\* locations distinct and the chain within depth.
Deserved(imgs, st) ==
  LET path == ChainPath(imgs, Top, MaxDepth + 1)
      c    == ChainImages(imgs)
  IN  /\ imgs[Top].alg # "NONE" /\ imgs[Top].key \in DOMAIN OpsKeys
      /\ Len(path) <= MaxDepth
      /\ \A a, b \in 1 .. Len(c) : a # b => c[a].loc # c[b].loc
      /\ \A j \in 1 .. Len(c) : /\ c[j].img.sig_ok /\ c[j].img.hashes_ok
                                 /\ c[j].img.rollback >= st[c[j].loc]
      /\ \A j \in 1 .. Len(path) : imgs[path[j].partition].key = path[j].key

\* The index to commit at each location of a deserved chain.
Targets(imgs) ==
  LET c == ChainImages(imgs)
  IN  [l \in {c[j].loc : j \in 1 .. Len(c)} |->
         (CHOOSE x \in {c[j] : j \in 1 .. Len(c)} : x.loc = l).img.rollback]

Colour(imgs) == IF OpsKeys[imgs[Top].key].user THEN "YELLOW" ELSE "GREEN"

Refused == {"RED"} \cup (IF unlocked THEN {"ORANGE"} ELSE {})

Init ==
  /\ images \in Configs /\ stored \in [Locations -> 0 .. MaxRollback]
  /\ unlocked \in BOOLEAN /\ power = "off" /\ verdict = "none" /\ pending = {}

PowerOn ==
  /\ power = "off" /\ power' = "on" /\ verdict' = "none" /\ pending' = {}
  /\ UNCHANGED <<images, stored, unlocked>>

Judge ==
  /\ power = "on" /\ verdict = "none"
  /\ \/ verdict' = "RED_EIO" /\ pending' = {}
     \/ /\ Deserved(images, stored)
        /\ verdict' = Colour(images) /\ pending' = DOMAIN Targets(images)
     \/ /\ ~Deserved(images, stored)
        /\ verdict' \in Refused /\ pending' = {}
  /\ UNCHANGED <<images, stored, unlocked, power>>

Commit ==
  /\ power = "on"
  /\ \E l \in pending : /\ stored' = [stored EXCEPT ![l] = Targets(images)[l]]
                        /\ pending' = pending \ {l}
  /\ UNCHANGED <<images, unlocked, power, verdict>>

PowerOff ==
  /\ power = "on" /\ power' = "off"
  /\ UNCHANGED <<images, stored, unlocked, verdict, pending>>

Install ==
  /\ power = "off" /\ images' \in Flashable
  /\ UNCHANGED <<stored, unlocked, power, verdict, pending>>

Next == PowerOn \/ Judge \/ Commit \/ PowerOff \/ Install

\* A boot that stays powered is judged, and its commit completes.
Spec == Init /\ [][Next]_avars /\ WF_avars(Judge) /\ WF_avars(Commit)
================================================================================
