---------------------------- MODULE PhotoCatalog ----------------------------
(***************************************************************************)
(* What the life cycle of photos promises to those who read crane_photo:   *)
(* a photo is new, pending_upload, active and pending_delete in that order,*)
(* steps may be left out, and a photo that is gone never comes back.  Many *)
(* pending uploads may be discarded at once, everything else happens to    *)
(* one photo at a time.  PhotoSystem implements this; PhotoReview uses it. *)
(***************************************************************************)
CONSTANT Photos

VARIABLE state   \* the stage each photo is at

CatalogTypeOK ==
  state \in [Photos -> {"new", "pending_upload", "active", "pending_delete", "gone"}]

CatalogInit == state = [p \in Photos |-> "new"]

Move(p, from, to) == state[p] = from /\ state' = [state EXCEPT ![p] = to]

Insert(p) == Move(p, "new", "pending_upload")

\* The upload is refused, or fails before its row is there.
Refuse(p) == Move(p, "new", "gone")

Publish(p) == Move(p, "pending_upload", "active")

Withdraw(p) == Move(p, "active", "pending_delete")

Discard(S) ==
  /\ \A p \in S : state[p] = "pending_upload"
  /\ state' = [p \in Photos |-> IF p \in S THEN "pending_delete" ELSE state[p]]

Remove(p) == Move(p, "pending_delete", "gone")

CatalogNext ==
  \/ \E p \in Photos : Insert(p) \/ Refuse(p) \/ Publish(p) \/ Withdraw(p) \/ Remove(p)
  \/ \E S \in SUBSET Photos : Discard(S)

CatalogSpec == CatalogInit /\ [][CatalogNext]_state
=============================================================================
