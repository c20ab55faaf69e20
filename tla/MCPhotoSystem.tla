---------------------------- MODULE MCPhotoSystem ----------------------------
(***************************************************************************)
(* Instances of PhotoSystem for TLC.  The requests of Strays name a crane  *)
(* that does not exist, the others all name the same crane.                *)
(***************************************************************************)
EXTENDS PhotoSystem, TLC

CONSTANTS c1, c2, Strays

MCCraneOf == [u \in Uploads |-> IF u \in Strays THEN c2 ELSE c1]

\* Requests for the same crane that are alike in their speed are interchangeable,
\* and so are workers and admins.
Symmetry ==
  UNION {Permutations(alike) :
           alike \in {SlowUploads \ Strays, Uploads \ (SlowUploads \cup Strays), Workers, Admins}}
=============================================================================
