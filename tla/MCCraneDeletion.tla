--------------------------- MODULE MCCraneDeletion ---------------------------
(***************************************************************************)
(* Instances of CraneDeletion for TLC: every upload is for the crane that  *)
(* is deleted.                                                             *)
(***************************************************************************)
EXTENDS CraneDeletion, TLC

CONSTANT c1

MCCraneOf == [u \in Uploads |-> c1]

Symmetry == Permutations(Uploads)
=============================================================================
