---------------------------- MODULE MCDeployment -----------------------------
(***************************************************************************)
(* Instances of Deployment for TLC: four releases, of which the second and *)
(* the fourth do not answer /health; the second and the third bring        *)
(* revisions.                                                              *)
(***************************************************************************)
EXTENDS Deployment

MCHead == <<4, 6, 7, 7>>
=============================================================================
