---------------------------- MODULE MCPhotoReview ----------------------------
(***************************************************************************)
(* Photos 1 to 3; two reports of photo 2 from one address, one of photo 3. *)
(***************************************************************************)
EXTENDS PhotoReview

CONSTANTS r1, r2, r3, ip1

MCPhotoOf == [r \in Requests |-> IF r = r3 THEN 3 ELSE 2]
MCReporterOf == [r \in Requests |-> ip1]
=============================================================================
