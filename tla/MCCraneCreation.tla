--------------------------- MODULE MCCraneCreation ---------------------------
(***************************************************************************)
(* Four requests on a street: each is near those next to it.  The last one *)
(* overrides the warning.                                                  *)
(***************************************************************************)
EXTENDS CraneCreation

CONSTANTS r1, r2, r3, r4

Street == {<<r1, r2>>, <<r2, r3>>, <<r3, r4>>}

MCNear == {pair \in Requests \X Requests :
             \/ pair[1] = pair[2]
             \/ pair \in Street
             \/ <<pair[2], pair[1]>> \in Street}
=============================================================================
