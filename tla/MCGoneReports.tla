---------------------------- MODULE MCGoneReports ----------------------------
(***************************************************************************)
(* Four reports of one crane, two of them from the same address, and one   *)
(* of a crane that does not exist, with a threshold of two.                *)
(***************************************************************************)
EXTENDS GoneReports

CONSTANTS r1, r2, r3, r4, r5, ip1, ip2, ip3, c1, c2

MCCraneOf == [r \in Requests |-> IF r = r5 THEN c2 ELSE c1]

MCReporterOf ==
  [r \in Requests |-> CASE r \in {r1, r2} -> ip1 [] r = r3 -> ip2 [] OTHER -> ip3]
=============================================================================
