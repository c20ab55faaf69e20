--------------------------- MODULE MCCraneQueries ----------------------------
(***************************************************************************)
(* Three cranes: two on the meridian that splits the box, one of them at a *)
(* corner, and one west of it; two were added at the same time.  The boxes *)
(* are the whole, its halves and one that is refused.                      *)
(***************************************************************************)
EXTENDS CraneQueries, TLC

CONSTANTS c1, c2, c3

MCLat == [c \in Cranes |-> IF c = c1 THEN 0 ELSE 1]
MCLng == [c \in Cranes |-> IF c = c1 THEN -1 ELSE 0]
MCAddedAt == [c \in Cranes |-> IF c = c2 THEN 2 ELSE 1]
Symmetry == Permutations(Photos)

MCCraneOf == [p \in Photos |-> c2]

Whole == [north |-> 1, south |-> 0, east |-> 1, west |-> -1]
MCBoxes == {Whole, [Whole EXCEPT !.east = 0], [Whole EXCEPT !.west = 0],
            [Whole EXCEPT !.east = -1]}
=============================================================================
