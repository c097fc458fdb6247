------------------------------ MODULE MCOpoMap ------------------------------
(* Keys that collide, at the end of the table too, for OpoMap. *)
EXTENDS OpoMap, TLC

CONSTANTS k1, k2, k3, k4, k5

FiveKeys == {k1, k2, k3, k4, k5}
FourComparable == {k1, k2, k3, k4}

\* in a table of 4: homes 3, 3, 3, 2, 0; in a table of 8: homes 3, 7, 7, 6, 0
Collisions == k1 :> 3 @@ k2 :> 7 @@ k3 :> 15 @@ k4 :> 6 @@ k5 :> 8
=============================================================================
