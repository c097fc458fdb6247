------------------------------ MODULE MCOpoHeap ------------------------------
(* Goroutines, objects and places of OpoHeap for TLC. *)
EXTENDS OpoHeap, TLC

Alike == Permutations(Obj) \cup Permutations(Slot)
=============================================================================
