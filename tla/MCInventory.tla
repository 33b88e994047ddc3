---------------------------- MODULE MCInventory ----------------------------
(***************************************************************************)
(* Inventory for TLC: one out, one or two in.                              *)
(***************************************************************************)
EXTENDS Inventory, TLC

MCDeltas == {-1, 1, 2}
WorkerSymmetry == Permutations(Workers)
=============================================================================
