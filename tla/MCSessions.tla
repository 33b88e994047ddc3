----------------------------- MODULE MCSessions -----------------------------
(* Two requests at a time on one account. *)
EXTENDS Sessions, TLC

Symmetry == Permutations(Handlers)
=============================================================================
