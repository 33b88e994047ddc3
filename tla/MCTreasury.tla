----------------------------- MODULE MCTreasury -----------------------------
(* One payable, two vaults, two managers. *)
EXTENDS Treasury, TLC

CONSTANTS w1, w2, baraka, chao, cash, mpesa

MCRole == (baraka :> "manager") @@ (chao :> "manager")
Symmetry == Permutations({w1, w2}) \cup Permutations({baraka, chao})
            \cup Permutations({cash, mpesa})
=============================================================================
