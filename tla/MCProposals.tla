----------------------------- MODULE MCProposals -----------------------------
(***************************************************************************)
(* Proposals for TLC.  Two of the three people may decide stock movements, *)
(* two may decide settlements, one of them both.                           *)
(***************************************************************************)
EXTENDS Proposals, TLC

CONSTANTS u1, u2, u3

MCCanReview == Stock :> {u1, u2} @@ Match :> {u2, u3}
PayloadSymmetry == Permutations(Payloads)
=============================================================================
