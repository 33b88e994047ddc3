-------------------------- MODULE MCInvoiceLedger --------------------------
(***************************************************************************)
(* InvoiceLedger for TLC: what each settlement is worth, and the symmetry  *)
(* of the workers.                                                         *)
(***************************************************************************)
EXTENDS InvoiceLedger, TLC

\* Every settlement is worth two cents.
MCSettledAmount == [s \in Settlements |-> 2]

\* An operator reopens an invoice, or only sets a paid_at of their own.
MCUpdates == {[status |-> "DRAFT", paid_at |-> 0],
              [status |-> NoStatus, paid_at |-> MaxEvents + 1]}

WorkerSymmetry == Permutations(Workers)
=============================================================================
