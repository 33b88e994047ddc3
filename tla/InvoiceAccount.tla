--------------------------- MODULE InvoiceAccount ---------------------------
(***************************************************************************)
(* What the invoice ledger promises about money, with no log, no snapshot, *)
(* no lock and no request in flight: every accepted operation happens at   *)
(* once, against the balance of that moment.                               *)
(***************************************************************************)
EXTENDS Integers

CONSTANTS
    Invoices,       \* invoice identities
    Sums,           \* sums of money one operation may move
    Settlements,    \* raw settlement records a payment may be backed by
    Cash            \* the backing of a payment with no settlement record

VARIABLES
    total,       \* the issued amount, 0 before issue
    paid,        \* amount_paid
    credited,    \* amount_credited
    cancelled,   \* whether the log holds a cancellation
    collected,   \* the sum of the Payment rows
    spent        \* settlements a Payment row points at

acctVars == <<total, paid, credited, cancelled, collected, spent>>

Balance(i) == total[i] - credited[i] - paid[i]

AcctInit ==
    /\ total = [i \in Invoices |-> 0]
    /\ paid = [i \in Invoices |-> 0]
    /\ credited = [i \in Invoices |-> 0]
    /\ cancelled = [i \in Invoices |-> FALSE]
    /\ collected = [i \in Invoices |-> 0]
    /\ spent = {}

\* create_invoice
Issue(i, amount) ==
    /\ total[i] = 0
    /\ total' = [total EXCEPT ![i] = amount]
    /\ UNCHANGED <<paid, credited, cancelled, collected, spent>>

\* A payment from any of the three settlement paths.  A cancelled invoice
\* still takes the money; its account no longer moves.
Pay(i, amount, source) ==
    /\ amount <= Balance(i)
    /\ source \in Settlements \ spent \/ source = Cash
    /\ paid' = IF cancelled[i] THEN paid ELSE [paid EXCEPT ![i] = @ + amount]
    /\ collected' = [collected EXCEPT ![i] = @ + amount]
    /\ spent' = spent \cup ({source} \ {Cash})
    /\ UNCHANGED <<total, credited, cancelled>>

\* apply_credit_note
Credit(i, amount) ==
    /\ amount <= Balance(i)
    /\ credited' = IF cancelled[i] THEN credited ELSE [credited EXCEPT ![i] = @ + amount]
    /\ UNCHANGED <<total, paid, cancelled, collected, spent>>

\* cancel_invoice
Cancel(i) ==
    /\ total[i] > 0
    /\ cancelled' = [cancelled EXCEPT ![i] = TRUE]
    /\ UNCHANGED <<total, paid, credited, collected, spent>>

AcctNext ==
    \E i \in Invoices :
        \/ \E amount \in Sums :
              \/ Issue(i, amount)
              \/ Credit(i, amount)
              \/ \E source \in Settlements \cup {Cash} : Pay(i, amount, source)
        \/ Cancel(i)

AcctSpec == AcctInit /\ [][AcctNext]_acctVars

-----------------------------------------------------------------------------
(* Properties *)

\* Every sum of the account is a number and the settlements are known ones.
AcctTypeOK ==
    /\ total \in [Invoices -> Nat] /\ paid \in [Invoices -> Nat]
    /\ credited \in [Invoices -> Nat] /\ collected \in [Invoices -> Nat]
    /\ cancelled \in [Invoices -> BOOLEAN]
    /\ spent \subseteq Settlements

\* Cash and credit together never exceed what was invoiced, whatever order
\* record_cash_payment, mark_invoice_paid, apply_reconciled_payment,
\* apply_credit_note and cancel_invoice are called in.
NeverOverCredited == \A i \in Invoices : paid[i] + credited[i] <= total[i]

\* Until an invoice is cancelled, every shilling of amount_paid is backed by a
\* Payment row, and no Payment row is left out of amount_paid; afterwards the
\* rows can only exceed it.
PaidIsCollected ==
    \A i \in Invoices :
        /\ paid[i] <= collected[i]
        /\ ~cancelled[i] => paid[i] = collected[i]

\* Cancellation is terminal for money: once the log holds it, no operation moves
\* amount_paid, amount_credited or the total again, and it is never undone.
CancelledIsFrozen ==
    [][\A i \in Invoices : cancelled[i] =>
          /\ cancelled'[i]
          /\ total'[i] = total[i] /\ paid'[i] = paid[i]
          /\ credited'[i] = credited[i]]_acctVars

=============================================================================
