--------------------------- MODULE InvoiceLedger ---------------------------
(***************************************************************************)
(* The event-sourced invoice of finance/service.py and finance/events.py:  *)
(* an append-only event log, a materialised row projected from it, a       *)
(* snapshot cache that shortens the fold, and the Payment rows behind it.  *)
(* A transaction is two steps: the read of the invoice (with a row lock    *)
(* when the code says FOR UPDATE) and everything up to its commit.         *)
(* Money is counted in cents.                                              *)
(***************************************************************************)
EXTENDS Integers, Sequences, FiniteSets, FiniteSetsExt

CONSTANTS
    Invoices,          \* invoice identities
    Workers,           \* requests and agent runs in flight at once
    Totals,            \* totals an invoice may be issued for
    Amounts,           \* amounts an operator may enter
    Settlements,       \* raw M-Pesa transactions and bank lines
    SettledAmount,     \* what each settlement is worth
    Updates,           \* bodies an operator may send to update_invoice
    Emailable,         \* invoices whose customer has an e-mail address
    SnapshotInterval,  \* SNAPSHOT_INTERVAL
    MaxEvents,         \* bound on the length of an event log
    MaxResends,        \* bound on the resends of one invoice
    NoOne              \* no worker, no settlement

InvoiceStatus ==
    {"DRAFT", "SENT", "OVERDUE", "PARTIALLY_PAID", "PAID", "CANCELLED"}

Absent == [status |-> "ABSENT"]

NoStatus == "none"

LockingOps == {"send", "mark_paid", "credit", "cancel", "cash", "reconcile"}

UnlockedOps == {"update", "resend"}

\* InvoiceUpdate: the fields an operator may overwrite, unset ones excluded.
InvoiceUpdate ==
    [status : InvoiceStatus \cup {NoStatus}, paid_at : {0, MaxEvents + 1}]

ASSUME LedgerAssumption ==
    /\ Totals \subseteq Nat \ {0}
    /\ Amounts \subseteq Nat \ {0}
    /\ SettledAmount \in [Settlements -> Nat \ {0}]
    /\ Emailable \subseteq Invoices
    /\ SnapshotInterval \in Nat \ {0}
    /\ MaxEvents \in Nat /\ MaxResends \in Nat
    /\ NoOne \notin Workers \cup Settlements
    /\ Updates \subseteq InvoiceUpdate

VARIABLES
    row,          \* the invoices table
    log,          \* invoice_events, in sequence order
    snapshot,     \* the latest row of invoice_snapshots
    payments,     \* the payments table, in order of insertion
    reconciled,   \* settlements whose is_reconciled is TRUE
    outbox,       \* outbox_events written by these handlers
    mail,         \* email_outbox, by idempotency key
    lock,         \* row lock on each invoice
    txn           \* what each worker is in the middle of

vars == <<row, log, snapshot, payments, reconciled, outbox, mail, lock, txn>>

Idle == [op |-> "idle"]

-----------------------------------------------------------------------------
(* events.py: the fold *)

\* _Acc: timestamps are the sequence number of the event that carries them.
Acc0 == [total |-> 0, amount_paid |-> 0, credited |-> 0, last_payment_at |-> 0,
         issued |-> FALSE, cancelled |-> FALSE, count |-> 0, sequence |-> 0]

\* Mutant: a cancelled invoice still takes payments and credits.
ApplyThawed(acc, e) ==
    LET seen == [acc EXCEPT !.count = @ + 1, !.sequence = Max({@, e.sequence})]
    IN CASE e.type = "issued" -> [seen EXCEPT !.total = e.amount, !.issued = TRUE]
         [] e.type = "payment" ->
              [seen EXCEPT !.amount_paid = @ + e.amount, !.last_payment_at = e.sequence]
         [] e.type = "credit" -> [seen EXCEPT !.credited = @ + e.amount]
         [] e.type = "cancelled" -> [seen EXCEPT !.cancelled = TRUE]

\* _apply
Apply(acc, e) ==
    LET seen == [acc EXCEPT !.count = @ + 1,
                            !.sequence = Max({@, e.sequence})]
    IN CASE acc.cancelled -> seen
         [] ~acc.cancelled /\ e.type = "issued" ->
              [seen EXCEPT !.total = e.amount, !.issued = TRUE]
         [] ~acc.cancelled /\ e.type = "payment" ->
              [seen EXCEPT !.amount_paid = @ + e.amount,
                           !.last_payment_at = e.sequence]
         [] ~acc.cancelled /\ e.type = "credit" ->
              [seen EXCEPT !.credited = @ + e.amount]
         [] ~acc.cancelled /\ e.type = "cancelled" ->
              [seen EXCEPT !.cancelled = TRUE]

\* _finalize: NoStatus means that the fold does not own the status.
Finalize(acc) ==
    LET balance == acc.total - acc.credited - acc.amount_paid
        status  == IF acc.cancelled THEN "CANCELLED"
                   ELSE IF acc.amount_paid <= 0 THEN NoStatus
                   ELSE IF balance <= 0 THEN "PAID" ELSE "PARTIALLY_PAID"
    IN [acc |-> acc, balance_due |-> balance, payment_status |-> status,
        paid_at |-> IF status = "PAID" THEN acc.last_payment_at ELSE 0]

\* Mutant: a snapshot that forgets when the last payment was made.
AccFromStateForgetful(state) == [state.acc EXCEPT !.last_payment_at = 0]

\* _acc_from_state: what a snapshot carries back into the fold.
AccFromState(state) == state.acc

\* The loop of _fold over the events numbered beyond `sequence': the accumulator
\* after each of them.
Folds(acc, sequence, events) ==
    LET to[n \in 0 .. Len(events)] ==
          IF n = 0 THEN acc
          ELSE IF events[n].sequence > sequence THEN Apply(to[n - 1], events[n])
          ELSE to[n - 1]
    IN to

\* _fold
Fold(acc, sequence, events) == Folds(acc, sequence, events)[Len(events)]

\* fold_invoice_events
FoldInvoiceEvents(events) == Finalize(Fold(Acc0, 0, events))

\* fold_from_snapshot, with list_after_sequence for the tail
FoldFromSnapshot(base, sequence, events) ==
    Finalize(Fold(AccFromState(base), sequence, events))

NoSnapshot == [sequence |-> 0, state |-> Finalize(Acc0)]

-----------------------------------------------------------------------------
(* service.py: projection *)

NextSequence(i) == Max({0} \cup {log[i][k].sequence : k \in DOMAIN log[i]}) + 1

\* Mutant: the tail starts at the snapshot's own event.
DerivedOverlap(i, events) ==
    IF snapshot[i] = NoSnapshot THEN FoldInvoiceEvents(events)
    ELSE FoldFromSnapshot(snapshot[i].state, snapshot[i].sequence - 1, events)

\* The state _project_invoice_from_events derives once `events' is the log.
Derived(i, events) ==
    IF snapshot[i] = NoSnapshot THEN FoldInvoiceEvents(events)
    ELSE FoldFromSnapshot(snapshot[i].state, snapshot[i].sequence, events)

\* _maybe_snapshot
MaybeSnapshot(i, state) ==
    IF state.acc.count = 0 \/ state.acc.count % SnapshotInterval # 0
         \/ (snapshot[i] # NoSnapshot /\ snapshot[i].sequence >= state.acc.sequence)
    THEN snapshot
    ELSE [snapshot EXCEPT ![i] = [sequence |-> state.acc.sequence, state |-> state]]

\* The row r once `state' is applied to it: a status the fold does not own, and
\* the paid_at beside it, stay as they are.
Projected(r, state) ==
    LET owned == state.payment_status # NoStatus
    IN [status |-> IF owned THEN state.payment_status ELSE r.status,
        total |-> r.total,
        amount_paid |-> state.acc.amount_paid,
        amount_credited |-> state.acc.credited,
        balance_due |-> state.balance_due,
        paid_at |-> IF owned THEN state.paid_at ELSE r.paid_at]

\* Append one event to the log of i and re-project the row.
AppendAndProject(i, type, amount) ==
    LET events == Append(log[i], [sequence |-> NextSequence(i),
                                  type |-> type, amount |-> amount])
        state  == Derived(i, events)
    IN /\ Len(log[i]) < MaxEvents
       /\ log' = [log EXCEPT ![i] = events]
       /\ row' = [row EXCEPT ![i] = Projected(row[i], state)]
       /\ snapshot' = MaybeSnapshot(i, state)

-----------------------------------------------------------------------------
(* Transactions *)

Init ==
    /\ row = [i \in Invoices |-> Absent]
    /\ log = [i \in Invoices |-> <<>>]
    /\ snapshot = [i \in Invoices |-> NoSnapshot]
    /\ payments = <<>> /\ reconciled = {} /\ outbox = {} /\ mail = {}
    /\ lock = [i \in Invoices |-> NoOne]
    /\ txn = [w \in Workers |-> Idle]

\* create_invoice: a taken invoice number is a ConflictError.
CreateInvoice(i, total) ==
    /\ row[i] = Absent
    /\ row' = [row EXCEPT ![i] =
                 [status |-> "DRAFT", total |-> total, amount_paid |-> 0,
                  amount_credited |-> 0, balance_due |-> total, paid_at |-> 0]]
    /\ log' = [log EXCEPT ![i] =
                 <<[sequence |-> 1, type |-> "issued", amount |-> total]>>]
    /\ outbox' = outbox \cup {<<"finance.invoice.created", i, 1>>}
    /\ UNCHANGED <<snapshot, payments, reconciled, mail, lock, txn>>

\* Mutant: the handler reads the invoice without FOR UPDATE.
GetUnlocked(w, op, i, arg) ==
    /\ txn[w] = Idle
    /\ row[i] # Absent
    /\ txn' = [txn EXCEPT ![w] = [op |-> op, inv |-> i, arg |-> arg,
                                  seen |-> row[i]]]
    /\ UNCHANGED <<row, log, snapshot, payments, reconciled, outbox, mail, lock>>

\* get_by_id_for_update: the read that opens a locking handler.
GetForUpdate(w, op, i, arg) ==
    /\ txn[w] = Idle
    /\ row[i] # Absent
    /\ lock[i] = NoOne
    /\ lock' = [lock EXCEPT ![i] = w]
    /\ txn' = [txn EXCEPT ![w] = [op |-> op, inv |-> i, arg |-> arg,
                                  seen |-> row[i]]]
    /\ UNCHANGED <<row, log, snapshot, payments, reconciled, outbox, mail>>

\* get_by_id: the plain read of update_invoice and of resend_invoice.
GetById(w, op, i, arg) ==
    /\ txn[w] = Idle
    /\ row[i] # Absent
    /\ txn' = [txn EXCEPT ![w] = [op |-> op, inv |-> i, arg |-> arg,
                                  seen |-> row[i]]]
    /\ UNCHANGED <<row, log, snapshot, payments, reconciled, outbox, mail, lock>>

\* The end of a transaction: its worker is free and so is the row it locked.
Release(w) ==
    /\ txn' = [txn EXCEPT ![w] = Idle]
    /\ lock' = [i \in Invoices |-> IF lock[i] = w THEN NoOne ELSE lock[i]]

\* An early return, an exception, a violated constraint or a crash.
Rollback(w) ==
    /\ txn[w] # Idle
    /\ Release(w)
    /\ UNCHANGED <<row, log, snapshot, payments, reconciled, outbox, mail>>

\* send_invoice: only a draft; the e-mail key makes the send idempotent.
SendInvoice(w) ==
    LET t == txn[w] IN
    /\ t.op = "send"
    /\ t.seen.status = "DRAFT"
    /\ row' = [row EXCEPT ![t.inv].status = "SENT"]
    /\ mail' = IF t.inv \in Emailable
               THEN mail \cup {<<"invoice_sent", t.inv, 0>>} ELSE mail
    /\ Release(w)
    /\ UNCHANGED <<log, snapshot, payments, reconciled, outbox>>

\* resend_invoice: a fresh key each time, status checked on the plain read.
ResendInvoice(w) ==
    LET t == txn[w]
        sent == {m \in mail : m[1] = "invoice_resent" /\ m[2] = t.inv}
    IN /\ t.op = "resend"
       /\ t.seen.status \notin {"DRAFT", "CANCELLED"}
       /\ Cardinality(sent) < MaxResends
       /\ mail' = IF t.inv \in Emailable
                  THEN mail \cup {<<"invoice_resent", t.inv, Cardinality(sent) + 1>>}
                  ELSE mail
       /\ Release(w)
       /\ UNCHANGED <<row, log, snapshot, payments, reconciled, outbox>>

\* The row r after an edit u made on the plain read `seen': unset fields, and a
\* status equal to the one read, are not written.
Edited(r, seen, u) ==
    [status |-> IF u.status \in {NoStatus, seen.status} THEN r.status ELSE u.status,
     total |-> r.total, amount_paid |-> r.amount_paid,
     amount_credited |-> r.amount_credited, balance_due |-> r.balance_due,
     paid_at |-> IF u.paid_at = 0 THEN r.paid_at ELSE u.paid_at]

\* update_invoice: only the columns that differ from the plain read are written,
\* and the UPDATE waits for the row lock.
UpdateInvoice(w) ==
    LET t == txn[w] IN
    /\ t.op = "update"
    /\ lock[t.inv] = NoOne
    /\ row' = [row EXCEPT ![t.inv] = Edited(row[t.inv], t.seen, t.arg)]
    /\ Release(w)
    /\ UNCHANGED <<log, snapshot, payments, reconciled, outbox, mail>>

\* What the three settlement handlers share: Payment row, event, projection.
Settle(i, amount, source) ==
    /\ AppendAndProject(i, "payment", amount)
    /\ payments' = Append(payments, [inv |-> i, amount |-> amount, source |-> source])

\* _enqueue_payment_receipt, keyed by the payment
Receipt(i) == IF i \in Emailable THEN {<<"receipt", i, NextSequence(i)>>} ELSE {}

\* record_cash_payment
RecordCashPayment(w) ==
    LET t == txn[w] IN
    /\ t.op = "cash"
    /\ t.seen.balance_due >= t.arg
    /\ Settle(t.inv, t.arg, NoOne)
    /\ outbox' = outbox \cup {<<"payments.cash_recorded", t.inv, NextSequence(t.inv)>>}
    /\ mail' = mail \cup Receipt(t.inv)
    /\ Release(w)
    /\ UNCHANGED reconciled

\* mark_invoice_paid: a no-op commit when nothing is outstanding.
MarkInvoicePaid(w) ==
    LET t == txn[w] IN
    /\ t.op = "mark_paid"
    /\ IF t.seen.balance_due > 0
       THEN Settle(t.inv, t.seen.balance_due, NoOne)
       ELSE UNCHANGED <<row, log, snapshot, payments>>
    /\ Release(w)
    /\ UNCHANGED <<reconciled, outbox, mail>>

\* Mutant: nothing makes the settlement of a payment unique.
ApplyRepeatedly(w) ==
    LET t == txn[w]
        applied == Min({SettledAmount[t.arg], t.seen.balance_due})
    IN /\ t.op = "reconcile"
       /\ applied > 0
       /\ Settle(t.inv, applied, t.arg)
       /\ reconciled' = reconciled \cup {t.arg}
       /\ outbox' = outbox \cup {<<"payments.reconciled", t.inv, NextSequence(t.inv)>>}
       /\ mail' = mail \cup Receipt(t.inv)
       /\ Release(w)

\* apply_reconciled_payment: clamped to the balance; payments.mpesa_trans_id and
\* payments.bank_line_id are UNIQUE, so a spent settlement aborts.
ApplyReconciledPayment(w) ==
    LET t == txn[w]
        applied == Min({SettledAmount[t.arg], t.seen.balance_due})
    IN /\ t.op = "reconcile"
       /\ applied > 0
       /\ \A k \in DOMAIN payments : payments[k].source # t.arg
       /\ Settle(t.inv, applied, t.arg)
       /\ reconciled' = reconciled \cup {t.arg}
       /\ outbox' = outbox \cup {<<"payments.reconciled", t.inv, NextSequence(t.inv)>>}
       /\ mail' = mail \cup Receipt(t.inv)
       /\ Release(w)

\* apply_credit_note
ApplyCreditNote(w) ==
    LET t == txn[w] IN
    /\ t.op = "credit"
    /\ t.seen.status # "CANCELLED"
    /\ t.arg <= t.seen.balance_due
    /\ AppendAndProject(t.inv, "credit", t.arg)
    /\ Release(w)
    /\ UNCHANGED <<payments, reconciled, outbox, mail>>

\* cancel_invoice
CancelInvoice(w) ==
    LET t == txn[w] IN
    /\ t.op = "cancel"
    /\ t.seen.status \notin {"CANCELLED", "PAID"}
    /\ AppendAndProject(t.inv, "cancelled", 0)
    /\ Release(w)
    /\ UNCHANGED <<payments, reconciled, outbox, mail>>

\* The requests a worker may start, with their arguments.  An operator's own
\* paid_at is a time stamp that no event carries.
Start(w) ==
    \E i \in Invoices :
        \/ \E op \in {"send", "mark_paid", "cancel"} : GetForUpdate(w, op, i, 0)
        \/ \E op \in {"cash", "credit"}, a \in Amounts : GetForUpdate(w, op, i, a)
        \/ \E s \in Settlements : GetForUpdate(w, "reconcile", i, s)
        \/ \E u \in Updates : GetById(w, "update", i, u)
        \/ GetById(w, "resend", i, 0)

Next ==
    \/ \E i \in Invoices, t \in Totals : CreateInvoice(i, t)
    \/ \E w \in Workers :
        \/ Start(w)
        \/ SendInvoice(w) \/ ResendInvoice(w) \/ UpdateInvoice(w)
        \/ RecordCashPayment(w) \/ MarkInvoicePaid(w) \/ ApplyReconciledPayment(w)
        \/ ApplyCreditNote(w) \/ CancelInvoice(w)
        \/ Rollback(w)

Spec == Init /\ [][Next]_vars

-----------------------------------------------------------------------------
(* Properties *)

Issued(i) == row[i] # Absent

Cancelled(i) == \E k \in DOMAIN log[i] : log[i][k].type = "cancelled"

\* What the first rows of a payments table add up to for the invoice i.
Collections(i, table) ==
    LET to[n \in 0 .. Len(table)] ==
          IF n = 0 THEN 0
          ELSE to[n - 1] + (IF table[n].inv = i THEN table[n].amount ELSE 0)
    IN to

Collected(i) == Collections(i, payments)[Len(payments)]

TxnOK(t) ==
    /\ t.op \in LockingOps \cup UnlockedOps
    /\ t.inv \in Invoices
    /\ t.seen.status \in InvoiceStatus
    /\ t.op \in {"cash", "credit"} => t.arg \in Amounts
    /\ t.op = "reconcile" => t.arg \in Settlements
    /\ t.op = "update" => t.arg \in Updates

\* The shape of the tables and of the requests in flight.
TypeOK ==
    /\ \A i \in Invoices : Issued(i) => row[i].status \in InvoiceStatus
    /\ lock \in [Invoices -> Workers \cup {NoOne}]
    /\ \A w \in Workers : txn[w] = Idle \/ TxnOK(txn[w])
    /\ reconciled \subseteq Settlements

\* What a handler that holds the row lock read is still what the row says when
\* the handler validates and writes, and it is the only one holding that lock:
\* get_by_id_for_update serialises the handlers against each other and against
\* the unlocked update_invoice.
LockedReadIsCurrent ==
    \A w \in Workers :
        txn[w].op \in LockingOps =>
            /\ lock[txn[w].inv] = w
            /\ txn[w].seen = row[txn[w].inv]

\* The materialised money columns equal the fold of the whole log, although the
\* projection resumes from a snapshot, the log is numbered without a gap, and the
\* snapshot holds the fold of the log up to its sequence: it is a pure cache.
RowEqualsFold ==
    \A i \in Invoices : Issued(i) =>
        LET state == FoldInvoiceEvents(log[i]) IN
        /\ \A k \in DOMAIN log[i] : log[i][k].sequence = k
        /\ row[i].total = state.acc.total
        /\ row[i].amount_paid = state.acc.amount_paid
        /\ row[i].amount_credited = state.acc.credited
        /\ row[i].balance_due = state.balance_due
        /\ snapshot[i] # NoSnapshot =>
            snapshot[i].state = FoldInvoiceEvents(SubSeq(log[i], 1, snapshot[i].sequence))

\* A settlement record backs at most one payment, and it is flagged reconciled
\* exactly when a payment points at it.
SettlementSpentOnce ==
    /\ \A j, k \in DOMAIN payments :
          payments[j].source = payments[k].source /\ payments[j].source # NoOne => j = k
    /\ reconciled = {payments[k].source : k \in DOMAIN payments} \ {NoOne}

\* The refinement: with its locks, its log and its snapshots, the ledger moves
\* money exactly as the atomic account does.
Account == INSTANCE InvoiceAccount WITH
    Sums      <- UNION {1 .. t : t \in Totals},
    Cash      <- NoOne,
    total     <- [i \in Invoices |-> IF Issued(i) THEN row[i].total ELSE 0],
    paid      <- [i \in Invoices |-> IF Issued(i) THEN row[i].amount_paid ELSE 0],
    credited  <- [i \in Invoices |-> IF Issued(i) THEN row[i].amount_credited ELSE 0],
    cancelled <- [i \in Invoices |-> Cancelled(i)],
    collected <- [i \in Invoices |-> Collected(i)],
    spent     <- reconciled

\* Every step of the ledger is a step of the atomic account, or moves no money:
\* what concurrent requests do to an invoice, some one-at-a-time order does too.
ImplementsAccount == Account!AcctSpec

\* Cancellation freezes the account: whatever request was in flight when it
\* committed, amount_paid and amount_credited never move again.
CancelledIsFrozen == Account!CancelledIsFrozen

=============================================================================
