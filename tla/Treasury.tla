------------------------------- MODULE Treasury -------------------------------
(***************************************************************************)
(* Money going out: expenses and the budget they burn, bills under         *)
(* maker-checker review, and transfers between the business's own vaults   *)
(* (domains/finance/service.py).  A vault has no stored balance: it is     *)
(* derived from payments, signed-off expenses and transfers, which a       *)
(* transfer reads in four statements under an advisory lock that nothing   *)
(* but transfers takes.                                                    *)
(***************************************************************************)
EXTENDS Integers, Permissions

CONSTANTS
    Workers,    \* requests in progress, each with its own session
    Users,
    Null,
    Role,       \* users.role
    Vaults,     \* VaultType
    Bills,      \* payables
    Amounts,    \* amounts of payments, expenses, bills and transfers
    Fees,       \* fees of transfers, zero among them
    MaxPaid, MaxSpent, MaxMoved   \* bounds on what a vault is paid, spends and sends

ASSUME TreasuryAssumption ==
    /\ Null \notin Workers \cup Users \cup Vaults \cup Bills
    /\ Role \in [Users -> UserRole]
    /\ Amounts \subseteq Nat \ {0} /\ Fees \subseteq Nat
    /\ MaxPaid \in Nat /\ MaxSpent \in Nat /\ MaxMoved \in Nat

VARIABLES
    paymentsIn,    \* per vault: sum of its payments
    expensesOut,   \* per vault: sum of its APPROVED and SCHEDULED expenses, fees apart
    feesOut,       \* per vault: sum of the expenses booked as transfer fees
    transfersIn, transfersOut,
    bill,          \* per payable: status, vault, amount, submitted_by, reviewed_by
    asked,         \* per payable: whom notify_reviewers wrote to
    budget,        \* "none", "active" (its period covers now) or "over"
    burned,        \* per payable: how often it was added to budgets.spent
    emitted,       \* per payable: expenses.created events in the outbox
    audit,         \* audit_logs: action, payable, actor
    rowLock,       \* per payable: who holds it FOR UPDATE
    vaultLock,     \* per vault: who holds pg_advisory_xact_lock on it
    at,            \* per request: where it is
    req,           \* per request: user, payable and target of a transition
    copy,          \* per request: the payable as it was fetched
    move,          \* per request: a transfer's vaults, amount and fee
    read,          \* per request: the totals of the source vault it has read
    unbudgeted     \* history: payables signed off while no budget was active

totals == <<paymentsIn, expensesOut, feesOut, transfersIn, transfersOut>>
payables == <<bill, asked, budget, burned, emitted, unbudgeted>>
vars == <<totals, payables, audit, rowLock, vaultLock, at, req, copy, move, read>>

Statuses == {"none", "draft", "pending", "approved", "rejected", "scheduled"}
SignedOff == {"approved", "scheduled"}
Decided == SignedOff \cup {"rejected"}
Unread == [payments |-> 0, expenses |-> 0, in |-> 0, out |-> 0]

NoReq == [user |-> Null, bill |-> Null, target |-> "none"]
NoBill == [status |-> "none", vault |-> Null, amount |-> 0, by |-> Null, reviewer |-> Null]
NoMove == [from |-> Null, to |-> Null, amount |-> 0, fee |-> 0]

Goto(w, place) == at' = [at EXCEPT ![w] = place]

\* The request is over, and its session with it.
Finish(w) ==
    /\ Goto(w, "idle")
    /\ req' = [req EXCEPT ![w] = NoReq]
    /\ copy' = [copy EXCEPT ![w] = NoBill]
    /\ move' = [move EXCEPT ![w] = NoMove]
    /\ read' = [read EXCEPT ![w] = Unread]

\* Require... dependencies of the endpoints.
May(u, permission) == HasPermission(Role[u], permission)

Release(w) ==
    /\ rowLock' = [b \in Bills |-> IF rowLock[b] = w THEN Null ELSE rowLock[b]]
    /\ vaultLock' = [v \in Vaults |-> IF vaultLock[v] = w THEN Null ELSE vaultLock[v]]

Add(total, v, amount) == total' = [total EXCEPT ![v] = @ + amount]

Init ==
    /\ paymentsIn = [v \in Vaults |-> 0] /\ expensesOut = [v \in Vaults |-> 0]
    /\ feesOut = [v \in Vaults |-> 0]
    /\ transfersIn = [v \in Vaults |-> 0] /\ transfersOut = [v \in Vaults |-> 0]
    /\ bill = [b \in Bills |-> NoBill]
    /\ asked = [b \in Bills |-> {}]
    /\ budget = "none"
    /\ burned = [b \in Bills |-> 0] /\ emitted = [b \in Bills |-> 0]
    /\ unbudgeted = {} /\ audit = {}
    /\ rowLock = [b \in Bills |-> Null] /\ vaultLock = [v \in Vaults |-> Null]
    /\ at = [w \in Workers |-> "idle"]
    /\ req = [w \in Workers |-> NoReq]
    /\ copy = [w \in Workers |-> NoBill]
    /\ move = [w \in Workers |-> NoMove]
    /\ read = [w \in Workers |-> Unread]

-----------------------------------------------------------------------------
(* Money in, expenses and budgets: one transaction each *)

\* A payment of an invoice reaches a vault (InvoiceLedger says when).
RecordPayment(v, a) ==
    /\ paymentsIn[v] + a <= MaxPaid
    /\ Add(paymentsIn, v, a)
    /\ UNCHANGED <<expensesOut, feesOut, transfersIn, transfersOut, payables, audit,
                   rowLock, vaultLock, at, req, copy, move, read>>

\* create_expense, create_receipt_expense and create_stock_purchase: signed off as
\* they are inserted, whatever the vault holds.  What such an expense adds to budgets and
\* announces is its own: `burned' and `emitted' count what the payables do.
BookExpense(v, a) ==
    /\ expensesOut[v] + a <= MaxSpent
    /\ Add(expensesOut, v, a)
    /\ UNCHANGED <<paymentsIn, feesOut, transfersIn, transfersOut, payables, audit,
                   rowLock, vaultLock, at, req, copy, move, read>>

CreateBudget ==
    /\ budget = "none"
    /\ budget' = "active"
    /\ UNCHANGED <<totals, bill, asked, burned, emitted, unbudgeted, audit, rowLock,
                   vaultLock, at, req, copy, move, read>>

\* The clock passes period_end: the burn-down matches the budget no more.
PeriodEnds ==
    /\ budget = "active"
    /\ budget' = "over"
    /\ UNCHANGED <<totals, bill, asked, burned, emitted, unbudgeted, audit, rowLock,
                   vaultLock, at, req, copy, move, read>>

-----------------------------------------------------------------------------
(* Payables: submitted by one, decided by another *)

\* notify_reviewers: all who may approve, except the submitter.
Reviewers(u) == {r \in Users : Role[r] \in RolesWithPermission("finance:approve")} \ {u}

\* create_payable: pending, no burn, no event.
SubmitBill(w, u, b, v, a) ==
    /\ at[w] = "idle" /\ bill[b].status = "none" /\ May(u, "finance:write")
    /\ bill' = [bill EXCEPT ![b] = [status |-> "pending", vault |-> v, amount |-> a,
                                   by |-> u, reviewer |-> Null]]
    /\ asked' = [asked EXCEPT ![b] = Reviewers(u)]
    /\ req' = [req EXCEPT ![w] = [user |-> u, bill |-> b, target |-> "submitted"]]
    /\ Goto(w, "audit")
    /\ UNCHANGED <<totals, budget, burned, emitted, unbudgeted, audit, rowLock, vaultLock,
                   copy, move, read>>

\* Mutant: the payable is fetched without its lock, and refused only if it is
\* decided already.
GetBillUnlocked(w, u, b, target) ==
    /\ at[w] = "idle" /\ bill[b].status # "none" /\ May(u, "finance:approve")
    /\ req' = [req EXCEPT ![w] = [user |-> u, bill |-> b, target |-> target]]
    /\ Goto(w, "decide")
    /\ copy' = [copy EXCEPT ![w] = bill[b]]
    /\ UNCHANGED <<totals, payables, audit, rowLock, vaultLock, move, read>>

\* approve_payable, reject_payable and schedule_payable reach transition_payable:
\* get_by_id_for_update waits for the row, and loads it as it is then.
GetBillForUpdate(w, u, b, target) ==
    /\ at[w] = "idle" /\ bill[b].status # "none" /\ May(u, "finance:approve")
    /\ rowLock[b] = Null
    /\ rowLock' = [rowLock EXCEPT ![b] = w]
    /\ req' = [req EXCEPT ![w] = [user |-> u, bill |-> b, target |-> target]]
    /\ copy' = [copy EXCEPT ![w] = bill[b]]
    /\ Goto(w, "decide")
    /\ UNCHANGED <<totals, payables, audit, vaultLock, move, read>>

PayableTransitions ==
    [draft |-> {"pending"}, pending |-> {"approved", "rejected"}, approved |-> {"scheduled"}]

\* Mutant: a rejected payable may be revived.
ReviveAllowed(from, target) ==
    \/ from \in DOMAIN PayableTransitions /\ target \in PayableTransitions[from]
    \/ from = "rejected" /\ target = "approved"

Allowed(from, target) ==
    from \in DOMAIN PayableTransitions /\ target \in PayableTransitions[from]

ReviewDecision(target) == target \in {"approved", "rejected"}

MayTransition(w) ==
    LET r == req[w] IN
    /\ Allowed(copy[w].status, r.target)
    /\ ReviewDecision(r.target) => copy[w].by # r.user

\* Mutant: side effects follow every transition out of review or approval.
SideEffectsAlways(b, target) ==
    /\ burned' = [burned EXCEPT ![b] = IF budget = "active" THEN @ + 1 ELSE @]
    /\ emitted' = [emitted EXCEPT ![b] = @ + 1]
    /\ unbudgeted' = IF budget = "active" THEN unbudgeted ELSE unbudgeted \cup {b}

\* _apply_expense_side_effects, on the way into APPROVED only: the amount is added
\* to the budget of its category and current period, and the event is emitted.
SideEffects(b, target) ==
    IF target = "approved"
    THEN /\ burned' = [burned EXCEPT ![b] = IF budget = "active" THEN @ + 1 ELSE @]
         /\ emitted' = [emitted EXCEPT ![b] = @ + 1]
         /\ unbudgeted' = IF budget = "active" THEN unbudgeted ELSE unbudgeted \cup {b}
    ELSE UNCHANGED <<burned, emitted, unbudgeted>>

\* transition_payable commits; from APPROVED on, totals_by_vault counts the expense.
Transition(w) ==
    LET r == req[w] c == copy[w] IN
    /\ at[w] = "decide" /\ MayTransition(w)
    /\ r.target = "approved" => expensesOut[c.vault] + c.amount <= MaxSpent
    /\ bill' = [bill EXCEPT ![r.bill] =
            [status |-> r.target, vault |-> c.vault, amount |-> c.amount, by |-> c.by,
             reviewer |-> IF ReviewDecision(r.target) THEN r.user ELSE c.reviewer]]
    /\ SideEffects(r.bill, r.target)
    /\ IF r.target = "approved" THEN Add(expensesOut, c.vault, c.amount)
                                ELSE UNCHANGED expensesOut
    /\ Release(w)
    /\ Goto(w, "audit")
    /\ UNCHANGED <<paymentsIn, feesOut, transfersIn, transfersOut, asked, budget, audit,
                   req, copy, move, read>>

\* UnprocessableError or ForbiddenError: the transaction ends, nothing is audited.
RefuseTransition(w) ==
    /\ at[w] = "decide" /\ ~MayTransition(w)
    /\ Release(w)
    /\ Finish(w)
    /\ UNCHANGED <<totals, payables, audit>>

\* Mutant: the audit row is written before the decision is taken.
AuditFirst(w) ==
    /\ at[w] \in {"audit", "decide"}
    /\ audit' = audit \cup {[action |-> req[w].target, bill |-> req[w].bill,
                             actor |-> req[w].user]}
    /\ IF at[w] = "audit" THEN Finish(w) ELSE UNCHANGED <<at, req, copy, move, read>>
    /\ UNCHANGED <<totals, payables, rowLock, vaultLock>>

\* The endpoint records its audit row, in a transaction of its own, after the
\* action has committed.
Audit(w) ==
    /\ at[w] = "audit"
    /\ audit' = audit \cup {[action |-> req[w].target, bill |-> req[w].bill,
                             actor |-> req[w].user]}
    /\ Finish(w)
    /\ UNCHANGED <<totals, payables, rowLock, vaultLock>>

-----------------------------------------------------------------------------
(* Transfers between vaults *)

\* Mutant: no advisory lock is taken.
LockNothing(w, u, v, to, a, fee) ==
    /\ at[w] = "idle" /\ v # to /\ May(u, "finance:write")
    /\ transfersOut[v] + feesOut[v] + a + fee <= MaxMoved
    /\ UNCHANGED vaultLock
    /\ move' = [move EXCEPT ![w] = [from |-> v, to |-> to, amount |-> a, fee |-> fee]]
    /\ Goto(w, "payments")
    /\ UNCHANGED <<totals, payables, audit, rowLock, req, copy, read>>

\* create_vault_transfer; VaultTransferCreate refuses equal vaults.  The advisory
\* lock on the source vault is held to the end of the transaction.
LockVault(w, u, v, to, a, fee) ==
    /\ at[w] = "idle" /\ v # to /\ May(u, "finance:write")
    /\ transfersOut[v] + feesOut[v] + a + fee <= MaxMoved
    /\ vaultLock[v] = Null
    /\ vaultLock' = [vaultLock EXCEPT ![v] = w]
    /\ move' = [move EXCEPT ![w] = [from |-> v, to |-> to, amount |-> a, fee |-> fee]]
    /\ Goto(w, "payments")
    /\ UNCHANGED <<totals, payables, audit, rowLock, req, copy, read>>

\* get_vault_balances: four statements, each sees what has committed before it.
ReadPayments(w) ==
    /\ at[w] = "payments"
    /\ read' = [read EXCEPT ![w] = [Unread EXCEPT !.payments = paymentsIn[move[w].from]]]
    /\ Goto(w, "expenses")
    /\ UNCHANGED <<totals, payables, audit, rowLock, vaultLock, req, copy, move>>

ReadExpenses(w) ==
    /\ at[w] = "expenses"
    /\ read' = [read EXCEPT ![w].expenses =
                    expensesOut[move[w].from] + feesOut[move[w].from]]
    /\ Goto(w, "in")
    /\ UNCHANGED <<totals, payables, audit, rowLock, vaultLock, req, copy, move>>

ReadTransfersIn(w) ==
    /\ at[w] = "in"
    /\ read' = [read EXCEPT ![w].in = transfersIn[move[w].from]]
    /\ Goto(w, "out")
    /\ UNCHANGED <<totals, payables, audit, rowLock, vaultLock, req, copy, move>>

ReadTransfersOut(w) ==
    /\ at[w] = "out"
    /\ read' = [read EXCEPT ![w].out = transfersOut[move[w].from]]
    /\ Goto(w, "guard")
    /\ UNCHANGED <<totals, payables, audit, rowLock, vaultLock, req, copy, move>>

ReadBalance(w) == read[w].payments + read[w].in - read[w].expenses - read[w].out

\* Mutant: the fee is left out of the guard.
FundedWithoutFee(w) == move[w].amount <= ReadBalance(w)

Funded(w) == move[w].amount + move[w].fee <= ReadBalance(w)

\* The transfer and, if there is one, its fee as an approved expense that burns no
\* budget, in one commit.
Transfer(w) ==
    /\ at[w] = "guard" /\ Funded(w)
    /\ Add(transfersOut, move[w].from, move[w].amount)
    /\ Add(transfersIn, move[w].to, move[w].amount)
    /\ Add(feesOut, move[w].from, move[w].fee)
    /\ Release(w)
    /\ Finish(w)
    /\ UNCHANGED <<paymentsIn, expensesOut, payables, audit>>

RefuseTransfer(w) ==
    /\ at[w] = "guard" /\ ~Funded(w)
    /\ Release(w)
    /\ Finish(w)
    /\ UNCHANGED <<totals, payables, audit>>

\* The request dies, or its audit row cannot be written: an open transaction rolls
\* back, a committed one stands.
Abort(w) ==
    /\ at[w] # "idle"
    /\ Release(w)
    /\ Finish(w)
    /\ UNCHANGED <<totals, payables, audit>>

Next ==
    \/ \E v \in Vaults, a \in Amounts : RecordPayment(v, a) \/ BookExpense(v, a)
    \/ CreateBudget \/ PeriodEnds
    \/ \E w \in Workers, u \in Users, b \in Bills :
        \/ \E v \in Vaults, a \in Amounts : SubmitBill(w, u, b, v, a)
        \/ \E target \in Decided : GetBillForUpdate(w, u, b, target)
    \/ \E w \in Workers, u \in Users, v, to \in Vaults, a \in Amounts, fee \in Fees :
        LockVault(w, u, v, to, a, fee)
    \/ \E w \in Workers :
        \/ Transition(w) \/ RefuseTransition(w) \/ Audit(w)
        \/ ReadPayments(w) \/ ReadExpenses(w) \/ ReadTransfersIn(w)
        \/ ReadTransfersOut(w) \/ Transfer(w) \/ RefuseTransfer(w) \/ Abort(w)

Spec == Init /\ [][Next]_vars

-----------------------------------------------------------------------------
(* Properties *)

\* Rows and requests have their types.
TypeOK ==
    /\ paymentsIn \in [Vaults -> Nat] /\ expensesOut \in [Vaults -> Nat]
    /\ feesOut \in [Vaults -> Nat]
    /\ transfersIn \in [Vaults -> Nat] /\ transfersOut \in [Vaults -> Nat]
    /\ bill \in [Bills -> [status : Statuses, vault : Vaults \cup {Null}, amount : Nat,
                           by : Users \cup {Null}, reviewer : Users \cup {Null}]]
    /\ asked \in [Bills -> SUBSET Users]
    /\ budget \in {"none", "active", "over"}
    /\ burned \in [Bills -> Nat] /\ emitted \in [Bills -> Nat]
    /\ unbudgeted \subseteq Bills
    /\ rowLock \in [Bills -> Workers \cup {Null}]
    /\ vaultLock \in [Vaults -> Workers \cup {Null}]
    /\ at \in [Workers -> {"idle", "decide", "audit", "payments",
                           "expenses", "in", "out", "guard"}]

\* A payable burns the budget and raises expenses.created exactly once, when it is
\* signed off, however many reviewers press the button; it burns nothing only if no
\* budget covered that moment.
BurnsOnce ==
    \A b \in Bills :
        LET signed == bill[b].status \in SignedOff IN
        /\ emitted[b] = IF signed THEN 1 ELSE 0
        /\ burned[b] = IF signed /\ b \notin unbudgeted THEN 1 ELSE 0

\* "a recorded entry always reflects a real event": an audited decision was taken,
\* by the person the row names, and stands.
AuditTellsTheTruth ==
    \A row \in audit :
        LET b == bill[row.bill] IN
        /\ row.action = "submitted" => b.by = row.actor
        /\ row.action = "approved" => b.status \in SignedOff /\ b.reviewer = row.actor
        /\ row.action = "rejected" => b.status = "rejected" /\ b.reviewer = row.actor
        /\ row.action = "scheduled" => b.status = "scheduled"

Balance(v) == paymentsIn[v] + transfersIn[v] - expensesOut[v] - feesOut[v] - transfersOut[v]

\* A transfer leaves its vault overdrawn only by expenses that were signed off after
\* it had read them.
OverdrawnOnlyByLateExpenses ==
    [][\A v \in Vaults : transfersOut'[v] # transfersOut[v] =>
        \E w \in Workers :
            /\ move[w].from = v /\ at[w] = "guard"
            /\ Balance(v)' >= read[w].expenses - expensesOut[v] - feesOut[v]]_vars

=============================================================================
