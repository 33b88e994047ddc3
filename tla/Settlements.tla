----------------------------- MODULE Settlements -----------------------------
(***************************************************************************)
(* Money arriving from outside: M-Pesa callbacks and imported bank lines   *)
(* (finance/router.py, finance/service.py), the review of bank lines, and  *)
(* the reconciliation batches that match what arrived to open invoices     *)
(* (intelligence/services/reconciliation_service.py).  A batch locks the   *)
(* rows it fetched and keeps them locked while it awaits the model; its    *)
(* uncertain matches become proposals after its transaction has ended.     *)
(***************************************************************************)
EXTENDS Integers, FiniteSets, Sequences, SequencesExt

CONSTANTS
    Receipts,    \* MpesaReceiptNumber of successful payments
    Lines,       \* external_ref of bank statement lines
    Invoices,    \* invoices that have been sent, as a sequence by due date
    Users,
    Handlers,    \* requests in flight
    Runs,        \* reconciliation batches in flight
    Callbacks,   \* deliveries Daraja may make, and others in its name
    Amount,      \* amount of each settlement
    Total,       \* total of each invoice
    Ref,         \* <<settlement, invoice>>: the reference and the date agree
    Alike,       \* <<settlement, invoice>>: token_sort_ratio reaches the threshold
    Tolerance,   \* amount_tolerance_kes
    TxnBatch,    \* txn_batch
    Allowlist, Secret,  \* whether MPESA_CALLBACK_ALLOWED_IPS, MPESA_CONSUMER_SECRET are set
    MaxProposals,
    Null

Settled == Receipts \cup Lines
InvoiceSet == Range(Invoices)

ASSUME SettlementsAssumption ==
    /\ Receipts \cap Lines = {} /\ Handlers \cap Runs = {}
    /\ Null \notin Users \cup Runs \cup Settled \cup InvoiceSet
    /\ IsFiniteSet(Lines) /\ IsFiniteSet(Runs)
    /\ Amount \in [Settled -> Nat \ {0}] /\ Total \in [InvoiceSet -> Nat \ {0}]
    /\ Ref \subseteq Settled \X InvoiceSet /\ Alike \subseteq Settled \X InvoiceSet
    /\ Tolerance \in Nat /\ TxnBatch \in Nat \ {0} /\ MaxProposals \in Nat
    /\ Allowlist \in BOOLEAN /\ Secret \in BOOLEAN
    /\ Callbacks \subseteq [receipt : Receipts, allowed : BOOLEAN, code : Int,
                           signature : {"none", "good", "bad"}, complete : BOOLEAN]

VARIABLES
    arrived,     \* rows of mpesa_transactions and bank_statement_lines, oldest first
    line,        \* per bank line: review_status, imported_by, approved_by
    reconciled,  \* rows whose is_reconciled is TRUE
    payments,    \* Payment rows of the invoices
    balance,     \* balance_due of each invoice
    proposals,   \* agent_action_proposals of type reconciliation.match
    emitted,     \* per settlement: mpesa.reconciled or bank_statement.imported events
    acked,       \* receipts whose delivery Daraja was answered 200 for
    lock,        \* per settlement and invoice: the batch that locked its row
    at,          \* per request and batch: where it is
    job,         \* per request: what it does and what it has read
    run          \* per batch: what it fetched, matched and reports

vars == <<arrived, line, reconciled, payments, balance, proposals, emitted, acked,
          lock, at, job, run>>
store == <<arrived, line, reconciled, payments, balance, emitted>>

NoLine == [status |-> "none", by |-> Null, reviewer |-> Null]
NoJob == [op |-> "none"]
NoReport == [settled |-> {}, unmatched |-> {}]
NoRun == [txns |-> {}, seen |-> <<>>, exact |-> {}, semantic |-> {}, todo |-> {},
          checked |-> Null, report |-> NoReport]

Init ==
    /\ arrived = <<>>
    /\ line = [l \in Lines |-> NoLine]
    /\ reconciled = {} /\ payments = {} /\ proposals = <<>> /\ acked = {}
    /\ balance = Total
    /\ emitted = [s \in Settled |-> 0]
    /\ lock = [x \in Settled \cup InvoiceSet |-> Null]
    /\ at = [p \in Handlers \cup Runs |-> "idle"]
    /\ job = [h \in Handlers |-> NoJob]
    /\ run = [b \in Runs |-> NoRun]

Goto(p, place) == at' = [at EXCEPT ![p] = place]

-----------------------------------------------------------------------------
(* M-Pesa callbacks *)

\* _origin_allowed: the proxy's X-Forwarded-For, else the peer, is in a listed network.
OriginAllowed(cb) == cb.allowed

\* verify_mpesa_signature: the origin must be allowed; a signature is checked when
\* one is sent or when nothing else is configured; with neither, nothing passes.
Authentic(cb) ==
    /\ Allowlist \/ Secret
    /\ Allowlist => OriginAllowed(cb)
    /\ Secret /\ (cb.signature # "none" \/ ~Allowlist) => cb.signature = "good"

\* A success with a positive amount, a receipt and a phone; any other callback is
\* answered and forgotten.
WellFormed(cb) == cb.code = 0 /\ cb.complete

\* process_mpesa_callback looks the receipt up: a known one is answered at once.
CallbackLookup(h, cb) ==
    /\ at[h] = "idle" /\ Authentic(cb) /\ WellFormed(cb)
    /\ IF cb.receipt \in Range(arrived)
       THEN /\ acked' = acked \cup {cb.receipt}
            /\ UNCHANGED <<at, job>>
       ELSE /\ Goto(h, "insert")
            /\ job' = [job EXCEPT ![h] = [op |-> "callback", receipt |-> cb.receipt]]
            /\ UNCHANGED acked
    /\ UNCHANGED <<store, proposals, lock, run>>

Done(h) == Goto(h, "idle") /\ job' = [job EXCEPT ![h] = NoJob]

\* Mutant: nothing makes trans_id unique.
InsertTwice(h) ==
    /\ at[h] = "insert"
    /\ LET r == job[h].receipt IN
        /\ arrived' = Append(arrived, r)
        /\ emitted' = [emitted EXCEPT ![r] = @ + 1]
        /\ acked' = acked \cup {r}
    /\ Done(h)
    /\ UNCHANGED <<line, reconciled, payments, balance, proposals, lock, run>>

\* The row and its event commit together; trans_id is unique, so the handler that
\* comes second fails with an error that is no UnprocessableError, and Daraja gets
\* no answer it counts.
InsertTransaction(h) ==
    /\ at[h] = "insert"
    /\ LET r == job[h].receipt
           new == r \notin Range(arrived)
       IN /\ arrived' = IF new THEN Append(arrived, r) ELSE arrived
          /\ emitted' = IF new THEN [emitted EXCEPT ![r] = @ + 1] ELSE emitted
          /\ acked' = IF new THEN acked \cup {r} ELSE acked
    /\ Done(h)
    /\ UNCHANGED <<line, reconciled, payments, balance, proposals, lock, run>>

-----------------------------------------------------------------------------
(* Bank statement lines *)

\* import_bank_statement_lines: existing_external_refs drops what is known.
ImportLookup(h, u, refs) ==
    LET fresh == refs \ Range(arrived) IN
    /\ at[h] = "idle" /\ fresh # {}
    /\ Goto(h, "import")
    /\ job' = [job EXCEPT ![h] = [op |-> "import", user |-> u, refs |-> fresh]]
    /\ UNCHANGED <<store, proposals, acked, lock, run>>

\* bulk_create: external_ref is unique, so one line that has arrived meanwhile
\* fails the whole import.
ImportLines(h) ==
    LET refs == job[h].refs
        new == refs \cap Range(arrived) = {}
    IN /\ at[h] = "import"
       /\ arrived' = IF new THEN arrived \o SetToSeq(refs) ELSE arrived
       /\ line' = [l \in Lines |->
                     IF new /\ l \in refs
                     THEN [status |-> "pending", by |-> job[h].user, reviewer |-> Null]
                     ELSE line[l]]
       /\ emitted' = [s \in Settled |-> IF new /\ s \in refs THEN emitted[s] + 1 ELSE emitted[s]]
       /\ Done(h)
       /\ UNCHANGED <<reconciled, payments, balance, proposals, acked, lock, run>>

\* _review_bank_statement_line: nobody reviews a line of his own, or one that is decided.
Reviewable(l, u) == line[l].status = "pending" /\ l \notin reconciled /\ line[l].by # u

\* The line is read without a lock and the decision taken on that.
ReviewRead(h, u, l, decision) ==
    /\ at[h] = "idle" /\ Reviewable(l, u)
    /\ Goto(h, "review")
    /\ job' = [job EXCEPT ![h] = [op |-> "review", user |-> u, line |-> l,
                                  decision |-> decision]]
    /\ UNCHANGED <<store, proposals, acked, lock, run>>

\* The UPDATE waits for a batch that locked the line, and then overwrites it.
ReviewWrite(h) ==
    /\ at[h] = "review"
    /\ LET j == job[h] IN
        /\ lock[j.line] = Null
        /\ line' = [line EXCEPT ![j.line] = [status |-> j.decision, by |-> line[j.line].by,
                                             reviewer |-> j.user]]
    /\ Done(h)
    /\ UNCHANGED <<arrived, reconciled, payments, balance, proposals, emitted, acked, lock,
                   run>>

-----------------------------------------------------------------------------
(* Matching *)

AmountMatch(paid, due) == paid - due <= Tolerance /\ due - paid <= Tolerance

\* The amount against the fetched balance, the reference and the date window
Exact(s, i, seen) == AmountMatch(Amount[s], seen[i]) /\ <<s, i>> \in Ref

\* _pass1_exact: each settlement, oldest first, takes the first fitting invoice in
\* due-date order that no other has taken.
Pass1(txns, seen) ==
    LET Take(taken, s) ==
            LET fits == SelectSeq(Invoices, LAMBDA i :
                            /\ i \in DOMAIN seen /\ Exact(s, i, seen)
                            /\ \A t \in txns : taken[t] # i)
            IN IF fits = <<>> THEN taken ELSE [taken EXCEPT ![s] = fits[1]]
        inOrder == SelectSeq(arrived, LAMBDA s : s \in txns)
        taken == FoldLeft(Take, [s \in txns |-> Null], inOrder)
    IN {m \in txns \X DOMAIN seen : taken[m[1]] = m[2]}

Sources(matches) == {m[1] : m \in matches}
Targets(matches) == {m[2] : m \in matches}

\* _build_fuzzy_candidates
Candidates(txns, seen, exact) ==
    {c \in Alike : /\ c[1] \in txns \ Sources(exact)
                   /\ c[2] \in DOMAIN seen \ Targets(exact)}

\* _pass2_semantic: the model was shown ids of the candidates and may pair them as it
\* likes; a settlement and an invoice are used once.  An error of the model is {}.
Scored(candidates) ==
    {S \in SUBSET (Sources(candidates) \X Targets(candidates)) :
        \A m, n \in S : m[1] = n[1] \/ m[2] = n[2] => m = n}

-----------------------------------------------------------------------------
(* A reconciliation batch: run_reconciliation and run_bank_reconciliation *)

\* Only approved lines; a receipt needs no review.
Eligible(s) == s \notin reconciled /\ (s \in Lines => line[s].status = "approved")

\* ORDER BY ... LIMIT txn_batch, among the arrived rows that are in wanted
Oldest(wanted) ==
    LET rows == {k \in DOMAIN arrived : arrived[k] \in wanted}
    IN {arrived[k] : k \in {n \in rows : Cardinality({j \in rows : j < n}) < TxnBatch}}

Lock(b, rows) == lock' = [x \in DOMAIN lock |-> IF x \in rows THEN b ELSE lock[x]]
Release(b) == lock' = [x \in DOMAIN lock |-> IF lock[x] = b THEN Null ELSE lock[x]]

\* Mutant: the settlements are selected without FOR UPDATE SKIP LOCKED.
FetchUnlocked(b, kind) ==
    LET txns == Oldest({s \in kind : Eligible(s)})
    IN /\ at[b] = "idle" /\ txns # {}
       /\ run' = [run EXCEPT ![b] = [NoRun EXCEPT !.txns = txns]]
       /\ Goto(b, "invoices")
       /\ UNCHANGED <<store, proposals, acked, lock, job>>

\* The oldest unreconciled settlements of one kind, FOR UPDATE SKIP LOCKED.
FetchSettlements(b, kind) ==
    LET txns == Oldest({s \in kind : Eligible(s) /\ lock[s] = Null})
    IN /\ at[b] = "idle" /\ txns # {}
       /\ run' = [run EXCEPT ![b] = [NoRun EXCEPT !.txns = txns]]
       /\ Lock(b, txns)
       /\ Goto(b, "invoices")
       /\ UNCHANGED <<store, proposals, acked, job>>

FetchTransactions(b) == FetchSettlements(b, Receipts)
FetchBankLines(b) == FetchSettlements(b, Lines)

\* Sent and unpaid: a partially paid invoice is no longer SENT or OVERDUE.
Open(i) == balance[i] = Total[i]

\* The open invoices, FOR UPDATE SKIP LOCKED, and pass one.
FetchInvoices(b) ==
    LET invs == {i \in InvoiceSet : Open(i) /\ lock[i] = Null}
        seen == [i \in invs |-> balance[i]]
        exact == Pass1(run[b].txns, seen)
    IN /\ at[b] = "invoices"
       /\ run' = [run EXCEPT ![b] = [@ EXCEPT !.seen = seen, !.exact = exact]]
       /\ Lock(b, invs)
       /\ Goto(b, IF invs = {} THEN "commit" ELSE "model")
       /\ UNCHANGED <<store, proposals, acked, job>>

\* Pass two awaits the model, with every row of the batch still locked.
AskModel(b) ==
    /\ at[b] = "model"
    /\ \E found \in Scored(Candidates(run[b].txns, run[b].seen, run[b].exact)) :
        run' = [run EXCEPT ![b].semantic = found]
    /\ Goto(b, "commit")
    /\ UNCHANGED <<store, proposals, acked, lock, job>>

\* apply_reconciled_payment clamps to what the invoice still owes.
Applied(s, i) == IF Amount[s] <= balance[i] THEN Amount[s] ELSE balance[i]

\* Mutant: a match whose task credential is refused is still reported.
ReportSkipped(b, skipped) ==
    [settled |-> run[b].exact,
     unmatched |-> run[b].txns \ (Sources(run[b].exact) \cup Sources(run[b].semantic))]

\* A skipped match leaves the report's matches and counts as unmatched.
Report(b, skipped) ==
    LET settled == run[b].exact \ skipped
    IN [settled |-> settled,
        unmatched |-> run[b].txns \ (Sources(settled) \cup Sources(run[b].semantic))]

\* All exact matches whose task credential is accepted are applied in one commit.
CommitBatch(b, skipped) ==
    LET todo == run[b].exact \ skipped IN
    /\ at[b] = "commit" /\ skipped \subseteq run[b].exact
    /\ \A m \in todo : \A p \in payments : p.source # m[1]
    /\ payments' = payments \cup {[inv |-> m[2], source |-> m[1],
                                   amount |-> Applied(m[1], m[2])] : m \in todo}
    /\ balance' = [i \in InvoiceSet |->
                     IF i \in Targets(todo)
                     THEN balance[i] - Applied((CHOOSE m \in todo : m[2] = i)[1], i)
                     ELSE balance[i]]
    /\ reconciled' = reconciled \cup Sources(todo)
    /\ run' = [run EXCEPT ![b] = [NoRun EXCEPT !.todo = run[b].semantic,
                                             !.report = Report(b, skipped)]]
    /\ Release(b)
    /\ Goto(b, "propose")
    /\ UNCHANGED <<arrived, line, proposals, emitted, acked, job>>

\* An exception, or the end of the process: nothing of the batch stays.
AbortBatch(b) ==
    /\ at[b] # "idle"
    /\ Release(b)
    /\ run' = [run EXCEPT ![b] = NoRun]
    /\ Goto(b, "idle")
    /\ UNCHANGED <<store, proposals, acked, job>>

Pending(s) == {k \in DOMAIN proposals :
                 proposals[k].source = s /\ proposals[k].status = "proposed"}

\* Mutant: nobody looks for a pending proposal.
NeverPending(s) == FALSE

\* _pending_reconciliation_proposal_exists
AlreadyPending(s) == Pending(s) # {}

\* _propose_semantic_matches, one match: the look, and on to the next match ...
CheckPending(b, m) ==
    /\ at[b] = "propose" /\ m \in run[b].todo
    /\ LET pending == AlreadyPending(m[1]) IN
        /\ run' = [run EXCEPT ![b].todo = @ \ {m},
                             ![b].checked = IF pending THEN Null ELSE m]
        /\ Goto(b, IF pending THEN "propose" ELSE "create")
    /\ UNCHANGED <<store, proposals, acked, lock, job>>

\* ... or to create_proposal, in a transaction of its own.
CreateProposal(b) ==
    LET m == run[b].checked IN
    /\ at[b] = "create" /\ Len(proposals) < MaxProposals
    /\ proposals' = Append(proposals, [source |-> m[1], inv |-> m[2], status |-> "proposed"])
    /\ run' = [run EXCEPT ![b].checked = Null]
    /\ Goto(b, "propose")
    /\ UNCHANGED <<store, acked, lock, job>>

\* The batch task publishes its report, or fails to, and is over.
FinishRun(b) ==
    /\ at[b] = "propose" /\ run[b].todo = {}
    /\ run' = [run EXCEPT ![b] = NoRun]
    /\ Goto(b, "idle")
    /\ UNCHANGED <<store, proposals, acked, lock, job>>

-----------------------------------------------------------------------------
(* People *)

\* A reviewer approves a match and it is applied (Proposals has the details).  An
\* invoice that owes nothing refuses it; a settlement already spent violates a unique
\* column and leaves the proposal approved without its write.
ApproveMatch(k) ==
    LET p == proposals[k]
        spent == \E q \in payments : q.source = p.source
    IN /\ p.status = "proposed" /\ balance[p.inv] > 0
       /\ lock[p.inv] = Null /\ lock[p.source] = Null
       /\ proposals' = [proposals EXCEPT ![k].status = IF spent THEN "approved" ELSE "applied"]
       /\ IF spent
          THEN UNCHANGED <<payments, balance, reconciled>>
          ELSE /\ payments' = payments \cup {[inv |-> p.inv, source |-> p.source,
                                              amount |-> Applied(p.source, p.inv)]}
               /\ balance' = [balance EXCEPT ![p.inv] = @ - Applied(p.source, p.inv)]
               /\ reconciled' = reconciled \cup {p.source}
       /\ UNCHANGED <<arrived, line, emitted, acked, lock, at, job, run>>

RejectMatch(k) ==
    /\ proposals[k].status = "proposed"
    /\ proposals' = [proposals EXCEPT ![k].status = "rejected"]
    /\ UNCHANGED <<store, acked, lock, at, job, run>>

\* The customer pays part of an invoice in cash: it waits for the batch's lock.
CashPayment(i) ==
    /\ Open(i) /\ balance[i] > 1 /\ lock[i] = Null
    /\ balance' = [balance EXCEPT ![i] = 1]
    /\ UNCHANGED <<arrived, line, reconciled, payments, emitted, proposals, acked, lock, at,
                   job, run>>

Next ==
    \/ \E h \in Handlers :
        \/ \E cb \in Callbacks : CallbackLookup(h, cb)
        \/ \E u \in Users, refs \in SUBSET Lines : ImportLookup(h, u, refs)
        \/ \E u \in Users, l \in Lines, d \in {"approved", "rejected"} : ReviewRead(h, u, l, d)
        \/ InsertTransaction(h) \/ ImportLines(h) \/ ReviewWrite(h)
    \/ \E b \in Runs :
        \/ FetchTransactions(b) \/ FetchBankLines(b)
        \/ FetchInvoices(b) \/ AskModel(b)
        \/ \E skipped \in SUBSET run[b].exact : CommitBatch(b, skipped)
        \/ \E m \in run[b].todo : CheckPending(b, m)
        \/ CreateProposal(b) \/ FinishRun(b) \/ AbortBatch(b)
    \/ \E k \in DOMAIN proposals : ApproveMatch(k) \/ RejectMatch(k)
    \/ \E i \in InvoiceSet : CashPayment(i)

Spec == Init /\ [][Next]_vars

-----------------------------------------------------------------------------
(* Properties *)

\* While a batch thinks, and awaits the model, nobody changes the rows its matches
\* were computed from: not another batch, a reviewer, a payment or an approval.
BatchSeesCurrentRows ==
    \A b \in Runs : at[b] \in {"model", "commit"} =>
        /\ \A s \in run[b].txns : Eligible(s)
        /\ \A i \in DOMAIN run[b].seen : run[b].seen[i] = balance[i]

\* Rescans do not pile up proposals: only batches that overlap can both propose a
\* settlement, so at most one proposal per batch in flight is ever pending.
ProposalsAreBounded ==
    \A s \in Settled : Cardinality(Pending(s)) <= Cardinality(Runs)

\* What the outside is told is in the books.  However often Daraja delivers a callback
\* and however deliveries overlap, an answered receipt is recorded once, with one event;
\* and what a batch reports as settled is booked, on that invoice and from that
\* settlement, even when the credential of one of its matches was refused.
ReportTellsTheTruth ==
    /\ \A r \in Receipts :
        LET rows == Cardinality({k \in DOMAIN arrived : arrived[k] = r}) IN
        /\ rows <= 1 /\ emitted[r] = rows
        /\ r \in acked => rows = 1
    /\ \A b \in Runs : \A m \in run[b].report.settled :
        /\ m[1] \in reconciled
        /\ \E p \in payments : p.source = m[1] /\ p.inv = m[2]
=============================================================================
