------------------------- MODULE InvoiceLedgerProofs -------------------------
(***************************************************************************)
(* The invoice ledger for any number of invoices and requests in flight    *)
(* and any length of the logs: the row lock, the row as the fold of its    *)
(* log, and the step by step refinement of the atomic account.             *)
(***************************************************************************)
EXTENDS InvoiceLedger, NaturalsInduction, WellFoundedInduction, SequenceTheorems, TLAPS

-----------------------------------------------------------------------------
(* The row lock *)

\* Every row carries a status column, of the enumeration once it is issued.
RowsOK ==
    /\ DOMAIN row = Invoices
    /\ \A i \in Invoices : /\ "status" \in DOMAIN row[i]
                           /\ Issued(i) => row[i].status \in InvoiceStatus

\* The requests in flight, and what is known of the ones that hold a lock.
TxnsOK ==
    /\ DOMAIN txn = Workers
    /\ \A w \in Workers :
          txn[w] = Idle \/ (TxnOK(txn[w]) /\ row[txn[w].inv] # Absent)

LocksOK ==
    /\ lock \in [Invoices -> Workers \cup {NoOne}]
    /\ \A w \in Workers : txn[w].op \in LockingOps =>
          /\ lock[txn[w].inv] = w
          /\ txn[w].seen = row[txn[w].inv]

LedgerInv == RowsOK /\ TxnsOK /\ LocksOK /\ reconciled \subseteq Settlements

\* A write of the row of i that leaves it issued.
WritesRow(i) ==
    \E r : /\ row' = [row EXCEPT ![i] = r]
           /\ "status" \in DOMAIN r /\ r.status \in InvoiceStatus

\* The status the fold derives is one of the enumeration, or none.
LEMMA DerivedStatus ==
    ASSUME NEW i, NEW events
    PROVE  Derived(i, events).payment_status \in InvoiceStatus \cup {NoStatus}
<1>1. \A acc : Finalize(acc).payment_status \in InvoiceStatus \cup {NoStatus}
  BY DEF Finalize, InvoiceStatus
<1>2. QED
  BY <1>1 DEF Derived, FoldInvoiceEvents, FoldFromSnapshot

\* Appending an event and re-projecting writes one issued row.
LEMMA ProjectionWritesRow ==
    ASSUME NEW i \in Invoices, NEW type, NEW amount, RowsOK, row[i] # Absent,
           AppendAndProject(i, type, amount)
    PROVE  WritesRow(i)
<1>1. PICK events : row' = [row EXCEPT ![i] = Projected(row[i], Derived(i, events))]
  BY DEF AppendAndProject
<1> DEFINE state == Derived(i, events)
<1>2. state.payment_status \in InvoiceStatus \cup {NoStatus}
  BY DerivedStatus
<1>3. row[i].status \in InvoiceStatus
  BY DEF RowsOK, Issued
<1>4. /\ "status" \in DOMAIN Projected(row[i], state)
      /\ Projected(row[i], state).status \in InvoiceStatus
  <2> HIDE DEF state
  <2>1. QED  BY <1>2, <1>3 DEF Projected
<1>5. QED  BY <1>1, <1>4 DEF WritesRow

\* The end of a transaction that held the lock of the row it wrote: nobody else
\* held that lock, so what the others read of their own rows still stands.
LEMMA EndOfLocked ==
    ASSUME LedgerInv, NEW w \in Workers, txn[w].op \in LockingOps,
           WritesRow(txn[w].inv) \/ UNCHANGED row, Release(w),
           reconciled' \subseteq Settlements
    PROVE  LedgerInv'
<1> DEFINE i == txn[w].inv
<1>1. i \in Invoices /\ row[i] # Absent /\ lock[i] = w
  BY DEF LedgerInv, TxnsOK, TxnOK, LocksOK, Idle, LockingOps
<1>2. TxnsOK'
  BY <1>1 DEF LedgerInv, RowsOK, TxnsOK, TxnOK, Release, WritesRow, Absent, InvoiceStatus
<1>3. RowsOK'
  BY <1>1 DEF LedgerInv, RowsOK, WritesRow, Issued
<1>4. LocksOK'
  <2>1. lock' \in [Invoices -> Workers \cup {NoOne}]
    BY DEF LedgerInv, LocksOK, Release
  <2>2. ASSUME NEW v \in Workers, txn'[v].op \in LockingOps
        PROVE  /\ lock'[txn'[v].inv] = v
               /\ txn'[v].seen = row'[txn'[v].inv]
    <3>1. v # w /\ txn'[v] = txn[v]
      BY <2>2 DEF Release, LedgerInv, TxnsOK, Idle, LockingOps
    <3>2. txn[v].inv \in Invoices /\ lock[txn[v].inv] = v
      BY <2>2, <3>1 DEF LedgerInv, TxnsOK, TxnOK, LocksOK, Idle, LockingOps
    <3>3. row'[txn[v].inv] = row[txn[v].inv]
      BY <1>1, <3>1, <3>2 DEF WritesRow, LedgerInv, RowsOK
    <3>4. lock'[txn[v].inv] = v
      BY <3>1, <3>2 DEF Release
    <3>5. QED  BY <2>2, <3>1, <3>3, <3>4 DEF LedgerInv, LocksOK
  <2>3. QED  BY <2>1, <2>2 DEF LocksOK
<1>5. QED  BY <1>2, <1>3, <1>4 DEF LedgerInv

\* The end of a transaction that held no lock: it writes only a row nobody has
\* locked, or none at all.
LEMMA EndOfUnlocked ==
    ASSUME LedgerInv, NEW w \in Workers, txn[w] # Idle, txn[w].op \notin LockingOps,
           \/ WritesRow(txn[w].inv) /\ lock[txn[w].inv] = NoOne
           \/ UNCHANGED row,
           Release(w), UNCHANGED reconciled
    PROVE  LedgerInv'
<1> DEFINE i == txn[w].inv
<1>1. i \in Invoices
  BY DEF LedgerInv, TxnsOK, TxnOK
<1>2. TxnsOK'
  BY <1>1 DEF LedgerInv, RowsOK, TxnsOK, TxnOK, Release, WritesRow, Absent, InvoiceStatus
<1>3. RowsOK'
  BY <1>1 DEF LedgerInv, RowsOK, WritesRow, Issued
<1>4. LocksOK'
  <2>1. lock' \in [Invoices -> Workers \cup {NoOne}]
    BY DEF LedgerInv, LocksOK, Release
  <2>2. ASSUME NEW v \in Workers, txn'[v].op \in LockingOps
        PROVE  /\ lock'[txn'[v].inv] = v
               /\ txn'[v].seen = row'[txn'[v].inv]
    <3>1. v # w /\ txn'[v] = txn[v]
      BY <2>2 DEF Release, LedgerInv, TxnsOK, Idle, LockingOps
    <3>2. txn[v].inv \in Invoices /\ lock[txn[v].inv] = v
      BY <2>2, <3>1 DEF LedgerInv, TxnsOK, TxnOK, LocksOK, Idle, LockingOps
    <3>3. row'[txn[v].inv] = row[txn[v].inv]
      BY <1>1, <3>2, LedgerAssumption DEF WritesRow, LedgerInv, RowsOK
    <3>4. lock'[txn[v].inv] = v
      BY <3>1, <3>2 DEF Release
    <3>5. QED  BY <2>2, <3>1, <3>3, <3>4 DEF LedgerInv, LocksOK
  <2>3. QED  BY <2>1, <2>2 DEF LocksOK
<1>5. QED  BY <1>2, <1>3, <1>4 DEF LedgerInv

\* Issuing an invoice writes a row that nobody can have locked yet.
LEMMA CreateInv ==
    ASSUME LedgerInv, NEW i \in Invoices, NEW total, CreateInvoice(i, total)
    PROVE  LedgerInv'
<1>1. TxnsOK'
  BY DEF LedgerInv, RowsOK, TxnsOK, TxnOK, CreateInvoice, Absent
<1>2. RowsOK'
  BY DEF LedgerInv, RowsOK, CreateInvoice, Issued, InvoiceStatus
<1>3. LocksOK'
  <2>1. ASSUME NEW v \in Workers, txn[v].op \in LockingOps
        PROVE  txn[v].inv \in Invoices /\ row'[txn[v].inv] = row[txn[v].inv]
    BY <2>1 DEF LedgerInv, RowsOK, TxnsOK, TxnOK, LocksOK, Idle, LockingOps, CreateInvoice
  <2>2. QED  BY <2>1 DEF LedgerInv, LocksOK, CreateInvoice
<1>4. QED  BY <1>1, <1>2, <1>3 DEF LedgerInv, CreateInvoice

\* A request begins with a read of its row, under the lock or without it.
LEMMA StartInv ==
    ASSUME LedgerInv, NEW w \in Workers, Start(w)
    PROVE  LedgerInv'
<1>1. PICK i, op, arg :
        /\ i \in Invoices
        /\ TxnOK([op |-> op, inv |-> i, arg |-> arg, seen |-> row[i]])
        /\ \/ op \in LockingOps /\ GetForUpdate(w, op, i, arg)
           \/ op \in UnlockedOps /\ GetById(w, op, i, arg)
  BY DEF Start, GetForUpdate, GetById, TxnOK, LockingOps, UnlockedOps,
         LedgerInv, RowsOK, Issued
<1> DEFINE t == [op |-> op, inv |-> i, arg |-> arg, seen |-> row[i]]
<1>2. txn' = [txn EXCEPT ![w] = t] /\ row[i] # Absent /\ UNCHANGED <<row, reconciled>>
  BY <1>1 DEF GetForUpdate, GetById
<1>3. TxnsOK'
  BY <1>1, <1>2 DEF LedgerInv, TxnsOK, TxnOK, Issued
<1>4. RowsOK'
  BY <1>2 DEF LedgerInv, RowsOK, Issued
<1>5. LocksOK'
  <2>1. CASE op \in LockingOps /\ GetForUpdate(w, op, i, arg)
    BY <1>1, <1>2, <2>1, LedgerAssumption
       DEF GetForUpdate, LedgerInv, LocksOK, TxnsOK, TxnOK, Idle, LockingOps
  <2>2. CASE op \in UnlockedOps /\ GetById(w, op, i, arg)
    BY <1>1, <1>2, <2>2
       DEF GetById, LedgerInv, LocksOK, TxnsOK, TxnOK, Idle, LockingOps, UnlockedOps
  <2>3. QED  BY <1>1, <2>1, <2>2
<1>6. QED  BY <1>2, <1>3, <1>4, <1>5 DEF LedgerInv

\* Every step keeps the rows typed and the locked reads current.
LEMMA LedgerStepInv == LedgerInv /\ [Next]_vars => LedgerInv'
<1> SUFFICES ASSUME LedgerInv, [Next]_vars
             PROVE  LedgerInv'
  OBVIOUS
<1>1. ASSUME NEW w \in Workers, txn[w].op \in LockingOps
      PROVE  txn[w] # Idle /\ txn[w].inv \in Invoices /\ row[txn[w].inv] # Absent
  BY <1>1 DEF LedgerInv, LocksOK, TxnsOK, TxnOK, Idle, LockingOps
<1>2. ASSUME NEW i \in Invoices, NEW total \in Totals, CreateInvoice(i, total)
      PROVE  LedgerInv'
  BY <1>2, CreateInv
<1>3. ASSUME NEW w \in Workers, Start(w)
      PROVE  LedgerInv'
  BY <1>3, StartInv
<1>4. ASSUME NEW w \in Workers, SendInvoice(w)
      PROVE  LedgerInv'
  <2>1. txn[w].op \in LockingOps  BY <1>4 DEF SendInvoice, LockingOps
  <2> DEFINE r == [row[txn[w].inv] EXCEPT !.status = "SENT"]
  <2>2. row' = [row EXCEPT ![txn[w].inv] = r]  BY <1>4 DEF SendInvoice
  <2>3. "status" \in DOMAIN r /\ r.status \in InvoiceStatus
    BY <1>1, <2>1 DEF LedgerInv, RowsOK, InvoiceStatus
  <2> HIDE DEF r
  <2>4. WritesRow(txn[w].inv)  BY <2>2, <2>3 DEF WritesRow
  <2>5. QED  BY <1>4, <2>1, <2>4, EndOfLocked DEF SendInvoice, LedgerInv
<1>5. ASSUME NEW w \in Workers, ResendInvoice(w)
      PROVE  LedgerInv'
  <2>1. txn[w].op \notin LockingOps /\ txn[w] # Idle
    BY <1>5 DEF ResendInvoice, LockingOps, Idle
  <2>2. QED  BY <1>5, <2>1, EndOfUnlocked DEF ResendInvoice
<1>6. ASSUME NEW w \in Workers, UpdateInvoice(w)
      PROVE  LedgerInv'
  <2>1. txn[w].op \notin LockingOps /\ txn[w] # Idle
    BY <1>6 DEF UpdateInvoice, LockingOps, Idle
  <2>2. /\ txn[w].inv \in Invoices /\ lock[txn[w].inv] = NoOne
        /\ txn[w].arg.status \in InvoiceStatus \cup {NoStatus}
    BY <1>6, <2>1, LedgerAssumption
       DEF UpdateInvoice, LedgerInv, TxnsOK, TxnOK, InvoiceUpdate
  <2> DEFINE r == Edited(row[txn[w].inv], txn[w].seen, txn[w].arg)
  <2>3. row[txn[w].inv].status \in InvoiceStatus
    BY <2>1, <2>2 DEF LedgerInv, RowsOK, TxnsOK, Issued
  <2>4. "status" \in DOMAIN r /\ r.status \in InvoiceStatus
    BY <2>2, <2>3 DEF Edited
  <2>5. WritesRow(txn[w].inv)
    <3>1. row' = [row EXCEPT ![txn[w].inv] = r]  BY <1>6 DEF UpdateInvoice
    <3> HIDE DEF r
    <3>2. QED  BY <2>4, <3>1 DEF WritesRow
  <2>6. QED  BY <1>6, <2>1, <2>2, <2>5, EndOfUnlocked DEF UpdateInvoice
<1>7. ASSUME NEW w \in Workers, RecordCashPayment(w)
      PROVE  LedgerInv'
  <2>1. txn[w].op \in LockingOps  BY <1>7 DEF RecordCashPayment, LockingOps
  <2>2. WritesRow(txn[w].inv)
    BY <1>1, <1>7, <2>1, ProjectionWritesRow DEF RecordCashPayment, Settle, LedgerInv
  <2>3. QED  BY <1>7, <2>1, <2>2, EndOfLocked DEF RecordCashPayment, LedgerInv
<1>8. ASSUME NEW w \in Workers, MarkInvoicePaid(w)
      PROVE  LedgerInv'
  <2>1. txn[w].op \in LockingOps  BY <1>8 DEF MarkInvoicePaid, LockingOps
  <2>2. WritesRow(txn[w].inv) \/ UNCHANGED row
    BY <1>1, <1>8, <2>1, ProjectionWritesRow DEF MarkInvoicePaid, Settle, LedgerInv
  <2>3. QED  BY <1>8, <2>1, <2>2, EndOfLocked DEF MarkInvoicePaid, LedgerInv
<1>9. ASSUME NEW w \in Workers, ApplyReconciledPayment(w)
      PROVE  LedgerInv'
  <2>1. txn[w].op \in LockingOps  BY <1>9 DEF ApplyReconciledPayment, LockingOps
  <2>2. WritesRow(txn[w].inv)
    BY <1>1, <1>9, <2>1, ProjectionWritesRow
       DEF ApplyReconciledPayment, Settle, LedgerInv
  <2>3. txn[w].arg \in Settlements
    BY <1>1, <1>9, <2>1 DEF ApplyReconciledPayment, LedgerInv, TxnsOK, TxnOK
  <2>4. QED
    BY <1>9, <2>1, <2>2, <2>3, EndOfLocked DEF ApplyReconciledPayment, LedgerInv
<1>10. ASSUME NEW w \in Workers, ApplyCreditNote(w)
       PROVE  LedgerInv'
  <2>1. txn[w].op \in LockingOps  BY <1>10 DEF ApplyCreditNote, LockingOps
  <2>2. WritesRow(txn[w].inv)
    BY <1>1, <1>10, <2>1, ProjectionWritesRow DEF ApplyCreditNote, LedgerInv
  <2>3. QED  BY <1>10, <2>1, <2>2, EndOfLocked DEF ApplyCreditNote, LedgerInv
<1>11. ASSUME NEW w \in Workers, CancelInvoice(w)
       PROVE  LedgerInv'
  <2>1. txn[w].op \in LockingOps  BY <1>11 DEF CancelInvoice, LockingOps
  <2>2. WritesRow(txn[w].inv)
    BY <1>1, <1>11, <2>1, ProjectionWritesRow DEF CancelInvoice, LedgerInv
  <2>3. QED  BY <1>11, <2>1, <2>2, EndOfLocked DEF CancelInvoice, LedgerInv
<1>12. ASSUME NEW w \in Workers, Rollback(w)
       PROVE  LedgerInv'
  <2>1. CASE txn[w].op \in LockingOps
    BY <1>12, <2>1, EndOfLocked DEF Rollback, LedgerInv
  <2>2. CASE txn[w].op \notin LockingOps
    BY <1>12, <2>2, EndOfUnlocked DEF Rollback
  <2>3. QED  BY <2>1, <2>2
<1>13. CASE UNCHANGED vars
  BY <1>13 DEF vars, LedgerInv, RowsOK, TxnsOK, TxnOK, LocksOK, Issued
<1>14. QED
  BY <1>2, <1>3, <1>4, <1>5, <1>6, <1>7, <1>8, <1>9, <1>10, <1>11, <1>12, <1>13
     DEF Next

\* In every behaviour, whatever the number of invoices and of requests in
\* flight, a handler that holds the row lock of its invoice validates against
\* the row as it is: no payment, credit note or cancellation is ever decided on
\* a balance or a status that another request has meanwhile changed.
THEOREM LockedReadsAreCurrent == Spec => [](TypeOK /\ LockedReadIsCurrent)
<1>1. Init => LedgerInv
  BY DEF Init, LedgerInv, RowsOK, TxnsOK, LocksOK, Absent, Idle, LockingOps, Issued
<1>2. LedgerInv /\ [Next]_vars => LedgerInv'
  BY LedgerStepInv
<1>3. LedgerInv => TypeOK /\ LockedReadIsCurrent
  BY DEF LedgerInv, RowsOK, TxnsOK, LocksOK, TypeOK, LockedReadIsCurrent
<1>4. QED  BY <1>1, <1>2, <1>3, PTL DEF Spec

-----------------------------------------------------------------------------
(* The fold of a log, by induction on the number of events *)

Event == [sequence : Nat, type : {"issued", "payment", "credit", "cancelled"}, amount : Nat]

\* A log: its events are numbered from 1 on without a gap.
Numbered == {events \in Seq(Event) : \A k \in 1 .. Len(events) : events[k].sequence = k}

Accumulator ==
    [total : Nat, amount_paid : Nat, credited : Nat, last_payment_at : Nat,
     issued : BOOLEAN, cancelled : BOOLEAN, count : Nat, sequence : Nat]

LEMMA Induction ==
    ASSUME NEW T, 0 \in T, \A n \in Nat : n \in T => n + 1 \in T
    PROVE  Nat \subseteq T
<1> DEFINE R == OpToRel(<, Nat)
<1>1. \A x, y \in Nat : y < x => <<y, x>> \in R
  BY DEF OpToRel
<1>2. ASSUME Nat \ T # {} PROVE FALSE
  <2>1. \E x \in Nat \ T : \A y \in Nat \ T : ~ (<<y, x>> \in R)
    BY <1>2, NatLessThanWellFounded, WFMin
  <2> HIDE DEF R
  <2>2. PICK m \in Nat \ T : \A k \in Nat \ T : ~ (<<k, m>> \in R)
    BY <2>1
  <2>3. \A k \in Nat \ T : ~ (k < m)
    BY <1>1, <2>2
  <2>4. m - 1 \in Nat /\ m - 1 \in T
    BY <2>3
  <2>5. QED  BY <2>2, <2>4
<1>3. QED  BY <1>2

\* The loop is what the recursion says: the function it describes exists.
LEMMA FoldsExist ==
    ASSUME NEW acc, NEW from, NEW events, Len(events) \in Nat
    PROVE  Folds(acc, from, events) =
             [n \in 0 .. Len(events) |->
                IF n = 0 THEN acc
                ELSE IF events[n].sequence > from
                     THEN Apply(Folds(acc, from, events)[n - 1], events[n])
                ELSE Folds(acc, from, events)[n - 1]]
<1> DEFINE Body(f, n) == IF n = 0 THEN acc
                         ELSE IF events[n].sequence > from THEN Apply(f[n - 1], events[n])
                         ELSE f[n - 1]
           Is(f, m) == f = [n \in 0 .. m |-> Body(f, n)]
           T == {m \in Nat : \E f : Is(f, m)}
<1>1. 0 \in T
  <2>1. Is([n \in 0 .. 0 |-> acc], 0)
    OBVIOUS
  <2>2. QED  BY <2>1
<1>2. ASSUME NEW m \in Nat, m \in T PROVE m + 1 \in T
  <2>1. PICK f : Is(f, m)
    BY <1>2
  <2> DEFINE g == [n \in 0 .. (m + 1) |-> IF n = m + 1 THEN Body(f, m + 1) ELSE f[n]]
  <2>2. Is(g, m + 1)
    <3>1. \A n \in 0 .. m : g[n] = f[n]
      OBVIOUS
    <3>2. \A n \in 0 .. (m + 1) : Body(g, n) = Body(f, n)
      <4> HIDE DEF g
      <4>1. QED  BY <3>1
    <3>3. \A n \in 0 .. m : f[n] = Body(f, n)
      <4> HIDE DEF Body
      <4>1. QED  BY <2>1
    <3>4. g = [n \in 0 .. (m + 1) |-> Body(f, n)]
      <4> HIDE DEF Body
      <4>1. QED  BY <3>3
    <3> HIDE DEF Body, g
    <3>5. QED  BY <3>2, <3>4
  <2> HIDE DEF Is, g
  <2>3. QED  BY <2>2
<1>3. \E f : Is(f, Len(events))
  <2> HIDE DEF Is
  <2>1. QED  BY <1>1, <1>2, Induction
<1>4. Folds(acc, from, events) = CHOOSE f : Is(f, Len(events))
  BY DEF Folds
<1>5. Is(Folds(acc, from, events), Len(events))
  <2> HIDE DEF Is
  <2>1. QED  BY <1>3, <1>4
<1>6. QED  BY <1>5

\* One step of the loop.
LEMMA FoldStep ==
    ASSUME NEW acc, NEW from \in Nat, NEW events \in Numbered
    PROVE  /\ Folds(acc, from, events)[0] = acc
           /\ \A n \in Nat : n < Len(events) =>
                 Folds(acc, from, events)[n + 1] =
                   IF n < from THEN Folds(acc, from, events)[n]
                   ELSE Apply(Folds(acc, from, events)[n], events[n + 1])
<1> DEFINE F == Folds(acc, from, events)
<1>1. Len(events) \in Nat /\ \A k \in 1 .. Len(events) : events[k].sequence = k
  BY DEF Numbered
<1>2. F = [n \in 0 .. Len(events) |->
             IF n = 0 THEN acc
             ELSE IF events[n].sequence > from THEN Apply(F[n - 1], events[n])
             ELSE F[n - 1]]
  BY <1>1, FoldsExist
<1> HIDE DEF F
<1>3. F[0] = acc
  BY <1>1, <1>2
<1>4. ASSUME NEW n \in Nat, n < Len(events)
      PROVE  F[n + 1] = IF n < from THEN F[n] ELSE Apply(F[n], events[n + 1])
  <2>1. /\ n + 1 \in 0 .. Len(events) /\ n + 1 # 0 /\ (n + 1) - 1 = n
        /\ events[n + 1].sequence = n + 1
    BY <1>1, <1>4
  <2>2. F[n + 1] = IF events[n + 1].sequence > from THEN Apply(F[n], events[n + 1])
                   ELSE F[n]
    BY <1>2, <2>1
  <2>3. QED  BY <2>1, <2>2
<1>5. QED  BY <1>3, <1>4 DEF F

\* The fold of a prefix looks at that prefix only.
LEMMA FoldsAgree ==
    ASSUME NEW acc, NEW from \in Nat, NEW s \in Numbered, NEW t \in Numbered,
           NEW m \in Nat, m <= Len(s), m <= Len(t), \A k \in 1 .. m : s[k] = t[k]
    PROVE  Folds(acc, from, s)[m] = Folds(acc, from, t)[m]
<1> DEFINE Same(n) == Folds(acc, from, s)[n] = Folds(acc, from, t)[n]
           T == {n \in Nat : n <= m => Same(n)}
<1>1. 0 \in T
  <2>1. Folds(acc, from, s)[0] = acc /\ Folds(acc, from, t)[0] = acc
    BY FoldStep
  <2>2. QED  BY <2>1
<1>2. ASSUME NEW n \in Nat, n \in T PROVE n + 1 \in T
  <2>1. n + 1 <= m => n < Len(s) /\ n < Len(t) /\ s[n + 1] = t[n + 1] /\ Same(n)
    <3>1. Len(s) \in Nat /\ Len(t) \in Nat  BY DEF Numbered
    <3> HIDE DEF Same
    <3>2. QED  BY <1>2, <3>1
  <2>2. n + 1 <= m => Same(n + 1)
    BY <2>1, FoldStep
  <2> HIDE DEF Same
  <2>3. QED  BY <2>2
<1>3. m \in T
  <2> HIDE DEF T
  <2>1. QED  BY <1>1, <1>2, Induction
<1>4. QED  BY <1>3

\* A fold that resumes behind the event m, from the accumulator that a fold from the
\* beginning has there, goes on as that fold does.
LEMMA FoldResumes ==
    ASSUME NEW events \in Numbered, NEW m \in Nat, m <= Len(events)
    PROVE  Fold(Folds(Acc0, 0, events)[m], m, events) = Fold(Acc0, 0, events)
<1> DEFINE F == Folds(Acc0, 0, events)
           G == Folds(F[m], m, events)
           Meets(n) == IF n < m THEN G[n] = F[m] ELSE G[n] = F[n]
           T == {n \in Nat : n <= Len(events) => Meets(n)}
<1>0. Len(events) \in Nat
  BY DEF Numbered
<1>1. G[0] = F[m] /\ \A n \in Nat : n < Len(events) =>
                        G[n + 1] = IF n < m THEN G[n] ELSE Apply(G[n], events[n + 1])
  BY FoldStep
<1>2. \A n \in Nat : n < Len(events) => F[n + 1] = Apply(F[n], events[n + 1])
  BY FoldStep
<1> HIDE DEF F, G
<1>3. 0 \in T
  BY <1>1
<1>4. ASSUME NEW n \in Nat, n \in T PROVE n + 1 \in T
  <2> SUFFICES ASSUME n + 1 <= Len(events) PROVE Meets(n + 1)
    OBVIOUS
  <2>1. Meets(n) /\ n < Len(events)
    BY <1>0, <1>4
  <2>2. CASE n < m
    BY <1>1, <2>1, <2>2
  <2>3. CASE ~(n < m)
    BY <1>1, <1>2, <2>1, <2>3
  <2>4. QED  BY <2>2, <2>3
<1>5. Len(events) \in T
  <2> HIDE DEF T
  <2>1. QED  BY <1>0, <1>3, <1>4, Induction
<1>6. G[Len(events)] = F[Len(events)]
  BY <1>0, <1>5
<1>7. QED  BY <1>6 DEF F, G, Fold

\* One more event, one more step.
LEMMA FoldAppend ==
    ASSUME NEW events \in Numbered, NEW e \in Event, e.sequence = Len(events) + 1
    PROVE  /\ Append(events, e) \in Numbered
           /\ Fold(Acc0, 0, Append(events, e)) = Apply(Fold(Acc0, 0, events), e)
           /\ \A m \in 0 .. Len(events) :
                 Folds(Acc0, 0, Append(events, e))[m] = Folds(Acc0, 0, events)[m]
<1> DEFINE t == Append(events, e)
<1>1. /\ Len(events) \in Nat /\ Len(t) = Len(events) + 1 /\ t \in Seq(Event)
      /\ t[Len(events) + 1] = e
      /\ \A k \in 1 .. Len(events) : t[k] = events[k] /\ events[k].sequence = k
  BY DEF Numbered
<1> HIDE DEF t
<1>2. t \in Numbered
  BY <1>1 DEF Numbered
<1>3. ASSUME NEW m \in 0 .. Len(events)
      PROVE  Folds(Acc0, 0, t)[m] = Folds(Acc0, 0, events)[m]
  BY <1>1, <1>2, FoldsAgree
<1>4. Folds(Acc0, 0, t)[Len(events) + 1] = Apply(Folds(Acc0, 0, t)[Len(events)], e)
  <2>1. Len(events) < Len(t) /\ ~(Len(events) < 0)
    BY <1>1
  <2>2. Folds(Acc0, 0, t)[Len(events) + 1] =
          IF Len(events) < 0 THEN Folds(Acc0, 0, t)[Len(events)]
          ELSE Apply(Folds(Acc0, 0, t)[Len(events)], t[Len(events) + 1])
    BY <1>1, <1>2, <2>1, FoldStep
  <2>3. QED  BY <1>1, <2>1, <2>2
<1>5. QED  BY <1>1, <1>2, <1>3, <1>4 DEF t, Fold

\* The fold of a prefix, taken as a log of its own.
LEMMA FoldPrefix ==
    ASSUME NEW events \in Numbered, NEW m \in 0 .. Len(events)
    PROVE  /\ SubSeq(events, 1, m) \in Numbered
           /\ Fold(Acc0, 0, SubSeq(events, 1, m)) = Folds(Acc0, 0, events)[m]
<1> DEFINE s == SubSeq(events, 1, m)
<1>1. /\ Len(events) \in Nat /\ m \in Nat /\ events \in Seq(Event)
      /\ \A k \in 1 .. Len(events) : events[k].sequence = k
  BY DEF Numbered
<1>2. /\ Len(s) = m /\ s \in Seq(Event)
      /\ \A k \in 1 .. m : s[k] = events[k]
  BY <1>1
<1> HIDE DEF s
<1>3. s \in Numbered
  BY <1>1, <1>2 DEF Numbered
<1>4. Folds(Acc0, 0, s)[m] = Folds(Acc0, 0, events)[m]
  <2>1. m <= Len(s) /\ m <= Len(events)
    BY <1>1, <1>2
  <2>2. m \in Nat /\ \A k \in 1 .. m : s[k] = events[k]
    BY <1>1, <1>2
  <2>3. 0 \in Nat /\ events \in Numbered
    OBVIOUS
  <2>4. QED  BY <1>3, <2>1, <2>2, <2>3, FoldsAgree, Zenon
<1>5. QED  BY <1>2, <1>3, <1>4 DEF s, Fold

\* What the accumulator of a log is: typed, and it has counted every event.
Counted(acc, n) == acc \in Accumulator /\ acc.count = n /\ acc.sequence = n

LEMMA ApplyCounts ==
    ASSUME NEW acc, NEW n \in Nat, Counted(acc, n), NEW e \in Event, e.sequence = n + 1
    PROVE  /\ Counted(Apply(acc, e), n + 1)
           /\ e.type # "issued" => Apply(acc, e).total = acc.total
           /\ Apply(acc, e).cancelled <=> acc.cancelled \/ e.type = "cancelled"
<1>1. Max({n, n + 1}) = n + 1
  BY DEF Max
<1> DEFINE seen == [acc EXCEPT !.count = @ + 1, !.sequence = Max({@, e.sequence})]
<1>2. seen = [acc EXCEPT !.count = n + 1, !.sequence = n + 1] /\ acc \in Accumulator
  BY <1>1 DEF Counted
<1> HIDE DEF seen
<1>3. /\ seen \in Accumulator /\ seen.count = n + 1 /\ seen.sequence = n + 1
      /\ seen.total = acc.total /\ seen.cancelled = acc.cancelled
  <2>1. acc.count \in Nat /\ n + 1 \in Nat
    BY <1>2 DEF Accumulator
  <2>2. seen \in Accumulator
    BY <1>2, <2>1 DEF Accumulator
  <2>3. /\ seen.count = n + 1 /\ seen.sequence = n + 1
        /\ seen.total = acc.total /\ seen.cancelled = acc.cancelled
    BY <1>2 DEF Accumulator
  <2>4. QED  BY <2>2, <2>3
<1>4. acc.cancelled \in BOOLEAN /\ e.type \in {"issued", "payment", "credit", "cancelled"}
      /\ e.amount \in Nat /\ e.sequence \in Nat
  BY DEF Counted, Accumulator, Event
<1>5. Apply(acc, e) =
        CASE acc.cancelled -> seen
          [] ~acc.cancelled /\ e.type = "issued" ->
               [seen EXCEPT !.total = e.amount, !.issued = TRUE]
          [] ~acc.cancelled /\ e.type = "payment" ->
               [seen EXCEPT !.amount_paid = @ + e.amount, !.last_payment_at = e.sequence]
          [] ~acc.cancelled /\ e.type = "credit" ->
               [seen EXCEPT !.credited = @ + e.amount]
          [] ~acc.cancelled /\ e.type = "cancelled" -> [seen EXCEPT !.cancelled = TRUE]
  BY DEF Apply, seen
<1>6. CASE acc.cancelled
  BY <1>3, <1>5, <1>6 DEF Counted
<1>7. CASE ~acc.cancelled /\ e.type = "issued"
  BY <1>3, <1>4, <1>5, <1>7 DEF Counted, Accumulator
<1>8. CASE ~acc.cancelled /\ e.type = "payment"
  <2> DEFINE acc2 == [seen EXCEPT !.amount_paid = @ + e.amount, !.last_payment_at = e.sequence]
  <2>1. Apply(acc, e) = acc2
    BY <1>4, <1>5, <1>8
  <2>2. seen.amount_paid + e.amount \in Nat
    BY <1>3, <1>4 DEF Accumulator
  <2>3. /\ acc2 \in Accumulator /\ acc2.count = n + 1 /\ acc2.sequence = n + 1
        /\ acc2.total = acc.total /\ acc2.cancelled = acc.cancelled
    BY <1>3, <1>4, <2>2 DEF Accumulator
  <2>4. QED  BY <1>8, <2>1, <2>3 DEF Counted
<1>9. CASE ~acc.cancelled /\ e.type = "credit"
  BY <1>3, <1>4, <1>5, <1>9 DEF Counted, Accumulator
<1>10. CASE ~acc.cancelled /\ e.type = "cancelled"
  BY <1>3, <1>4, <1>5, <1>10 DEF Counted, Accumulator
<1>11. QED  BY <1>4, <1>6, <1>7, <1>8, <1>9, <1>10

-----------------------------------------------------------------------------
(* The row is the fold *)

InvoiceRow ==
    [status : InvoiceStatus, total : Nat, amount_paid : Nat, amount_credited : Nat,
     balance_due : Int, paid_at : Nat]

FoldOf(i) == Fold(Acc0, 0, log[i])

\* The money columns of the row r say what the accumulator does.
Tells(r, acc) ==
    /\ r.total = acc.total
    /\ r.amount_paid = acc.amount_paid
    /\ r.amount_credited = acc.credited
    /\ r.balance_due = acc.total - acc.credited - acc.amount_paid

\* A snapshot is the fold of the log up to some event.
SnapshotOK(i) ==
    snapshot[i] # NoSnapshot =>
        /\ snapshot[i].sequence \in 1 .. Len(log[i])
        /\ snapshot[i].state = Finalize(Folds(Acc0, 0, log[i])[snapshot[i].sequence])

LogOK(i) ==
    /\ log[i] \in Numbered
    /\ Counted(FoldOf(i), Len(log[i]))
    /\ ~Issued(i) => log[i] = <<>> /\ snapshot[i] = NoSnapshot
    /\ Issued(i) => row[i] \in InvoiceRow /\ Tells(row[i], FoldOf(i))
    /\ SnapshotOK(i)
    /\ FoldOf(i).cancelled <=> Cancelled(i)

LogInv ==
    /\ DOMAIN row = Invoices /\ DOMAIN log = Invoices /\ DOMAIN snapshot = Invoices
    /\ \A i \in Invoices : LogOK(i)

\* The event e is appended to the log of i and applied to its row.
Booked(i, e) ==
    /\ log' = [log EXCEPT ![i] = Append(log[i], e)]
    /\ row' = [row EXCEPT ![i] = Projected(row[i], Finalize(Apply(FoldOf(i), e)))]
    /\ \/ snapshot' = snapshot
       \/ snapshot' = [snapshot EXCEPT ![i] = [sequence |-> Len(log[i]) + 1,
                                               state |-> Finalize(Apply(FoldOf(i), e))]]

EventOf(i, type, amount) ==
    [sequence |-> Len(log[i]) + 1, type |-> type, amount |-> amount]

\* next_sequence
LEMMA NextSequenceIs ==
    ASSUME NEW i, log[i] \in Numbered
    PROVE  NextSequence(i) = Len(log[i]) + 1
<1> DEFINE n == Len(log[i])
           S == {0} \cup {log[i][k].sequence : k \in DOMAIN log[i]}
<1>1. n \in Nat /\ DOMAIN log[i] = 1 .. n /\ \A k \in 1 .. n : log[i][k].sequence = k
  BY DEF Numbered
<1>2. n \in S /\ \A x \in S : x \in Nat /\ n >= x
  BY <1>1
<1> HIDE DEF n, S
<1>3. Max(S) = n
  <2>1. \E x \in S : \A y \in S : x >= y
    BY <1>2
  <2> DEFINE top == CHOOSE x \in S : \A y \in S : x >= y
  <2>2. top \in S /\ \A y \in S : top >= y
    BY <2>1
  <2>3. Max(S) = top
    BY DEF Max
  <2> HIDE DEF top
  <2>4. QED  BY <1>1, <1>2, <2>2, <2>3
<1>4. QED  BY <1>3 DEF NextSequence, n, S

\* What a projection derives is the fold of the whole log, with a snapshot or without.
LEMMA DerivedIsFold ==
    ASSUME NEW i, log[i] \in Numbered, SnapshotOK(i), NEW e \in Event,
           e.sequence = Len(log[i]) + 1
    PROVE  Derived(i, Append(log[i], e)) = Finalize(Apply(FoldOf(i), e))
<1> DEFINE events == Append(log[i], e)
<1>1. /\ events \in Numbered
      /\ Fold(Acc0, 0, events) = Apply(FoldOf(i), e)
      /\ \A m \in 0 .. Len(log[i]) : Folds(Acc0, 0, events)[m] = Folds(Acc0, 0, log[i])[m]
  BY FoldAppend DEF FoldOf
<1>2. Len(log[i]) \in Nat /\ Len(events) = Len(log[i]) + 1
  BY DEF Numbered
<1> HIDE DEF events
<1>3. CASE snapshot[i] = NoSnapshot
  BY <1>1, <1>3 DEF Derived, FoldInvoiceEvents, events
<1>4. CASE snapshot[i] # NoSnapshot
  <2> DEFINE m == snapshot[i].sequence
  <2>1. /\ m \in 1 .. Len(log[i])
        /\ snapshot[i].state = Finalize(Folds(Acc0, 0, log[i])[m])
    BY <1>4 DEF SnapshotOK
  <2> HIDE DEF m
  <2>2. m \in Nat /\ m <= Len(events) /\ m \in 0 .. Len(log[i])
    BY <1>2, <2>1
  <2>3. AccFromState(snapshot[i].state) = Folds(Acc0, 0, events)[m]
    BY <1>1, <2>1, <2>2 DEF AccFromState, Finalize
  <2>4. Fold(Folds(Acc0, 0, events)[m], m, events) = Fold(Acc0, 0, events)
    BY <1>1, <2>2, FoldResumes
  <2>5. QED  BY <1>1, <1>4, <2>3, <2>4 DEF Derived, FoldFromSnapshot, events, m
<1>5. QED  BY <1>3, <1>4

\* Appending and re-projecting books one event.
LEMMA ProjectionBooks ==
    ASSUME NEW i \in Invoices, LogOK(i), NEW type \in {"payment", "credit", "cancelled"},
           NEW amount \in Nat, AppendAndProject(i, type, amount)
    PROVE  /\ EventOf(i, type, amount) \in Event
           /\ Booked(i, EventOf(i, type, amount))
<1> DEFINE e == EventOf(i, type, amount)
           state == Finalize(Apply(FoldOf(i), e))
<1>1. /\ log[i] \in Numbered /\ Len(log[i]) \in Nat /\ SnapshotOK(i)
      /\ Counted(FoldOf(i), Len(log[i]))
  BY DEF LogOK, Numbered
<1>2. e \in Event /\ e.sequence = Len(log[i]) + 1
  BY <1>1 DEF EventOf, Event
<1>3. e = [sequence |-> NextSequence(i), type |-> type, amount |-> amount]
  BY <1>1, NextSequenceIs DEF EventOf
<1> HIDE DEF e
<1>4. Derived(i, Append(log[i], e)) = state
  BY <1>1, <1>2, DerivedIsFold
<1>5. state.acc.sequence = Len(log[i]) + 1
  BY <1>1, <1>2, ApplyCounts DEF Counted, Finalize
<1> HIDE DEF state
<1>6. /\ log' = [log EXCEPT ![i] = Append(log[i], e)]
      /\ row' = [row EXCEPT ![i] = Projected(row[i], state)]
      /\ snapshot' = MaybeSnapshot(i, state)
  BY <1>3, <1>4 DEF AppendAndProject
<1>7. \/ snapshot' = snapshot
      \/ snapshot' = [snapshot EXCEPT ![i] = [sequence |-> Len(log[i]) + 1, state |-> state]]
  BY <1>5, <1>6 DEF MaybeSnapshot
<1>8. QED  BY <1>2, <1>6, <1>7 DEF Booked, e, state

\* What the accumulator does with one event, column by column.
LEMMA ApplyMoves ==
    ASSUME NEW acc \in Accumulator, NEW e \in Event, e.type # "issued"
    PROVE  /\ Apply(acc, e).total = acc.total
           /\ Apply(acc, e).amount_paid =
                acc.amount_paid + (IF e.type = "payment" /\ ~acc.cancelled THEN e.amount ELSE 0)
           /\ Apply(acc, e).credited =
                acc.credited + (IF e.type = "credit" /\ ~acc.cancelled THEN e.amount ELSE 0)
<1> DEFINE seen == [acc EXCEPT !.count = @ + 1, !.sequence = Max({@, e.sequence})]
           m == Max({acc.sequence, e.sequence})
<1>1. seen = [acc EXCEPT !.count = acc.count + 1, !.sequence = m]
  OBVIOUS
<1> HIDE DEF seen, m
<1>2. /\ seen.total = acc.total /\ seen.amount_paid = acc.amount_paid
      /\ seen.credited = acc.credited
  BY <1>1 DEF Accumulator
<1>3. DOMAIN seen = DOMAIN acc
  BY <1>1
<1>4. /\ acc.amount_paid \in Nat /\ acc.credited \in Nat /\ acc.cancelled \in BOOLEAN
      /\ e.type \in {"payment", "credit", "cancelled"}
      /\ {"total", "amount_paid", "credited"} \subseteq DOMAIN acc
  BY DEF Accumulator, Event
<1>5. Apply(acc, e) =
        CASE acc.cancelled -> seen
          [] ~acc.cancelled /\ e.type = "issued" ->
               [seen EXCEPT !.total = e.amount, !.issued = TRUE]
          [] ~acc.cancelled /\ e.type = "payment" ->
               [seen EXCEPT !.amount_paid = @ + e.amount, !.last_payment_at = e.sequence]
          [] ~acc.cancelled /\ e.type = "credit" ->
               [seen EXCEPT !.credited = @ + e.amount]
          [] ~acc.cancelled /\ e.type = "cancelled" -> [seen EXCEPT !.cancelled = TRUE]
  BY DEF Apply, seen
<1>6. CASE acc.cancelled
  BY <1>2, <1>4, <1>5, <1>6
<1>7. CASE ~acc.cancelled /\ e.type = "payment"
  <2> DEFINE acc2 == [seen EXCEPT !.amount_paid = @ + e.amount, !.last_payment_at = e.sequence]
  <2>1. Apply(acc, e) = acc2
    BY <1>4, <1>5, <1>7
  <2>2. /\ acc2.total = acc.total /\ acc2.amount_paid = acc.amount_paid + e.amount
        /\ acc2.credited = acc.credited
    BY <1>2, <1>3, <1>4
  <2> HIDE DEF acc2
  <2>3. QED  BY <1>4, <1>7, <2>1, <2>2
<1>8. CASE ~acc.cancelled /\ e.type = "credit"
  BY <1>2, <1>3, <1>4, <1>5, <1>8
<1>9. CASE ~acc.cancelled /\ e.type = "cancelled"
  BY <1>2, <1>3, <1>4, <1>5, <1>9
<1>10. QED  BY <1>4, <1>6, <1>7, <1>8, <1>9

\* A projected row is a row, and tells what the accumulator does.
LEMMA ProjectedTells ==
    ASSUME NEW r \in InvoiceRow, NEW acc \in Accumulator, r.total = acc.total
    PROVE  /\ Projected(r, Finalize(acc)) \in InvoiceRow
           /\ Tells(Projected(r, Finalize(acc)), acc)
<1> DEFINE s == Finalize(acc)
<1>1. /\ s.acc = acc /\ s.balance_due = acc.total - acc.credited - acc.amount_paid
      /\ s.payment_status \in InvoiceStatus \cup {NoStatus}
      /\ s.paid_at \in {0, acc.last_payment_at}
  BY DEF Finalize, InvoiceStatus
<1>2. /\ acc.total \in Nat /\ acc.amount_paid \in Nat /\ acc.credited \in Nat
      /\ acc.last_payment_at \in Nat
  BY DEF Accumulator
<1>3. r.status \in InvoiceStatus /\ r.paid_at \in Nat
  BY DEF InvoiceRow
<1> HIDE DEF s
<1>4. Projected(r, s) \in InvoiceRow
  BY <1>1, <1>2, <1>3 DEF Projected, InvoiceRow
<1>5. Tells(Projected(r, s), acc)
  BY <1>1 DEF Projected, Tells
<1>6. QED  BY <1>4, <1>5 DEF s

\* An invoice that nobody touches.
LEMMA LogSame ==
    ASSUME NEW j, LogOK(j), log'[j] = log[j], row'[j] = row[j], snapshot'[j] = snapshot[j]
    PROVE  LogOK(j)'
  BY DEF LogOK, FoldOf, SnapshotOK, Issued, Cancelled

\* A booked event keeps the row, the log and the snapshot in agreement.
LEMMA BookedKeepsLog ==
    ASSUME LogInv, NEW i \in Invoices, Issued(i),
           NEW e \in Event, e.sequence = Len(log[i]) + 1, e.type # "issued", Booked(i, e)
    PROVE  LogInv' /\ FoldOf(i)' = Apply(FoldOf(i), e)
<1> DEFINE acc == Apply(FoldOf(i), e)
           n == Len(log[i])
<1>1. /\ log[i] \in Numbered /\ n \in Nat /\ Counted(FoldOf(i), n)
      /\ row[i] \in InvoiceRow /\ row[i].total = FoldOf(i).total /\ SnapshotOK(i)
      /\ FoldOf(i).cancelled <=> Cancelled(i)
  BY DEF LogInv, LogOK, Numbered, Tells
<1>2. /\ log'[i] = Append(log[i], e) /\ row'[i] = Projected(row[i], Finalize(acc))
      /\ \/ snapshot'[i] = snapshot[i]
         \/ snapshot'[i] = [sequence |-> n + 1, state |-> Finalize(acc)]
      /\ DOMAIN log' = Invoices /\ DOMAIN row' = Invoices /\ DOMAIN snapshot' = Invoices
      /\ \A j \in Invoices : j # i => /\ log'[j] = log[j] /\ row'[j] = row[j]
                                       /\ snapshot'[j] = snapshot[j]
  BY DEF Booked, LogInv
<1>3. /\ log'[i] \in Numbered /\ Len(log'[i]) = n + 1
      /\ Fold(Acc0, 0, log'[i]) = acc
      /\ \A m \in 0 .. n : Folds(Acc0, 0, log'[i])[m] = Folds(Acc0, 0, log[i])[m]
  <2>1. Len(Append(log[i], e)) = n + 1
    BY <1>1 DEF Numbered
  <2>2. QED  BY <1>1, <1>2, <2>1, FoldAppend DEF FoldOf
<1>4. /\ Counted(acc, n + 1) /\ acc.total = row[i].total
      /\ acc.cancelled <=> Cancelled(i) \/ e.type = "cancelled"
  BY <1>1, ApplyCounts
<1> HIDE DEF acc, n
<1>5. FoldOf(i)' = acc
  BY <1>3 DEF FoldOf
<1>6. row'[i] \in InvoiceRow /\ Tells(row'[i], acc)
  BY <1>1, <1>2, <1>4, ProjectedTells DEF Counted
<1>7. Issued(i)'
  <2>1. "total" \in DOMAIN row'[i]  BY <1>6 DEF InvoiceRow
  <2>2. "total" \notin DOMAIN Absent  BY DEF Absent
  <2>3. QED  BY <2>1, <2>2 DEF Issued
<1>8. SnapshotOK(i)'
  <2> SUFFICES ASSUME snapshot'[i] # NoSnapshot
               PROVE  /\ snapshot'[i].sequence \in 1 .. Len(log'[i])
                      /\ snapshot'[i].state = Finalize(Folds(Acc0, 0, log'[i])[snapshot'[i].sequence])
    BY DEF SnapshotOK
  <2>1. CASE snapshot'[i] = snapshot[i]
    <3> DEFINE m == snapshot[i].sequence
    <3>1. m \in 1 .. n /\ snapshot[i].state = Finalize(Folds(Acc0, 0, log[i])[m])
      BY <1>1, <2>1 DEF SnapshotOK, n
    <3>2. m \in 0 .. n /\ m \in 1 .. (n + 1)
      BY <1>1, <3>1
    <3>3. QED  BY <1>3, <2>1, <3>1, <3>2
  <2>2. CASE snapshot'[i] = [sequence |-> n + 1, state |-> Finalize(acc)]
    <3>1. Folds(Acc0, 0, log'[i])[n + 1] = acc
      BY <1>3 DEF Fold
    <3>2. QED  BY <1>1, <1>3, <2>2, <3>1
  <2>3. QED  BY <1>2, <2>1, <2>2
<1>9. FoldOf(i)'.cancelled <=> Cancelled(i)'
  <2>1. /\ DOMAIN log[i] = 1 .. n /\ DOMAIN log'[i] = 1 .. (n + 1)
        /\ \A k \in 1 .. n : log'[i][k] = log[i][k]
        /\ log'[i][n + 1] = e
    BY <1>1, <1>2 DEF Numbered, n
  <2>2. Cancelled(i)' <=> Cancelled(i) \/ e.type = "cancelled"
    <3>1. Cancelled(i) <=> \E k \in 1 .. n : log[i][k].type = "cancelled"
      BY <2>1 DEF Cancelled
    <3>2. Cancelled(i)' <=> \E k \in 1 .. (n + 1) : log'[i][k].type = "cancelled"
      BY <2>1 DEF Cancelled
    <3>3. 1 .. (n + 1) = (1 .. n) \cup {n + 1}
      BY <1>1
    <3>4. QED  BY <2>1, <3>1, <3>2, <3>3
  <2>3. QED  BY <1>4, <1>5, <2>2
<1>10. LogOK(i)'
  BY <1>3, <1>4, <1>5, <1>6, <1>7, <1>8, <1>9 DEF LogOK
<1>11. ASSUME NEW j \in Invoices, j # i PROVE LogOK(j)'
  BY <1>2, <1>11, LogSame DEF LogInv
<1>12. QED  BY <1>2, <1>5, <1>10, <1>11 DEF LogInv, acc

\* Nothing but the status and the paid_at of issued rows is written.
KeepsMoney ==
    /\ UNCHANGED <<log, snapshot>> /\ DOMAIN row' = DOMAIN row
    /\ \A i \in Invoices :
          \/ row'[i] = row[i]
          \/ /\ Issued(i) /\ row'[i] \in InvoiceRow
             /\ row'[i].total = row[i].total /\ row'[i].amount_paid = row[i].amount_paid
             /\ row'[i].amount_credited = row[i].amount_credited
             /\ row'[i].balance_due = row[i].balance_due

\* An issued row has columns that an absent one lacks.
LEMMA RowsAreIssued == \A r \in InvoiceRow : r # Absent
<1> SUFFICES ASSUME NEW r \in InvoiceRow PROVE r # Absent
  OBVIOUS
<1>1. "total" \in DOMAIN r  BY DEF InvoiceRow
<1>2. "total" \notin DOMAIN Absent  BY DEF Absent
<1>3. QED  BY <1>1, <1>2

LEMMA MoneyKeepsLog ==
    ASSUME LogInv, KeepsMoney
    PROVE  LogInv'
<1>1. ASSUME NEW i \in Invoices PROVE LogOK(i)'
  <2>1. LogOK(i) /\ log'[i] = log[i] /\ snapshot'[i] = snapshot[i]
    BY DEF LogInv, KeepsMoney
  <2>2. CASE row'[i] = row[i]
    BY <2>1, <2>2, LogSame
  <2>3. CASE row'[i] # row[i]
    <3>1. Issued(i) /\ Issued(i)' /\ row'[i] \in InvoiceRow /\ Tells(row'[i], FoldOf(i))
      BY <2>1, <2>3, RowsAreIssued DEF KeepsMoney, LogOK, Tells, Issued
    <3>2. FoldOf(i)' = FoldOf(i) /\ (Cancelled(i)' <=> Cancelled(i)) /\ SnapshotOK(i)'
      BY <2>1 DEF FoldOf, Cancelled, SnapshotOK, LogOK
    <3>3. QED  BY <2>1, <3>1, <3>2 DEF LogOK
  <2>4. QED  BY <2>2, <2>3
<1>2. QED  BY <1>1 DEF LogInv, KeepsMoney

\* An issued invoice starts its log with the event that issues it.
LEMMA CreateKeepsLog ==
    ASSUME LogInv, NEW i \in Invoices, NEW total \in Totals, CreateInvoice(i, total)
    PROVE  /\ LogInv' /\ FoldOf(i)' = [Acc0 EXCEPT !.total = total, !.issued = TRUE,
                                                  !.count = 1, !.sequence = 1]
           /\ ~Cancelled(i) /\ ~Cancelled(i)'
<1> DEFINE e == [sequence |-> 1, type |-> "issued", amount |-> total]
           acc == [Acc0 EXCEPT !.total = total, !.issued = TRUE, !.count = 1, !.sequence = 1]
<1>1. /\ total \in Nat /\ e \in Event /\ e.sequence = 1 /\ e.type = "issued"
      /\ e.amount = total
  BY LedgerAssumption DEF Event
<1>2. /\ log[i] = <<>> /\ snapshot[i] = NoSnapshot /\ <<>> \in Numbered
  BY DEF LogInv, LogOK, CreateInvoice, Issued, Numbered
<1>3. /\ log' = [log EXCEPT ![i] = Append(<<>>, e)]
      /\ row' = [row EXCEPT ![i] = [status |-> "DRAFT", total |-> total, amount_paid |-> 0,
                     amount_credited |-> 0, balance_due |-> total, paid_at |-> 0]]
      /\ snapshot' = snapshot
  BY DEF CreateInvoice
<1>4. Apply(Acc0, e) = acc
  <2> DEFINE seen == [Acc0 EXCEPT !.count = @ + 1, !.sequence = Max({@, e.sequence})]
  <2>1. Max({0, 1}) = 1  BY DEF Max
  <2>2. seen = [Acc0 EXCEPT !.count = 1, !.sequence = 1] /\ Acc0.cancelled = FALSE
    <3>1. Acc0.count = 0 /\ Acc0.sequence = 0 /\ Acc0.cancelled = FALSE
      BY DEF Acc0
    <3> HIDE DEF e
    <3>2. Max({Acc0.sequence, e.sequence}) = 1 /\ Acc0.count + 1 = 1
      BY <1>1, <2>1, <3>1
    <3>3. QED  BY <3>1, <3>2
  <2>3. [seen EXCEPT !.total = total, !.issued = TRUE] = acc
    BY <2>2 DEF Acc0
  <2>4. Apply(Acc0, e) = [seen EXCEPT !.total = total, !.issued = TRUE]
    <3> HIDE DEF e
    <3>1. QED  BY <1>1, <2>2 DEF Apply
  <2>5. QED  BY <2>3, <2>4
<1>5. Fold(Acc0, 0, <<>>) = Acc0
  BY <1>2, FoldStep DEF Fold
<1>6. Append(<<>>, e) \in Numbered /\ Fold(Acc0, 0, Append(<<>>, e)) = acc
  <2> HIDE DEF e
  <2>1. e.sequence = Len(<<>>) + 1  BY <1>1
  <2>2. QED  BY <1>1, <1>2, <1>4, <1>5, <2>1, FoldAppend
<1>7. Counted(acc, 1) /\ acc.cancelled = FALSE
  BY <1>1 DEF Counted, Accumulator, Acc0
<1>8. /\ Append(<<>>, e) = <<e>> /\ Len(<<e>>) = 1 /\ DOMAIN <<e>> = {1}
      /\ <<e>>[1].type = "issued" /\ DOMAIN log[i] = {}
  BY <1>2
<1> HIDE DEF e
<1>9. log'[i] = Append(<<>>, e) /\ FoldOf(i)' = acc
  BY <1>3, <1>6 DEF FoldOf, LogInv
<1>10. ~Cancelled(i) /\ ~Cancelled(i)'
  BY <1>8, <1>9 DEF Cancelled
<1>11. /\ row'[i] = [status |-> "DRAFT", total |-> total, amount_paid |-> 0,
                     amount_credited |-> 0, balance_due |-> total, paid_at |-> 0]
       /\ row'[i] \in InvoiceRow
  BY <1>1, <1>3 DEF LogInv, InvoiceRow, InvoiceStatus
<1>12. Tells(row'[i], acc) /\ Issued(i)'
  BY <1>1, <1>11, RowsAreIssued DEF Tells, Acc0, Issued
<1>13. LogOK(i)'
  BY <1>2, <1>3, <1>6, <1>7, <1>8, <1>9, <1>10, <1>11, <1>12 DEF LogOK, SnapshotOK
<1>14. ASSUME NEW j \in Invoices, j # i PROVE LogOK(j)'
  BY <1>3, <1>14, LogSame DEF LogInv
<1>15. QED  BY <1>3, <1>9, <1>10, <1>13, <1>14 DEF LogInv, acc

-----------------------------------------------------------------------------
(* What a step does to the books *)

\* A payment that fits the balance, backed by nothing or by a fresh settlement.
Pays(i, amount, source) ==
    /\ amount \in Nat \ {0} /\ amount <= row[i].balance_due
    /\ Booked(i, EventOf(i, "payment", amount))
    /\ payments' = Append(payments, [inv |-> i, amount |-> amount, source |-> source])
    /\ \/ source = NoOne /\ UNCHANGED reconciled
       \/ /\ source \in Settlements
          /\ \A k \in DOMAIN payments : payments[k].source # source
          /\ reconciled' = reconciled \cup {source}

\* A credit that fits the balance.
Credits(i, amount) ==
    /\ amount \in Nat \ {0} /\ amount <= row[i].balance_due
    /\ Booked(i, EventOf(i, "credit", amount))
    /\ UNCHANGED <<payments, reconciled>>

Cancels(i) ==
    Booked(i, EventOf(i, "cancelled", 0)) /\ UNCHANGED <<payments, reconciled>>

Payment == [inv : Invoices, amount : Nat, source : Settlements \cup {NoOne}]

\* A step issues an invoice, books one event of an issued one, or moves no money.
MoneyStep ==
    \/ \E i \in Invoices, t \in Totals : CreateInvoice(i, t)
    \/ \E i \in Invoices :
          /\ Issued(i)
          /\ \/ \E amount, source : Pays(i, amount, source)
             \/ \E amount : Credits(i, amount)
             \/ Cancels(i)
    \/ KeepsMoney /\ UNCHANGED <<payments, reconciled>>

\* The amount that apply_reconciled_payment clamps to the balance.
LEMMA Clamped ==
    ASSUME NEW a \in Nat \ {0}, NEW b \in Int, Min({a, b}) > 0
    PROVE  Min({a, b}) \in Nat \ {0} /\ Min({a, b}) <= b
  BY DEF Min

\* What a handler that holds the lock knows of its invoice.
LEMMA LockedInvoice ==
    ASSUME LedgerInv, LogInv, NEW w \in Workers, txn[w].op \in LockingOps
    PROVE  /\ txn[w].inv \in Invoices /\ Issued(txn[w].inv)
           /\ txn[w].seen = row[txn[w].inv]
           /\ row[txn[w].inv] \in InvoiceRow /\ row[txn[w].inv].balance_due \in Int
           /\ LogOK(txn[w].inv) /\ TxnOK(txn[w])
<1>1. txn[w].inv \in Invoices /\ Issued(txn[w].inv) /\ txn[w].seen = row[txn[w].inv]
      /\ TxnOK(txn[w])
  BY DEF LedgerInv, LocksOK, TxnsOK, TxnOK, Idle, LockingOps, Issued
<1>2. LogOK(txn[w].inv) /\ row[txn[w].inv] \in InvoiceRow
  BY <1>1 DEF LogInv, LogOK
<1>3. QED  BY <1>1, <1>2 DEF InvoiceRow

\* Settling an invoice under its lock pays it.
LEMMA SettlePays ==
    ASSUME NEW i \in Invoices, LogOK(i), NEW amount \in Nat \ {0},
           amount <= row[i].balance_due, NEW source, Settle(i, amount, source),
           \/ source = NoOne /\ UNCHANGED reconciled
           \/ /\ source \in Settlements
              /\ \A k \in DOMAIN payments : payments[k].source # source
              /\ reconciled' = reconciled \cup {source}
    PROVE  Pays(i, amount, source)
<1>1. Booked(i, EventOf(i, "payment", amount))
  BY ProjectionBooks DEF Settle
<1>2. QED  BY <1>1 DEF Pays, Settle

\* Every step of the ledger, read as a step of its books.
LEMMA StepMovesMoney ==
    ASSUME LedgerInv, LogInv, [Next]_vars
    PROVE  MoneyStep
<1>1. ASSUME NEW w \in Workers, SendInvoice(w) PROVE MoneyStep
  <2> DEFINE i == txn[w].inv
             r == [row[i] EXCEPT !.status = "SENT"]
  <2>1. i \in Invoices /\ Issued(i) /\ row[i] \in InvoiceRow
    BY <1>1, LockedInvoice DEF SendInvoice, LockingOps
  <2>2. /\ r \in InvoiceRow /\ r.total = row[i].total /\ r.amount_paid = row[i].amount_paid
        /\ r.amount_credited = row[i].amount_credited /\ r.balance_due = row[i].balance_due
    BY <2>1 DEF InvoiceRow, InvoiceStatus
  <2>3. row' = [row EXCEPT ![i] = r] /\ UNCHANGED <<log, snapshot, payments, reconciled>>
    BY <1>1 DEF SendInvoice
  <2> HIDE DEF r, i
  <2>4. KeepsMoney
    BY <2>1, <2>2, <2>3 DEF KeepsMoney, LogInv
  <2>5. QED  BY <2>3, <2>4 DEF MoneyStep
<1>2. ASSUME NEW w \in Workers, UpdateInvoice(w) PROVE MoneyStep
  <2> DEFINE i == txn[w].inv
             u == txn[w].arg
             r == Edited(row[i], txn[w].seen, u)
  <2>1. i \in Invoices /\ Issued(i) /\ u \in InvoiceUpdate
    BY <1>2, LedgerAssumption
       DEF UpdateInvoice, LedgerInv, TxnsOK, TxnOK, Idle, Issued
  <2>2. row[i] \in InvoiceRow
    BY <2>1 DEF LogInv, LogOK
  <2>3. u.status \in InvoiceStatus \cup {NoStatus} /\ u.paid_at \in Nat
    BY <2>1, LedgerAssumption DEF InvoiceUpdate
  <2>4. row' = [row EXCEPT ![i] = r] /\ UNCHANGED <<log, snapshot, payments, reconciled>>
    BY <1>2 DEF UpdateInvoice
  <2> HIDE DEF u, i
  <2>5. /\ r \in InvoiceRow /\ r.total = row[i].total /\ r.amount_paid = row[i].amount_paid
        /\ r.amount_credited = row[i].amount_credited /\ r.balance_due = row[i].balance_due
    BY <2>2, <2>3 DEF Edited, InvoiceRow
  <2> HIDE DEF r
  <2>6. KeepsMoney
    BY <2>1, <2>4, <2>5 DEF KeepsMoney, LogInv
  <2>7. QED  BY <2>4, <2>6 DEF MoneyStep
<1>3. ASSUME NEW w \in Workers, RecordCashPayment(w) PROVE MoneyStep
  <2> DEFINE i == txn[w].inv
  <2>1. i \in Invoices /\ Issued(i) /\ LogOK(i) /\ txn[w].seen = row[i] /\ TxnOK(txn[w])
        /\ row[i].balance_due \in Int
    BY <1>3, LockedInvoice DEF RecordCashPayment, LockingOps
  <2>2. txn[w].arg \in Nat \ {0} /\ txn[w].arg <= row[i].balance_due
    BY <1>3, <2>1, LedgerAssumption DEF RecordCashPayment, TxnOK
  <2>3. Settle(i, txn[w].arg, NoOne) /\ UNCHANGED reconciled
    BY <1>3 DEF RecordCashPayment
  <2> HIDE DEF i
  <2>4. Pays(i, txn[w].arg, NoOne)
    BY <2>1, <2>2, <2>3, SettlePays
  <2>5. QED  BY <2>1, <2>4 DEF MoneyStep
<1>4. ASSUME NEW w \in Workers, MarkInvoicePaid(w) PROVE MoneyStep
  <2> DEFINE i == txn[w].inv
  <2>1. i \in Invoices /\ Issued(i) /\ LogOK(i) /\ txn[w].seen = row[i]
        /\ row[i].balance_due \in Int
    BY <1>4, LockedInvoice DEF MarkInvoicePaid, LockingOps
  <2>2. CASE row[i].balance_due > 0
    <3>1. Settle(i, row[i].balance_due, NoOne) /\ UNCHANGED reconciled
      BY <1>4, <2>1, <2>2 DEF MarkInvoicePaid
    <3>2. row[i].balance_due \in Nat \ {0} /\ row[i].balance_due <= row[i].balance_due
      BY <2>1, <2>2
    <3> HIDE DEF i
    <3>3. Pays(i, row[i].balance_due, NoOne)
      BY <2>1, <3>1, <3>2, SettlePays
    <3>4. QED  BY <2>1, <3>3 DEF MoneyStep
  <2>3. CASE ~(row[i].balance_due > 0)
    BY <1>4, <2>1, <2>3 DEF MarkInvoicePaid, MoneyStep, KeepsMoney
  <2>4. QED  BY <2>2, <2>3
<1>5. ASSUME NEW w \in Workers, ApplyReconciledPayment(w) PROVE MoneyStep
  <2> DEFINE i == txn[w].inv
             applied == Min({SettledAmount[txn[w].arg], row[i].balance_due})
  <2>1. i \in Invoices /\ Issued(i) /\ LogOK(i) /\ txn[w].seen = row[i] /\ TxnOK(txn[w])
        /\ row[i].balance_due \in Int
    BY <1>5, LockedInvoice DEF ApplyReconciledPayment, LockingOps
  <2>2. txn[w].arg \in Settlements /\ SettledAmount[txn[w].arg] \in Nat \ {0}
    BY <1>5, <2>1, LedgerAssumption DEF ApplyReconciledPayment, TxnOK
  <2>3. /\ applied > 0 /\ Settle(i, applied, txn[w].arg)
        /\ \A k \in DOMAIN payments : payments[k].source # txn[w].arg
        /\ reconciled' = reconciled \cup {txn[w].arg}
    BY <1>5, <2>1 DEF ApplyReconciledPayment
  <2>4. applied \in Nat \ {0} /\ applied <= row[i].balance_due
    BY <2>1, <2>2, <2>3, Clamped
  <2> HIDE DEF i, applied
  <2>5. Pays(i, applied, txn[w].arg)
    BY <2>1, <2>2, <2>3, <2>4, SettlePays
  <2>6. QED  BY <2>1, <2>5 DEF MoneyStep
<1>6. ASSUME NEW w \in Workers, ApplyCreditNote(w) PROVE MoneyStep
  <2> DEFINE i == txn[w].inv
  <2>1. i \in Invoices /\ Issued(i) /\ LogOK(i) /\ txn[w].seen = row[i] /\ TxnOK(txn[w])
        /\ row[i].balance_due \in Int
    BY <1>6, LockedInvoice DEF ApplyCreditNote, LockingOps
  <2>2. txn[w].arg \in Nat \ {0} /\ txn[w].arg <= row[i].balance_due
    BY <1>6, <2>1, LedgerAssumption DEF ApplyCreditNote, TxnOK
  <2>3. AppendAndProject(i, "credit", txn[w].arg) /\ UNCHANGED <<payments, reconciled>>
    BY <1>6 DEF ApplyCreditNote
  <2> HIDE DEF i
  <2>4. Booked(i, EventOf(i, "credit", txn[w].arg))
    BY <2>1, <2>2, <2>3, ProjectionBooks
  <2>5. Credits(i, txn[w].arg)
    BY <2>2, <2>3, <2>4 DEF Credits
  <2>6. QED  BY <2>1, <2>5 DEF MoneyStep
<1>7. ASSUME NEW w \in Workers, CancelInvoice(w) PROVE MoneyStep
  <2> DEFINE i == txn[w].inv
  <2>1. i \in Invoices /\ Issued(i) /\ LogOK(i)
    BY <1>7, LockedInvoice DEF CancelInvoice, LockingOps
  <2>2. AppendAndProject(i, "cancelled", 0) /\ UNCHANGED <<payments, reconciled>>
    BY <1>7 DEF CancelInvoice
  <2> HIDE DEF i
  <2>3. Cancels(i)
    BY <2>1, <2>2, ProjectionBooks DEF Cancels
  <2>4. QED  BY <2>1, <2>3 DEF MoneyStep
<1>8. ASSUME UNCHANGED <<row, log, snapshot, payments, reconciled>> PROVE MoneyStep
  BY <1>8 DEF MoneyStep, KeepsMoney
<1>9. ASSUME NEW w \in Workers, Start(w) \/ ResendInvoice(w) \/ Rollback(w)
      PROVE  UNCHANGED <<row, log, snapshot, payments, reconciled>>
  BY <1>9, Zenon DEF Start, GetForUpdate, GetById, ResendInvoice, Rollback
<1>10. CASE \E i \in Invoices, t \in Totals : CreateInvoice(i, t)
  BY <1>10 DEF MoneyStep
<1>11. CASE UNCHANGED vars
  BY <1>8, <1>11 DEF vars
<1>12. QED
  BY <1>1, <1>2, <1>3, <1>4, <1>5, <1>6, <1>7, <1>8, <1>9, <1>10, <1>11 DEF Next

-----------------------------------------------------------------------------
(* The materialised row *)

LEMMA InitBooks == Init => LedgerInv /\ LogInv
<1> SUFFICES ASSUME Init PROVE LedgerInv /\ LogInv
  OBVIOUS
<1>1. LedgerInv
  BY DEF Init, LedgerInv, RowsOK, TxnsOK, LocksOK, Absent, Idle, LockingOps, Issued
<1>2. <<>> \in Numbered /\ Len(<<>>) = 0 /\ DOMAIN <<>> = {}
  BY DEF Numbered
<1>3. Fold(Acc0, 0, <<>>) = Acc0 /\ Counted(Acc0, 0) /\ Acc0.cancelled = FALSE
  BY <1>2, FoldStep DEF Fold, Counted, Acc0, Accumulator
<1>4. ASSUME NEW i \in Invoices PROVE LogOK(i)
  <2>1. row[i] = Absent /\ log[i] = <<>> /\ snapshot[i] = NoSnapshot
    BY DEF Init
  <2>2. ~Cancelled(i) /\ FoldOf(i) = Acc0
    BY <1>2, <1>3, <2>1 DEF Cancelled, FoldOf
  <2>3. QED  BY <1>2, <1>3, <2>1, <2>2 DEF LogOK, SnapshotOK, Issued
<1>5. QED  BY <1>1, <1>4 DEF Init, LogInv

LEMMA StepKeepsBooks == LedgerInv /\ LogInv /\ [Next]_vars => LedgerInv' /\ LogInv'
<1> SUFFICES ASSUME LedgerInv, LogInv, [Next]_vars
             PROVE  LedgerInv' /\ LogInv'
  OBVIOUS
<1>1. LedgerInv'
  BY LedgerStepInv
<1>2. ASSUME NEW i \in Invoices, Issued(i), NEW type \in {"payment", "credit", "cancelled"},
             NEW amount \in Nat, Booked(i, EventOf(i, type, amount))
      PROVE  LogInv'
  <2>1. Len(log[i]) \in Nat
    BY DEF LogInv, LogOK, Numbered
  <2>2. LET e == EventOf(i, type, amount)
        IN e \in Event /\ e.sequence = Len(log[i]) + 1 /\ e.type # "issued"
    BY <2>1 DEF EventOf, Event
  <2>3. QED  BY <1>2, <2>2, BookedKeepsLog
<1>3. MoneyStep
  BY StepMovesMoney
<1>4. LogInv'
  BY <1>2, <1>3, CreateKeepsLog, MoneyKeepsLog DEF MoneyStep, Pays, Credits, Cancels
<1>5. QED  BY <1>1, <1>4

\* However long the log and wherever the snapshots, the money columns of every row are
\* the fold of its whole log, and a snapshot is the fold of the log up to its event:
\* resuming from it neither counts an event twice nor leaves one out.
THEOREM RowsAreFolds == Spec => []RowEqualsFold
<1>1. Init => LedgerInv /\ LogInv
  BY InitBooks
<1>2. LedgerInv /\ LogInv /\ [Next]_vars => LedgerInv' /\ LogInv'
  BY StepKeepsBooks
<1>3. LogInv => RowEqualsFold
  <2> SUFFICES ASSUME LogInv, NEW i \in Invoices, Issued(i)
               PROVE  LET state == FoldInvoiceEvents(log[i]) IN
                      /\ \A k \in DOMAIN log[i] : log[i][k].sequence = k
                      /\ row[i].total = state.acc.total
                      /\ row[i].amount_paid = state.acc.amount_paid
                      /\ row[i].amount_credited = state.acc.credited
                      /\ row[i].balance_due = state.balance_due
                      /\ snapshot[i] # NoSnapshot =>
                          snapshot[i].state =
                            FoldInvoiceEvents(SubSeq(log[i], 1, snapshot[i].sequence))
    BY DEF RowEqualsFold
  <2>1. /\ log[i] \in Numbered /\ Tells(row[i], FoldOf(i)) /\ SnapshotOK(i)
    BY DEF LogInv, LogOK
  <2>2. \A k \in DOMAIN log[i] : log[i][k].sequence = k
    BY <2>1 DEF Numbered
  <2>3. FoldInvoiceEvents(log[i]) = Finalize(FoldOf(i))
    BY DEF FoldInvoiceEvents, FoldOf
  <2>4. /\ Finalize(FoldOf(i)).acc = FoldOf(i)
        /\ Finalize(FoldOf(i)).balance_due
             = FoldOf(i).total - FoldOf(i).credited - FoldOf(i).amount_paid
    BY DEF Finalize
  <2>5. ASSUME snapshot[i] # NoSnapshot
        PROVE  snapshot[i].state =
                 FoldInvoiceEvents(SubSeq(log[i], 1, snapshot[i].sequence))
    <3> DEFINE m == snapshot[i].sequence
    <3>1. m \in 1 .. Len(log[i]) /\ snapshot[i].state = Finalize(Folds(Acc0, 0, log[i])[m])
      BY <2>1, <2>5 DEF SnapshotOK
    <3>2. m \in 0 .. Len(log[i])
      BY <2>1, <3>1 DEF Numbered
    <3> HIDE DEF m
    <3>3. Fold(Acc0, 0, SubSeq(log[i], 1, m)) = Folds(Acc0, 0, log[i])[m]
      BY <2>1, <3>2, FoldPrefix
    <3>4. QED  BY <3>1, <3>3 DEF FoldInvoiceEvents, m
  <2>6. QED  BY <2>1, <2>2, <2>3, <2>4, <2>5 DEF Tells
<1>4. QED  BY <1>1, <1>2, <1>3, PTL DEF Spec

\* The unique columns of the payments table, read off a step of the books.
LEMMA SettledStep ==
    ASSUME LedgerInv, LogInv, payments \in Seq(Payment), SettlementSpentOnce, [Next]_vars
    PROVE  payments' \in Seq(Payment) /\ SettlementSpentOnce'
<1>1. CASE UNCHANGED <<payments, reconciled>>
  BY <1>1 DEF SettlementSpentOnce
<1>2. ASSUME NEW i \in Invoices, NEW amount, NEW source, Pays(i, amount, source)
      PROVE  payments' \in Seq(Payment) /\ SettlementSpentOnce'
  <2> DEFINE p == [inv |-> i, amount |-> amount, source |-> source]
             n == Len(payments)
  <2>1. p \in Payment /\ p.source = source /\ payments' = Append(payments, p)
    BY <1>2 DEF Pays, Payment
  <2> HIDE DEF p
  <2>2. /\ payments' \in Seq(Payment) /\ n \in Nat /\ DOMAIN payments = 1 .. n
        /\ DOMAIN payments' = (1 .. n) \cup {n + 1} /\ payments'[n + 1] = p
        /\ \A k \in 1 .. n : payments'[k] = payments[k]
    BY <2>1
  <2> HIDE DEF n
  <2>3. CASE source = NoOne /\ UNCHANGED reconciled
    BY <2>1, <2>2, <2>3 DEF SettlementSpentOnce
  <2>4. CASE /\ source \in Settlements
             /\ \A k \in DOMAIN payments : payments[k].source # source
             /\ reconciled' = reconciled \cup {source}
    BY <2>1, <2>2, <2>4, LedgerAssumption DEF SettlementSpentOnce
  <2>5. QED  BY <1>2, <2>2, <2>3, <2>4 DEF Pays
<1>3. QED
  BY <1>1, <1>2, StepMovesMoney DEF MoneyStep, CreateInvoice, Credits, Cancels

\* A settlement record backs at most one payment, and it is flagged reconciled exactly
\* when a payment points at it: for any number of settlements, and of reconciliations of
\* them in flight at once.
THEOREM SettlementsSpentOnce == Spec => []SettlementSpentOnce
<1> DEFINE Inv == LedgerInv /\ LogInv /\ payments \in Seq(Payment) /\ SettlementSpentOnce
<1>1. Init => Inv
  <2>1. Init => payments \in Seq(Payment) /\ SettlementSpentOnce
    BY DEF Init, SettlementSpentOnce
  <2>2. QED  BY <2>1, InitBooks
<1>2. Inv /\ [Next]_vars => Inv'
  BY StepKeepsBooks, SettledStep
<1>3. QED  BY <1>1, <1>2, PTL DEF Spec

-----------------------------------------------------------------------------
(* The Payment rows of an invoice, added up *)

LEMMA CollectionsExist ==
    ASSUME NEW i, NEW table, Len(table) \in Nat
    PROVE  Collections(i, table) =
             [n \in 0 .. Len(table) |->
                IF n = 0 THEN 0
                ELSE Collections(i, table)[n - 1] + (IF table[n].inv = i THEN table[n].amount ELSE 0)]
<1> DEFINE Body(f, n) == IF n = 0 THEN 0
                         ELSE f[n - 1] + (IF table[n].inv = i THEN table[n].amount ELSE 0)
           Is(f, m) == f = [n \in 0 .. m |-> Body(f, n)]
           T == {m \in Nat : \E f : Is(f, m)}
<1>1. 0 \in T
  <2>1. Is([n \in 0 .. 0 |-> 0], 0)
    OBVIOUS
  <2>2. QED  BY <2>1
<1>2. ASSUME NEW m \in Nat, m \in T PROVE m + 1 \in T
  <2>1. PICK f : Is(f, m)
    BY <1>2
  <2> DEFINE g == [n \in 0 .. (m + 1) |-> IF n = m + 1 THEN Body(f, m + 1) ELSE f[n]]
  <2>2. Is(g, m + 1)
    <3>1. \A n \in 0 .. m : g[n] = f[n]
      OBVIOUS
    <3>2. \A n \in 0 .. (m + 1) : Body(g, n) = Body(f, n)
      <4> HIDE DEF g
      <4>1. QED  BY <3>1
    <3>3. \A n \in 0 .. m : f[n] = Body(f, n)
      <4> HIDE DEF Body
      <4>1. QED  BY <2>1
    <3>4. g = [n \in 0 .. (m + 1) |-> Body(f, n)]
      <4> HIDE DEF Body
      <4>1. QED  BY <3>3
    <3> HIDE DEF Body, g
    <3>5. QED  BY <3>2, <3>4
  <2> HIDE DEF Is, g
  <2>3. QED  BY <2>2
<1>3. \E f : Is(f, Len(table))
  <2> HIDE DEF Is
  <2>1. QED  BY <1>1, <1>2, Induction
<1>4. Collections(i, table) = CHOOSE f : Is(f, Len(table))
  BY DEF Collections
<1>5. Is(Collections(i, table), Len(table))
  <2> HIDE DEF Is
  <2>1. QED  BY <1>3, <1>4
<1>6. QED  BY <1>5

LEMMA SumStep ==
    ASSUME NEW i, NEW table \in Seq(Payment)
    PROVE  /\ Collections(i, table)[0] = 0
           /\ \A n \in Nat : n < Len(table) =>
                 Collections(i, table)[n + 1] =
                   Collections(i, table)[n]
                     + (IF table[n + 1].inv = i THEN table[n + 1].amount ELSE 0)
<1> DEFINE F == Collections(i, table)
           Share(n) == IF table[n].inv = i THEN table[n].amount ELSE 0
<1>1. Len(table) \in Nat
  OBVIOUS
<1>2. F = [n \in 0 .. Len(table) |-> IF n = 0 THEN 0 ELSE F[n - 1] + Share(n)]
  BY <1>1, CollectionsExist
<1> HIDE DEF F, Share
<1>3. \A n \in 0 .. Len(table) : F[n] = IF n = 0 THEN 0 ELSE F[n - 1] + Share(n)
  BY <1>2
<1>4. \A n \in Nat : n < Len(table) => F[n + 1] = F[n] + Share(n + 1)
  BY <1>1, <1>3
<1>5. F[0] = 0
  BY <1>1, <1>3
<1>6. QED  BY <1>4, <1>5 DEF F, Share

\* One more Payment row adds its amount to what its invoice has collected.
LEMMA SumAppend ==
    ASSUME NEW i, NEW table \in Seq(Payment), NEW p \in Payment
    PROVE  /\ Collections(i, table)[Len(table)] \in Nat
           /\ Collections(i, Append(table, p))[Len(Append(table, p))] =
                Collections(i, table)[Len(table)] + (IF p.inv = i THEN p.amount ELSE 0)
<1> DEFINE t == Append(table, p)
           N == Len(table)
           F == Collections(i, table)
           G == Collections(i, t)
<1>1. /\ N \in Nat /\ Len(t) = N + 1 /\ t \in Seq(Payment) /\ t[N + 1] = p
      /\ \A k \in 1 .. N : t[k] = table[k] /\ table[k].amount \in Nat
  <2>1. /\ N \in Nat /\ Len(t) = N + 1 /\ t \in Seq(Payment) /\ t[N + 1] = p
        /\ \A k \in 1 .. N : t[k] = table[k] /\ table[k] \in Payment
    OBVIOUS
  <2>2. \A q \in Payment : q.amount \in Nat
    BY DEF Payment
  <2>3. QED  BY <2>1, <2>2
<1> HIDE DEF t
<1>2. /\ F[0] = 0 /\ G[0] = 0
      /\ \A n \in Nat : n < N =>
            F[n + 1] = F[n] + (IF table[n + 1].inv = i THEN table[n + 1].amount ELSE 0)
      /\ \A n \in Nat : n < N + 1 =>
            G[n + 1] = G[n] + (IF t[n + 1].inv = i THEN t[n + 1].amount ELSE 0)
  BY <1>1, SumStep
<1> HIDE DEF F, G, N
<1> DEFINE T == {n \in Nat : n <= N => F[n] \in Nat /\ G[n] = F[n]}
<1>3. 0 \in T
  BY <1>2
<1>4. ASSUME NEW n \in Nat, n \in T PROVE n + 1 \in T
  <2> SUFFICES ASSUME n + 1 <= N PROVE F[n + 1] \in Nat /\ G[n + 1] = F[n + 1]
    OBVIOUS
  <2>1. /\ n < N /\ n < N + 1 /\ n + 1 \in 1 .. N /\ F[n] \in Nat /\ G[n] = F[n]
    BY <1>1, <1>4
  <2>2. t[n + 1] = table[n + 1] /\ table[n + 1].amount \in Nat
    BY <1>1, <2>1
  <2>3. /\ F[n + 1] = F[n] + (IF table[n + 1].inv = i THEN table[n + 1].amount ELSE 0)
        /\ G[n + 1] = G[n] + (IF table[n + 1].inv = i THEN table[n + 1].amount ELSE 0)
    BY <1>2, <2>1, <2>2
  <2>4. QED  BY <2>1, <2>2, <2>3
<1>5. N \in T
  <2> HIDE DEF T
  <2>1. QED  BY <1>1, <1>3, <1>4, Induction
<1>6. F[N] \in Nat /\ G[N] = F[N]
  BY <1>1, <1>5
<1>7. G[N + 1] = G[N] + (IF p.inv = i THEN p.amount ELSE 0)
  BY <1>1, <1>2
<1>8. QED  BY <1>1, <1>6, <1>7 DEF t, F, G, N

-----------------------------------------------------------------------------
(* The refinement *)

\* What is paid and credited fits what was invoiced.
MoneyInv ==
    \A i \in Invoices : Issued(i) =>
        /\ row[i].total \in Totals
        /\ row[i].amount_paid + row[i].amount_credited <= row[i].total

BooksInv ==
    /\ LedgerInv /\ LogInv /\ MoneyInv
    /\ payments \in Seq(Payment) /\ SettlementSpentOnce

\* The account that the ledger stands for.
Total == [i \in Invoices |-> IF Issued(i) THEN row[i].total ELSE 0]
Paid == [i \in Invoices |-> IF Issued(i) THEN row[i].amount_paid ELSE 0]
Credited == [i \in Invoices |-> IF Issued(i) THEN row[i].amount_credited ELSE 0]
Closed == [i \in Invoices |-> Cancelled(i)]
Taken == [i \in Invoices |-> Collected(i)]

\* What a booked event does to the account of its invoice, and to no other.
LEMMA BookedMoves ==
    ASSUME LogInv, NEW i \in Invoices, Issued(i),
           NEW type \in {"payment", "credit", "cancelled"}, NEW amount \in Nat,
           Booked(i, EventOf(i, type, amount))
    PROVE  /\ \A j \in Invoices : Issued(j)' <=> Issued(j)
           /\ \A j \in Invoices : j # i => row'[j] = row[j] /\ (Cancelled(j)' <=> Cancelled(j))
           /\ row[i] \in InvoiceRow /\ row'[i] \in InvoiceRow
           /\ row[i].balance_due = row[i].total - row[i].amount_credited - row[i].amount_paid
           /\ row'[i].total = row[i].total
           /\ row'[i].amount_paid = row[i].amount_paid
                + (IF type = "payment" /\ ~Cancelled(i) THEN amount ELSE 0)
           /\ row'[i].amount_credited = row[i].amount_credited
                + (IF type = "credit" /\ ~Cancelled(i) THEN amount ELSE 0)
           /\ Cancelled(i)' <=> Cancelled(i) \/ type = "cancelled"
<1> DEFINE e == EventOf(i, type, amount)
           acc == FoldOf(i)
           n == Len(log[i])
<1>1. /\ n \in Nat /\ Counted(acc, n) /\ row[i] \in InvoiceRow /\ Tells(row[i], acc)
      /\ acc.cancelled <=> Cancelled(i)
  BY DEF LogInv, LogOK, Numbered
<1>2. /\ e \in Event /\ e.sequence = n + 1 /\ e.type # "issued"
      /\ e.type = type /\ e.amount = amount
  BY <1>1 DEF EventOf, Event
<1> HIDE DEF e
<1>3. LogInv' /\ FoldOf(i)' = Apply(acc, e)
  BY <1>2, BookedKeepsLog DEF e
<1>4. /\ acc \in Accumulator /\ Apply(acc, e).total = acc.total
      /\ Apply(acc, e).amount_paid =
           acc.amount_paid + (IF e.type = "payment" /\ ~acc.cancelled THEN e.amount ELSE 0)
      /\ Apply(acc, e).credited =
           acc.credited + (IF e.type = "credit" /\ ~acc.cancelled THEN e.amount ELSE 0)
      /\ Apply(acc, e).cancelled <=> acc.cancelled \/ e.type = "cancelled"
  <2>1. acc \in Accumulator  BY <1>1 DEF Counted
  <2>2. QED  BY <1>1, <1>2, <2>1, ApplyMoves, ApplyCounts
<1> HIDE DEF acc, n
<1>5. /\ row' = [row EXCEPT ![i] = Projected(row[i], Finalize(Apply(FoldOf(i), e)))]
      /\ log' = [log EXCEPT ![i] = Append(log[i], e)]
  BY DEF Booked, e
<1>6. \A j \in Invoices : j # i => row'[j] = row[j] /\ log'[j] = log[j]
  BY <1>5 DEF LogInv
<1>7. row'[i] \in InvoiceRow /\ Issued(i)'
  <2>1. row'[i] = Projected(row[i], Finalize(Apply(FoldOf(i), e)))
    BY <1>5 DEF LogInv
  <2>2. Apply(FoldOf(i), e) \in Accumulator
    BY <1>1, <1>2, ApplyCounts DEF Counted, acc
  <2>3. row[i].total = Apply(FoldOf(i), e).total
    BY <1>1, <1>4 DEF acc, Tells
  <2>4. row'[i] \in InvoiceRow
    BY <1>1, <2>1, <2>2, <2>3, ProjectedTells
  <2>5. QED  BY <2>4, RowsAreIssued DEF Issued
<1>8. Tells(row'[i], FoldOf(i)') /\ (FoldOf(i)'.cancelled <=> Cancelled(i)')
  BY <1>3, <1>7 DEF LogInv, LogOK
<1>9. \A j \in Invoices : j # i => (Issued(j)' <=> Issued(j)) /\ (Cancelled(j)' <=> Cancelled(j))
  BY <1>6 DEF Issued, Cancelled
<1>10. /\ row'[i].total = row[i].total
       /\ row'[i].amount_paid = row[i].amount_paid
            + (IF type = "payment" /\ ~Cancelled(i) THEN amount ELSE 0)
       /\ row'[i].amount_credited = row[i].amount_credited
            + (IF type = "credit" /\ ~Cancelled(i) THEN amount ELSE 0)
       /\ Cancelled(i)' <=> Cancelled(i) \/ type = "cancelled"
  BY <1>1, <1>2, <1>3, <1>4, <1>8 DEF Tells
<1>11. row[i].balance_due = row[i].total - row[i].amount_credited - row[i].amount_paid
  BY <1>1 DEF Tells
<1>12. QED  BY <1>1, <1>6, <1>7, <1>9, <1>10, <1>11

\* An amount that fits the balance is one the account may move.
LEMMA FitsTheAccount ==
    ASSUME BooksInv, NEW i \in Invoices, Issued(i), NEW amount \in Nat \ {0},
           amount <= row[i].balance_due
    PROVE  amount \in UNION {1 .. t : t \in Totals}
<1>1. /\ row[i].total \in Totals /\ row[i] \in InvoiceRow
      /\ row[i].balance_due = row[i].total - row[i].amount_credited - row[i].amount_paid
  BY DEF BooksInv, MoneyInv, LogInv, LogOK, Tells
<1>2. amount \in 1 .. row[i].total
  BY <1>1 DEF InvoiceRow
<1>3. QED  BY <1>1, <1>2

LEMMA MapsIssue ==
    ASSUME BooksInv, NEW i \in Invoices, NEW t \in Totals, CreateInvoice(i, t)
    PROVE  Account!Issue(i, t)
<1>1. /\ ~Issued(i) /\ row' = [row EXCEPT ![i] = row'[i]]
      /\ row'[i].total = t /\ row'[i].amount_paid = 0 /\ row'[i].amount_credited = 0
      /\ UNCHANGED <<payments, reconciled>>
      /\ \A j \in Invoices : j # i => row'[j] = row[j] /\ log'[j] = log[j]
  BY DEF CreateInvoice, Issued, BooksInv, LogInv
<1>2. ~Cancelled(i) /\ ~Cancelled(i)' /\ Issued(i)'
  <2>1. ~Cancelled(i) /\ ~Cancelled(i)'
    BY CreateKeepsLog DEF BooksInv
  <2>2. "total" \in DOMAIN row'[i] /\ "total" \notin DOMAIN Absent
    BY DEF CreateInvoice, BooksInv, LogInv, Absent
  <2>3. QED  BY <2>1, <2>2 DEF Issued
<1>3. \A j \in Invoices : j # i => (Issued(j)' <=> Issued(j)) /\ (Cancelled(j)' <=> Cancelled(j))
  BY <1>1 DEF Issued, Cancelled
<1>4. \A j \in Invoices : Collected(j)' = Collected(j)
  BY <1>1 DEF Collected
<1>5. Total[i] = 0 /\ Total' = [Total EXCEPT ![i] = t]
  BY <1>1, <1>2, <1>3 DEF Total
<1>6. Paid' = Paid
  BY <1>1, <1>2, <1>3 DEF Paid
<1>7. Credited' = Credited
  BY <1>1, <1>2, <1>3 DEF Credited
<1>8. Closed' = Closed
  <2>1. \A j \in Invoices : Cancelled(j)' = Cancelled(j)
    BY <1>1, <1>2, <1>3 DEF Cancelled
  <2>2. QED  BY <2>1, Zenon DEF Closed
<1>9. Taken' = Taken
  BY <1>4 DEF Taken
<1>10. QED
  BY <1>1, <1>5, <1>6, <1>7, <1>8, <1>9
     DEF Account!Issue, Total, Paid, Credited, Closed, Taken

LEMMA MapsPay ==
    ASSUME BooksInv, NEW i \in Invoices, Issued(i), NEW amount, NEW source,
           Pays(i, amount, source)
    PROVE  Account!Pay(i, amount, source)
<1> DEFINE p == [inv |-> i, amount |-> amount, source |-> source]
<1>1. /\ amount \in Nat \ {0} /\ amount <= row[i].balance_due
      /\ Booked(i, EventOf(i, "payment", amount))
      /\ payments' = Append(payments, p)
      /\ \/ source = NoOne /\ UNCHANGED reconciled
         \/ /\ source \in Settlements
            /\ \A k \in DOMAIN payments : payments[k].source # source
            /\ reconciled' = reconciled \cup {source}
  BY DEF Pays
<1>2. /\ \A j \in Invoices : Issued(j)' <=> Issued(j)
      /\ \A j \in Invoices : j # i => row'[j] = row[j] /\ (Cancelled(j)' <=> Cancelled(j))
      /\ row[i] \in InvoiceRow
      /\ row[i].balance_due = row[i].total - row[i].amount_credited - row[i].amount_paid
      /\ row'[i].total = row[i].total
      /\ row'[i].amount_paid = row[i].amount_paid + (IF ~Cancelled(i) THEN amount ELSE 0)
      /\ row'[i].amount_credited = row[i].amount_credited
      /\ Cancelled(i)' <=> Cancelled(i)
  <2>1. row[i] \in InvoiceRow
    BY DEF BooksInv, LogInv, LogOK
  <2>2. row[i].amount_credited + 0 = row[i].amount_credited
    BY <2>1 DEF InvoiceRow
  <2>3. QED  BY <1>1, <2>2, BookedMoves DEF BooksInv
<1>3. \A j \in Invoices : Collected(j)' = Collected(j) + (IF j = i THEN amount ELSE 0)
  <2>1. p \in Payment /\ p.inv = i /\ p.amount = amount
    BY <1>1 DEF Payment
  <2> HIDE DEF p
  <2>2. QED  BY <1>1, <2>1, SumAppend DEF BooksInv, Collected
<1>4. \A j \in Invoices : Collected(j) \in Nat
  <2>1. [inv |-> i, amount |-> 0, source |-> NoOne] \in Payment
    BY DEF Payment
  <2>2. QED  BY <2>1, SumAppend DEF BooksInv, Collected
<1>5. source \in Settlements \ reconciled \/ source = NoOne
  BY <1>1 DEF BooksInv, SettlementSpentOnce
<1>6. reconciled' = reconciled \cup ({source} \ {NoOne})
  BY <1>1, LedgerAssumption
<1>7. row[i].amount_paid \in Nat /\ row[i].amount_paid + 0 = row[i].amount_paid
  BY <1>2 DEF InvoiceRow
<1>8. \A j \in Invoices : j # i => Collected(j)' = Collected(j)
  BY <1>3, <1>4
<1> HIDE DEF p
<1>9. Total' = Total /\ Total[i] = row[i].total
  BY <1>2 DEF Total
<1>10. Credited' = Credited /\ Credited[i] = row[i].amount_credited
  BY <1>2 DEF Credited
<1>11. Closed' = Closed /\ (Closed[i] <=> Cancelled(i))
  <2>1. \A j \in Invoices : Cancelled(j)' = Cancelled(j)
    BY <1>2 DEF Cancelled
  <2>2. QED  BY <2>1, Zenon DEF Closed
<1>12. /\ Paid' = IF Closed[i] THEN Paid ELSE [Paid EXCEPT ![i] = @ + amount]
       /\ Paid[i] = row[i].amount_paid
  BY <1>2, <1>7, <1>11 DEF Paid
<1>13. Taken' = [Taken EXCEPT ![i] = @ + amount]
  BY <1>3, <1>8 DEF Taken
<1>14. amount <= Total[i] - Credited[i] - Paid[i]
  BY <1>1, <1>2, <1>9, <1>10, <1>12
<1>15. QED
  BY <1>5, <1>6, <1>9, <1>10, <1>11, <1>12, <1>13, <1>14
     DEF Account!Pay, Account!Balance, Total, Paid, Credited, Closed, Taken

LEMMA MapsCredit ==
    ASSUME BooksInv, NEW i \in Invoices, Issued(i), NEW amount, Credits(i, amount)
    PROVE  Account!Credit(i, amount)
<1>1. /\ amount \in Nat \ {0} /\ amount <= row[i].balance_due
      /\ Booked(i, EventOf(i, "credit", amount))
      /\ UNCHANGED <<payments, reconciled>>
  BY DEF Credits
<1>2. row[i] \in InvoiceRow
  BY DEF BooksInv, LogInv, LogOK
<1>3. row[i].amount_paid \in Nat /\ row[i].amount_credited \in Nat
  BY <1>2 DEF InvoiceRow
<1>4. /\ \A j \in Invoices : Issued(j)' <=> Issued(j)
      /\ \A j \in Invoices : j # i => row'[j] = row[j]
      /\ \A j \in Invoices : Cancelled(j)' <=> Cancelled(j)
      /\ row[i].balance_due = row[i].total - row[i].amount_credited - row[i].amount_paid
      /\ row'[i].total = row[i].total
      /\ row'[i].amount_paid = row[i].amount_paid
      /\ row'[i].amount_credited
           = row[i].amount_credited + (IF ~Cancelled(i) THEN amount ELSE 0)
  <2>1. row[i].amount_paid + 0 = row[i].amount_paid
    BY <1>3
  <2>2. QED  BY <1>1, <2>1, BookedMoves DEF BooksInv
<1>5. Total' = Total /\ Total[i] = row[i].total
  BY <1>4 DEF Total
<1>6. Paid' = Paid /\ Paid[i] = row[i].amount_paid
  BY <1>4 DEF Paid
<1>7. Closed' = Closed /\ (Closed[i] <=> Cancelled(i))
  <2>1. \A j \in Invoices : Cancelled(j)' = Cancelled(j)
    BY <1>4 DEF Cancelled
  <2>2. QED  BY <2>1, Zenon DEF Closed
<1>8. /\ Credited' = IF Closed[i] THEN Credited ELSE [Credited EXCEPT ![i] = @ + amount]
      /\ Credited[i] = row[i].amount_credited
  BY <1>3, <1>4, <1>7 DEF Credited
<1>9. Taken' = Taken
  BY <1>1 DEF Taken, Collected
<1>10. amount <= Total[i] - Credited[i] - Paid[i]
  BY <1>1, <1>4, <1>5, <1>6, <1>8
<1>11. QED
  BY <1>1, <1>5, <1>6, <1>7, <1>8, <1>9, <1>10
     DEF Account!Credit, Account!Balance, Total, Paid, Credited, Closed, Taken

LEMMA MapsCancel ==
    ASSUME BooksInv, NEW i \in Invoices, Issued(i), Cancels(i)
    PROVE  Account!Cancel(i)
<1>1. Booked(i, EventOf(i, "cancelled", 0)) /\ UNCHANGED <<payments, reconciled>>
  BY DEF Cancels
<1>2. /\ row[i] \in InvoiceRow /\ row[i].total \in Nat \ {0}
  BY LedgerAssumption DEF BooksInv, LogInv, LogOK, MoneyInv
<1>3. row[i].amount_paid \in Nat /\ row[i].amount_credited \in Nat
  BY <1>2 DEF InvoiceRow
<1>4. /\ \A j \in Invoices : Issued(j)' <=> Issued(j)
      /\ \A j \in Invoices : j # i => row'[j] = row[j] /\ (Cancelled(j)' <=> Cancelled(j))
      /\ row'[i].total = row[i].total
      /\ row'[i].amount_paid = row[i].amount_paid
      /\ row'[i].amount_credited = row[i].amount_credited
      /\ Cancelled(i)'
  <2>1. /\ row[i].amount_paid + 0 = row[i].amount_paid
        /\ row[i].amount_credited + 0 = row[i].amount_credited
    BY <1>3
  <2>2. QED  BY <1>1, <2>1, BookedMoves DEF BooksInv
<1>5. Total' = Total /\ Total[i] > 0
  BY <1>2, <1>4 DEF Total
<1>6. Paid' = Paid
  BY <1>4 DEF Paid
<1>7. Credited' = Credited
  BY <1>4 DEF Credited
<1>8. Closed' = [Closed EXCEPT ![i] = TRUE]
  <2>1. /\ \A j \in Invoices : j # i => Cancelled(j)' = Cancelled(j)
        /\ Cancelled(i)' = TRUE
    BY <1>4 DEF Cancelled
  <2>2. QED  BY <2>1, Zenon DEF Closed
<1>9. Taken' = Taken
  BY <1>1 DEF Taken, Collected
<1>10. QED
  BY <1>1, <1>5, <1>6, <1>7, <1>8, <1>9
     DEF Account!Cancel, Total, Paid, Credited, Closed, Taken

\* What moves no money is a stutter of the account.
LEMMA MapsStutter ==
    ASSUME BooksInv, KeepsMoney, UNCHANGED <<payments, reconciled>>
    PROVE  UNCHANGED Account!acctVars
<1>1. \A i \in Invoices :
        /\ Issued(i)' <=> Issued(i)
        /\ Issued(i) => /\ row'[i].total = row[i].total
                        /\ row'[i].amount_paid = row[i].amount_paid
                        /\ row'[i].amount_credited = row[i].amount_credited
  BY RowsAreIssued DEF KeepsMoney, Issued
<1>2. \A i \in Invoices : Cancelled(i)' = Cancelled(i) /\ Collected(i)' = Collected(i)
  BY DEF KeepsMoney, Cancelled, Collected
<1>3. Total' = Total  BY <1>1 DEF Total
<1>4. Paid' = Paid  BY <1>1 DEF Paid
<1>5. Credited' = Credited  BY <1>1 DEF Credited
<1>6. Closed' = Closed  BY <1>2, Zenon DEF Closed
<1>7. Taken' = Taken  BY <1>2 DEF Taken
<1>8. QED
  BY <1>3, <1>4, <1>5, <1>6, <1>7
     DEF Account!acctVars, Total, Paid, Credited, Closed, Taken

\* Every step of the ledger is a step of the account, or none.
LEMMA StepImplementsAccount ==
    ASSUME BooksInv, [Next]_vars
    PROVE  [Account!AcctNext]_(Account!acctVars)
<1>1. MoneyStep
  BY StepMovesMoney DEF BooksInv
<1>2. ASSUME NEW i \in Invoices, NEW t \in Totals, CreateInvoice(i, t)
      PROVE  Account!AcctNext
  <2>1. t \in UNION {1 .. u : u \in Totals}
    BY LedgerAssumption
  <2>2. QED  BY <1>2, <2>1, MapsIssue DEF Account!AcctNext
<1>3. ASSUME NEW i \in Invoices, Issued(i), NEW amount, NEW source, Pays(i, amount, source)
      PROVE  Account!AcctNext
  <2>1. amount \in UNION {1 .. u : u \in Totals} /\ source \in Settlements \cup {NoOne}
    BY <1>3, FitsTheAccount DEF Pays
  <2>2. QED  BY <1>3, <2>1, MapsPay DEF Account!AcctNext
<1>4. ASSUME NEW i \in Invoices, Issued(i), NEW amount, Credits(i, amount)
      PROVE  Account!AcctNext
  <2>1. amount \in UNION {1 .. u : u \in Totals}
    BY <1>4, FitsTheAccount DEF Credits
  <2>2. QED  BY <1>4, <2>1, MapsCredit DEF Account!AcctNext
<1>5. ASSUME NEW i \in Invoices, Issued(i), Cancels(i)
      PROVE  Account!AcctNext
  BY <1>5, MapsCancel DEF Account!AcctNext
<1>6. CASE KeepsMoney /\ UNCHANGED <<payments, reconciled>>
  BY <1>6, MapsStutter
<1>7. QED  BY <1>1, <1>2, <1>3, <1>4, <1>5, <1>6 DEF MoneyStep

LEMMA MoneyStepInv ==
    ASSUME BooksInv, [Next]_vars
    PROVE  MoneyInv'
<1>1. MoneyStep
  BY StepMovesMoney DEF BooksInv
<1>2. \A i \in Invoices : Issued(i) =>
        /\ row[i] \in InvoiceRow /\ row[i].total \in Totals
        /\ row[i].amount_paid + row[i].amount_credited <= row[i].total
  BY DEF BooksInv, MoneyInv, LogInv, LogOK
<1>3. ASSUME NEW i \in Invoices, NEW t \in Totals, CreateInvoice(i, t)
      PROVE  MoneyInv'
  <2>1. /\ row'[i].total = t /\ row'[i].amount_paid = 0 /\ row'[i].amount_credited = 0
        /\ \A j \in Invoices : j # i => row'[j] = row[j]
    BY <1>3 DEF CreateInvoice, BooksInv, LogInv
  <2>2. t \in Nat
    BY LedgerAssumption
  <2>3. QED  BY <1>2, <2>1, <2>2 DEF MoneyInv, Issued
<1>4. ASSUME NEW i \in Invoices, Issued(i),
             NEW type \in {"payment", "credit", "cancelled"}, NEW amount \in Nat,
             type # "cancelled" => amount <= row[i].balance_due,
             Booked(i, EventOf(i, type, amount))
      PROVE  MoneyInv'
  <2>1. /\ \A j \in Invoices : Issued(j)' <=> Issued(j)
        /\ \A j \in Invoices : j # i => row'[j] = row[j]
        /\ row'[i].total = row[i].total
        /\ row[i].balance_due = row[i].total - row[i].amount_credited - row[i].amount_paid
        /\ row'[i].amount_paid = row[i].amount_paid
             + (IF type = "payment" /\ ~Cancelled(i) THEN amount ELSE 0)
        /\ row'[i].amount_credited = row[i].amount_credited
             + (IF type = "credit" /\ ~Cancelled(i) THEN amount ELSE 0)
    BY <1>4, BookedMoves DEF BooksInv
  <2>2. /\ row[i].total \in Nat /\ row[i].amount_paid \in Nat
        /\ row[i].amount_credited \in Nat
    BY <1>2, <1>4 DEF InvoiceRow
  <2>3. row'[i].amount_paid + row'[i].amount_credited <= row'[i].total
    BY <1>2, <1>4, <2>1, <2>2
  <2>4. QED  BY <1>2, <1>4, <2>1, <2>3 DEF MoneyInv
<1>5. CASE KeepsMoney
  BY <1>2, <1>5 DEF MoneyInv, KeepsMoney, Issued
<1>6. QED  BY <1>1, <1>3, <1>4, <1>5 DEF MoneyStep, Pays, Credits, Cancels

LEMMA InitBooksInv == Init => BooksInv
<1>1. Init => MoneyInv /\ payments \in Seq(Payment) /\ SettlementSpentOnce
  BY DEF Init, MoneyInv, Issued, SettlementSpentOnce
<1>2. QED  BY <1>1, InitBooks DEF BooksInv

LEMMA StepBooksInv == BooksInv /\ [Next]_vars => BooksInv'
  BY MoneyStepInv, StepKeepsBooks, SettledStep DEF BooksInv

\* With its locks, its log and its snapshots, the ledger moves money exactly as the atomic
\* account does: each commit is one operation of the account, against the balance of that
\* moment, and every other step moves nothing.  Any number of requests, any log.
THEOREM LedgerImplementsAccount == Spec => ImplementsAccount
<1>1. Init => Account!AcctInit
  <2> SUFFICES ASSUME Init PROVE Account!AcctInit
    OBVIOUS
  <2>1. /\ \A i \in Invoices : ~Issued(i) /\ log[i] = <<>>
        /\ payments = <<>> /\ reconciled = {}
    BY DEF Init, Issued
  <2>2. \A i \in Invoices : Cancelled(i) = FALSE
    BY <2>1 DEF Cancelled
  <2>3. \A i \in Invoices : Collected(i) = 0
    <3>1. <<>> \in Seq(Payment) /\ Len(<<>>) = 0
      OBVIOUS
    <3>2. QED  BY <2>1, <3>1, SumStep DEF Collected
  <2>4. /\ Total = [i \in Invoices |-> 0] /\ Paid = [i \in Invoices |-> 0]
        /\ Credited = [i \in Invoices |-> 0]
    BY <2>1 DEF Total, Paid, Credited
  <2>5. Closed = [i \in Invoices |-> FALSE]
    BY <2>2, Zenon DEF Closed
  <2>6. Taken = [i \in Invoices |-> 0]
    BY <2>3 DEF Taken
  <2>7. QED
    BY <2>1, <2>4, <2>5, <2>6
       DEF Account!AcctInit, Total, Paid, Credited, Closed, Taken
<1>2. BooksInv /\ [Next]_vars => [Account!AcctNext]_(Account!acctVars)
  BY StepImplementsAccount
<1>3. QED
  BY <1>1, <1>2, InitBooksInv, StepBooksInv, PTL DEF Spec, ImplementsAccount, Account!AcctSpec

\* Until an invoice is cancelled what it is paid is the sum of its Payment rows; from then
\* on the rows can only exceed it.
BackedInv ==
    \A i \in Invoices : Paid[i] <= Taken[i] /\ (~Closed[i] => Paid[i] = Taken[i])

LEMMA TakenTyped ==
    ASSUME BooksInv
    PROVE  \A i \in Invoices : Taken[i] \in Nat
<1>1. ASSUME NEW i \in Invoices PROVE Collected(i) \in Nat
  <2>1. [inv |-> i, amount |-> 0, source |-> NoOne] \in Payment
    BY DEF Payment
  <2>2. QED  BY <2>1, SumAppend DEF BooksInv, Collected
<1>2. QED  BY <1>1 DEF Taken

LEMMA StepBacked ==
    ASSUME BooksInv, BackedInv, [Next]_vars
    PROVE  BackedInv'
<1>1. MoneyStep
  BY StepMovesMoney DEF BooksInv
<1>2. \A i \in Invoices : Paid[i] \in Nat
  BY DEF BooksInv, LogInv, LogOK, InvoiceRow, Paid
<1>3. \A i \in Invoices : Taken[i] \in Nat
  BY TakenTyped
<1>4. CASE UNCHANGED <<Paid, Taken, Closed>>
  BY <1>4 DEF BackedInv
<1>5. ASSUME NEW i \in Invoices, Issued(i), NEW amount, NEW source, Pays(i, amount, source)
      PROVE  BackedInv'
  <2>1. Account!Pay(i, amount, source) /\ amount \in Nat
    BY <1>5, MapsPay DEF Pays
  <2>2. /\ Paid' = IF Closed[i] THEN Paid ELSE [Paid EXCEPT ![i] = @ + amount]
        /\ Taken' = [Taken EXCEPT ![i] = @ + amount]
        /\ Closed' = Closed
    BY <2>1 DEF Account!Pay, Total, Paid, Credited, Closed, Taken
  <2>3. DOMAIN Paid = Invoices /\ DOMAIN Taken = Invoices
    BY DEF Paid, Taken
  <2>4. QED  BY <1>2, <1>3, <2>1, <2>2, <2>3 DEF BackedInv
<1>6. ASSUME NEW i \in Invoices, Issued(i), NEW amount, Credits(i, amount)
      PROVE  UNCHANGED <<Paid, Taken, Closed>>
  BY <1>6, MapsCredit DEF Account!Credit, Paid, Closed, Taken
<1>7. ASSUME NEW i \in Invoices, Issued(i), Cancels(i)
      PROVE  BackedInv'
  <2>1. Paid' = Paid /\ Taken' = Taken /\ Closed' = [Closed EXCEPT ![i] = TRUE]
    BY <1>7, MapsCancel DEF Account!Cancel, Paid, Closed, Taken
  <2>2. DOMAIN Closed = Invoices
    BY DEF Closed
  <2>3. QED  BY <2>1, <2>2 DEF BackedInv
<1>8. ASSUME NEW i \in Invoices, NEW t \in Totals, CreateInvoice(i, t)
      PROVE  UNCHANGED <<Paid, Taken, Closed>>
  BY <1>8, MapsIssue DEF Account!Issue, Paid, Closed, Taken
<1>9. CASE KeepsMoney /\ UNCHANGED <<payments, reconciled>>
  BY <1>4, <1>9, MapsStutter DEF Account!acctVars, Paid, Closed, Taken
<1>10. QED  BY <1>1, <1>4, <1>5, <1>6, <1>7, <1>8, <1>9 DEF MoneyStep

\* Whatever the requests and their order, an invoice is never paid and credited beyond its
\* total, and until it is cancelled amount_paid is exactly the sum of its Payment rows.
THEOREM AccountIsSound ==
    Spec => [](Account!AcctTypeOK /\ Account!NeverOverCredited /\ Account!PaidIsCollected)
<1>1. Init => BackedInv
  <2> SUFFICES ASSUME Init, NEW i \in Invoices
               PROVE  Paid[i] <= Taken[i] /\ (~Closed[i] => Paid[i] = Taken[i])
    BY DEF BackedInv
  <2>1. Paid[i] = 0
    BY DEF Init, Issued, Paid
  <2>2. Taken[i] = 0
    <3>1. <<>> \in Seq(Payment) /\ Len(<<>>) = 0 /\ payments = <<>>
      BY DEF Init
    <3>2. QED  BY <3>1, SumStep DEF Taken, Collected
  <2>3. QED  BY <2>1, <2>2
<1>2. BooksInv /\ BackedInv /\ [Next]_vars => BackedInv'
  BY StepBacked
<1>3. BooksInv /\ BackedInv
        => Account!AcctTypeOK /\ Account!NeverOverCredited /\ Account!PaidIsCollected
  <2> SUFFICES ASSUME BooksInv, BackedInv
               PROVE  /\ Account!AcctTypeOK
                      /\ Account!NeverOverCredited /\ Account!PaidIsCollected
    OBVIOUS
  <2>1. Account!NeverOverCredited
    BY DEF Account!NeverOverCredited, BooksInv, MoneyInv
  <2>2. Account!PaidIsCollected
    BY DEF Account!PaidIsCollected, BackedInv, Paid, Taken, Closed
  <2>3. Account!AcctTypeOK
    <3>1. \A i \in Invoices : Issued(i) => row[i] \in InvoiceRow
      BY DEF BooksInv, LogInv, LogOK
    <3>2. /\ Total \in [Invoices -> Nat] /\ Paid \in [Invoices -> Nat]
          /\ Credited \in [Invoices -> Nat]
      BY <3>1 DEF InvoiceRow, Total, Paid, Credited
    <3>3. Taken \in [Invoices -> Nat]
      BY TakenTyped DEF Taken
    <3>4. Closed \in [Invoices -> BOOLEAN]
      BY DEF Closed, Cancelled
    <3>5. reconciled \subseteq Settlements
      BY DEF BooksInv, LedgerInv
    <3>6. QED
      BY <3>2, <3>3, <3>4, <3>5
         DEF Account!AcctTypeOK, Total, Paid, Credited, Closed, Taken
  <2>4. QED  BY <2>1, <2>2, <2>3
<1>4. QED  BY <1>1, <1>2, <1>3, InitBooksInv, StepBooksInv, PTL DEF Spec

\* Cancellation is terminal for money: whatever request was in flight when it committed,
\* amount_paid, amount_credited and the total never move again and it is never undone.
THEOREM CancellationIsTerminal == Spec => CancelledIsFrozen
<1> DEFINE Frozen == \A i \in Invoices : Closed[i] =>
                        /\ Closed'[i]
                        /\ Total'[i] = Total[i] /\ Paid'[i] = Paid[i]
                        /\ Credited'[i] = Credited[i]
<1>1. BooksInv /\ [Next]_vars => Frozen
  <2> SUFFICES ASSUME BooksInv, [Next]_vars PROVE Frozen
    OBVIOUS
  <2>1. MoneyStep
    BY StepMovesMoney DEF BooksInv
  <2>2. /\ DOMAIN Total = Invoices /\ DOMAIN Paid = Invoices /\ DOMAIN Credited = Invoices
        /\ DOMAIN Closed = Invoices
    BY DEF Total, Paid, Credited, Closed
  <2>3. CASE UNCHANGED <<Total, Paid, Credited, Closed>>
    BY <2>3
  <2>4. ASSUME NEW i \in Invoices, NEW t \in Totals, CreateInvoice(i, t)
        PROVE  Frozen
    <3>1. Total' = [Total EXCEPT ![i] = t] /\ UNCHANGED <<Paid, Credited, Closed>>
      BY <2>4, MapsIssue DEF Account!Issue, Total, Paid, Credited, Closed
    <3>2. ~Closed[i]
      BY <2>4, CreateKeepsLog DEF Closed, BooksInv
    <3>3. QED  BY <2>2, <3>1, <3>2
  <2>5. ASSUME NEW i \in Invoices, Issued(i), NEW amount, NEW source, Pays(i, amount, source)
        PROVE  Frozen
    <3>1. /\ Paid' = IF Closed[i] THEN Paid ELSE [Paid EXCEPT ![i] = @ + amount]
          /\ UNCHANGED <<Total, Credited, Closed>>
      BY <2>5, MapsPay DEF Account!Pay, Total, Paid, Credited, Closed
    <3>2. QED  BY <2>2, <3>1
  <2>6. ASSUME NEW i \in Invoices, Issued(i), NEW amount, Credits(i, amount)
        PROVE  Frozen
    <3>1. /\ Credited' = IF Closed[i] THEN Credited ELSE [Credited EXCEPT ![i] = @ + amount]
          /\ UNCHANGED <<Total, Paid, Closed>>
      BY <2>6, MapsCredit DEF Account!Credit, Total, Paid, Credited, Closed
    <3>2. QED  BY <2>2, <3>1
  <2>7. ASSUME NEW i \in Invoices, Issued(i), Cancels(i)
        PROVE  Frozen
    <3>1. Closed' = [Closed EXCEPT ![i] = TRUE] /\ UNCHANGED <<Total, Paid, Credited>>
      BY <2>7, MapsCancel DEF Account!Cancel, Total, Paid, Credited, Closed
    <3>2. QED  BY <2>2, <3>1
  <2>8. CASE KeepsMoney /\ UNCHANGED <<payments, reconciled>>
    BY <2>3, <2>8, MapsStutter DEF Account!acctVars, Total, Paid, Credited, Closed
  <2>9. QED  BY <2>1, <2>4, <2>5, <2>6, <2>7, <2>8 DEF MoneyStep
<1>2. Frozen => [Frozen]_(Account!acctVars)
  OBVIOUS
<1>3. QED
  BY <1>1, <1>2, InitBooksInv, StepBooksInv, PTL
     DEF Spec, CancelledIsFrozen, Account!CancelledIsFrozen, Total, Paid, Credited, Closed
=============================================================================
