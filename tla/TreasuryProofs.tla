---------------------------- MODULE TreasuryProofs ----------------------------
(***************************************************************************)
(* Bills under review and transfers between vaults, for any number of      *)
(* requests, users, bills and vaults.  Two locks carry the argument: the   *)
(* row lock of the bill a reviewer decides on, and the advisory lock of    *)
(* the vault a transfer leaves from.                                       *)
(***************************************************************************)
EXTENDS Treasury, TLAPS

\* The totals of a vault as a transfer reads them.
ReadTotals == [payments : Nat, expenses : Nat, in : Nat, out : Nat]

\* The requests in progress have their types too.
RequestsOK ==
    /\ req \in [Workers -> [user : Users \cup {Null}, bill : Bills \cup {Null},
                            target : Decided \cup {"submitted", "none"}]]
    /\ copy \in [Workers -> [status : Statuses, vault : Vaults \cup {Null}, amount : Nat,
                             by : Users \cup {Null}, reviewer : Users \cup {Null}]]
    /\ move \in [Workers -> [from : Vaults \cup {Null}, to : Vaults \cup {Null},
                             amount : Nat, fee : Nat]]
    /\ read \in [Workers -> ReadTotals]

\* The copy a reviewer decides on is the row, and nobody else holds that row.
ReviewInv ==
    \A w \in Workers : at[w] = "decide" =>
        /\ req[w].bill \in Bills /\ req[w].target \in Decided /\ req[w].user \in Users
        /\ rowLock[req[w].bill] = w
        /\ copy[w] = bill[req[w].bill] /\ copy[w].status # "none"

\* What an audit row about bill b says, said of the bill itself.
Truth(action, b, actor) ==
    /\ b \in Bills /\ actor \in Users /\ action \in Decided \cup {"submitted"}
    /\ bill[b].status # "none"
    /\ action = "submitted" => bill[b].by = actor
    /\ action = "approved" => bill[b].status \in SignedOff /\ bill[b].reviewer = actor
    /\ action = "rejected" => bill[b].status = "rejected" /\ bill[b].reviewer = actor
    /\ action = "scheduled" => bill[b].status = "scheduled"

\* It holds of the rows written, and of the row a request is about to write.
AuditInv ==
    /\ \A row \in audit : Truth(row.action, row.bill, row.actor)
    /\ \A w \in Workers :
          at[w] = "audit" => Truth(req[w].target, req[w].bill, req[w].user)

\* A transfer holds its source vault from its first statement to its commit.
Moving == {"payments", "expenses", "in", "out", "guard"}

\* What it has read of that vault is a lower bound of what the vault was paid,
\* and exactly what left it: nobody else can send from it.
TransferInv ==
    \A w \in Workers :
        LET v == move[w].from IN
        /\ at[w] \in Moving =>
              /\ v \in Vaults /\ move[w].to \in Vaults \ {v} /\ move[w].amount \in Amounts
              /\ vaultLock[v] = w
        /\ at[w] \in Moving \ {"payments"} => read[w].payments <= paymentsIn[v]
        /\ at[w] \in {"out", "guard"} => read[w].in <= transfersIn[v]
        /\ at[w] = "guard" => read[w].out = transfersOut[v]

\* Only a signed-off bill can have been signed off without a budget.
UnbudgetedInv == \A b \in unbudgeted : bill[b].status \in SignedOff

TreasuryInv ==
    /\ TypeOK /\ RequestsOK /\ ReviewInv /\ AuditInv /\ TransferInv
    /\ UnbudgetedInv /\ BurnsOnce

-----------------------------------------------------------------------------
(* One lemma per action; a request that ends, or a step of the environment, has
   one too. *)

\* The totals a transfer has read stay numbers.
LEMMA RecordOfReads ==
    ASSUME NEW r \in ReadTotals, NEW n \in Nat
    PROVE  /\ [r EXCEPT !.payments = n] \in ReadTotals
           /\ [r EXCEPT !.expenses = n] \in ReadTotals
           /\ [r EXCEPT !.in = n] \in ReadTotals
           /\ [r EXCEPT !.out = n] \in ReadTotals
BY DEF ReadTotals

\* A payment comes in, or an expense is booked: no request notices, and what a
\* transfer has read of the payments stays a lower bound.
LEMMA MoneyInv ==
    ASSUME TreasuryInv, NEW v \in Vaults, NEW a \in Amounts,
           RecordPayment(v, a) \/ BookExpense(v, a)
    PROVE  TreasuryInv'
<1> USE TreasuryAssumption DEF TreasuryInv, TypeOK, RequestsOK, ReadTotals,
       RecordPayment, BookExpense, Add, payables
<1>1. TypeOK'
  <2>1. CASE RecordPayment(v, a)
    <3>1. paymentsIn' = [paymentsIn EXCEPT ![v] = @ + a] /\ paymentsIn[v] + a \in Nat
      BY <2>1
    <3>2. QED  BY <2>1, <3>1
  <2>2. CASE BookExpense(v, a)
    <3>1. expensesOut' = [expensesOut EXCEPT ![v] = @ + a] /\ expensesOut[v] + a \in Nat
      BY <2>2
    <3>2. QED  BY <2>2, <3>1
  <2>3. QED  BY <2>1, <2>2
<1>2. RequestsOK'
  BY DEF Statuses
<1>3. ReviewInv'
  BY DEF ReviewInv
<1>4. AuditInv'
  BY DEF ReviewInv, AuditInv, Truth
<1>5. TransferInv'
  BY DEF TransferInv, Moving
<1>6. UnbudgetedInv'
  BY DEF UnbudgetedInv, SignedOff
<1>7. BurnsOnce'
  BY DEF BurnsOnce
<1>8. QED  BY <1>1, <1>2, <1>3, <1>4, <1>5, <1>6, <1>7

\* A budget begins or ends.
LEMMA BudgetInv ==
    ASSUME TreasuryInv, CreateBudget \/ PeriodEnds
    PROVE  TreasuryInv'
<1> USE TreasuryAssumption DEF TreasuryInv, TypeOK, RequestsOK, ReadTotals,
       CreateBudget, PeriodEnds, totals
<1>1. TypeOK'
  BY DEF Statuses
<1>2. RequestsOK'
  BY DEF Statuses
<1>3. ReviewInv'
  BY DEF ReviewInv
<1>4. AuditInv'
  BY DEF ReviewInv, AuditInv, Truth
<1>5. TransferInv'
  BY DEF TransferInv, Moving
<1>6. UnbudgetedInv'
  BY DEF UnbudgetedInv, SignedOff
<1>7. BurnsOnce'
  BY DEF BurnsOnce
<1>8. QED  BY <1>1, <1>2, <1>3, <1>4, <1>5, <1>6, <1>7

\* A bill is inserted: it has no reader and no audit row yet.
LEMMA SubmitBillInv ==
    ASSUME TreasuryInv, NEW w \in Workers, NEW u \in Users, NEW b \in Bills,
           NEW v \in Vaults, NEW a \in Amounts, SubmitBill(w, u, b, v, a)
    PROVE  TreasuryInv'
<1> USE TreasuryAssumption DEF TreasuryInv, TypeOK, RequestsOK, ReadTotals,
       SubmitBill, Goto, Reviewers, totals
<1>1. TypeOK'
  BY DEF Statuses
<1>2. RequestsOK'
  BY DEF Statuses
<1>3. ReviewInv'
  BY DEF ReviewInv
<1>4. AuditInv'
  BY DEF AuditInv, Truth, Decided, SignedOff
<1>5. TransferInv'
  BY DEF TransferInv, Moving
<1>6. UnbudgetedInv'
  BY DEF UnbudgetedInv, SignedOff
<1>7. BurnsOnce'
  BY DEF BurnsOnce, SignedOff
<1>8. QED  BY <1>1, <1>2, <1>3, <1>4, <1>5, <1>6, <1>7

\* A reviewer takes the row lock and reads the row under it.
LEMMA GetBillInv ==
    ASSUME TreasuryInv, NEW w \in Workers, NEW u \in Users, NEW b \in Bills,
           NEW target \in Decided, GetBillForUpdate(w, u, b, target)
    PROVE  TreasuryInv'
<1> USE TreasuryAssumption DEF TreasuryInv, TypeOK, RequestsOK, ReadTotals,
       GetBillForUpdate, Goto, totals, payables
<1>1. TypeOK'
  BY DEF Statuses
<1>2. RequestsOK'
  BY DEF Statuses
<1>3. ReviewInv'
  BY DEF ReviewInv
<1>4. AuditInv'
  BY DEF ReviewInv, AuditInv, Truth
<1>5. TransferInv'
  BY DEF TransferInv, Moving
<1>6. UnbudgetedInv'
  BY DEF UnbudgetedInv, SignedOff
<1>7. BurnsOnce'
  BY DEF BurnsOnce
<1>8. QED  BY <1>1, <1>2, <1>3, <1>4, <1>5, <1>6, <1>7

\* A reviewer's decision is committed: the row lock makes the copy it was checked
\* against the row, so the bill leaves each state at most once.
LEMMA TransitionInv ==
    ASSUME TreasuryInv, NEW w \in Workers, Transition(w)
    PROVE  TreasuryInv'
<1> USE TreasuryAssumption DEF TreasuryInv, TypeOK, RequestsOK, ReadTotals
<1> DEFINE b == req[w].bill  t == req[w].target  c == copy[w]
<1>a. /\ b \in Bills /\ t \in Decided /\ req[w].user \in Users
      /\ c = bill[b] /\ rowLock[b] = w /\ t # "none"
  BY DEF ReviewInv, Transition, Decided, SignedOff
<1>b. \/ c.status = "pending" /\ t \in {"approved", "rejected"}
      \/ c.status = "approved" /\ t = "scheduled"
  BY <1>a DEF Transition, MayTransition, Allowed, PayableTransitions, Decided, SignedOff
<1>c. bill' = [bill EXCEPT ![b] =
                 [status |-> t, vault |-> c.vault, amount |-> c.amount, by |-> c.by,
                  reviewer |-> IF ReviewDecision(t) THEN req[w].user ELSE c.reviewer]]
  BY DEF Transition
<1>d. /\ bill' \in [Bills -> [status : Statuses, vault : Vaults \cup {Null}, amount : Nat,
                              by : Users \cup {Null}, reviewer : Users \cup {Null}]]
      /\ bill'[b].status = t /\ bill'[b].by = c.by
      /\ bill'[b].reviewer = IF ReviewDecision(t) THEN req[w].user ELSE c.reviewer
      /\ \A x \in Bills \ {b} : bill'[x] = bill[x]
  BY <1>a, <1>c DEF Decided, SignedOff, Statuses
<1>e. /\ at' = [at EXCEPT ![w] = "audit"] /\ Release(w)
      /\ UNCHANGED <<paymentsIn, feesOut, transfersIn, transfersOut, asked, budget, audit,
                     req, copy, move, read>>
  BY DEF Transition, Goto
<1>1. TypeOK'
  <2>1. expensesOut' \in [Vaults -> Nat]
    BY <1>a DEF Transition, Add
  <2>2. /\ burned' \in [Bills -> Nat] /\ emitted' \in [Bills -> Nat]
        /\ unbudgeted' \subseteq Bills
    <3>1. SideEffects(b, t)
      BY DEF Transition
    <3>2. CASE t = "approved"
      <4>1. /\ (IF budget = "active" THEN burned[b] + 1 ELSE burned[b]) \in Nat
            /\ emitted[b] + 1 \in Nat
        BY <1>a
      <4>2. burned' \in [Bills -> Nat]
        BY <1>a, <3>1, <3>2, <4>1 DEF SideEffects
      <4>3. emitted' \in [Bills -> Nat]
        BY <1>a, <3>1, <3>2, <4>1 DEF SideEffects
      <4>4. unbudgeted' \subseteq Bills
        BY <1>a, <3>1, <3>2 DEF SideEffects
      <4>5. QED  BY <4>2, <4>3, <4>4
    <3>3. CASE t # "approved"
      BY <3>1, <3>3 DEF SideEffects
    <3>4. QED  BY <3>2, <3>3
  <2>3. QED  BY <1>d, <1>e, <2>1, <2>2 DEF Release
<1>2. RequestsOK'
  BY <1>e
<1>3. ReviewInv'
  BY <1>a, <1>d, <1>e DEF ReviewInv, Release
<1>4. AuditInv'
  <2>1. ASSUME NEW action, NEW x, NEW actor, Truth(action, x, actor)
        PROVE  Truth(action, x, actor)'
    BY <1>a, <1>b, <1>d, <2>1 DEF Truth, SignedOff, ReviewDecision
  <2>2. Truth(t, b, req[w].user)'
    BY <1>a, <1>b, <1>d, <1>e DEF Truth, SignedOff, ReviewDecision
  <2>3. QED  BY <1>e, <2>1, <2>2 DEF AuditInv
<1>5. TransferInv'
  BY <1>a, <1>e DEF TransferInv, Moving, Release
<1>6. UnbudgetedInv'
  <2>1. \A x \in unbudgeted' : x \in unbudgeted \/ (x = b /\ t = "approved")
    BY DEF Transition, SideEffects
  <2>2. QED  BY <1>a, <1>b, <1>d, <2>1 DEF UnbudgetedInv, SignedOff
<1>7. BurnsOnce'
  <2>1. t = "approved" <=> c.status \notin SignedOff /\ t \in SignedOff
    BY <1>b DEF SignedOff
  <2>2. t # "approved" => (c.status \in SignedOff <=> t \in SignedOff)
    BY <1>b DEF SignedOff
  <2>3. SideEffects(b, t)
    BY DEF Transition
  <2>4. ASSUME NEW x \in Bills, x # b
        PROVE  bill'[x] = bill[x] /\ emitted'[x] = emitted[x] /\ burned'[x] = burned[x]
               /\ (x \in unbudgeted' <=> x \in unbudgeted)
    BY <1>d, <2>3, <2>4 DEF SideEffects
  <2>5. CASE t = "approved"
    <3>1. emitted[b] = 0 /\ burned[b] = 0 /\ t \in SignedOff
      BY <1>a, <2>1, <2>5 DEF BurnsOnce
    <3>2. b \notin unbudgeted
      BY <1>a, <1>b, <2>5 DEF UnbudgetedInv, SignedOff
    <3>3. emitted'[b] = 1 /\ burned'[b] = IF b \in unbudgeted' THEN 0 ELSE 1
      BY <1>a, <2>3, <2>5, <3>1, <3>2 DEF SideEffects
    <3>4. ASSUME NEW x \in Bills, x # b
          PROVE  LET signed == bill'[x].status \in SignedOff IN
                 /\ emitted'[x] = IF signed THEN 1 ELSE 0
                 /\ burned'[x] = IF signed /\ x \notin unbudgeted' THEN 1 ELSE 0
      BY <2>4, <3>4 DEF BurnsOnce
    <3>5. LET signed == bill'[b].status \in SignedOff IN
          /\ emitted'[b] = IF signed THEN 1 ELSE 0
          /\ burned'[b] = IF signed /\ b \notin unbudgeted' THEN 1 ELSE 0
      BY <1>d, <3>1, <3>3
    <3>6. QED  BY <3>4, <3>5 DEF BurnsOnce
  <2>6. CASE t # "approved"
    <3>1. UNCHANGED <<burned, emitted, unbudgeted>>
      BY <2>3, <2>6 DEF SideEffects
    <3>2. bill'[b].status \in SignedOff <=> bill[b].status \in SignedOff
      BY <1>a, <1>d, <2>2, <2>6
    <3>3. QED  BY <1>d, <3>1, <3>2 DEF BurnsOnce
  <2>7. QED  BY <2>5, <2>6
<1>8. QED  BY <1>1, <1>2, <1>3, <1>4, <1>5, <1>6, <1>7

\* The audit row says of the committed decision what holds of it.
LEMMA AuditInvStep ==
    ASSUME TreasuryInv, NEW w \in Workers, Audit(w)
    PROVE  TreasuryInv'
<1> USE TreasuryAssumption DEF TreasuryInv, TypeOK, RequestsOK, ReadTotals,
       Audit, Finish, Goto, NoReq, NoBill, NoMove, Unread, totals, payables
<1>1. TypeOK'
  BY DEF Statuses
<1>2. RequestsOK'
  BY DEF Statuses
<1>3. ReviewInv'
  BY DEF ReviewInv
<1>4. AuditInv'
  BY DEF ReviewInv, AuditInv, Truth
<1>5. TransferInv'
  BY DEF TransferInv, Moving
<1>6. UnbudgetedInv'
  BY DEF UnbudgetedInv, SignedOff
<1>7. BurnsOnce'
  BY DEF BurnsOnce
<1>8. QED  BY <1>1, <1>2, <1>3, <1>4, <1>5, <1>6, <1>7

\* A request is refused, or dies: its locks go with it.
LEMMA EndInv ==
    ASSUME TreasuryInv, NEW w \in Workers, Release(w), Finish(w),
           UNCHANGED <<totals, payables, audit>>
    PROVE  TreasuryInv'
<1> USE TreasuryAssumption DEF TreasuryInv, TypeOK, RequestsOK, ReadTotals,
       Release, Finish, Goto, NoReq, NoBill, NoMove, Unread, totals, payables
<1>1. TypeOK'
  BY DEF Statuses
<1>2. RequestsOK'
  BY DEF Statuses
<1>3. ReviewInv'
  BY DEF ReviewInv
<1>4. AuditInv'
  BY DEF ReviewInv, AuditInv, Truth
<1>5. TransferInv'
  BY DEF TransferInv, Moving
<1>6. UnbudgetedInv'
  BY DEF UnbudgetedInv, SignedOff
<1>7. BurnsOnce'
  BY DEF BurnsOnce
<1>8. QED  BY <1>1, <1>2, <1>3, <1>4, <1>5, <1>6, <1>7

\* A transfer takes the advisory lock of its source vault.
LEMMA LockVaultInv ==
    ASSUME TreasuryInv, NEW w \in Workers, NEW u \in Users, NEW v \in Vaults,
           NEW to \in Vaults, NEW a \in Amounts, NEW fee \in Fees,
           LockVault(w, u, v, to, a, fee)
    PROVE  TreasuryInv'
<1> USE TreasuryAssumption DEF TreasuryInv, TypeOK, RequestsOK, ReadTotals,
       LockVault, Goto, totals, payables
<1>1. TypeOK'
  BY DEF Statuses
<1>2. RequestsOK'
  BY DEF Statuses
<1>3. ReviewInv'
  BY DEF ReviewInv
<1>4. AuditInv'
  BY DEF ReviewInv, AuditInv, Truth
<1>5. TransferInv'
  BY DEF TransferInv, Moving
<1>6. UnbudgetedInv'
  BY DEF UnbudgetedInv, SignedOff
<1>7. BurnsOnce'
  BY DEF BurnsOnce
<1>8. QED  BY <1>1, <1>2, <1>3, <1>4, <1>5, <1>6, <1>7

\* The four reads of the source vault, one statement each.
LEMMA ReadPaymentsInv ==
    ASSUME TreasuryInv, NEW w \in Workers, ReadPayments(w)
    PROVE  TreasuryInv'
<1> USE TreasuryAssumption DEF TreasuryInv, TypeOK, RequestsOK, ReadTotals,
       ReadPayments, Goto, Unread, totals, payables
<1>1. TypeOK'
  BY DEF Statuses
<1>2. RequestsOK'
  <2>1. move[w].from \in Vaults
    BY DEF TransferInv, Moving
  <2>2. [Unread EXCEPT !.payments = paymentsIn[move[w].from]]
           \in ReadTotals
    BY <2>1, RecordOfReads DEF Unread
  <2>3. QED  BY <2>2
<1>3. ReviewInv'
  BY DEF ReviewInv
<1>4. AuditInv'
  BY DEF ReviewInv, AuditInv, Truth
<1>5. TransferInv'
  BY DEF TransferInv, Moving
<1>6. UnbudgetedInv'
  BY DEF UnbudgetedInv, SignedOff
<1>7. BurnsOnce'
  BY DEF BurnsOnce
<1>8. QED  BY <1>1, <1>2, <1>3, <1>4, <1>5, <1>6, <1>7

\* The expenses and fees of the source vault.
LEMMA ReadExpensesInv ==
    ASSUME TreasuryInv, NEW w \in Workers, ReadExpenses(w)
    PROVE  TreasuryInv'
<1> USE TreasuryAssumption DEF TreasuryInv, TypeOK, RequestsOK, ReadTotals,
       ReadExpenses, Goto, totals, payables
<1>1. TypeOK'
  BY DEF Statuses
<1>2. RequestsOK'
  <2>1. move[w].from \in Vaults
    BY DEF TransferInv, Moving
  <2>a. read[w] \in ReadTotals
    OBVIOUS
  <2>b. expensesOut[move[w].from] + feesOut[move[w].from] \in Nat
    BY <2>1
  <2>2. [read[w] EXCEPT !.expenses = expensesOut[move[w].from] + feesOut[move[w].from]]
           \in ReadTotals
    BY <2>a, <2>b, RecordOfReads DEF Unread
  <2>3. QED  BY <2>2
<1>3. ReviewInv'
  BY DEF ReviewInv
<1>4. AuditInv'
  BY DEF ReviewInv, AuditInv, Truth
<1>5. TransferInv'
  BY DEF TransferInv, Moving
<1>6. UnbudgetedInv'
  BY DEF UnbudgetedInv, SignedOff
<1>7. BurnsOnce'
  BY DEF BurnsOnce
<1>8. QED  BY <1>1, <1>2, <1>3, <1>4, <1>5, <1>6, <1>7

\* What was sent to it.
LEMMA ReadTransfersInInv ==
    ASSUME TreasuryInv, NEW w \in Workers, ReadTransfersIn(w)
    PROVE  TreasuryInv'
<1> USE TreasuryAssumption DEF TreasuryInv, TypeOK, RequestsOK, ReadTotals,
       ReadTransfersIn, Goto, totals, payables
<1>1. TypeOK'
  BY DEF Statuses
<1>2. RequestsOK'
  <2>1. move[w].from \in Vaults
    BY DEF TransferInv, Moving
  <2>2. [read[w] EXCEPT !.in = transfersIn[move[w].from]]
           \in ReadTotals
    BY <2>1, RecordOfReads DEF Unread
  <2>3. QED  BY <2>2
<1>3. ReviewInv'
  BY DEF ReviewInv
<1>4. AuditInv'
  BY DEF ReviewInv, AuditInv, Truth
<1>5. TransferInv'
  BY DEF TransferInv, Moving
<1>6. UnbudgetedInv'
  BY DEF UnbudgetedInv, SignedOff
<1>7. BurnsOnce'
  BY DEF BurnsOnce
<1>8. QED  BY <1>1, <1>2, <1>3, <1>4, <1>5, <1>6, <1>7

\* What was sent from it.
LEMMA ReadTransfersOutInv ==
    ASSUME TreasuryInv, NEW w \in Workers, ReadTransfersOut(w)
    PROVE  TreasuryInv'
<1> USE TreasuryAssumption DEF TreasuryInv, TypeOK, RequestsOK, ReadTotals,
       ReadTransfersOut, Goto, totals, payables
<1>1. TypeOK'
  BY DEF Statuses
<1>2. RequestsOK'
  <2>1. move[w].from \in Vaults
    BY DEF TransferInv, Moving
  <2>2. [read[w] EXCEPT !.out = transfersOut[move[w].from]]
           \in ReadTotals
    BY <2>1, RecordOfReads DEF Unread
  <2>3. QED  BY <2>2
<1>3. ReviewInv'
  BY DEF ReviewInv
<1>4. AuditInv'
  BY DEF ReviewInv, AuditInv, Truth
<1>5. TransferInv'
  BY DEF TransferInv, Moving
<1>6. UnbudgetedInv'
  BY DEF UnbudgetedInv, SignedOff
<1>7. BurnsOnce'
  BY DEF BurnsOnce
<1>8. QED  BY <1>1, <1>2, <1>3, <1>4, <1>5, <1>6, <1>7

\* A transfer commits: it changes what left its own vault only, which it has locked.
LEMMA TransferStepInv ==
    ASSUME TreasuryInv, NEW w \in Workers, Transfer(w)
    PROVE  TreasuryInv'
<1> USE TreasuryAssumption DEF TreasuryInv, TypeOK, RequestsOK, ReadTotals,
       Transfer, Add, Release, Finish, Goto, NoReq, NoBill, NoMove, Unread,
       payables
<1>1. TypeOK'
  <2>1. move[w].from \in Vaults /\ move[w].to \in Vaults
    BY DEF TransferInv, Moving
  <2>2. /\ transfersOut[move[w].from] + move[w].amount \in Nat
        /\ transfersIn[move[w].to] + move[w].amount \in Nat
        /\ feesOut[move[w].from] + move[w].fee \in Nat
    BY <2>1
  <2>3. /\ transfersOut' \in [Vaults -> Nat] /\ transfersIn' \in [Vaults -> Nat]
        /\ feesOut' \in [Vaults -> Nat]
    BY <2>1, <2>2
  <2>4. QED  BY <2>3
<1>2. RequestsOK'
  BY DEF Statuses
<1>3. ReviewInv'
  BY DEF ReviewInv
<1>4. AuditInv'
  BY DEF ReviewInv, AuditInv, Truth
<1>5. TransferInv'
  BY DEF TransferInv, Moving
<1>6. UnbudgetedInv'
  BY DEF UnbudgetedInv, SignedOff
<1>7. BurnsOnce'
  BY DEF BurnsOnce
<1>8. QED  BY <1>1, <1>2, <1>3, <1>4, <1>5, <1>6, <1>7

\* Every step preserves the invariant.
LEMMA TreasuryStep == TreasuryInv /\ [Next]_vars => TreasuryInv'
<1> SUFFICES ASSUME TreasuryInv, [Next]_vars PROVE TreasuryInv'
  OBVIOUS
<1>1. ASSUME NEW w \in Workers, RefuseTransition(w) \/ RefuseTransfer(w) \/ Abort(w)
      PROVE  TreasuryInv'
  BY <1>1, EndInv DEF RefuseTransition, RefuseTransfer, Abort
<1>2. CASE UNCHANGED vars
  BY <1>2 DEF vars, totals, payables, TreasuryInv, TypeOK, RequestsOK, ReviewInv,
     AuditInv, Truth, TransferInv, UnbudgetedInv, BurnsOnce
<1>3. QED
  BY <1>1, <1>2, MoneyInv, BudgetInv, SubmitBillInv, GetBillInv, TransitionInv,
     AuditInvStep, LockVaultInv, ReadPaymentsInv, ReadExpensesInv, ReadTransfersInInv,
     ReadTransfersOutInv, TransferStepInv DEF Next

\* It holds initially.
LEMMA TreasuryInit == Init => TreasuryInv
<1> SUFFICES ASSUME Init PROVE TreasuryInv
  OBVIOUS
<1> USE TreasuryAssumption DEF Init, NoReq, NoBill, NoMove, Unread
<1>1. TypeOK  BY DEF TypeOK, Statuses
<1>2. RequestsOK  BY DEF RequestsOK, ReadTotals, Statuses
<1>3. ReviewInv /\ AuditInv  BY DEF ReviewInv, AuditInv
<1>4. TransferInv  BY DEF TransferInv, Moving
<1>5. UnbudgetedInv /\ BurnsOnce  BY DEF UnbudgetedInv, BurnsOnce, SignedOff
<1>6. QED  BY <1>1, <1>2, <1>3, <1>4, <1>5 DEF TreasuryInv

\* A payable burns the budget and raises its event exactly once, however many
\* reviewers decide on it at once.
THEOREM SignOffBurnsOnce == Spec => [](TypeOK /\ BurnsOnce)
<1>1. TreasuryInv => TypeOK /\ BurnsOnce
  BY DEF TreasuryInv
<1>2. QED  BY TreasuryInit, TreasuryStep, <1>1, PTL DEF Spec

\* Every audit row names a decision that was taken, by whom it says, and that
\* stands: whatever commits between the decision and its row.
THEOREM AuditIsTruthful == Spec => []AuditTellsTheTruth
<1>1. TreasuryInv => AuditTellsTheTruth
  BY DEF TreasuryInv, AuditInv, Truth, AuditTellsTheTruth
<1>2. QED  BY TreasuryInit, TreasuryStep, <1>1, PTL DEF Spec

\* A transfer never sends what was not paid in: whatever payments and transfers
\* commit between its four reads, only an expense signed off after it was read can
\* leave the vault short.
THEOREM TransfersAreFunded == Spec => OverdrawnOnlyByLateExpenses
<1> DEFINE Funding == \A v \in Vaults : transfersOut'[v] # transfersOut[v] =>
        \E w \in Workers :
            /\ move[w].from = v /\ at[w] = "guard"
            /\ Balance(v)' >= read[w].expenses - expensesOut[v] - feesOut[v]
<1>1. TreasuryInv /\ [Next]_vars => [Funding]_vars
  <2> SUFFICES ASSUME TreasuryInv, Next PROVE Funding
    OBVIOUS
  <2>1. ASSUME NEW w \in Workers, Transfer(w) PROVE Funding
    <3>a. PICK v \in Vaults : v = move[w].from
      BY <2>1 DEF Transfer, TreasuryInv, TransferInv, Moving
    <3> DEFINE to == move[w].to  r == read[w]  a == move[w].amount  fee == move[w].fee
    <3>1. /\ v \in Vaults /\ to \in Vaults /\ to # v /\ at[w] = "guard"
          /\ r.payments <= paymentsIn[v] /\ r.in <= transfersIn[v]
          /\ r.out = transfersOut[v]
      BY <2>1, <3>a DEF Transfer, TreasuryInv, TransferInv, Moving
    <3>2. /\ r.payments \in Nat /\ r.in \in Nat /\ r.out \in Nat /\ r.expenses \in Nat
          /\ a \in Nat /\ fee \in Nat
          /\ paymentsIn[v] \in Nat /\ transfersIn[v] \in Nat /\ transfersOut[v] \in Nat
          /\ expensesOut[v] \in Nat /\ feesOut[v] \in Nat
      BY <3>1 DEF TreasuryInv, TypeOK, RequestsOK, ReadTotals
    <3>3. a + fee <= r.payments + r.in - r.expenses - r.out
      BY <2>1, <3>a DEF Transfer, Funded, ReadBalance
    <3>4. /\ transfersOut' = [transfersOut EXCEPT ![v] = @ + a]
          /\ transfersIn' = [transfersIn EXCEPT ![to] = @ + a]
          /\ feesOut' = [feesOut EXCEPT ![v] = @ + fee]
          /\ paymentsIn' = paymentsIn /\ expensesOut' = expensesOut
      BY <2>1, <3>a DEF Transfer, Add
    <3>5. /\ transfersOut'[v] = transfersOut[v] + a /\ transfersIn'[v] = transfersIn[v]
          /\ feesOut'[v] = feesOut[v] + fee
      BY <3>1, <3>4 DEF TreasuryInv, TypeOK
    <3>6. Balance(v)' = paymentsIn[v] + transfersIn[v] - expensesOut[v]
                        - (feesOut[v] + fee) - (transfersOut[v] + a)
      BY <3>4, <3>5 DEF Balance
    <3>7. Balance(v)' >= r.expenses - expensesOut[v] - feesOut[v]
      <4> HIDE DEF to, r, a, fee
      <4>1. QED  BY <3>1, <3>2, <3>3, <3>6
    <3>8. \A x \in Vaults : transfersOut'[x] # transfersOut[x] => x = v
      BY <3>4 DEF TreasuryInv, TypeOK
    <3>9. QED  BY <3>a, <3>1, <3>7, <3>8
  <2>2. CASE UNCHANGED transfersOut
    BY <2>2
  <2>3. ASSUME NEW w \in Workers,
               \/ \E u \in Users, b \in Bills :
                     \/ \E v \in Vaults, a \in Amounts : SubmitBill(w, u, b, v, a)
                     \/ \E target \in Decided : GetBillForUpdate(w, u, b, target)
               \/ \E u \in Users, v, to \in Vaults, a \in Amounts, fee \in Fees :
                     LockVault(w, u, v, to, a, fee)
               \/ Transition(w) \/ RefuseTransition(w) \/ Audit(w) \/ ReadPayments(w)
               \/ ReadExpenses(w) \/ ReadTransfersIn(w) \/ ReadTransfersOut(w)
               \/ RefuseTransfer(w) \/ Abort(w)
        PROVE  UNCHANGED transfersOut
    BY <2>3 DEF SubmitBill, GetBillForUpdate, LockVault, Transition, RefuseTransition,
       Audit, ReadPayments, ReadExpenses, ReadTransfersIn, ReadTransfersOut,
       RefuseTransfer, Abort, totals
  <2>4. ASSUME \/ \E v \in Vaults, a \in Amounts :
                     RecordPayment(v, a) \/ BookExpense(v, a)
               \/ CreateBudget \/ PeriodEnds
        PROVE  UNCHANGED transfersOut
    BY <2>4 DEF RecordPayment, BookExpense, CreateBudget, PeriodEnds, totals
  <2> HIDE DEF Funding
  <2>5. QED  BY <2>1, <2>2, <2>3, <2>4 DEF Next
<1>2. Spec => []TreasuryInv
  BY TreasuryInit, TreasuryStep, PTL DEF Spec
<1>3. QED  BY <1>1, <1>2, PTL DEF Spec, OverdrawnOnlyByLateExpenses
=============================================================================
