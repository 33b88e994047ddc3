-------------------------- MODULE SettlementsProofs --------------------------
(***************************************************************************)
(* Callbacks, bank lines and reconciliation batches, for any number of     *)
(* each.  The row locks a batch holds while it awaits the model, the       *)
(* unique columns of the tables of what has arrived, and the look for a    *)
(* pending proposal each carry one theorem.                                *)
(***************************************************************************)
EXTENDS Settlements, FiniteSetTheorems, SequenceTheorems, TLAPS

Match == Settled \X InvoiceSet

\* Balances as a batch has read them, of some of the invoices.
Seen == UNION {[I -> Int] : I \in SUBSET InvoiceSet}

RunRecord ==
    [txns : SUBSET Settled, seen : Seen, exact : SUBSET Match, semantic : SUBSET Match,
     todo : SUBSET Match, checked : Match \cup {Null},
     report : [settled : SUBSET Match, unmatched : SUBSET Settled]]

LineRow == [status : {"none", "pending", "approved", "rejected"},
            by : Users \cup {Null}, reviewer : Users \cup {Null}]

ProposalRow == [source : Settled, inv : InvoiceSet,
                status : {"proposed", "applied", "approved", "rejected"}]

Places == {"idle", "insert", "import", "review", "invoices", "model", "commit",
           "propose", "create"}

\* The shape of the tables, and of requests and batches in flight.
TypeOK ==
    /\ arrived \in Seq(Settled)
    /\ line \in [Lines -> LineRow]
    /\ reconciled \subseteq Settled
    /\ balance \in [InvoiceSet -> Int]
    /\ proposals \in Seq(ProposalRow)
    /\ emitted \in [Settled -> Nat]
    /\ acked \subseteq Receipts
    /\ lock \in [Settled \cup InvoiceSet -> Runs \cup {Null}]
    /\ at \in [Handlers \cup Runs -> Places]
    /\ run \in [Runs -> RunRecord]

JobsOK ==
    /\ DOMAIN job = Handlers
    /\ \A h \in Handlers :
        /\ at[h] = "insert" => job[h].receipt \in Receipts
        /\ at[h] = "import" => job[h].refs \subseteq Lines /\ job[h].user \in Users
        /\ at[h] = "review" => /\ job[h].line \in Lines /\ job[h].user \in Users
                               /\ job[h].decision \in {"approved", "rejected"}

\* Batch b holds the rows it has fetched, from the fetch to its commit, and they
\* are still what it fetched.
Held(b) ==
    /\ at[b] \in {"invoices", "model", "commit"} =>
        \A s \in run[b].txns : s \in Range(arrived) /\ lock[s] = b /\ Eligible(s)
    /\ at[b] \in {"model", "commit"} =>
        /\ \A i \in DOMAIN run[b].seen : lock[i] = b /\ run[b].seen[i] = balance[i]
        /\ run[b].exact \subseteq run[b].txns \X DOMAIN run[b].seen

LocksInv == \A b \in Runs : Held(b)

\* The batches that have found no pending proposal of s, and are about to make one.
Creating(s) == {b \in Runs : at[b] = "create" /\ run[b].checked[1] = s}

\* They count as if they had made it.
BoundInv ==
    /\ \A b \in Runs : at[b] = "create" => run[b].checked \in Match
    /\ \A s \in Settled :
          Cardinality(Pending(s)) + Cardinality(Creating(s)) <= Cardinality(Runs)

Rows(r) == {k \in DOMAIN arrived : arrived[k] = r}

\* A receipt has one row and one event, or none and no answer.
BooksInv ==
    \A r \in Receipts :
        /\ \A j, k \in Rows(r) : j = k
        /\ emitted[r] = IF Rows(r) = {} THEN 0 ELSE 1
        /\ r \in acked => Rows(r) # {}

\* A settlement that is reported is booked.
ReportInv ==
    \A b \in Runs : \A m \in run[b].report.settled :
        /\ m[1] \in reconciled
        /\ \E p \in payments : p.source = m[1] /\ p.inv = m[2]

SettlementsInv == TypeOK /\ JobsOK /\ LocksInv /\ BoundInv /\ BooksInv /\ ReportInv

-----------------------------------------------------------------------------
(* What a step may leave alone *)

\* Requests, batches and nobody are apart.
LEMMA Disjoint == /\ \A h \in Handlers : h \notin Runs
                  /\ \A b \in Runs : b \notin Handlers /\ b # Null
BY SettlementsAssumption

LEMMA NoRunOK == NoRun \in RunRecord /\ DOMAIN NoRun.seen = {}
<1>1. <<>> \in [{} -> Int] /\ DOMAIN <<>> = {}
  OBVIOUS
<1>2. <<>> \in Seen
  BY <1>1 DEF Seen
<1>3. QED  BY <1>1, <1>2 DEF NoRun, NoReport, RunRecord

\* Whoever is not moved by a step keeps his rows, if the step writes no row locked
\* by him.
LEMMA HeldKept ==
    ASSUME SettlementsInv, NEW S \in SUBSET Runs,
           \A c \in S : at'[c] = at[c] /\ run'[c] = run[c],
           Range(arrived) \subseteq Range(arrived'),
           \A x \in Settled \cup InvoiceSet : lock[x] \in S => lock'[x] = lock[x],
           \A x \in Range(arrived) : lock[x] \in S => (Eligible(x) => Eligible(x)'),
           \A i \in InvoiceSet : lock[i] \in S => balance'[i] = balance[i],
           \A c \in Runs \ S : Held(c)'
    PROVE  LocksInv'
<1>1. ASSUME NEW c \in S PROVE Held(c)'
  <2>1. run[c].txns \subseteq Settled /\ DOMAIN run[c].seen \subseteq InvoiceSet
    BY DEF SettlementsInv, TypeOK, RunRecord, Seen
  <2>2. Held(c)
    BY DEF SettlementsInv, LocksInv
  <2>3. QED  BY <2>1, <2>2 DEF Held
<1>2. QED  BY <1>1 DEF LocksInv

\* The sets that are counted are finite.
LEMMA Finiteness ==
    ASSUME SettlementsInv, NEW s
    PROVE  /\ IsFiniteSet(Pending(s)) /\ Cardinality(Pending(s)) \in Nat
           /\ IsFiniteSet(Creating(s)) /\ Cardinality(Creating(s)) \in Nat
           /\ Cardinality(Creating(s)) <= Cardinality(Runs) /\ Cardinality(Runs) \in Nat
<1>1. IsFiniteSet(DOMAIN proposals)
  <2>1. DOMAIN proposals = 1 .. Len(proposals) /\ Len(proposals) \in Nat
    BY DEF SettlementsInv, TypeOK
  <2>2. QED  BY <2>1, FS_Interval
<1>2. Pending(s) \subseteq DOMAIN proposals /\ Creating(s) \subseteq Runs
  BY DEF Pending, Creating
<1>3. QED
  BY <1>1, <1>2, FS_Subset, FS_CardinalityType, SettlementsAssumption

\* A step that adds no pending proposal, and sends no batch to create one, keeps
\* the bound.
LEMMA BoundKept ==
    ASSUME SettlementsInv,
           \A s \in Settled : Pending(s)' \subseteq Pending(s),
           \A b \in Runs : at'[b] = "create" =>
               at[b] = "create" /\ run'[b].checked = run[b].checked
    PROVE  BoundInv'
<1>1. ASSUME NEW s \in Settled
      PROVE  Cardinality(Pending(s)') + Cardinality(Creating(s)') <= Cardinality(Runs)
  <2>1. Creating(s)' \subseteq Creating(s)
    BY DEF Creating
  <2>2. /\ Cardinality(Pending(s)') \in Nat /\ Cardinality(Creating(s)') \in Nat
        /\ Cardinality(Pending(s)') <= Cardinality(Pending(s))
        /\ Cardinality(Creating(s)') <= Cardinality(Creating(s))
    BY <2>1, Finiteness, FS_Subset, FS_CardinalityType
  <2>3. Cardinality(Pending(s)) + Cardinality(Creating(s)) <= Cardinality(Runs)
    BY DEF SettlementsInv, BoundInv
  <2>4. QED  BY <2>2, <2>3, Finiteness
<1>2. QED  BY <1>1 DEF SettlementsInv, BoundInv

\* What is booked stays booked.
LEMMA ReportKept ==
    ASSUME SettlementsInv, payments \subseteq payments', reconciled \subseteq reconciled',
           \A b \in Runs : run'[b].report.settled \in {run[b].report.settled, {}}
    PROVE  ReportInv'
BY DEF SettlementsInv, ReportInv

\* A step that moves no batch and touches no locked row.
LEMMA HeldByAll ==
    ASSUME SettlementsInv, UNCHANGED <<lock, run>>,
           \A c \in Runs : at'[c] = at[c],
           Range(arrived) \subseteq Range(arrived'),
           \A x \in Range(arrived) : lock[x] # Null => (Eligible(x) => Eligible(x)'),
           \A i \in InvoiceSet : lock[i] # Null => balance'[i] = balance[i]
    PROVE  LocksInv'
<1>1. \A c \in Runs : at'[c] = at[c] /\ run'[c] = run[c]
  OBVIOUS
<1>2. \A x : lock[x] \in Runs => lock[x] # Null
  BY SettlementsAssumption
<1>3. \A x \in Settled \cup InvoiceSet : lock[x] \in Runs => lock'[x] = lock[x]
  OBVIOUS
<1>4. Runs \in SUBSET Runs /\ \A c \in Runs \ Runs : Held(c)'
  OBVIOUS
<1>5. QED  BY <1>1, <1>2, <1>3, <1>4, HeldKept

\* A step of batch b that touches no row locked by another.
LEMMA HeldByOthers ==
    ASSUME SettlementsInv, NEW b \in Runs, UNCHANGED arrived,
           \A c \in Runs \ {b} : at'[c] = at[c] /\ run'[c] = run[c],
           \A x \in Settled \cup InvoiceSet : lock[x] \in Runs \ {b} => lock'[x] = lock[x],
           \A x \in Settled : lock[x] \in Runs \ {b} => (Eligible(x) => Eligible(x)'),
           \A i \in InvoiceSet : lock[i] \in Runs \ {b} => balance'[i] = balance[i],
           Held(b)'
    PROVE  LocksInv'
<1>1. Runs \ {b} \in SUBSET Runs /\ \A c \in Runs \ (Runs \ {b}) : Held(c)'
  OBVIOUS
<1>2. Range(arrived) \subseteq Settled /\ Range(arrived) \subseteq Range(arrived')
  BY DEF SettlementsInv, TypeOK, Range
<1>3. \A x \in Range(arrived) : lock[x] \in Runs \ {b} => (Eligible(x) => Eligible(x)')
  BY <1>2
<1>4. QED  BY <1>1, <1>2, <1>3, HeldKept

\* The exact matches of a batch pair rows it has fetched.
LEMMA Pass1Pairs ==
    ASSUME NEW txns, NEW seen
    PROVE  Pass1(txns, seen) \subseteq txns \X DOMAIN seen
BY DEF Pass1

\* What a batch may become.
LEMMA RunFields ==
    /\ \A T \in SUBSET Settled : [NoRun EXCEPT !.txns = T] \in RunRecord
    /\ \A r \in RunRecord, f \in Seen, E \in SUBSET Match :
          [r EXCEPT !.seen = f, !.exact = E] \in RunRecord
    /\ \A r \in RunRecord, F \in SUBSET Match : [r EXCEPT !.semantic = F] \in RunRecord
    /\ \A r \in RunRecord, F \in SUBSET Match, m \in Match \cup {Null} :
          [r EXCEPT !.todo = F, !.checked = m] \in RunRecord
    /\ \A E, F \in SUBSET Match, T \in SUBSET Settled :
          [NoRun EXCEPT !.todo = F, !.report = [settled |-> E, unmatched |-> T]] \in RunRecord
<1>1. \A T \in SUBSET Settled : [NoRun EXCEPT !.txns = T] \in RunRecord
  BY NoRunOK DEF RunRecord
<1>2. \A r \in RunRecord, f \in Seen, E \in SUBSET Match :
          [r EXCEPT !.seen = f, !.exact = E] \in RunRecord
  BY DEF RunRecord
<1>3. \A r \in RunRecord, F \in SUBSET Match : [r EXCEPT !.semantic = F] \in RunRecord
  BY DEF RunRecord
<1>4. \A r \in RunRecord, F \in SUBSET Match, m \in Match \cup {Null} :
          [r EXCEPT !.todo = F, !.checked = m] \in RunRecord
  BY DEF RunRecord
<1>5. \A E, F \in SUBSET Match, T \in SUBSET Settled :
          [NoRun EXCEPT !.todo = F, !.report = [settled |-> E, unmatched |-> T]] \in RunRecord
  BY NoRunOK DEF RunRecord
<1>6. QED  BY <1>1, <1>2, <1>3, <1>4, <1>5

\* Lines in some order.
LEMMA LinesInOrder ==
    ASSUME NEW refs \in SUBSET Lines
    PROVE  SetToSeq(refs) \in Seq(refs)
<1>1. IsFiniteSet(refs)
  BY SettlementsAssumption, FS_Subset
<1>2. Cardinality(refs) \in Nat /\ ExistsBijection(1 .. Cardinality(refs), refs)
  BY <1>1, FS_CardinalityType
<1>3. \E f \in [1 .. Cardinality(refs) -> refs] : IsInjective(f)
  BY <1>2 DEF ExistsBijection, Bijection, Injection
<1>4. SetToSeq(refs) \in [1 .. Cardinality(refs) -> refs]
  BY <1>3 DEF SetToSeq
<1>5. QED  BY <1>2, <1>4

-----------------------------------------------------------------------------
(* One lemma per action *)

\* A callback is looked up: a receipt that is answered has a row.
LEMMA CallbackLookupInv ==
    ASSUME SettlementsInv, NEW h \in Handlers, NEW cb \in Callbacks, CallbackLookup(h, cb)
    PROVE  SettlementsInv'
<1> USE DEF SettlementsInv, TypeOK, CallbackLookup, Goto, store
<1>a. cb.receipt \in Receipts
  BY SettlementsAssumption
<1>1. TypeOK'
  <2>1. acked' \subseteq Receipts
    BY <1>a
  <2>2. at' \in [Handlers \cup Runs -> Places]
    BY DEF Places
  <2>3. QED  BY <2>1, <2>2
<1>2. JobsOK'
  <2>1. DOMAIN job' = Handlers
    BY DEF JobsOK
  <2>2. \A x \in Handlers \ {h} : at'[x] = at[x] /\ job'[x] = job[x]
    BY DEF JobsOK
  <2>3. at'[h] = "idle" \/ (at'[h] = "insert" /\ job'[h].receipt = cb.receipt)
    <3>1. CASE cb.receipt \in Range(arrived)
      BY <3>1
    <3>2. CASE cb.receipt \notin Range(arrived)
      BY <3>2 DEF JobsOK
    <3>3. QED  BY <3>1, <3>2
  <2>4. QED  BY <1>a, <2>1, <2>2, <2>3 DEF JobsOK
<1>3. LocksInv'
  <2>1. \A c \in Runs : at'[c] = at[c] /\ run'[c] = run[c]
    BY Disjoint
  <2>2. QED  BY <2>1, HeldKept DEF Eligible
<1>4. BoundInv'
  BY BoundKept, Disjoint DEF Pending
<1>5. BooksInv'
  <2>1. \A r \in acked' : r \in acked \/ r \in Range(arrived)
    OBVIOUS
  <2>2. \A r \in Range(arrived) : Rows(r) # {}
    BY DEF Range, Rows
  <2>3. QED  BY <2>1, <2>2 DEF BooksInv, Rows
<1>6. ReportInv'
  BY ReportKept
<1>7. QED  BY <1>1, <1>2, <1>3, <1>4, <1>5, <1>6

\* A receipt is inserted, with its event, unless it has arrived meanwhile.
LEMMA InsertTransactionInv ==
    ASSUME SettlementsInv, NEW h \in Handlers, InsertTransaction(h)
    PROVE  SettlementsInv'
<1> USE DEF SettlementsInv, TypeOK, InsertTransaction, Done, Goto, NoJob
<1>a. PICK r \in Receipts : r = job[h].receipt /\ r \in Settled
  BY DEF JobsOK, Settled
<1>b. /\ arrived' = IF r \notin Range(arrived) THEN Append(arrived, r) ELSE arrived
      /\ emitted' = IF r \notin Range(arrived) THEN [emitted EXCEPT ![r] = @ + 1] ELSE emitted
      /\ acked' = IF r \notin Range(arrived) THEN acked \cup {r} ELSE acked
  BY <1>a
<1>c. arrived' \in Seq(Settled) /\ Range(arrived) \subseteq Range(arrived')
  <2>1. CASE r \in Range(arrived)
    BY <1>b, <2>1
  <2>2. CASE r \notin Range(arrived)
    <3>1. arrived' = Append(arrived, r)
      BY <1>b, <2>2
    <3>2. /\ arrived' \in Seq(Settled) /\ DOMAIN arrived \subseteq DOMAIN arrived'
          /\ \A k \in DOMAIN arrived : arrived'[k] = arrived[k]
      BY <1>a, <3>1, AppendProperties
    <3>3. QED  BY <3>2 DEF Range
  <2>3. QED  BY <2>1, <2>2
<1>1. TypeOK'
  <2>1. emitted' \in [Settled -> Nat] /\ acked' \subseteq Receipts
    BY <1>a, <1>b
  <2>2. at' \in [Handlers \cup Runs -> Places]
    BY DEF Places
  <2>3. QED  BY <1>c, <2>1, <2>2
<1>2. JobsOK'
  BY Disjoint DEF JobsOK
<1>3. LocksInv'
  <2>1. \A c \in Runs : at'[c] = at[c]
    BY Disjoint
  <2>2. QED  BY <1>c, <2>1, HeldByAll DEF Eligible
<1>4. BoundInv'
  BY BoundKept, Disjoint DEF Pending
<1>5. BooksInv'
  <2>1. CASE r \in Range(arrived)
    BY <1>b, <2>1 DEF BooksInv, Rows
  <2>2. CASE r \notin Range(arrived)
    <3>1. /\ DOMAIN arrived' = DOMAIN arrived \cup {Len(arrived) + 1}
          /\ arrived'[Len(arrived) + 1] = r
          /\ \A k \in DOMAIN arrived : arrived'[k] = arrived[k]
          /\ Len(arrived) + 1 \notin DOMAIN arrived
      BY <1>a, <1>b, <2>2, AppendProperties
    <3>2. Rows(r) = {} /\ Rows(r)' = {Len(arrived) + 1}
      <4>1. Rows(r) = {}
        BY <2>2 DEF Rows, Range
      <4>2. {k \in DOMAIN arrived' : arrived'[k] = r} = {Len(arrived) + 1}
        BY <3>1, <4>1 DEF Rows
      <4>3. QED  BY <4>1, <4>2 DEF Rows
    <3>3. ASSUME NEW x \in Receipts, x # r PROVE Rows(x)' = Rows(x)
      BY <3>1, <3>3 DEF Rows
    <3>4. /\ acked' = acked \cup {r} /\ emitted'[r] = emitted[r] + 1
          /\ \A x \in Receipts \ {r} : emitted'[x] = emitted[x]
      BY <1>a, <1>b, <2>2 DEF Settled
    <3>5. ASSUME NEW x \in Receipts
          PROVE  /\ \A j, k \in Rows(x)' : j = k
                 /\ emitted'[x] = IF Rows(x)' = {} THEN 0 ELSE 1
                 /\ x \in acked' => Rows(x)' # {}
      <4>1. CASE x = r
        <5>1. emitted[r] = 0
          BY <1>a, <3>2 DEF BooksInv
        <5>2. emitted'[x] = 1
          BY <3>4, <4>1, <5>1
        <5>3. Rows(x)' = {Len(arrived) + 1}
          BY <3>2, <4>1
        <5>4. QED  BY <5>2, <5>3
      <4>2. CASE x # r
        BY <3>3, <3>4, <4>2 DEF BooksInv
      <4>3. QED  BY <4>1, <4>2
    <3>6. QED  BY <3>5 DEF BooksInv
  <2>3. QED  BY <2>1, <2>2
<1>6. ReportInv'
  BY ReportKept
<1>7. QED  BY <1>1, <1>2, <1>3, <1>4, <1>5, <1>6

\* An import drops the lines that are known.
LEMMA ImportLookupInv ==
    ASSUME SettlementsInv, NEW h \in Handlers, NEW u \in Users, NEW refs \in SUBSET Lines,
           ImportLookup(h, u, refs)
    PROVE  SettlementsInv'
<1> USE DEF SettlementsInv, TypeOK, ImportLookup, Goto, store
<1>1. TypeOK'
  BY DEF Places
<1>2. JobsOK'
  BY Disjoint DEF JobsOK
<1>3. LocksInv'
  <2>1. \A c \in Runs : at'[c] = at[c] /\ run'[c] = run[c]
    BY Disjoint
  <2>2. QED  BY <2>1, HeldKept DEF Eligible
<1>4. BoundInv'
  BY BoundKept, Disjoint DEF Pending
<1>5. BooksInv'
  BY DEF BooksInv, Rows
<1>6. ReportInv'
  BY ReportKept
<1>7. QED  BY <1>1, <1>2, <1>3, <1>4, <1>5, <1>6

\* The rest is inserted, unless one of them has arrived meanwhile: no line a batch
\* has fetched is among them.
LEMMA ImportLinesInv ==
    ASSUME SettlementsInv, NEW h \in Handlers, ImportLines(h)
    PROVE  SettlementsInv'
<1> USE DEF SettlementsInv, TypeOK, Done, Goto, NoJob
<1>a. PICK refs \in SUBSET Lines, u \in Users : refs = job[h].refs /\ u = job[h].user
  BY DEF ImportLines, JobsOK
<1>b. /\ at[h] = "import" /\ at' = [at EXCEPT ![h] = "idle"]
      /\ job' = [job EXCEPT ![h] = NoJob]
      /\ UNCHANGED <<reconciled, payments, balance, proposals, acked, lock, run>>
  BY DEF ImportLines
<1>c. ASSUME refs \cap Range(arrived) = {}
      PROVE  TypeOK' /\ LocksInv' /\ BooksInv'
  <2>1. /\ arrived' = arrived \o SetToSeq(refs)
        /\ line' = [l \in Lines |->
                      IF l \in refs THEN [status |-> "pending", by |-> u, reviewer |-> Null]
                                    ELSE line[l]]
        /\ emitted' = [s \in Settled |-> IF s \in refs THEN emitted[s] + 1 ELSE emitted[s]]
    BY <1>a, <1>c DEF ImportLines
  <2> DEFINE more == SetToSeq(refs)
  <2>2. more \in Seq(refs) /\ more \in Seq(Settled)
    BY LinesInOrder DEF Settled
  <2> HIDE DEF more
  <2>3. /\ arrived' \in Seq(Settled)
        /\ \A k \in DOMAIN arrived : k \in DOMAIN arrived' /\ arrived'[k] = arrived[k]
        /\ \A k \in DOMAIN arrived' : k \notin DOMAIN arrived => arrived'[k] \in refs
    BY <2>1, <2>2 DEF more
  <2>4. Range(arrived) \subseteq Range(arrived')
    BY <2>3 DEF Range
  <2>5. ASSUME NEW r \in Receipts PROVE Rows(r)' = Rows(r) /\ emitted'[r] = emitted[r]
    <3>1. r \notin refs /\ r \in Settled
      BY SettlementsAssumption DEF Settled
    <3>2. QED  BY <2>1, <2>3, <3>1 DEF Rows
  <2>6. line' \in [Lines -> LineRow] /\ emitted' \in [Settled -> Nat]
    BY <2>1 DEF LineRow
  <2>7. \A x \in Range(arrived) : Eligible(x) => Eligible(x)'
    BY <1>b, <1>c, <2>1 DEF Eligible
  <2>8. TypeOK'
    BY <1>b, <2>3, <2>6 DEF Places
  <2>9. LocksInv'
    <3>1. \A c \in Runs : at'[c] = at[c]
      BY <1>b, Disjoint
    <3>2. QED  BY <1>b, <2>4, <2>7, <3>1, HeldByAll
  <2>10. BooksInv'
    BY <1>b, <2>5 DEF BooksInv
  <2>11. QED  BY <2>8, <2>9, <2>10
<1>d. ASSUME refs \cap Range(arrived) # {}
      PROVE  TypeOK' /\ LocksInv' /\ BooksInv'
  <2>1. UNCHANGED <<arrived, line, emitted>>
    <3>1. arrived' = arrived /\ line' = [l \in Lines |-> line[l]]
          /\ emitted' = [s \in Settled |-> emitted[s]]
      BY <1>a, <1>d DEF ImportLines
    <3>2. QED  BY <3>1
  <2>2. TypeOK'
    BY <1>b, <2>1 DEF Places
  <2>3. LocksInv'
    <3>1. \A c \in Runs : at'[c] = at[c]
      BY <1>b, Disjoint
    <3>2. QED  BY <1>b, <2>1, <3>1, HeldByAll DEF Eligible
  <2>4. BooksInv'
    BY <1>b, <2>1 DEF BooksInv, Rows
  <2>5. QED  BY <2>2, <2>3, <2>4
<1>1. TypeOK'
  BY <1>c, <1>d
<1>2. JobsOK'
  BY <1>b DEF JobsOK
<1>3. LocksInv'
  BY <1>c, <1>d
<1>4. BoundInv'
  BY <1>b, BoundKept, Disjoint DEF Pending
<1>5. BooksInv'
  BY <1>c, <1>d
<1>6. ReportInv'
  BY <1>b, ReportKept
<1>7. QED  BY <1>1, <1>2, <1>3, <1>4, <1>5, <1>6

\* A reviewer reads a line.
LEMMA ReviewReadInv ==
    ASSUME SettlementsInv, NEW h \in Handlers, NEW u \in Users, NEW l \in Lines,
           NEW d \in {"approved", "rejected"}, ReviewRead(h, u, l, d)
    PROVE  SettlementsInv'
<1> USE DEF SettlementsInv, TypeOK, ReviewRead, Goto, store
<1>1. TypeOK'
  BY DEF Places
<1>2. JobsOK'
  BY Disjoint DEF JobsOK
<1>3. LocksInv'
  <2>1. \A c \in Runs : at'[c] = at[c] /\ run'[c] = run[c]
    BY Disjoint
  <2>2. QED  BY <2>1, HeldKept DEF Eligible
<1>4. BoundInv'
  BY BoundKept, Disjoint DEF Pending
<1>5. BooksInv'
  BY DEF BooksInv, Rows
<1>6. ReportInv'
  BY ReportKept
<1>7. QED  BY <1>1, <1>2, <1>3, <1>4, <1>5, <1>6

\* The decision is written, once no batch holds the line.
LEMMA ReviewWriteInv ==
    ASSUME SettlementsInv, NEW h \in Handlers, ReviewWrite(h)
    PROVE  SettlementsInv'
<1> USE DEF SettlementsInv, TypeOK, ReviewWrite, Done, Goto, NoJob
<1> DEFINE j == job[h]
<1>a. /\ j.line \in Lines /\ j.user \in Users /\ j.decision \in {"approved", "rejected"}
      /\ lock[j.line] = Null
  BY DEF JobsOK
<1>b. line' = [line EXCEPT ![j.line] = [status |-> j.decision, by |-> line[j.line].by,
                                        reviewer |-> j.user]]
  OBVIOUS
<1>1. TypeOK'
  <2>1. [status |-> j.decision, by |-> line[j.line].by, reviewer |-> j.user] \in LineRow
    BY <1>a DEF LineRow
  <2>2. line' \in [Lines -> LineRow]
    BY <1>b, <2>1
  <2>3. at' \in [Handlers \cup Runs -> Places]
    BY DEF Places
  <2>4. QED  BY <2>1, <2>2, <2>3
<1>2. JobsOK'
  BY Disjoint DEF JobsOK
<1>3. LocksInv'
  <2>1. \A c \in Runs : at'[c] = at[c]
    BY Disjoint
  <2>2. \A x \in Range(arrived) : lock[x] # Null => (Eligible(x) => Eligible(x)')
    BY <1>a, <1>b DEF Eligible
  <2>3. QED  BY <2>1, <2>2, HeldByAll
<1>4. BoundInv'
  BY BoundKept, Disjoint DEF Pending
<1>5. BooksInv'
  BY DEF BooksInv, Rows
<1>6. ReportInv'
  BY ReportKept
<1>7. QED  BY <1>1, <1>2, <1>3, <1>4, <1>5, <1>6

\* A batch fetches rows nobody has locked, and locks them.
LEMMA FetchSettlementsInv ==
    ASSUME SettlementsInv, NEW b \in Runs, NEW kind \in {Receipts, Lines},
           FetchSettlements(b, kind)
    PROVE  SettlementsInv'
<1> USE DEF SettlementsInv, TypeOK, FetchSettlements, Lock, Goto, store
<1> DEFINE txns == Oldest({s \in kind : Eligible(s) /\ lock[s] = Null})
<1>a. \A s \in txns : s \in Range(arrived) /\ Eligible(s) /\ lock[s] = Null
  BY DEF Oldest, Range
<1>b. txns \subseteq Settled
  <2>1. Range(arrived) \subseteq Settled
    BY DEF Range
  <2> HIDE DEF txns
  <2>2. QED  BY <1>a, <2>1
<1>c. /\ run' = [run EXCEPT ![b] = [NoRun EXCEPT !.txns = txns]]
      /\ lock' = [x \in DOMAIN lock |-> IF x \in txns THEN b ELSE lock[x]]
  OBVIOUS
<1> HIDE DEF txns
<1>d. run'[b] = [NoRun EXCEPT !.txns = txns]
  BY <1>c
<1>e. run'[b] \in RunRecord /\ run'[b].txns = txns /\ run'[b].report.settled = {}
  <2>1. NoRun.report.settled = {}
    BY DEF NoRun, NoReport
  <2>2. QED  BY <1>b, <1>d, <2>1, NoRunOK DEF RunRecord
<1>1. TypeOK'
  <2>1. run' \in [Runs -> RunRecord]
    BY <1>c, <1>e
  <2>2. at' \in [Handlers \cup Runs -> Places]
    BY DEF Places
  <2>3. lock' \in [Settled \cup InvoiceSet -> Runs \cup {Null}]
    BY <1>c
  <2>4. QED  BY <2>1, <2>2, <2>3
<1>2. JobsOK'
  BY Disjoint DEF JobsOK
<1>3. LocksInv'
  <2>1. Held(b)'
    BY <1>a, <1>b, <1>c, <1>e DEF Held, Eligible
  <2>2. \A c \in Runs \ {b} : at'[c] = at[c] /\ run'[c] = run[c]
    BY <1>c
  <2>3. \A x \in Settled \cup InvoiceSet : lock[x] \in Runs \ {b} => lock'[x] = lock[x]
    BY <1>a, <1>c, Disjoint
  <2>4. \A x \in Settled : lock[x] \in Runs \ {b} => (Eligible(x) => Eligible(x)')
    BY DEF Eligible
  <2>5. QED  BY <2>1, <2>2, <2>3, <2>4, HeldByOthers
<1>4. BoundInv'
  BY <1>c, BoundKept DEF Pending
<1>5. BooksInv'
  BY DEF BooksInv, Rows
<1>6. ReportInv'
  BY <1>c, <1>e, ReportKept
<1>7. QED  BY <1>1, <1>2, <1>3, <1>4, <1>5, <1>6

\* And the open invoices nobody has locked.
LEMMA FetchInvoicesInv ==
    ASSUME SettlementsInv, NEW b \in Runs, FetchInvoices(b)
    PROVE  SettlementsInv'
<1> USE DEF SettlementsInv, TypeOK, FetchInvoices, Lock, Goto, store
<1> DEFINE invs == {i \in InvoiceSet : Open(i) /\ lock[i] = Null}
           seen == [i \in invs |-> balance[i]]
           exact == Pass1(run[b].txns, seen)
<1>a. invs \subseteq InvoiceSet /\ (\A i \in invs : lock[i] = Null) /\ seen \in Seen
  <2>1. invs \in SUBSET InvoiceSet /\ \A i \in invs : lock[i] = Null
    OBVIOUS
  <2>2. seen \in [invs -> Int]
    BY <2>1
  <2> HIDE DEF invs, seen
  <2>3. QED  BY <2>1, <2>2 DEF Seen
<1>b. exact \subseteq run[b].txns \X invs /\ exact \subseteq Match
  <2>1. exact \subseteq run[b].txns \X DOMAIN seen
    BY Pass1Pairs
  <2>2. DOMAIN seen = invs /\ run[b].txns \subseteq Settled
    BY DEF RunRecord
  <2> HIDE DEF exact, invs, seen
  <2>3. QED  BY <1>a, <2>1, <2>2 DEF Match
<1>c. /\ run' = [run EXCEPT ![b] = [@ EXCEPT !.seen = seen, !.exact = exact]]
      /\ lock' = [x \in DOMAIN lock |-> IF x \in invs THEN b ELSE lock[x]]
      /\ at[b] = "invoices"
      /\ at' = [at EXCEPT ![b] = IF invs = {} THEN "commit" ELSE "model"]
  OBVIOUS
<1>d. DOMAIN seen = invs /\ \A i \in invs : seen[i] = balance[i]
  OBVIOUS
<1> HIDE DEF invs, seen, exact
<1>e. run'[b] = [run[b] EXCEPT !.seen = seen, !.exact = exact]
  BY <1>c
<1>f. /\ run'[b] \in RunRecord /\ run'[b].txns = run[b].txns /\ run'[b].seen = seen
      /\ run'[b].exact = exact /\ run'[b].report = run[b].report
  <2>1. run[b] \in RunRecord
    OBVIOUS
  <2>2. seen \in Seen /\ exact \in SUBSET Match
    BY <1>a, <1>b
  <2>3. [run[b] EXCEPT !.seen = seen, !.exact = exact] \in RunRecord
    BY <2>1, <2>2, RunFields, Zenon
  <2>4. QED  BY <1>e, <2>1, <2>3 DEF RunRecord
<1>1. TypeOK'
  <2>1. run' \in [Runs -> RunRecord]
    BY <1>c, <1>f
  <2>2. at' \in [Handlers \cup Runs -> Places]
    BY <1>c DEF Places
  <2>3. lock' \in [Settled \cup InvoiceSet -> Runs \cup {Null}]
    BY <1>c
  <2>4. QED  BY <2>1, <2>2, <2>3
<1>2. JobsOK'
  BY <1>c, Disjoint DEF JobsOK
<1>3. LocksInv'
  <2>1. Held(b)'
    <3>1. run[b].txns \subseteq Settled /\ run'[b].txns = run[b].txns
      BY <1>f DEF RunRecord
    <3>2. \A s \in run'[b].txns : s \in Range(arrived') /\ lock'[s] = b /\ Eligible(s)'
      BY <1>c, <3>1 DEF LocksInv, Held, Eligible
    <3>3. /\ DOMAIN run'[b].seen = invs
          /\ \A i \in invs : lock'[i] = b /\ run'[b].seen[i] = balance'[i]
      BY <1>a, <1>c, <1>d, <1>f
    <3>4. run'[b].exact \subseteq run'[b].txns \X DOMAIN run'[b].seen
      BY <1>b, <1>d, <1>f
    <3>5. QED  BY <3>2, <3>3, <3>4 DEF Held
  <2>2. \A c \in Runs \ {b} : at'[c] = at[c] /\ run'[c] = run[c]
    BY <1>c
  <2>3. \A x \in Settled \cup InvoiceSet : lock[x] \in Runs \ {b} => lock'[x] = lock[x]
    BY <1>a, <1>c, Disjoint
  <2>4. \A x \in Settled : lock[x] \in Runs \ {b} => (Eligible(x) => Eligible(x)')
    BY DEF Eligible
  <2>5. QED  BY <2>1, <2>2, <2>3, <2>4, HeldByOthers
<1>4. BoundInv'
  BY <1>c, BoundKept DEF Pending
<1>5. BooksInv'
  BY DEF BooksInv, Rows
<1>6. ReportInv'
  BY <1>c, <1>f, ReportKept
<1>7. QED  BY <1>1, <1>2, <1>3, <1>4, <1>5, <1>6

\* The model answers, and every row is still locked.
LEMMA AskModelInv ==
    ASSUME SettlementsInv, NEW b \in Runs, AskModel(b)
    PROVE  SettlementsInv'
<1> USE DEF SettlementsInv, TypeOK, AskModel, Goto, store
<1>a. PICK found : /\ found \in Scored(Candidates(run[b].txns, run[b].seen, run[b].exact))
                   /\ run' = [run EXCEPT ![b].semantic = found]
  OBVIOUS
<1>b. found \subseteq Match
  <2>1. Candidates(run[b].txns, run[b].seen, run[b].exact) \subseteq Match
    BY SettlementsAssumption DEF Candidates, Match
  <2>2. QED  BY <1>a, <2>1 DEF Scored, Sources, Targets, Match
<1>c. /\ run'[b] \in RunRecord /\ run'[b].txns = run[b].txns /\ run'[b].seen = run[b].seen
      /\ run'[b].exact = run[b].exact /\ run'[b].report = run[b].report
  <2>1. run'[b] = [run[b] EXCEPT !.semantic = found]
    BY <1>a
  <2>2. run[b] \in RunRecord /\ found \in SUBSET Match
    BY <1>b
  <2>3. [run[b] EXCEPT !.semantic = found] \in RunRecord
    BY <2>2, RunFields, Zenon
  <2>4. QED  BY <2>1, <2>2, <2>3 DEF RunRecord
<1>1. TypeOK'
  <2>1. run' \in [Runs -> RunRecord]
    BY <1>a, <1>c
  <2>2. at' \in [Handlers \cup Runs -> Places]
    BY DEF Places
  <2>3. QED  BY <2>1, <2>2
<1>2. JobsOK'
  BY Disjoint DEF JobsOK
<1>3. LocksInv'
  <2>1. Held(b)'
    BY <1>c DEF LocksInv, Held, Eligible
  <2>2. \A c \in Runs \ {b} : at'[c] = at[c] /\ run'[c] = run[c]
    BY <1>a
  <2>3. \A x \in Settled \cup InvoiceSet : lock[x] \in Runs \ {b} => lock'[x] = lock[x]
    BY Disjoint
  <2>4. \A x \in Settled : lock[x] \in Runs \ {b} => (Eligible(x) => Eligible(x)')
    BY DEF Eligible
  <2>5. QED  BY <2>1, <2>2, <2>3, <2>4, HeldByOthers
<1>4. BoundInv'
  BY <1>a, BoundKept DEF Pending
<1>5. BooksInv'
  BY DEF BooksInv, Rows
<1>6. ReportInv'
  BY <1>a, <1>c, ReportKept
<1>7. QED  BY <1>1, <1>2, <1>3, <1>4, <1>5, <1>6

\* The batch commits: it writes rows it has locked, and reports what it writes.
LEMMA CommitBatchInv ==
    ASSUME SettlementsInv, NEW b \in Runs, NEW skipped \in SUBSET run[b].exact,
           CommitBatch(b, skipped)
    PROVE  SettlementsInv'
<1> USE DEF SettlementsInv, TypeOK, Release, Goto
<1> DEFINE todo == run[b].exact \ skipped
<1>a. /\ at[b] = "commit" /\ at' = [at EXCEPT ![b] = "propose"]
      /\ payments' = payments \cup {[inv |-> m[2], source |-> m[1],
                                     amount |-> Applied(m[1], m[2])] : m \in todo}
      /\ balance' = [i \in InvoiceSet |->
                       IF i \in Targets(todo)
                       THEN balance[i] - Applied((CHOOSE m \in todo : m[2] = i)[1], i)
                       ELSE balance[i]]
      /\ reconciled' = reconciled \cup Sources(todo)
      /\ run' = [run EXCEPT ![b] = [NoRun EXCEPT !.todo = run[b].semantic,
                                                !.report = Report(b, skipped)]]
      /\ lock' = [x \in DOMAIN lock |-> IF lock[x] = b THEN Null ELSE lock[x]]
      /\ UNCHANGED <<arrived, line, proposals, emitted, acked, job>>
  BY DEF CommitBatch
<1>b. todo \subseteq Match /\ run[b].semantic \subseteq Match /\ run[b].txns \subseteq Settled
  BY DEF RunRecord
<1>c. \A m \in todo : /\ m[1] \in Settled /\ lock[m[1]] = b
                      /\ m[2] \in InvoiceSet /\ lock[m[2]] = b
  BY <1>a, <1>b DEF LocksInv, Held, Match
<1>d. /\ Report(b, skipped).settled = todo
      /\ Report(b, skipped) = [settled |-> todo, unmatched |-> Report(b, skipped).unmatched]
      /\ Report(b, skipped).unmatched \subseteq Settled
  BY <1>b DEF Report
<1> HIDE DEF todo
<1>e. run'[b] \in RunRecord /\ run'[b].report.settled = todo
  <2>1. run'[b] = [NoRun EXCEPT !.todo = run[b].semantic, !.report = Report(b, skipped)]
    BY <1>a
  <2>2. run'[b] = [NoRun EXCEPT !.todo = run[b].semantic,
                      !.report = [settled |-> todo, unmatched |-> Report(b, skipped).unmatched]]
    BY <1>d, <2>1
  <2>3. /\ run[b].semantic \in SUBSET Match /\ todo \in SUBSET Match
        /\ Report(b, skipped).unmatched \in SUBSET Settled
    BY <1>b, <1>d
  <2>4. [NoRun EXCEPT !.todo = run[b].semantic,
            !.report = [settled |-> todo, unmatched |-> Report(b, skipped).unmatched]]
          \in RunRecord
    BY <2>3, RunFields, Zenon
  <2>5. run'[b] \in RunRecord
    BY <2>2, <2>4
  <2>6. QED  BY <1>d, <2>1, <2>5 DEF RunRecord, NoRun
<1>1. TypeOK'
  <2>1. balance' \in [InvoiceSet -> Int]
    <3>1. ASSUME NEW i \in Targets(todo)
          PROVE  balance[i] - Applied((CHOOSE m \in todo : m[2] = i)[1], i) \in Int
      <4>1. PICK m \in todo : m = CHOOSE n \in todo : n[2] = i
        BY DEF Targets
      <4>2. m[1] \in Settled /\ i \in InvoiceSet
        BY <1>c DEF Targets
      <4>3. Amount[m[1]] \in Int /\ balance[i] \in Int
        BY <4>2, SettlementsAssumption
      <4>4. Applied(m[1], i) \in Int
        BY <4>3 DEF Applied
      <4>5. QED  BY <4>1, <4>3, <4>4
    <3>2. QED  BY <1>a, <3>1
  <2>2. reconciled' \subseteq Settled
    BY <1>a, <1>c DEF Sources
  <2>3. run' \in [Runs -> RunRecord]
    BY <1>a, <1>e
  <2>4. /\ at' \in [Handlers \cup Runs -> Places]
        /\ lock' \in [Settled \cup InvoiceSet -> Runs \cup {Null}]
    BY <1>a DEF Places
  <2>5. QED  BY <1>a, <2>1, <2>2, <2>3, <2>4
<1>2. JobsOK'
  BY <1>a, Disjoint DEF JobsOK
<1>3. LocksInv'
  <2>1. Held(b)'
    BY <1>a DEF Held
  <2>2. \A c \in Runs \ {b} : at'[c] = at[c] /\ run'[c] = run[c]
    BY <1>a
  <2>3. \A x \in Settled \cup InvoiceSet : lock[x] \in Runs \ {b} => lock'[x] = lock[x]
    BY <1>a
  <2>4. \A x \in Settled : lock[x] \in Runs \ {b} => (Eligible(x) => Eligible(x)')
    <3>1. \A x \in Sources(todo) : lock[x] = b
      BY <1>c DEF Sources
    <3>2. QED  BY <1>a, <3>1 DEF Eligible
  <2>5. \A i \in InvoiceSet : lock[i] \in Runs \ {b} => balance'[i] = balance[i]
    <3>1. \A i \in Targets(todo) : lock[i] = b
      BY <1>c DEF Targets
    <3>2. QED  BY <1>a, <3>1
  <2>6. UNCHANGED arrived
    BY <1>a
  <2>7. QED  BY <2>1, <2>2, <2>3, <2>4, <2>5, <2>6, HeldByOthers
<1>4. BoundInv'
  BY <1>a, BoundKept DEF Pending
<1>5. BooksInv'
  BY <1>a DEF BooksInv, Rows
<1>6. ReportInv'
  <2>1. ASSUME NEW m \in todo
        PROVE  m[1] \in reconciled' /\ \E p \in payments' : p.source = m[1] /\ p.inv = m[2]
    <3> DEFINE p == [inv |-> m[2], source |-> m[1], amount |-> Applied(m[1], m[2])]
    <3>1. p \in payments' /\ p.source = m[1] /\ p.inv = m[2]
      BY <1>a
    <3>2. m[1] \in reconciled'
      BY <1>a DEF Sources
    <3> HIDE DEF p
    <3>3. QED  BY <3>1, <3>2
  <2>2. payments \subseteq payments' /\ reconciled \subseteq reconciled'
    BY <1>a
  <2>3. \A c \in Runs \ {b} : run'[c] = run[c]
    BY <1>a
  <2>4. QED  BY <1>e, <2>1, <2>2, <2>3 DEF ReportInv
<1>7. QED  BY <1>1, <1>2, <1>3, <1>4, <1>5, <1>6

\* The batch is aborted.
LEMMA AbortBatchInv ==
    ASSUME SettlementsInv, NEW b \in Runs, AbortBatch(b)
    PROVE  SettlementsInv'
<1> USE DEF SettlementsInv, TypeOK, AbortBatch, Release, Goto, store
<1>a. run' = [run EXCEPT ![b] = NoRun]
  OBVIOUS
<1>b. NoRun \in RunRecord /\ NoRun.report.settled = {}
  BY NoRunOK DEF NoRun, NoReport
<1>1. TypeOK'
  <2>1. run' \in [Runs -> RunRecord]
    BY <1>a, <1>b
  <2>2. at' \in [Handlers \cup Runs -> Places]
    BY DEF Places
  <2>3. lock' \in [Settled \cup InvoiceSet -> Runs \cup {Null}]
    OBVIOUS
  <2>4. QED  BY <2>1, <2>2, <2>3
<1>2. JobsOK'
  BY Disjoint DEF JobsOK
<1>3. LocksInv'
  <2>1. Held(b)'
    BY DEF Held
  <2>2. \A c \in Runs \ {b} : at'[c] = at[c] /\ run'[c] = run[c]
    BY <1>a
  <2>3. \A x \in Settled \cup InvoiceSet : lock[x] \in Runs \ {b} => lock'[x] = lock[x]
    BY Disjoint
  <2>4. \A x \in Settled : lock[x] \in Runs \ {b} => (Eligible(x) => Eligible(x)')
    BY DEF Eligible
  <2>5. QED  BY <2>1, <2>2, <2>3, <2>4, HeldByOthers
<1>4. BoundInv'
  BY <1>a, BoundKept DEF Pending
<1>5. BooksInv'
  BY DEF BooksInv, Rows
<1>6. ReportInv'
  BY <1>a, <1>b, ReportKept
<1>7. QED  BY <1>1, <1>2, <1>3, <1>4, <1>5, <1>6

\* A pending proposal is looked for: a batch goes on only if there is none.
LEMMA CheckPendingInv ==
    ASSUME SettlementsInv, NEW b \in Runs, NEW m \in run[b].todo, CheckPending(b, m)
    PROVE  SettlementsInv'
<1> USE DEF SettlementsInv, TypeOK, CheckPending, Goto, store
<1> DEFINE mark == IF AlreadyPending(m[1]) THEN Null ELSE m
           place == IF AlreadyPending(m[1]) THEN "propose" ELSE "create"
<1>a. run' = [run EXCEPT ![b].todo = @ \ {m}, ![b].checked = mark] /\ at[b] = "propose"
      /\ at' = [at EXCEPT ![b] = place]
  OBVIOUS
<1>b. m \in Match /\ mark \in Match \cup {Null} /\ run[b].todo \ {m} \subseteq Match
  BY DEF RunRecord
<1>c. /\ run'[b] \in RunRecord /\ run'[b].checked = mark /\ run'[b].report = run[b].report
  <2>1. run'[b] = [run[b] EXCEPT !.todo = @ \ {m}, !.checked = mark]
    BY <1>a
  <2> HIDE DEF mark
  <2>2. run[b] \in RunRecord /\ run'[b] \in RunRecord
    BY <1>b, <2>1, RunFields
  <2>3. QED  BY <2>1, <2>2 DEF RunRecord
<1>1. TypeOK'
  <2>1. run' \in [Runs -> RunRecord]
    BY <1>a, <1>c
  <2>2. at' \in [Handlers \cup Runs -> Places]
    BY DEF Places
  <2>3. QED  BY <2>1, <2>2
<1>2. JobsOK'
  BY Disjoint DEF JobsOK
<1>3. LocksInv'
  <2>1. Held(b)'
    BY <1>a DEF Held
  <2>2. \A c \in Runs \ {b} : at'[c] = at[c] /\ run'[c] = run[c]
    BY <1>a
  <2>3. \A x \in Settled \cup InvoiceSet : lock[x] \in Runs \ {b} => lock'[x] = lock[x]
    BY Disjoint
  <2>4. \A x \in Settled : lock[x] \in Runs \ {b} => (Eligible(x) => Eligible(x)')
    BY DEF Eligible
  <2>5. QED  BY <2>1, <2>2, <2>3, <2>4, HeldByOthers
<1>4. BoundInv'
  <2>1. CASE AlreadyPending(m[1])
    BY <1>a, <2>1, BoundKept DEF Pending
  <2>2. CASE ~AlreadyPending(m[1])
    <3>1. Pending(m[1]) = {} /\ run'[b].checked = m /\ at'[b] = "create"
      BY <1>a, <1>c, <2>2 DEF AlreadyPending
    <3>2. \A s : Pending(s)' = Pending(s)
      BY DEF Pending
    <3>3. \A c \in Runs \ {b} : at'[c] = at[c] /\ run'[c] = run[c]
      BY <1>a
    <3>4. ASSUME NEW s \in Settled
          PROVE  Cardinality(Pending(s)') + Cardinality(Creating(s)') <= Cardinality(Runs)
      <4>1. CASE s = m[1]
        <5>1. Cardinality(Pending(s)') = 0
          BY <3>1, <3>2, <4>1, FS_EmptySet
        <5>2. Creating(s)' \subseteq Runs
          BY DEF Creating
        <5>3. /\ Cardinality(Creating(s)') \in Nat
              /\ Cardinality(Creating(s)') <= Cardinality(Runs)
          BY <5>2, FS_Subset, FS_CardinalityType, SettlementsAssumption
        <5>4. QED  BY <5>1, <5>3, Finiteness
      <4>2. CASE s # m[1]
        <5>1. Creating(s)' = Creating(s)
          BY <1>a, <3>1, <3>3, <4>2 DEF Creating
        <5>2. QED  BY <3>2, <5>1 DEF BoundInv
      <4>3. QED  BY <4>1, <4>2
    <3>5. \A c \in Runs : at'[c] = "create" => run'[c].checked \in Match
      BY <1>b, <3>1, <3>3 DEF BoundInv
    <3>6. QED  BY <3>4, <3>5 DEF BoundInv
  <2>3. QED  BY <2>1, <2>2
<1>5. BooksInv'
  BY DEF BooksInv, Rows
<1>6. ReportInv'
  BY <1>a, <1>c, ReportKept
<1>7. QED  BY <1>1, <1>2, <1>3, <1>4, <1>5, <1>6

\* None was found: one is made, and its batch creates no longer.
LEMMA CreateProposalInv ==
    ASSUME SettlementsInv, NEW b \in Runs, CreateProposal(b)
    PROVE  SettlementsInv'
<1> USE DEF SettlementsInv, TypeOK, CreateProposal, Goto, store
<1>a. PICK m \in Match : m = run[b].checked
  BY DEF BoundInv
<1>b. /\ at[b] = "create" /\ at' = [at EXCEPT ![b] = "propose"]
      /\ run' = [run EXCEPT ![b].checked = Null]
      /\ proposals' = Append(proposals, [source |-> m[1], inv |-> m[2], status |-> "proposed"])
  BY <1>a
<1>c. m[1] \in Settled /\ m[2] \in InvoiceSet
  BY DEF Match
<1>d. [source |-> m[1], inv |-> m[2], status |-> "proposed"] \in ProposalRow
  BY <1>c DEF ProposalRow
<1>e. run'[b] \in RunRecord /\ run'[b].report = run[b].report
  <2>1. run'[b] = [run[b] EXCEPT !.checked = Null]
    BY <1>b
  <2>2. QED  BY <2>1 DEF RunRecord
<1>f. /\ proposals' \in Seq(ProposalRow)
      /\ DOMAIN proposals' = DOMAIN proposals \cup {Len(proposals) + 1}
      /\ Len(proposals) + 1 \notin DOMAIN proposals
      /\ proposals'[Len(proposals) + 1] = [source |-> m[1], inv |-> m[2], status |-> "proposed"]
      /\ \A k \in DOMAIN proposals : proposals'[k] = proposals[k]
  BY <1>b, <1>d, AppendProperties
<1>1. TypeOK'
  <2>1. run' \in [Runs -> RunRecord]
    BY <1>b, <1>e
  <2>2. at' \in [Handlers \cup Runs -> Places]
    BY <1>b DEF Places
  <2>3. QED  BY <1>f, <2>1, <2>2
<1>2. JobsOK'
  BY Disjoint DEF JobsOK
<1>3. LocksInv'
  <2>1. Held(b)'
    BY <1>b DEF Held
  <2>2. \A c \in Runs \ {b} : at'[c] = at[c] /\ run'[c] = run[c]
    BY <1>b
  <2>3. \A x \in Settled \cup InvoiceSet : lock[x] \in Runs \ {b} => lock'[x] = lock[x]
    BY Disjoint
  <2>4. \A x \in Settled : lock[x] \in Runs \ {b} => (Eligible(x) => Eligible(x)')
    BY DEF Eligible
  <2>5. QED  BY <2>1, <2>2, <2>3, <2>4, HeldByOthers
<1>4. BoundInv'
  <2>1. ASSUME NEW s \in Settled
        PROVE  Cardinality(Pending(s)') + Cardinality(Creating(s)') <= Cardinality(Runs)
    <3>1. CASE s = m[1]
      <4>1. Pending(s)' = Pending(s) \cup {Len(proposals) + 1}
        BY <1>f, <3>1 DEF Pending
      <4>2. Len(proposals) + 1 \notin Pending(s)
        BY <1>f DEF Pending
      <4>3. Creating(s)' = Creating(s) \ {b} /\ b \in Creating(s)
        BY <1>a, <1>b, <3>1 DEF Creating
      <4>4. Cardinality(Pending(s)') = Cardinality(Pending(s)) + 1
        BY <4>1, <4>2, Finiteness, FS_AddElement
      <4>5. Cardinality(Creating(s)') = Cardinality(Creating(s)) - 1
        BY <4>3, Finiteness, FS_RemoveElement
      <4>6. QED  BY <4>4, <4>5, Finiteness DEF BoundInv
    <3>2. CASE s # m[1]
      <4>1. Pending(s)' = Pending(s)
        BY <1>f, <3>2 DEF Pending
      <4>2. Creating(s)' = Creating(s)
        BY <1>a, <1>b, <3>2 DEF Creating
      <4>3. QED  BY <4>1, <4>2 DEF BoundInv
    <3>3. QED  BY <3>1, <3>2
  <2>2. \A c \in Runs : at'[c] = "create" => run'[c].checked \in Match
    BY <1>b DEF BoundInv
  <2>3. QED  BY <2>1, <2>2 DEF BoundInv
<1>5. BooksInv'
  BY DEF BooksInv, Rows
<1>6. ReportInv'
  BY <1>b, <1>e, ReportKept
<1>7. QED  BY <1>1, <1>2, <1>3, <1>4, <1>5, <1>6

\* The batch is over.
LEMMA FinishRunInv ==
    ASSUME SettlementsInv, NEW b \in Runs, FinishRun(b)
    PROVE  SettlementsInv'
<1> USE DEF SettlementsInv, TypeOK, FinishRun, Goto, store
<1>a. run' = [run EXCEPT ![b] = NoRun]
  OBVIOUS
<1>b. NoRun \in RunRecord /\ NoRun.report.settled = {}
  BY NoRunOK DEF NoRun, NoReport
<1>1. TypeOK'
  <2>1. run' \in [Runs -> RunRecord]
    BY <1>a, <1>b
  <2>2. at' \in [Handlers \cup Runs -> Places]
    BY DEF Places
  <2>3. QED  BY <2>1, <2>2
<1>2. JobsOK'
  BY Disjoint DEF JobsOK
<1>3. LocksInv'
  <2>1. Held(b)'
    BY DEF Held
  <2>2. \A c \in Runs \ {b} : at'[c] = at[c] /\ run'[c] = run[c]
    BY <1>a
  <2>3. \A x \in Settled \cup InvoiceSet : lock[x] \in Runs \ {b} => lock'[x] = lock[x]
    BY Disjoint
  <2>4. \A x \in Settled : lock[x] \in Runs \ {b} => (Eligible(x) => Eligible(x)')
    BY DEF Eligible
  <2>5. QED  BY <2>1, <2>2, <2>3, <2>4, HeldByOthers
<1>4. BoundInv'
  BY <1>a, BoundKept DEF Pending
<1>5. BooksInv'
  BY DEF BooksInv, Rows
<1>6. ReportInv'
  BY <1>a, <1>b, ReportKept
<1>7. QED  BY <1>1, <1>2, <1>3, <1>4, <1>5, <1>6

\* A reviewer approves a match: it waits for a batch that holds either row.
LEMMA ApproveMatchInv ==
    ASSUME SettlementsInv, NEW k \in DOMAIN proposals, ApproveMatch(k)
    PROVE  SettlementsInv'
<1> USE DEF SettlementsInv, TypeOK
<1>a. PICK p \in ProposalRow : p = proposals[k]
  OBVIOUS
<1>b. p.source \in Settled /\ p.inv \in InvoiceSet
  BY DEF ProposalRow
<1>c. PICK status \in {"approved", "applied"} :
        proposals' = [proposals EXCEPT ![k].status = status]
  BY DEF ApproveMatch
<1>d. /\ lock[p.inv] = Null /\ lock[p.source] = Null
      /\ UNCHANGED <<arrived, line, emitted, acked, lock, at, job, run>>
      /\ \/ UNCHANGED <<payments, balance, reconciled>>
         \/ /\ balance' = [balance EXCEPT ![p.inv] = @ - Applied(p.source, p.inv)]
            /\ reconciled' = reconciled \cup {p.source} /\ payments \subseteq payments'
  BY <1>a DEF ApproveMatch
<1>e. proposals' \in Seq(ProposalRow) /\ \A s : Pending(s)' \subseteq Pending(s)
  <2>1. /\ DOMAIN proposals' = DOMAIN proposals
        /\ proposals'[k] = [p EXCEPT !.status = status]
        /\ \A n \in DOMAIN proposals \ {k} : proposals'[n] = proposals[n]
    BY <1>a, <1>c
  <2>2. /\ proposals'[k] \in ProposalRow /\ proposals'[k].status = status
    BY <2>1 DEF ProposalRow
  <2>3. proposals' \in Seq(ProposalRow)
    BY <1>c, <2>1, <2>2
  <2>4. QED  BY <2>1, <2>2, <2>3 DEF Pending
<1>1. TypeOK'
  <2>1. Amount[p.source] \in Int /\ balance[p.inv] \in Int
    BY <1>b, SettlementsAssumption
  <2>2. balance[p.inv] - Applied(p.source, p.inv) \in Int
    BY <2>1 DEF Applied
  <2>3. balance' \in [InvoiceSet -> Int] /\ reconciled' \subseteq Settled
    BY <1>b, <1>d, <2>2
  <2>4. QED  BY <1>d, <1>e, <2>3
<1>2. JobsOK'
  BY <1>d DEF JobsOK
<1>3. LocksInv'
  <2>1. \A x \in Range(arrived) : lock[x] # Null => (Eligible(x) => Eligible(x)')
    BY <1>d DEF Eligible
  <2>2. \A i \in InvoiceSet : lock[i] # Null => balance'[i] = balance[i]
    BY <1>d
  <2>3. QED  BY <1>d, <2>1, <2>2, HeldByAll
<1>4. BoundInv'
  BY <1>d, <1>e, BoundKept
<1>5. BooksInv'
  BY <1>d DEF BooksInv, Rows
<1>6. ReportInv'
  BY <1>d, ReportKept
<1>7. QED  BY <1>1, <1>2, <1>3, <1>4, <1>5, <1>6

\* A reviewer rejects a match.
LEMMA RejectMatchInv ==
    ASSUME SettlementsInv, NEW k \in DOMAIN proposals, RejectMatch(k)
    PROVE  SettlementsInv'
<1> USE DEF SettlementsInv, TypeOK, RejectMatch, store
<1>a. PICK p \in ProposalRow : p = proposals[k]
  OBVIOUS
<1>b. proposals' \in Seq(ProposalRow) /\ \A s : Pending(s)' \subseteq Pending(s)
  <2>1. /\ DOMAIN proposals' = DOMAIN proposals
        /\ proposals'[k] = [p EXCEPT !.status = "rejected"]
        /\ \A n \in DOMAIN proposals \ {k} : proposals'[n] = proposals[n]
    BY <1>a
  <2>2. /\ proposals'[k] \in ProposalRow /\ proposals'[k].status = "rejected"
    BY <2>1 DEF ProposalRow
  <2>3. proposals' \in Seq(ProposalRow)
    BY <2>1, <2>2
  <2>4. QED  BY <2>1, <2>2, <2>3 DEF Pending
<1>1. TypeOK'
  BY <1>b
<1>2. JobsOK'
  BY DEF JobsOK
<1>3. LocksInv'
  <2>1. \A c \in Runs : at'[c] = at[c] /\ run'[c] = run[c]
    BY Disjoint
  <2>2. QED  BY <2>1, HeldKept DEF Eligible
<1>4. BoundInv'
  BY <1>b, BoundKept
<1>5. BooksInv'
  BY DEF BooksInv, Rows
<1>6. ReportInv'
  BY ReportKept
<1>7. QED  BY <1>1, <1>2, <1>3, <1>4, <1>5, <1>6

\* A customer pays in cash: the payment waits for a batch that holds the invoice.
LEMMA CashPaymentInv ==
    ASSUME SettlementsInv, NEW i \in InvoiceSet, CashPayment(i)
    PROVE  SettlementsInv'
<1> USE DEF SettlementsInv, TypeOK, CashPayment
<1>1. TypeOK'
  BY DEF Places
<1>2. JobsOK'
  BY DEF JobsOK
<1>3. LocksInv'
  <2>1. \A c \in Runs : at'[c] = at[c]
    OBVIOUS
  <2>2. \A x \in Range(arrived) : Eligible(x) => Eligible(x)'
    BY DEF Eligible
  <2>3. \A x \in InvoiceSet : lock[x] # Null => balance'[x] = balance[x]
    OBVIOUS
  <2>4. QED  BY <2>1, <2>2, <2>3, HeldByAll
<1>4. BoundInv'
  BY BoundKept, Disjoint DEF Pending
<1>5. BooksInv'
  BY DEF BooksInv, Rows
<1>6. ReportInv'
  BY ReportKept
<1>7. QED  BY <1>1, <1>2, <1>3, <1>4, <1>5, <1>6

-----------------------------------------------------------------------------
(* The specification *)

LEMMA SettlementsInit == Init => SettlementsInv
<1> SUFFICES ASSUME Init PROVE SettlementsInv
  OBVIOUS
<1>1. TypeOK
  <2>1. NoLine \in LineRow
    BY DEF NoLine, LineRow
  <2>2. balance \in [InvoiceSet -> Int]
    BY SettlementsAssumption DEF Init
  <2>3. run \in [Runs -> RunRecord]
    BY NoRunOK DEF Init
  <2>4. /\ emitted \in [Settled -> Nat] /\ line \in [Lines -> LineRow]
        /\ lock \in [Settled \cup InvoiceSet -> Runs \cup {Null}]
        /\ at \in [Handlers \cup Runs -> Places]
    BY <2>1 DEF Init, Places
  <2>5. arrived \in Seq(Settled) /\ proposals \in Seq(ProposalRow)
    BY DEF Init
  <2>6. reconciled \subseteq Settled /\ acked \subseteq Receipts
    BY DEF Init
  <2>7. QED  BY <2>2, <2>3, <2>4, <2>5, <2>6 DEF TypeOK
<1>2. JobsOK
  BY DEF Init, JobsOK
<1>3. LocksInv
  BY DEF Init, LocksInv, Held
<1>4. BoundInv
  <2>1. \A s : Pending(s) = {} /\ Creating(s) = {}
    BY DEF Init, Pending, Creating
  <2>2. Cardinality(Runs) \in Nat
    BY SettlementsAssumption, FS_CardinalityType
  <2>3. \A s \in Settled :
           Cardinality(Pending(s)) + Cardinality(Creating(s)) <= Cardinality(Runs)
    BY <2>1, <2>2, FS_EmptySet
  <2>4. QED  BY <2>3 DEF Init, BoundInv
<1>5. BooksInv
  <2>1. \A r \in Receipts : Rows(r) = {}
    BY DEF Init, Rows
  <2>2. QED  BY <2>1 DEF Init, BooksInv, Settled
<1>6. ReportInv
  BY DEF Init, ReportInv, NoRun, NoReport
<1>7. QED  BY <1>1, <1>2, <1>3, <1>4, <1>5, <1>6 DEF SettlementsInv

LEMMA SettlementsStep == SettlementsInv /\ [Next]_vars => SettlementsInv'
<1> SUFFICES ASSUME SettlementsInv, [Next]_vars PROVE SettlementsInv'
  OBVIOUS
<1>1. ASSUME NEW h \in Handlers,
             \/ \E cb \in Callbacks : CallbackLookup(h, cb)
             \/ \E u \in Users, refs \in SUBSET Lines : ImportLookup(h, u, refs)
             \/ \E u \in Users, l \in Lines, d \in {"approved", "rejected"} :
                   ReviewRead(h, u, l, d)
             \/ InsertTransaction(h) \/ ImportLines(h) \/ ReviewWrite(h)
      PROVE  SettlementsInv'
  BY <1>1, CallbackLookupInv, ImportLookupInv, ReviewReadInv, InsertTransactionInv,
     ImportLinesInv, ReviewWriteInv
<1>2. ASSUME NEW b \in Runs,
             \/ FetchTransactions(b) \/ FetchBankLines(b)
             \/ FetchInvoices(b) \/ AskModel(b)
             \/ \E skipped \in SUBSET run[b].exact : CommitBatch(b, skipped)
             \/ \E m \in run[b].todo : CheckPending(b, m)
             \/ CreateProposal(b) \/ FinishRun(b) \/ AbortBatch(b)
      PROVE  SettlementsInv'
  <2>1. FetchTransactions(b) => SettlementsInv'
    BY FetchSettlementsInv DEF FetchTransactions
  <2>2. FetchBankLines(b) => SettlementsInv'
    BY FetchSettlementsInv DEF FetchBankLines
  <2>3. QED
    BY <1>2, <2>1, <2>2, FetchInvoicesInv, AskModelInv, CommitBatchInv, CheckPendingInv,
       CreateProposalInv, FinishRunInv, AbortBatchInv
<1>3. ASSUME NEW k \in DOMAIN proposals, ApproveMatch(k) \/ RejectMatch(k)
      PROVE  SettlementsInv'
  BY <1>3, ApproveMatchInv, RejectMatchInv
<1>4. ASSUME NEW i \in InvoiceSet, CashPayment(i) PROVE SettlementsInv'
  BY <1>4, CashPaymentInv
<1>5. CASE UNCHANGED vars
  BY <1>5 DEF vars, SettlementsInv, TypeOK, JobsOK, LocksInv, Held, Eligible, BoundInv,
              Pending, Creating, BooksInv, Rows, ReportInv
<1>6. QED  BY <1>1, <1>2, <1>3, <1>4, <1>5 DEF Next

LEMMA SettlementsInvariant == Spec => []SettlementsInv
BY SettlementsInit, SettlementsStep, PTL DEF Spec

\* While a batch awaits the model, the rows its matches were computed from are those
\* of the tables: whoever would write one waits for the batch's lock (the FOR UPDATE
\* SKIP LOCKED of run_reconciliation and run_bank_reconciliation).
THEOREM BatchesAreIsolated == Spec => []BatchSeesCurrentRows
<1>1. SettlementsInv => BatchSeesCurrentRows
  BY DEF SettlementsInv, LocksInv, Held, BatchSeesCurrentRows
<1>2. QED  BY <1>1, SettlementsInvariant, PTL

\* A settlement has no more pending proposals than there are batches in flight,
\* although _pending_reconciliation_proposal_exists and create_proposal are two
\* transactions.
THEOREM RescansDoNotPileUp == Spec => []ProposalsAreBounded
<1>1. ASSUME SettlementsInv, NEW s \in Settled
      PROVE  Cardinality(Pending(s)) <= Cardinality(Runs)
  <2>1. Cardinality(Pending(s)) + Cardinality(Creating(s)) <= Cardinality(Runs)
    BY <1>1 DEF SettlementsInv, BoundInv
  <2>2. QED  BY <1>1, <2>1, Finiteness
<1>2. SettlementsInv => ProposalsAreBounded
  BY <1>1 DEF ProposalsAreBounded
<1>3. QED  BY <1>2, SettlementsInvariant, PTL

\* An answered receipt has exactly one row and one event, and a match that a batch
\* reports as settled is a payment (process_mpesa_callback, run_reconciliation).
THEOREM OutsideIsTold == Spec => []ReportTellsTheTruth
<1>1. ASSUME BooksInv, NEW r \in Receipts
      PROVE  LET rows == Cardinality({k \in DOMAIN arrived : arrived[k] = r}) IN
             /\ rows <= 1 /\ emitted[r] = rows
             /\ r \in acked => rows = 1
  <2>1. CASE Rows(r) = {}
    <3>1. Cardinality(Rows(r)) = 0
      BY <2>1, FS_EmptySet
    <3>2. emitted[r] = 0 /\ r \notin acked
      BY <1>1, <2>1 DEF BooksInv
    <3>3. QED  BY <3>1, <3>2 DEF Rows
  <2>2. CASE Rows(r) # {}
    <3>1. PICK k : Rows(r) = {k}
      <4>1. PICK k \in Rows(r) : TRUE
        BY <2>2
      <4>2. Rows(r) = {k}
        BY <1>1, <4>1 DEF BooksInv
      <4>3. QED  BY <4>2
    <3>2. Cardinality(Rows(r)) = 1
      BY <3>1, FS_Singleton
    <3>3. emitted[r] = 1
      BY <1>1, <2>2 DEF BooksInv
    <3>4. QED  BY <3>2, <3>3 DEF Rows
  <2>3. QED  BY <2>1, <2>2
<1>2. SettlementsInv => ReportTellsTheTruth
  BY <1>1 DEF SettlementsInv, ReportInv, ReportTellsTheTruth
<1>3. QED  BY <1>2, SettlementsInvariant, PTL
=============================================================================
