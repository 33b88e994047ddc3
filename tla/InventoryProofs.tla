--------------------------- MODULE InventoryProofs ---------------------------
(***************************************************************************)
(* One product's stock, for any number of requests and movements: the      *)
(* level rows sum up the ledger and the ledger can be replayed unless a    *)
(* request has used a level it had loaded before it locked it; and where   *)
(* every movement's alert step ran, in turn, the alert tells of the stock. *)
(***************************************************************************)
EXTENDS Inventory, NaturalsInduction, WellFoundedInduction, SequenceTheorems, TLAPS

Move == [by : Int, balance : Nat]

\* The balance after the first i movements.
Balance(i) == IF i = 0 THEN 0 ELSE ledger[i].balance

ShapeOK ==
    /\ TypeOK
    /\ ledger \in Seq(Move)
    /\ DOMAIN route = Workers
    /\ delta \in [Workers -> Int] /\ loaded \in [Workers -> Nat \cup {Nothing}]
    /\ fresh \in [Workers -> BOOLEAN] /\ number \in [Workers -> Nat]
    /\ stale \in BOOLEAN /\ jumbled \in BOOLEAN
    /\ rows = <<>> <=> ledger = <<>>

Holds(w) == at[w] \in {"guard", "flushed"}

\* A request that is about to write the level has locked the row and knows it, unless it
\* has loaded it too early, or it has made the row itself.
RequestOK(w) ==
    /\ at[w] # "idle" => delta[w] \in Deltas /\ (route[w] = "purchase" => delta[w] > 0)
    /\ at[w] \in {"peek", "lock"} => ~fresh[w]
    /\ Holds(w) => loaded[w] \in Nat
    /\ Holds(w) /\ fresh[w] => loaded[w] = 0
    /\ Holds(w) /\ ~fresh[w] => lock = w /\ rows # <<>> /\ (stale \/ loaded[w] = rows[1])
    /\ at[w] = "flushed" => After(w) >= 0
    /\ at[w] = "alert" =>
        /\ number[w] \in DOMAIN ledger
        /\ ledger[number[w]] = [by |-> delta[w], balance |-> After(w)]

RequestsOK == \A w \in Workers : RequestOK(w)

\* With one level row that was never written from an old copy, the row is the last balance
\* and each balance follows from the one before.
ChainInv ==
    ~stale /\ Len(rows) = 1 =>
        /\ rows[1] = Balance(Len(ledger))
        /\ \A i \in DOMAIN ledger : ledger[i].balance = ledger[i].by + Balance(i - 1)

\* An alert that is up stands for a low balance not yet left behind by the alert steps.
AlertInv ==
    /\ last \in 0 .. Len(ledger)
    /\ last = 0 => alert = "none"
    /\ ~stale /\ ~jumbled /\ Len(rows) = 1 /\ Reorder > 0 =>
        /\ alert # "none" => \E k \in last .. Len(ledger) : Balance(k) <= Reorder
        /\ last > 0 /\ ledger[last].by < 0 /\ ledger[last].balance <= Reorder => alert # "none"

SumInv == stale \/ OnHand = Booked

StockInv == ShapeOK /\ RequestsOK /\ ChainInv /\ AlertInv /\ SumInv

-----------------------------------------------------------------------------
(* Sums, by induction on the number of terms *)

\* Induction on a set of numbers: it has no least number outside of it.
LEMMA Induction ==
    ASSUME NEW T, 0 \in T, \A n \in Nat : n \in T => n + 1 \in T
    PROVE  Nat \subseteq T
<1> DEFINE R == OpToRel(<, Nat)
<1>1. \A x, y \in Nat : y < x => <<y, x>> \in R
  BY DEF OpToRel
<1>2. ASSUME Nat \ T # {} PROVE FALSE
  <2>1. \E x \in Nat \ T : \A y \in Nat \ T : ~ (<<y, x>> \in R)
    BY <1>2, NatLessThanWellFounded, WFMin
  <2> HIDE DEF R
  <2>2. PICK m \in Nat \ T : \A k \in Nat \ T : ~ (<<k, m>> \in R)
    BY <2>1
  <2>3. \A k \in Nat \ T : ~ (k < m)
    BY <1>1, <2>2
  <2>4. m - 1 \in Nat /\ m - 1 \in T
    BY <2>3
  <2>5. QED  BY <2>2, <2>4
<1>3. QED  BY <1>2

\* The sums are what the recursion says: the function it describes exists.
LEMMA SumsExist ==
    ASSUME NEW s, Len(s) \in Nat
    PROVE  Sums(s) = [n \in 0 .. Len(s) |-> IF n = 0 THEN 0 ELSE Sums(s)[n - 1] + s[n]]
<1> DEFINE Is(f, m) == f = [n \in 0 .. m |-> IF n = 0 THEN 0 ELSE f[n - 1] + s[n]]
           T == {m \in Nat : \E f : Is(f, m)}
<1>1. 0 \in T
  <2>1. Is([n \in 0 .. 0 |-> 0], 0)
    OBVIOUS
  <2>2. QED  BY <2>1
<1>2. ASSUME NEW m \in Nat, m \in T PROVE m + 1 \in T
  <2>1. PICK f : Is(f, m)
    BY <1>2
  <2> DEFINE g == [n \in 0 .. (m + 1) |-> IF n = m + 1 THEN f[m] + s[m + 1] ELSE f[n]]
  <2>2. Is(g, m + 1)
    BY <2>1
  <2> HIDE DEF Is, g
  <2>3. QED  BY <2>2
<1>3. \E f : Is(f, Len(s))
  <2> HIDE DEF Is
  <2>1. QED  BY <1>1, <1>2, Induction
<1>4. Sums(s) = CHOOSE f : Is(f, Len(s))
  BY DEF Sums
<1>5. Is(Sums(s), Len(s))
  <2> HIDE DEF Is
  <2>1. QED  BY <1>3, <1>4
<1>6. QED  BY <1>5

\* One step of the recursion.
LEMMA SumStep ==
    ASSUME NEW s \in Seq(Int)
    PROVE  /\ Sums(s)[0] = 0
           /\ \A n \in Nat : n < Len(s) => Sums(s)[n + 1] = Sums(s)[n] + s[n + 1]
<1>1. Len(s) \in Nat
  OBVIOUS
<1> DEFINE F == Sums(s)
<1>2. F = [n \in 0 .. Len(s) |-> IF n = 0 THEN 0 ELSE F[n - 1] + s[n]]
  BY <1>1, SumsExist
<1> HIDE DEF F
<1>3. \A n \in 0 .. Len(s) : F[n] = IF n = 0 THEN 0 ELSE F[n - 1] + s[n]
  BY <1>2
<1>4. QED  BY <1>1, <1>3 DEF F

\* Two sequences that differ in their first number only.
LEMMA SumsDiffer ==
    ASSUME NEW s \in Seq(Int), NEW t \in Seq(Int), NEW d \in Int, Len(s) <= Len(t),
           Len(s) > 0 => t[1] = s[1] + d,
           \A i \in 2 .. Len(s) : t[i] = s[i]
    PROVE  \A n \in 0 .. Len(s) :
              Sums(s)[n] \in Int /\ Sums(t)[n] = Sums(s)[n] + IF n = 0 THEN 0 ELSE d
<1> DEFINE Holds0(n) ==
              Sums(s)[n] \in Int /\ Sums(t)[n] = Sums(s)[n] + IF n = 0 THEN 0 ELSE d
           T == {n \in Nat : n <= Len(s) => Holds0(n)}
<1>1. 0 \in T
  BY SumStep
<1>2. ASSUME NEW n \in Nat, n \in T PROVE n + 1 \in T
  <2> SUFFICES ASSUME n + 1 <= Len(s) PROVE Holds0(n + 1)
    OBVIOUS
  <2>1. Holds0(n)
    BY <1>2
  <2>2. Sums(s)[n + 1] = Sums(s)[n] + s[n + 1] /\ Sums(t)[n + 1] = Sums(t)[n] + t[n + 1]
    BY SumStep
  <2>3. s[n + 1] \in Int /\ t[n + 1] = s[n + 1] + IF n = 0 THEN d ELSE 0
    OBVIOUS
  <2> DEFINE a == Sums(s)[n]  b == Sums(t)[n]  c == s[n + 1]  e == t[n + 1]
             A == Sums(s)[n + 1]  B == Sums(t)[n + 1]
  <2>4. /\ a \in Int /\ b = a + IF n = 0 THEN 0 ELSE d
        /\ A = a + c /\ B = b + e /\ c \in Int /\ e = c + IF n = 0 THEN d ELSE 0
    BY <2>1, <2>2, <2>3
  <2> HIDE DEF a, b, c, e, A, B
  <2>5. A \in Int /\ B = A + d
    BY <2>4
  <2>6. QED  BY <2>5 DEF A, B
<1>3. Nat \subseteq T
  <2> HIDE DEF T
  <2>1. QED  BY <1>1, <1>2, Induction
<1>4. QED  BY <1>3

LEMMA TotalAppend ==
    ASSUME NEW s \in Seq(Int), NEW x \in Int
    PROVE  Total(s) \in Int /\ Total(Append(s, x)) = Total(s) + x
<1> DEFINE t == Append(s, x)
<1>1. /\ t \in Seq(Int) /\ Len(t) = Len(s) + 1 /\ t[Len(s) + 1] = x /\ Len(s) \in Nat
      /\ \A i \in 1 .. Len(s) : t[i] = s[i] /\ s[i] \in Int
  OBVIOUS
<1> HIDE DEF t
<1>2. /\ Len(s) <= Len(t) /\ (Len(s) > 0 => t[1] = s[1] + 0) /\ 0 \in Int
      /\ \A i \in 2 .. Len(s) : t[i] = s[i]
  BY <1>1
<1>3. \A n \in 0 .. Len(s) :
        Sums(s)[n] \in Int /\ Sums(t)[n] = Sums(s)[n] + IF n = 0 THEN 0 ELSE 0
  BY <1>1, <1>2, SumsDiffer
<1>4. Sums(s)[Len(s)] \in Int /\ Sums(t)[Len(s)] = Sums(s)[Len(s)]
  BY <1>1, <1>3
<1>5. Sums(t)[Len(s) + 1] = Sums(t)[Len(s)] + x
  BY <1>1, SumStep
<1>6. QED  BY <1>1, <1>4, <1>5 DEF Total, t

LEMMA TotalEmpty == Total(<<>>) = 0
<1>1. <<>> \in Seq(Int) /\ Len(<<>>) = 0
  OBVIOUS
<1>2. Sums(<<>>)[0] = 0
  BY <1>1, SumStep
<1>3. QED  BY <1>1, <1>2 DEF Total

LEMMA TotalFirst ==
    ASSUME NEW s \in Seq(Int), s # <<>>, NEW x \in Int
    PROVE  Total(s) \in Int /\ Total([s EXCEPT ![1] = x]) = Total(s) + (x - s[1])
<1> DEFINE t == [s EXCEPT ![1] = x]
<1>1. /\ t \in Seq(Int) /\ Len(t) = Len(s) /\ Len(s) \in Nat /\ Len(s) > 0
      /\ x - s[1] \in Int /\ t[1] = s[1] + (x - s[1])
      /\ \A i \in 2 .. Len(s) : t[i] = s[i]
  OBVIOUS
<1> DEFINE d == x - s[1]
<1> HIDE DEF t, d
<1>2. \A n \in 0 .. Len(s) :
        Sums(s)[n] \in Int /\ Sums(t)[n] = Sums(s)[n] + IF n = 0 THEN 0 ELSE d
  <2>1. /\ t \in Seq(Int) /\ Len(s) <= Len(t) /\ d \in Int /\ (Len(s) > 0 => t[1] = s[1] + d)
        /\ \A i \in 2 .. Len(s) : t[i] = s[i]
    BY <1>1 DEF d
  <2>2. QED  BY <2>1, SumsDiffer
<1>3. Sums(s)[Len(s)] \in Int /\ Sums(t)[Len(s)] = Sums(s)[Len(s)] + d
  BY <1>1, <1>2
<1>4. QED  BY <1>1, <1>3 DEF Total, t, d

-----------------------------------------------------------------------------
(* Steps that touch neither the level rows nor the ledger *)

\* The columns of a request have their types.
FieldsOK ==
    /\ at \in [Workers -> {"idle", "peek", "lock", "guard", "flushed", "alert"}]
    /\ DOMAIN route = Workers
    /\ delta \in [Workers -> Int] /\ loaded \in [Workers -> Nat \cup {Nothing}]
    /\ fresh \in [Workers -> BOOLEAN] /\ number \in [Workers -> Nat]

\* Request v does nothing in this step.
Still(v) ==
    /\ at'[v] = at[v] /\ route'[v] = route[v] /\ delta'[v] = delta[v]
    /\ loaded'[v] = loaded[v] /\ fresh'[v] = fresh[v] /\ number'[v] = number[v]

\* The lock is kept, or let go by its holder.
LockKept(w) ==
    /\ lock' = lock \/ (lock = w /\ lock' = NoWorker)
    /\ lock' = w => Holds(w)'

\* A request on its own.
LEMMA LocalStep ==
    ASSUME StockInv, NEW w \in Workers, UNCHANGED <<rows, ledger, alert, history>>,
           FieldsOK', \A v \in Workers \ {w} : Still(v), RequestOK(w)', LockKept(w)
    PROVE  StockInv'
<1> USE DEF StockInv, history
<1>1. ShapeOK'
  BY InventoryAssumption DEF ShapeOK, TypeOK, FieldsOK, LockKept, Holds, Still
<1>2. RequestsOK'
  <2> SUFFICES ASSUME NEW v \in Workers, v # w PROVE RequestOK(v)'
    BY DEF RequestsOK
  <2>1. RequestOK(v) /\ Still(v)
    BY DEF RequestsOK
  <2>2. lock = v => lock' = v
    BY DEF LockKept
  <2>3. QED  BY <2>1, <2>2 DEF RequestOK, Still, Holds, After
<1>3. ChainInv' /\ AlertInv' /\ SumInv'
  BY DEF ChainInv, AlertInv, SumInv, Balance, OnHand, Booked
<1>4. QED  BY <1>1, <1>2, <1>3

LEMMA BeginInv ==
    ASSUME StockInv, NEW w \in Workers, NEW r \in Routes, NEW d \in Deltas, Begin(w, r, d)
    PROVE  StockInv'
<1> USE DEF StockInv, ShapeOK, TypeOK, Begin, Goto, history
<1>1. FieldsOK'
  BY InventoryAssumption DEF FieldsOK, Nothing
<1>2. \A v \in Workers \ {w} : Still(v)
  BY DEF Still
<1>3. RequestOK(w)'
  BY DEF RequestOK, Holds
<1>4. LockKept(w)
  BY InventoryAssumption DEF LockKept, Holds
<1>5. QED  BY <1>1, <1>2, <1>3, <1>4, LocalStep

LEMMA PeekInv ==
    ASSUME StockInv, NEW w \in Workers, Peek(w)
    PROVE  StockInv'
<1> USE DEF StockInv, ShapeOK, TypeOK, Peek, Goto, history
<1>1. FieldsOK'
  BY DEF FieldsOK
<1>2. \A v \in Workers \ {w} : Still(v)
  BY DEF Still
<1>3. RequestOK(w)'
  BY DEF RequestsOK, RequestOK, Holds
<1>4. LockKept(w)
  BY InventoryAssumption DEF LockKept, Holds
<1>5. QED  BY <1>1, <1>2, <1>3, <1>4, LocalStep

LEMMA CreateLevelInv ==
    ASSUME StockInv, NEW w \in Workers, CreateLevel(w)
    PROVE  StockInv'
<1> USE DEF StockInv, ShapeOK, TypeOK, CreateLevel, Goto, history
<1>1. FieldsOK'
  BY DEF FieldsOK
<1>2. \A v \in Workers \ {w} : Still(v)
  BY DEF Still
<1>3. RequestOK(w)'
  BY DEF RequestsOK, RequestOK, Holds
<1>4. LockKept(w)
  BY DEF LockKept, Holds
<1>5. QED  BY <1>1, <1>2, <1>3, <1>4, LocalStep

LEMMA AppendMovementInv ==
    ASSUME StockInv, NEW w \in Workers, AppendMovement(w)
    PROVE  StockInv'
<1> USE DEF StockInv, ShapeOK, TypeOK, AppendMovement, Goto, history
<1>1. FieldsOK'
  BY DEF FieldsOK
<1>2. \A v \in Workers \ {w} : Still(v)
  BY DEF Still
<1>3. RequestOK(w)'
  <2>1. loaded[w] + delta[w] \in Int
    BY DEF Nothing
  <2>2. RequestOK(w) /\ Holds(w) /\ loaded[w] + delta[w] >= 0
    BY <2>1 DEF RequestsOK, Holds, Oversold, After
  <2>3. Holds(w)' /\ at'[w] = "flushed"
    BY DEF Holds
  <2>4. QED  BY <2>2, <2>3 DEF RequestOK, After
<1>4. LockKept(w)
  BY DEF LockKept, Holds
<1>5. QED  BY <1>1, <1>2, <1>3, <1>4, LocalStep

\* A request ends, and lets go of the lock if it has it.
LEMMA EndInv ==
    ASSUME StockInv, NEW w \in Workers, at' = [at EXCEPT ![w] = "idle"],
           UNCHANGED <<rows, ledger, alert, request, history>>,
           Release(w) \/ (UNCHANGED lock /\ ~Holds(w))
    PROVE  StockInv'
<1> USE DEF StockInv, ShapeOK, TypeOK, Release, history, request
<1>1. FieldsOK'
  BY DEF FieldsOK
<1>2. \A v \in Workers \ {w} : Still(v)
  BY DEF Still
<1>3. RequestOK(w)'
  BY DEF RequestOK, Holds
<1>4. LockKept(w)
  BY InventoryAssumption DEF LockKept, Holds
<1>5. QED  BY <1>1, <1>2, <1>3, <1>4, LocalStep

\* A request waits for the row, and then knows it or uses what it loaded before.
LEMMA LockLevelInv ==
    ASSUME StockInv, NEW w \in Workers, LockLevel(w)
    PROVE  StockInv'
<1> USE DEF StockInv, LockLevel, Goto
<1>1. rows \in Seq(Nat) /\ rows[1] \in Nat /\ rows # <<>> /\ (stale => stale')
  <2>1. rows \in Seq(Nat) /\ Len(rows) = 1
    BY DEF ShapeOK, TypeOK
  <2>2. \A i \in 1 .. Len(rows) : rows[i] \in Nat
    BY <2>1, ElementOfSeq
  <2>3. rows[1] \in Nat
    BY ONLY <2>1, <2>2
  <2>4. rows # <<>>
    BY ONLY <2>1
  <2>5. stale => stale'
    OBVIOUS
  <2>6. QED  BY <2>1, <2>3, <2>4, <2>5
<1>2. ShapeOK'
  BY <1>1 DEF ShapeOK, TypeOK
<1>3. RequestOK(w)'
  <2>1. RequestOK(w) /\ loaded[w] \in Nat \cup {Nothing}
    BY DEF RequestsOK, ShapeOK
  <2>2. loaded'[w] = IF loaded[w] = Nothing THEN rows[1] ELSE loaded[w]
    BY DEF ShapeOK
  <2>3. at'[w] = "guard" /\ lock' = w /\ ~fresh'[w] /\ delta'[w] = delta[w] /\ route'[w] = route[w]
    BY <2>1 DEF RequestOK, ShapeOK, TypeOK
  <2>4. loaded'[w] \in Nat /\ (stale' \/ loaded'[w] = rows[1])
    BY <1>1, <2>1, <2>2
  <2>5. QED  BY <1>1, <2>1, <2>3, <2>4 DEF RequestOK, Holds
<1>4. RequestsOK'
  <2> SUFFICES ASSUME NEW v \in Workers, v # w PROVE RequestOK(v)'
    BY <1>3 DEF RequestsOK
  <2>1. RequestOK(v) /\ lock # v
    BY InventoryAssumption DEF RequestsOK
  <2>2. /\ at'[v] = at[v] /\ loaded'[v] = loaded[v]
    BY DEF ShapeOK, TypeOK
  <2>3. QED  BY <1>1, <2>1, <2>2 DEF RequestOK, Holds, After
<1>5. ChainInv' /\ AlertInv' /\ SumInv'
  BY <1>1 DEF ChainInv, AlertInv, SumInv, Balance, OnHand, Booked
<1>6. QED  BY <1>2, <1>4, <1>5

-----------------------------------------------------------------------------
(* Movements and their alert steps *)

\* The ledger grows: what is there stays, and the sum grows by the new movement.
LEMMA LedgerGrows ==
    ASSUME ledger \in Seq(Move), NEW m \in Move, ledger' = Append(ledger, m)
    PROVE  /\ ledger' \in Seq(Move) /\ Len(ledger) \in Nat /\ Len(ledger') = Len(ledger) + 1
           /\ DOMAIN ledger = 1 .. Len(ledger) /\ DOMAIN ledger' = 1 .. (Len(ledger) + 1)
           /\ \A i \in DOMAIN ledger : ledger'[i] = ledger[i]
           /\ ledger'[Len(ledger) + 1] = m
           /\ \A i \in 0 .. Len(ledger) : Balance(i)' = Balance(i) /\ Balance(i) \in Nat
           /\ Booked \in Int /\ Booked' = Booked + m.by
<1>1. /\ ledger' \in Seq(Move) /\ Len(ledger) \in Nat /\ Len(ledger') = Len(ledger) + 1
      /\ DOMAIN ledger = 1 .. Len(ledger) /\ DOMAIN ledger' = 1 .. (Len(ledger) + 1)
      /\ \A i \in DOMAIN ledger : ledger'[i] = ledger[i] /\ ledger[i] \in Move
      /\ ledger'[Len(ledger) + 1] = m
  OBVIOUS
<1>2. \A i \in 0 .. Len(ledger) : Balance(i)' = Balance(i) /\ Balance(i) \in Nat
  <2> SUFFICES ASSUME NEW i \in 0 .. Len(ledger)
               PROVE  Balance(i)' = Balance(i) /\ Balance(i) \in Nat
    OBVIOUS
  <2>1. CASE i = 0
    BY <2>1 DEF Balance
  <2>2. CASE i # 0
    <3>1. i \in DOMAIN ledger
      BY <1>1, <2>2
    <3>2. ledger'[i] = ledger[i] /\ ledger[i].balance \in Nat
      BY <1>1, <3>1 DEF Move
    <3>3. QED  BY <2>2, <3>2 DEF Balance
  <2>3. QED  BY <2>1, <2>2
<1> DEFINE bys == [i \in DOMAIN ledger |-> ledger[i].by]
<1>3. m.by \in Int /\ bys \in Seq(Int)
  BY <1>1 DEF Move
<1>4. [i \in DOMAIN ledger' |-> ledger'[i].by] = Append(bys, m.by)
  BY <1>1, <1>3
<1>5. Booked = Total(bys) /\ Booked' = Total(Append(bys, m.by))
  BY <1>4 DEF Booked
<1> HIDE DEF bys
<1>6. QED  BY <1>1, <1>2, <1>3, <1>5, TotalAppend

\* A movement is committed with the level.
LEMMA CommitInv ==
    ASSUME StockInv, NEW w \in Workers, Commit(w)
    PROVE  StockInv'
<1> DEFINE m == [by |-> delta[w], balance |-> After(w)]
<1>a. /\ ShapeOK /\ RequestOK(w) /\ Holds(w) /\ at[w] = "flushed"
      /\ rows \in Seq(Nat) /\ ledger \in Seq(Move) /\ (rows = <<>> <=> ledger = <<>>)
      /\ delta[w] \in Deltas /\ delta[w] \in Int /\ loaded[w] \in Nat
  BY DEF StockInv, ShapeOK, TypeOK, RequestsOK, RequestOK, Holds, Commit
<1>b. After(w) \in Nat /\ After(w) = loaded[w] + delta[w]
  BY <1>a DEF RequestOK, After
<1>c. m \in Move /\ m.by = delta[w] /\ ledger' = Append(ledger, m)
  BY <1>a, <1>b DEF Move, Commit
<1>d. /\ ledger' \in Seq(Move) /\ Len(ledger) \in Nat /\ Len(ledger') = Len(ledger) + 1
      /\ DOMAIN ledger = 1 .. Len(ledger) /\ DOMAIN ledger' = 1 .. (Len(ledger) + 1)
      /\ \A i \in DOMAIN ledger : ledger'[i] = ledger[i]
      /\ ledger'[Len(ledger) + 1] = m
      /\ \A i \in 0 .. Len(ledger) : Balance(i)' = Balance(i) /\ Balance(i) \in Nat
      /\ Booked \in Int /\ Booked' = Booked + delta[w]
  <2> HIDE DEF m
  <2>1. QED  BY <1>a, <1>c, LedgerGrows
<1>e. Balance(Len(ledger))' = After(w)
  <2>1. ledger'[Len(ledger')].balance = After(w) /\ Len(ledger') # 0
    BY <1>d
  <2>2. QED  BY <2>1 DEF Balance
<1>f. /\ at' = [at EXCEPT ![w] = "alert"] /\ number[w] = Len(ledger) + 1
      /\ UNCHANGED <<alert, route, delta, loaded, fresh, number, stale, last, jumbled>>
      /\ lock' = IF lock = w THEN NoWorker ELSE lock
  BY DEF Commit, Goto, Release, request, history
<1>j. \A i \in DOMAIN ledger' : ledger'[i].by \in Deltas /\ ledger'[i].balance \in Nat
  <2>1. \A i \in DOMAIN ledger : ledger[i].by \in Deltas /\ ledger[i].balance \in Nat
    BY <1>a DEF ShapeOK, TypeOK
  <2>2. m.by \in Deltas /\ m.balance \in Nat
    BY <1>a, <1>b
  <2> HIDE DEF m
  <2>3. QED  BY <1>d, <2>1, <2>2
<1>g. CASE fresh[w]
  <2>1. rows' = Append(rows, After(w)) /\ After(w) = delta[w] /\ loaded[w] = 0
    BY <1>a, <1>b, <1>g DEF Commit, RequestOK
  <2>2. /\ rows' \in Seq(Nat) /\ Len(rows') = Len(rows) + 1 /\ Len(rows) \in Nat /\ rows' # <<>>
        /\ (rows # <<>> => rows'[1] = rows[1])
        /\ (Len(rows') = 1 => rows = <<>> /\ rows'[1] = After(w))
    BY <1>a, <1>b, <2>1
  <2>3. OnHand \in Int /\ OnHand' = OnHand + delta[w]
    <3>1. rows \in Seq(Int) /\ delta[w] \in Int
      BY <1>a
    <3>2. QED  BY <2>1, <3>1, TotalAppend DEF OnHand
  <2>4. SumInv'
    BY <1>d, <1>f, <2>3 DEF StockInv, SumInv
  <2>5. ledger' # <<>>
    BY <1>d
  <2>6. ShapeOK'
    BY <1>a, <1>d, <1>f, <1>j, <2>2, <2>5, InventoryAssumption DEF ShapeOK, TypeOK
  <2>7. RequestsOK'
    <3> SUFFICES ASSUME NEW v \in Workers PROVE RequestOK(v)'
      BY DEF RequestsOK
    <3>1. CASE v = w
      BY <1>a, <1>d, <1>f, <3>1 DEF RequestOK, Holds, ShapeOK, TypeOK, After
    <3>2. CASE v # w
      <4>1. RequestOK(v) /\ at'[v] = at[v] /\ (lock = v => lock' = v)
        BY <1>f, <3>2, <1>a DEF StockInv, RequestsOK, ShapeOK, TypeOK
      <4>2. QED  BY <1>d, <1>f, <2>2, <4>1 DEF RequestOK, Holds, After
    <3>3. QED  BY <3>1, <3>2
  <2>8. ChainInv'
    BY <1>a, <1>d, <1>e, <2>1, <2>2 DEF ChainInv, Balance
  <2>9. AlertInv'
    BY <1>a, <1>d, <1>f, <2>2 DEF StockInv, AlertInv
  <2>10. QED  BY <2>4, <2>6, <2>7, <2>8, <2>9 DEF StockInv
<1>h. CASE ~fresh[w]
  <2>1. /\ rows' = [rows EXCEPT ![1] = After(w)] /\ lock = w /\ rows # <<>>
        /\ (stale \/ loaded[w] = rows[1])
    BY <1>a, <1>h DEF Commit, RequestOK
  <2>2. /\ rows' \in Seq(Nat) /\ Len(rows') = Len(rows) /\ rows' # <<>>
        /\ rows'[1] = After(w) /\ rows[1] \in Nat
    BY <1>a, <1>b, <2>1
  <2>3. OnHand \in Int /\ OnHand' = OnHand + (After(w) - rows[1])
    <3>1. rows \in Seq(Int) /\ After(w) \in Int
      BY <1>a, <1>b
    <3>2. QED  BY <2>1, <3>1, TotalFirst DEF OnHand
  <2>4. SumInv'
    <3>1. stale \/ OnHand' = OnHand + delta[w]
      BY <1>a, <1>b, <2>1, <2>2, <2>3
    <3>2. QED  BY <1>d, <1>f, <2>3, <3>1 DEF StockInv, SumInv
  <2>5. ledger' # <<>>
    BY <1>d
  <2>6. ShapeOK'
    BY <1>a, <1>d, <1>f, <1>j, <2>1, <2>2, <2>5, InventoryAssumption DEF ShapeOK, TypeOK
  <2>7. RequestsOK'
    <3> SUFFICES ASSUME NEW v \in Workers PROVE RequestOK(v)'
      BY DEF RequestsOK
    <3>1. CASE v = w
      BY <1>a, <1>d, <1>f, <3>1 DEF RequestOK, Holds, ShapeOK, TypeOK, After
    <3>2. CASE v # w
      <4>1. RequestOK(v) /\ at'[v] = at[v] /\ lock # v
        BY <1>f, <2>1, <3>2, <1>a DEF StockInv, RequestsOK, ShapeOK, TypeOK
      <4>2. QED  BY <1>d, <1>f, <4>1 DEF RequestOK, Holds, After
    <3>3. QED  BY <3>1, <3>2
  <2>8. ChainInv'
    <3> SUFFICES ASSUME ~stale, Len(rows) = 1
                 PROVE  /\ rows'[1] = Balance(Len(ledger))'
                        /\ \A i \in DOMAIN ledger' :
                              ledger'[i].balance = ledger'[i].by + Balance(i - 1)'
      <4>1. Len(ledger') = Len(ledger) + 1
        BY <1>d
      <4>2. QED  BY <1>f, <2>2, <4>1 DEF ChainInv
    <3>1. /\ rows[1] = Balance(Len(ledger))
          /\ \A i \in DOMAIN ledger : ledger[i].balance = ledger[i].by + Balance(i - 1)
      BY DEF StockInv, ChainInv
    <3>2. After(w) = delta[w] + Balance(Len(ledger))
      <4>1. loaded[w] = Balance(Len(ledger))
        BY <2>1, <3>1
      <4>2. QED  BY <1>a, <1>b, <4>1
    <3>3. ASSUME NEW i \in DOMAIN ledger'
          PROVE  ledger'[i].balance = ledger'[i].by + Balance(i - 1)'
      <4>1. CASE i \in DOMAIN ledger
        <5>1. i - 1 \in 0 .. Len(ledger)
          BY <1>d, <4>1
        <5>2. QED  BY <1>d, <3>1, <4>1, <5>1
      <4>2. CASE i = Len(ledger) + 1
        <5>1. ledger'[i].balance = After(w) /\ ledger'[i].by = delta[w]
          BY <1>d, <4>2
        <5>2. Balance(i - 1)' = Balance(Len(ledger))
          BY <1>d, <4>2
        <5>3. QED  BY <3>2, <5>1, <5>2
      <4>3. QED  BY <1>d, <4>1, <4>2
    <3>4. QED  BY <1>e, <2>2, <3>3
  <2>9. AlertInv'
    <3>1. AlertInv /\ last \in 0 .. Len(ledger') /\ (last > 0 => last \in DOMAIN ledger)
      BY <1>d DEF StockInv, AlertInv
    <3>2. ASSUME \E k \in last .. Len(ledger) : Balance(k) <= Reorder
          PROVE  \E k \in last .. Len(ledger') : Balance(k)' <= Reorder
      <4>1. PICK k \in last .. Len(ledger) : Balance(k) <= Reorder
        BY <3>2
      <4>2. k \in last .. Len(ledger') /\ k \in 0 .. Len(ledger)
        BY <1>d, <3>1
      <4>3. QED  BY <1>d, <4>1, <4>2
    <3>3. QED  BY <1>d, <1>f, <2>2, <3>1, <3>2 DEF AlertInv
  <2>10. QED  BY <2>4, <2>6, <2>7, <2>8, <2>9 DEF StockInv
<1>i. QED  BY <1>g, <1>h

\* The alert step of a movement.
LEMMA SignalInv ==
    ASSUME StockInv, NEW w \in Workers, Signal(w)
    PROVE  StockInv'
<1> DEFINE n == number[w]
           grade == IF After(w) <= 0 THEN "critical" ELSE "warning"
           low == delta[w] < 0 /\ After(w) <= Reorder
<1>a. /\ ShapeOK /\ RequestOK(w) /\ at[w] = "alert" /\ ledger \in Seq(Move) /\ Reorder \in Nat
      /\ rows \in Seq(Nat) /\ delta[w] \in Int
  BY InventoryAssumption DEF StockInv, ShapeOK, TypeOK, RequestsOK, Signal
<1>b. /\ n \in DOMAIN ledger /\ ledger[n] = [by |-> delta[w], balance |-> After(w)]
      /\ (route[w] = "purchase" => delta[w] > 0)
  BY <1>a DEF RequestOK
<1>c. /\ Len(ledger) \in Nat /\ DOMAIN ledger = 1 .. Len(ledger) /\ n \in 1 .. Len(ledger)
      /\ After(w) \in Nat /\ ledger[n].by = delta[w] /\ ledger[n].balance = After(w)
      /\ Balance(n) = After(w)
  <2>1. /\ Len(ledger) \in Nat /\ DOMAIN ledger = 1 .. Len(ledger) /\ ledger[n] \in Move
    BY <1>a, <1>b
  <2>2. ledger[n].by = delta[w] /\ ledger[n].balance = After(w)
    BY <1>b
  <2>3. QED  BY <1>b, <2>1, <2>2 DEF Move, Balance
<1>d. /\ UNCHANGED <<rows, ledger, lock, route, delta, loaded, fresh, number, stale>>
      /\ last' = n /\ jumbled' = (jumbled \/ n # last + 1)
      /\ at' = [at EXCEPT ![w] = "idle"]
      /\ alert' = IF Reorder = 0 THEN alert
                  ELSE IF low /\ Rank(grade) > Rank(alert) THEN grade
                  ELSE IF Recovered(w) THEN "none" ELSE alert
  BY DEF Signal, Goto, request
<1>e. Len(rows) = 1 => rows[1] \in Nat
  <2>1. rows \in Seq(Nat)
    BY <1>a
  <2>2. \A i \in 1 .. Len(rows) : rows[i] \in Nat
    BY <2>1, ElementOfSeq
  <2>3. QED  BY <2>2
<1> HIDE DEF n
<1>1. ShapeOK'
  <2>1. alert' \in {"none", "warning", "critical"}
    BY <1>a, <1>d DEF ShapeOK, TypeOK
  <2>2. jumbled' \in BOOLEAN
    BY <1>a, <1>d DEF ShapeOK
  <2>3. lock # w
    BY <1>a, InventoryAssumption DEF ShapeOK, TypeOK
  <2>4. QED  BY <1>a, <1>d, <2>1, <2>2, <2>3 DEF ShapeOK, TypeOK
<1>2. RequestsOK'
  <2> SUFFICES ASSUME NEW v \in Workers PROVE RequestOK(v)'
    BY DEF RequestsOK
  <2>1. RequestOK(v) /\ at'[v] = IF v = w THEN "idle" ELSE at[v]
    BY <1>a, <1>d DEF StockInv, RequestsOK, ShapeOK, TypeOK
  <2>2. QED  BY <1>d, <2>1 DEF RequestOK, Holds, After
<1>3. ChainInv' /\ SumInv'
  BY <1>d DEF StockInv, ChainInv, SumInv, OnHand, Booked, Balance
<1>4. AlertInv'
  <2>1. last' \in 0 .. Len(ledger') /\ last' # 0
    BY <1>c, <1>d
  <2> SUFFICES ASSUME ~stale, ~jumbled', Len(rows) = 1, Reorder > 0
               PROVE  /\ alert' # "none" => \E k \in n .. Len(ledger) : Balance(k) <= Reorder
                      /\ ledger[n].by < 0 /\ ledger[n].balance <= Reorder => alert' # "none"
    BY <1>d, <2>1 DEF AlertInv, Balance
  <2>2. n = last + 1 /\ ~jumbled /\ last \in 0 .. Len(ledger)
    BY <1>a, <1>d DEF StockInv, AlertInv, ShapeOK
  <2>3. alert # "none" => \E k \in last .. Len(ledger) : Balance(k) <= Reorder
    BY <2>2 DEF StockInv, AlertInv
  <2>4. rows[1] = Balance(Len(ledger)) /\ After(w) = delta[w] + Balance(last)
    <3>1. /\ rows[1] = Balance(Len(ledger))
          /\ ledger[n].balance = ledger[n].by + Balance(n - 1)
      BY <1>b DEF StockInv, ChainInv
    <3>2. n - 1 = last
      BY <2>2
    <3>3. QED  BY <1>c, <3>1, <3>2
  <2>5. Balance(last) \in Nat /\ loaded[w] = Balance(last)
    <3>1. Balance(last) \in Nat
      <4>1. CASE last = 0
        BY <4>1 DEF Balance
      <4>2. CASE last # 0
        <5>1. ledger[last] \in Move
          BY <1>a, <2>2, <4>2
        <5>2. QED  BY <4>2, <5>1 DEF Balance, Move
      <4>3. QED  BY <4>1, <4>2
    <3>2. After(w) = loaded[w] + delta[w] /\ loaded[w] \in Int
      BY <1>a DEF After, ShapeOK, Nothing
    <3>3. QED  BY <1>a, <2>4, <3>1, <3>2
  <2>6. ASSUME alert' # "none"
        PROVE  \E k \in n .. Len(ledger) : Balance(k) <= Reorder
    <3>1. CASE After(w) <= Reorder
      BY <1>c, <3>1
    <3>2. CASE After(w) > Reorder
      <4>1. ~low /\ alert' = alert /\ ~Recovered(w)
        BY <1>a, <1>c, <1>d, <2>6, <3>2
      <4>2. PICK k \in last .. Len(ledger) : Balance(k) <= Reorder
        BY <2>3, <2>6, <4>1
      <4>3. CASE k # last
        BY <2>2, <4>2, <4>3
      <4>4. CASE k = last
        <5>1. delta[w] > 0 /\ loaded[w] <= Reorder
          BY <1>a, <1>c, <2>4, <2>5, <3>2, <4>2, <4>4
        <5>2. rows[1] <= Reorder
          <6>1. rows[1] \in Nat
            BY <1>e
          <6>2. route[w] = "purchase"
            BY <1>a, <3>2, <4>1, <5>1 DEF Recovered, Before
          <6>3. QED  BY <1>a, <4>1, <6>1, <6>2 DEF Recovered
        <5>3. Len(ledger) \in n .. Len(ledger) /\ Balance(Len(ledger)) <= Reorder
          BY <1>c, <2>4, <5>2
        <5>4. QED  BY <5>3
      <4>5. QED  BY <4>3, <4>4
    <3>3. QED  BY <1>a, <1>c, <3>1, <3>2
  <2>7. ASSUME ledger[n].by < 0, ledger[n].balance <= Reorder
        PROVE  alert' # "none"
    <3>1. low /\ ~Recovered(w)
      BY <1>a, <1>b, <1>c, <2>7 DEF Recovered
    <3>2. alert' = IF Rank(grade) > Rank(alert) THEN grade ELSE alert
      BY <1>a, <1>d, <3>1
    <3>3. Rank(grade) > Rank("none")
      BY DEF Rank
    <3>4. QED  BY <3>2, <3>3
  <2>8. QED  BY <2>6, <2>7
<1>5. QED  BY <1>1, <1>2, <1>3, <1>4 DEF StockInv

LEMMA StartInv == Init => StockInv
<1> SUFFICES ASSUME Init PROVE StockInv
  OBVIOUS
<1>1. ledger \in Seq(Move) /\ rows \in Seq(Nat) /\ Len(ledger) = 0 /\ DOMAIN ledger = {}
  BY DEF Init
<1>2. ShapeOK
  <2>1. TypeOK
    BY <1>1, InventoryAssumption DEF Init, TypeOK
  <2>2. rows = <<>> /\ ledger = <<>>
    BY DEF Init
  <2>3. loaded \in [Workers -> Nat \cup {Nothing}]
    BY DEF Init
  <2>4. delta \in [Workers -> Int] /\ number \in [Workers -> Nat] /\ fresh \in [Workers -> BOOLEAN]
    BY DEF Init
  <2>5. DOMAIN route = Workers /\ stale \in BOOLEAN /\ jumbled \in BOOLEAN
    BY DEF Init
  <2>6. QED  BY <1>1, <2>1, <2>2, <2>3, <2>4, <2>5 DEF ShapeOK
<1>3. RequestsOK
  BY DEF Init, RequestsOK, RequestOK, Holds
<1>4. ChainInv /\ AlertInv
  BY <1>1 DEF Init, ChainInv, AlertInv
<1>5. SumInv
  <2>1. [i \in DOMAIN ledger |-> ledger[i].by] = <<>>
    BY <1>1
  <2>2. QED  BY <2>1 DEF Init, SumInv, OnHand, Booked
<1>6. QED  BY <1>2, <1>3, <1>4, <1>5 DEF StockInv

LEMMA StepInv == StockInv /\ [Next]_vars => StockInv'
<1> SUFFICES ASSUME StockInv, [Next]_vars PROVE StockInv'
  OBVIOUS
<1>1. CASE UNCHANGED vars
  BY <1>1 DEF vars, request, history, StockInv, ShapeOK, TypeOK, RequestsOK, RequestOK, Holds, After,
     ChainInv, AlertInv, SumInv, Balance, OnHand, Booked
<1>2. ASSUME NEW w \in Workers, NEW r \in Routes, NEW d \in Deltas, Begin(w, r, d) PROVE StockInv'
  BY <1>2, BeginInv
<1>3. ASSUME NEW w \in Workers, Peek(w) \/ LockLevel(w) \/ CreateLevel(w) \/ AppendMovement(w)
                                \/ Commit(w) \/ Signal(w)
      PROVE  StockInv'
  BY <1>3, PeekInv, LockLevelInv, CreateLevelInv, AppendMovementInv, CommitInv, SignalInv
<1>4. ASSUME NEW w \in Workers,
             TwoRows(w) \/ RefuseMovement(w) \/ NumberTaken(w) \/ SignalFails(w)
      PROVE  StockInv'
  <2>1. at' = [at EXCEPT ![w] = "idle"] /\ UNCHANGED <<rows, ledger, alert, request, history>>
    BY <1>4 DEF TwoRows, RefuseMovement, NumberTaken, SignalFails, Goto
  <2>2. Release(w) \/ (UNCHANGED lock /\ ~Holds(w))
    <3>1. CASE TwoRows(w) \/ SignalFails(w)
      <4>1. UNCHANGED lock /\ ~Holds(w)
        BY <3>1 DEF TwoRows, SignalFails, Holds
      <4>2. QED  BY <4>1
    <3>2. CASE RefuseMovement(w) \/ NumberTaken(w)
      BY <3>2 DEF RefuseMovement, NumberTaken
    <3>3. QED  BY <1>4, <3>1, <3>2
  <2>3. QED  BY <2>1, <2>2, EndInv
<1>5. QED  BY <1>1, <1>2, <1>3, <1>4 DEF Next

\* The level rows hold the sum of the movements and the ledger can be replayed, unless a
\* request has used a level that it had loaded before it locked it
\* (_apply in inventory/service.py, get_level_for_update in inventory/repository.py).
THEOREM OnlyStaleLevelsDrift == Spec => []DriftNeedsStaleLevel
<1>1. StockInv => DriftNeedsStaleLevel
  BY DEF StockInv, SumInv, ChainInv, ShapeOK, DriftNeedsStaleLevel, Balance
<1>2. QED  BY <1>1, StartInv, StepInv, PTL DEF Spec

\* Once every request is over, an alert stands for a product that is low, and one that an
\* outflow has left low has its alert, if every movement's alert step ran and in turn
\* (_maybe_raise_low_stock, _maybe_resolve_low_stock in inventory/service.py).
THEOREM AlertsTellTheStock == Spec => []AlertsFollowStock
<1>1. StockInv => AlertsFollowStock
  <2> SUFFICES ASSUME StockInv, ~jumbled, last = Len(ledger), ~stale, Len(rows) = 1, Reorder > 0
               PROVE  /\ alert # "none" => rows[1] <= Reorder
                      /\ ledger[Len(ledger)].by < 0 /\ rows[1] <= Reorder => alert # "none"
    BY DEF AlertsFollowStock
  <2>1. rows[1] = Balance(last) /\ last \in Nat
    BY DEF StockInv, ChainInv, ShapeOK
  <2>2. alert # "none" => Balance(last) <= Reorder
    BY <2>1 DEF StockInv, AlertInv
  <2>3. last > 0 /\ Balance(last) = ledger[last].balance
    <3>1. rows # <<>>
      OBVIOUS
    <3>2. ledger # <<>> /\ ledger \in Seq(Move)
      BY <3>1 DEF StockInv, ShapeOK
    <3>3. QED  BY <2>1, <3>2 DEF Balance
  <2>4. QED  BY <2>1, <2>2, <2>3 DEF StockInv, AlertInv
<1>2. QED  BY <1>1, StartInv, StepInv, PTL DEF Spec
=============================================================================
