------------------------------ MODULE Inventory ------------------------------
(***************************************************************************)
(* One product's stock: the append-only ledger of movements, the level row *)
(* projected from it, and the low-stock alert raised or resolved after the *)
(* movement has committed (domains/inventory/service.py).  Requests come   *)
(* from the stock endpoints ("api"), from a stock purchase booked with its *)
(* expense ("purchase") and from an agent's released proposal ("agent"),   *)
(* which reads the level before the service locks it.                      *)
(***************************************************************************)
EXTENDS Integers, Sequences

CONSTANTS
    Workers,   \* requests in progress, each with its own session
    NoWorker,
    Routes,    \* the routes movements take in this instance
    Deltas,    \* signed quantities
    Reorder,   \* reorder_level
    MaxMoves   \* bound on the ledger

ASSUME InventoryAssumption ==
    /\ NoWorker \notin Workers
    /\ Routes \subseteq {"api", "purchase", "agent"}
    /\ Deltas \subseteq Int \ {0}
    /\ Reorder \in Nat /\ MaxMoves \in Nat

VARIABLES
    rows,    \* quantity_on_hand of the product's stock_levels rows
    ledger,  \* stock_movements in sequence order: signed quantity, balance_after
    lock,    \* who holds the level row FOR UPDATE
    alert,   \* the ACTIVE low_stock alert: "none", "warning" or "critical"
    at,      \* where a request is
    route, delta,
    loaded,  \* on-hand of the level in the session's identity map, or Nothing
    fresh,   \* the request inserted its level row itself
    number,  \* the sequence number of its movement
    stale,   \* history: a request has locked a level that was not as it had loaded it
    last,    \* history: the movement whose alert step ran last
    jumbled  \* history: alert steps have run in another order than their movements

request == <<route, delta, loaded, fresh, number>>
history == <<stale, last, jumbled>>
vars == <<rows, ledger, lock, alert, at, request, history>>

Nothing == -1

\* on-hand before and after the request's movement
Before(w) == loaded[w]
After(w) == loaded[w] + delta[w]

Goto(w, place) == at' = [at EXCEPT ![w] = place]

Release(w) == lock' = IF lock = w THEN NoWorker ELSE lock

-----------------------------------------------------------------------------

Init ==
    /\ rows = <<>> /\ ledger = <<>> /\ lock = NoWorker /\ alert = "none"
    /\ at = [w \in Workers |-> "idle"]
    /\ route = [w \in Workers |-> "api"]
    /\ delta = [w \in Workers |-> 0]
    /\ loaded = [w \in Workers |-> Nothing]
    /\ fresh = [w \in Workers |-> FALSE]
    /\ number = [w \in Workers |-> 0]
    /\ stale = FALSE /\ last = 0 /\ jumbled = FALSE

\* A request arrives: record_movement, adjust_stock, record_purchase_receipt (a
\* purchase only receives), or the approval of an agent's movement.
Begin(w, r, d) ==
    /\ at[w] = "idle" /\ Len(ledger) < MaxMoves
    /\ r = "purchase" => d > 0
    /\ Goto(w, IF r = "agent" THEN "peek" ELSE "lock")
    /\ route' = [route EXCEPT ![w] = r]
    /\ delta' = [delta EXCEPT ![w] = d]
    /\ loaded' = [loaded EXCEPT ![w] = Nothing]
    /\ fresh' = [fresh EXCEPT ![w] = FALSE]
    /\ number' = [number EXCEPT ![w] = 0]
    /\ UNCHANGED <<rows, ledger, lock, alert, history>>

\* propose_stock_movement reads the level, without a lock, for its own check of
\* the resulting quantity.  The row it loads stays in the session.
Peek(w) ==
    /\ at[w] = "peek" /\ Len(rows) <= 1
    /\ LET onHand == IF rows = <<>> THEN 0 ELSE rows[1]
       IN Goto(w, IF onHand + delta[w] < 0 THEN "idle" ELSE "lock")
    /\ loaded' = [loaded EXCEPT ![w] = IF rows = <<>> THEN Nothing ELSE rows[1]]
    /\ UNCHANGED <<rows, ledger, lock, alert, route, delta, fresh, number, history>>

\* Mutant: the level is read without FOR UPDATE.
ReadLevel(w) ==
    /\ at[w] = "lock" /\ Len(rows) = 1
    /\ loaded' = [loaded EXCEPT ![w] = IF @ = Nothing THEN rows[1] ELSE @]
    /\ Goto(w, "guard")
    /\ UNCHANGED <<rows, ledger, lock, alert, route, delta, fresh, number, history>>

\* get_level_for_update waits for the row; a level that the session has loaded
\* already keeps the values it was loaded with.
LockLevel(w) ==
    /\ at[w] = "lock" /\ Len(rows) = 1 /\ lock = NoWorker
    /\ lock' = w
    /\ loaded' = [loaded EXCEPT ![w] = IF @ = Nothing THEN rows[1] ELSE @]
    /\ stale' = (stale \/ loaded[w] \notin {Nothing, rows[1]})
    /\ Goto(w, "guard")
    /\ UNCHANGED <<rows, ledger, alert, route, delta, fresh, number, last, jumbled>>

\* get_or_create_level finds no row and inserts one.  location_id is NULL, so the
\* unique constraint does not stop a second.
CreateLevel(w) ==
    /\ at[w] = "lock" /\ rows = <<>>
    /\ loaded' = [loaded EXCEPT ![w] = 0]
    /\ fresh' = [fresh EXCEPT ![w] = TRUE]
    /\ Goto(w, "guard")
    /\ UNCHANGED <<rows, ledger, lock, alert, route, delta, number, history>>

\* scalar_one_or_none raises once the product has two rows.
TwoRows(w) ==
    /\ at[w] \in {"peek", "lock"} /\ Len(rows) > 1
    /\ Goto(w, "idle")
    /\ UNCHANGED <<rows, ledger, lock, alert, request, history>>

\* A movement may not drive on-hand below zero.
Oversold(w) == After(w) < 0

RefuseMovement(w) ==
    /\ at[w] = "guard" /\ Oversold(w)
    /\ Release(w)
    /\ Goto(w, "idle")
    /\ UNCHANGED <<rows, ledger, alert, request, history>>

\* last_sequence + 1, and the movement row is flushed.
AppendMovement(w) ==
    /\ at[w] = "guard" /\ ~Oversold(w)
    /\ number' = [number EXCEPT ![w] = Len(ledger) + 1]
    /\ Goto(w, "flushed")
    /\ UNCHANGED <<rows, ledger, lock, alert, route, delta, loaded, fresh, history>>

\* The transaction commits the level with the movement.
Commit(w) ==
    /\ at[w] = "flushed" /\ number[w] = Len(ledger) + 1
    /\ rows' = IF fresh[w] THEN Append(rows, After(w)) ELSE [rows EXCEPT ![1] = After(w)]
    /\ ledger' = Append(ledger, [by |-> delta[w], balance |-> After(w)])
    /\ Release(w)
    /\ Goto(w, "alert")
    /\ UNCHANGED <<alert, request, history>>

\* uq_stock_movements_product_sequence: another first movement took the number.
NumberTaken(w) ==
    /\ at[w] = "flushed" /\ number[w] # Len(ledger) + 1
    /\ Release(w)
    /\ Goto(w, "idle")
    /\ UNCHANGED <<rows, ledger, alert, request, history>>

\* Mutant: recovery is a crossing from strictly below.
RecoveredStrictly(w) ==
    IF route[w] = "purchase" THEN Len(rows) = 1 /\ rows[1] > Reorder
    ELSE delta[w] > 0 /\ Before(w) < Reorder /\ Reorder < After(w)

\* A purchase reads the level again after its commit (and fails if there are two);
\* any other inflow has noted, under the lock, whether it lifts the level above.
Recovered(w) ==
    IF route[w] = "purchase" THEN Len(rows) = 1 /\ rows[1] > Reorder
    ELSE delta[w] > 0 /\ Before(w) <= Reorder /\ Reorder < After(w)

Rank(a) == IF a = "critical" THEN 2 ELSE IF a = "warning" THEN 1 ELSE 0

\* After the commit, escalate_or_create_alert or resolve_active_by_dedup.  (That
\* looking for the active alert and inserting one are two statements is modelled
\* in WatchdogPipeline.)
Signal(w) ==
    /\ at[w] = "alert"
    /\ LET grade == IF After(w) <= 0 THEN "critical" ELSE "warning"
           low   == delta[w] < 0 /\ After(w) <= Reorder
       IN alert' = IF Reorder = 0 THEN alert
                   ELSE IF low /\ Rank(grade) > Rank(alert) THEN grade
                   ELSE IF Recovered(w) THEN "none" ELSE alert
    /\ last' = number[w]
    /\ jumbled' = (jumbled \/ number[w] # last + 1)
    /\ Goto(w, "idle")
    /\ UNCHANGED <<rows, ledger, lock, request, stale>>

\* Alerting is best-effort: its failure is logged and the movement stands.
SignalFails(w) ==
    /\ at[w] = "alert"
    /\ Goto(w, "idle")
    /\ UNCHANGED <<rows, ledger, lock, alert, request, history>>

Next ==
    \E w \in Workers :
        \/ \E r \in Routes, d \in Deltas : Begin(w, r, d)
        \/ Peek(w) \/ LockLevel(w) \/ CreateLevel(w) \/ TwoRows(w) \/ RefuseMovement(w)
        \/ AppendMovement(w) \/ Commit(w) \/ NumberTaken(w) \/ Signal(w)
        \/ SignalFails(w)

Spec == Init /\ [][Next]_vars

-----------------------------------------------------------------------------
(* Properties *)

\* The sums of the first n numbers of s, for every n, and the last of them
Sums(s) == LET to[n \in 0 .. Len(s)] == IF n = 0 THEN 0 ELSE to[n - 1] + s[n] IN to
Total(s) == Sums(s)[Len(s)]

Booked == Total([i \in DOMAIN ledger |-> ledger[i].by])
OnHand == Total(rows)

\* Quantities are never negative, neither in a level row (the check constraint
\* never has to refuse) nor in the ledger; a request holds at most the one lock.
TypeOK ==
    /\ rows \in Seq(Nat)
    /\ \A i \in DOMAIN ledger : ledger[i].by \in Deltas /\ ledger[i].balance \in Nat
    /\ lock \in Workers \cup {NoWorker} /\ alert \in {"none", "warning", "critical"}
    /\ at \in [Workers -> {"idle", "peek", "lock", "guard", "flushed", "alert"}]
    /\ lock # NoWorker => at[lock] \in {"guard", "flushed"}

\* The level rows hold the sum of all movements, and, while the product has its
\* one level row, balance_after makes the ledger replayable: each movement starts
\* from the balance the one before it left.  Whatever requests race for the row,
\* only a level loaded before it was locked can make them drift apart.
DriftNeedsStaleLevel ==
    \/ stale
    \/ /\ OnHand = Booked
       /\ Len(rows) = 1 => \A i \in DOMAIN ledger :
            ledger[i].balance = ledger[i].by + IF i = 1 THEN 0 ELSE ledger[i - 1].balance

\* Once every request is over, an active alert stands for a product that is low,
\* and a product an outflow has left low has one; unless an alert step, which runs
\* after its commit, has failed or been overtaken by a later movement's.
AlertsFollowStock ==
    LET quiet == \A w \in Workers : at[w] = "idle"
        inTurn == ~jumbled /\ last = Len(ledger)
    IN quiet /\ inTurn /\ ~stale /\ Len(rows) = 1 /\ Reorder > 0 =>
        /\ alert # "none" => rows[1] <= Reorder
        /\ ledger[Len(ledger)].by < 0 /\ rows[1] <= Reorder => alert # "none"

-----------------------------------------------------------------------------
(* What the repository says and the code does not do *)

\* inventory/service.py: "SELECT ... FOR UPDATE serialises every writer for this
\* product, so the read-guard-write below is atomic": the level is the projection
\* of the ledger.
StockIsSumOfMoves == OnHand = Booked
=============================================================================
