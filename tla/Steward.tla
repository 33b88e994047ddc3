------------------------------ MODULE Steward ------------------------------
(***************************************************************************)
(* Agent K (services/stockkeeper_service.py, tools/inventory_tools.py):    *)
(* figures of the stock, reorder plans, and a requested movement, which is *)
(* refused, proposed, queued for a second person or booked at once.        *)
(* Request: the products with their usage, who asks, and the movement.     *)
(***************************************************************************)
EXTENDS AgentRuns, Permissions

CONSTANTS
    StockTuning,       \* days of lead time, of safety stock, looked back; movements needed
    StockConfidences,  \* of an audit, in hundredths
    MaxReorderItems    \* _MAX_REORDER_ITEMS

INBOUND == {"receipt", "return_in"}

\* _resolve_user_role: the conversation's role, else the account's, else the least.
ResolveUserRole(r, readable) ==
    IF r.contextRole # "none" THEN r.contextRole
    ELSE IF readable /\ r.user # "none" THEN r.user ELSE "viewer"

CanAct(role) == HasPermission(role, "intelligence:act") /\ HasPermission(role, "inventory:write")

-----------------------------------------------------------------------------
(* Figures; usage is what left the stock in the days looked back *)

Covered(p, days) == (p.usage * days) \div StockTuning.lookback

\* reorder_recommendation; cover is the days that the stock lasts.
ReorderPlan(p) ==
    LET point == Max({Covered(p, StockTuning.lead + StockTuning.safety), p.reorderLevel}) IN
    [point |-> point, order |-> p.onHand <= point,
     quantity |-> IF p.reorderQuantity > 0 THEN p.reorderQuantity ELSE point,
     cover |-> IF p.usage = 0 THEN "endless" ELSE (p.onHand * StockTuning.lookback) \div p.usage]

\* demand_forecast, over 1 to 365 days
DemandForecast(p, days) ==
    [amount |-> Covered(p, Max({1, Min({days, 365})})),
     degraded |-> p.moves < StockTuning.history]

\* Only products at or below their own level are planned for, whatever their usage.
LowStock(products) == SelectSeq(products, LAMBDA p : p.onHand <= p.reorderLevel)

Plans(products) ==
    LET low == LowStock(products) IN
    [i \in 1..Min({Len(low), MaxReorderItems}) |-> ReorderPlan(low[i])]

-----------------------------------------------------------------------------
(* The movement *)

NoMovement == [status |-> "none"]
Rejected == [status |-> "rejected"]

Resulting(p, a) ==
    IF a.type = "adjustment" \/ a.type \in INBOUND THEN p.onHand + a.quantity
    ELSE p.onHand - a.quantity

\* Mutant: only what cannot be parsed is refused.
AcceptableUnchecked(p, a) == a.type # "unknown"

\* The gates of propose_stock_movement: a type, a quantity that makes sense, what the
\* type needs besides, and never less than nothing left.
Acceptable(p, a) ==
    /\ a.type # "unknown"
    /\ IF a.type = "adjustment" THEN a.quantity # 0 /\ a.reason
       ELSE a.quantity > 0 /\ (a.type = "receipt" => a.cost)
    /\ Resulting(p, a) >= 0

\* _cove_verify_stock_action: a silent model passes; a write-off, which is negative, never.
Supported(a, verify, model, audit) ==
    \/ ~verify \/ model # "answer"
    \/ audit.supported /\ audit.confidence >= 70 /\ a.quantity > 0 /\ a.reason

\* _queue_adjustment_proposal: what the audit says is a note for the reviewer.
Queued(p, a, supported) ==
    IF Acceptable(p, a)
    THEN [status |-> "pending_approval", flagged |-> ~supported, left |-> Resulting(p, a)]
    ELSE Rejected

\* propose_stock_movement; the service may still refuse what it is asked to book.
Booked(p, a, apply, booked) ==
    IF ~Acceptable(p, a) \/ (apply /\ ~booked) THEN Rejected
    ELSE [status |-> IF apply THEN "applied" ELSE "proposed", left |-> Resulting(p, a)]

\* Mutant: the confirmation alone applies.
AppliesConfirmed(r, role) == r.confirmed

\* Both the operator's authority and the confirmation are needed.
Applies(r, role) == CanAct(role) /\ r.confirmed

\* Where a requested movement ends up; an adjustment is never booked here.
Moved(r, role, model, audit, booked) ==
    LET p == r.products[1]
        a == r.action
    IN IF a.type = "none" THEN NoMovement
       ELSE IF a.type = "adjustment"
       THEN Queued(p, a, Supported(a, r.verify, model, audit))
       ELSE Booked(p, a, Applies(r, role), booked)

\* run_stock_analysis: a silent model leaves a template around the same figures.
Keep ==
    /\ request.kind = "stock"
    /\ \E readable, booked \in BOOLEAN, model \in ModelAnswers,
          audit \in [supported : BOOLEAN, confidence : StockConfidences] :
        LET role == ResolveUserRole(request, readable)
            moved == Moved(request, role, model, audit, booked)
        IN Report([kind |-> "stock", role |-> role, plans |-> Plans(request.products),
                   demand |-> DemandForecast(request.products[1], 30),
                   movement |-> moved, canAct |-> CanAct(role),
                   upstream |-> request.regime, narrative |-> model = "answer"],
                  CASE moved.status = "applied" -> {Effect("K", "stock_movement")}
                    [] moved.status = "pending_approval" -> {Effect("K", "proposal")}
                    [] OTHER -> {})

-----------------------------------------------------------------------------
(* Properties *)

\* The steward never asks for, and never books, what the warehouse cannot give: stock
\* created or destroyed waits for a second person, and what was booked at once was
\* confirmed by somebody with the authority for it.
MovementsAreLicensed ==
    Reported("stock") =>
        LET m == report.movement IN
        /\ m.status \in {"proposed", "pending_approval", "applied"} => m.left >= 0
        /\ m.status = "applied" =>
            /\ request.action.type # "adjustment" /\ request.confirmed
            /\ "inventory:write" \in RolePermissions[report.role]
        /\ m.status = "pending_approval" => request.action.reason
=============================================================================
