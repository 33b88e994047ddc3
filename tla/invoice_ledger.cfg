SPECIFICATION Spec
CONSTANTS
    Invoices = {inv}
    Workers = {w1, w2}
    Totals = {2}
    Amounts = {1, 2}
    Settlements = {s1}
    SettledAmount <- MCSettledAmount
    Updates <- MCUpdates
    Emailable = {inv}
    SnapshotInterval = 2
    MaxEvents = 4
    MaxResends = 1
    NoOne = NoOne
SYMMETRY WorkerSymmetry
INVARIANTS
    LockedReadIsCurrent
    RowEqualsFold
    SettlementSpentOnce
PROPERTIES ImplementsAccount CancelledIsFrozen
