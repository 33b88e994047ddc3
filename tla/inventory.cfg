SPECIFICATION Spec
CONSTANTS
    Workers = {w1, w2}
    NoWorker = nobody
    Routes = {"api", "purchase", "agent"}
    Deltas <- MCDeltas
    Reorder = 1
    MaxMoves = 4
SYMMETRY WorkerSymmetry
INVARIANTS
    DriftNeedsStaleLevel
    AlertsFollowStock
CHECK_DEADLOCK FALSE
