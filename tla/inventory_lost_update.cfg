SPECIFICATION Spec
CONSTANTS
    Workers = {w1, w2}
    NoWorker = nobody
    Routes = {"api", "agent"}
    Deltas <- MCDeltas
    Reorder = 1
    MaxMoves = 4
INVARIANT StockIsSumOfMoves
