SPECIFICATION Spec
CONSTANTS
    u1 = u1
    u2 = u2
    u3 = u3
    Ids = {p1}
    Users = {u1, u2, u3}
    NoUser = nobody
    CanReview <- MCCanReview
    Payloads = {x, y}
    MaxFaults = 2
SYMMETRY PayloadSymmetry
INVARIANTS
    WrittenAtMostOnce
    WroteWhatWasProposed
PROPERTY DecisionsAreFinal
