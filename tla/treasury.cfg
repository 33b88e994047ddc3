SPECIFICATION Spec
CONSTANTS
    w1 = w1  w2 = w2
    baraka = baraka  chao = chao
    Workers = {w1, w2}
    Users = {baraka, chao}
    Null = Null
    Role <- MCRole
    cash = cash  mpesa = mpesa
    Vaults = {cash, mpesa}
    Bills = {"b1"}
    Amounts = {1}
    Fees = {0, 1}
    MaxPaid = 1  MaxSpent = 1  MaxMoved = 2
SYMMETRY Symmetry
INVARIANTS BurnsOnce AuditTellsTheTruth
PROPERTIES OverdrawnOnlyByLateExpenses
CHECK_DEADLOCK FALSE
