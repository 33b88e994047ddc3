SPECIFICATION Spec
CONSTANTS
    r1 = r1   l1 = l1  i1 = i1  i2 = i2
    h1 = h1  h2 = h2  b1 = b1  b2 = b2
    Receipts = {r1}  Lines = {l1}
    Invoices <- MCInvoices
    Users = {amina, baraka}
    Handlers = {h1, h2}
    Runs = {b1, b2}
    Callbacks <- MCCallbacks
    Amount <- MCAmount
    Total <- MCTotal
    Ref <- MCRef
    Alike <- MCAlike
    Tolerance = 1
    TxnBatch = 2
    Allowlist = TRUE  Secret = TRUE
    MaxProposals = 3
    Null = Null
SYMMETRY Symmetry
INVARIANTS BatchSeesCurrentRows ProposalsAreBounded ReportTellsTheTruth
CHECK_DEADLOCK FALSE
