SPECIFICATION Spec
CONSTANTS
    Emails = {e1, e2, e3}
    Registrations = {g1, g2}
    KeyConfigured = TRUE
    CsrfEnabled = TRUE
    Sections = {"classifier", "auditor"}
    Payloads <- MCPayloads
    Environment <- MCEnvironment
    Processes = {p1}
    Refreshers = {r1, r2}
    RateKeys = {"vat_rate"}
    Days = {1, 2, 3}
    Rates = {14, 16}
    MaxWrites = 2
    MaxAttempts = 4
    PricingEntries <- MCPricingEntries
    Hmm <- MCHmm
    Log <- MCLog
    Period = 30
    Bankability <- MCBankability
    Horizon = 12
    Drafts <- MCDrafts
    Confidences = {60, 70}
    MaxRows = 2
    StockTuning <- MCStockTuning
    StockConfidences = {60, 70}
    MaxReorderItems = 1
    OcrFloor = 60
    ClassifierBatch = 50
    Requests <- MCRequests
    Entries = {1, 2, 3}
    Workers = {w1, w2}
    BatchSize = 2
    VcEnforced = TRUE
    Customers = {c1, c2}
    MinSamples = 5
    MaxSamples = 6
    MaxSaves = 2
    Threads = {t1, t2}
    MaxCheckpoints = 2
INVARIANTS JobsLoseNothing InForceIsOneTable EveryoneWasLetIn FiguresStand AgentsAreLicensed UnavailableMeansAllFailed
SYMMETRY Symmetry
CHECK_DEADLOCK FALSE
