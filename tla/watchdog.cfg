SPECIFICATION FairWatchdogSpec
CONSTANTS
    Expenses = {e1}
    Junk = {j1}
    Consumers = {c1, c2}
    MaxDeathCount = 1
    MaxMishaps = 3
INVARIANTS
    NothingIsDropped
    AlertsAreBounded
PROPERTY EventuallyAnalysed
