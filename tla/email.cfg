SPECIFICATION EmailSpec
CONSTANTS
    MailEvents = {approval}
    Invoices = {i1}
    Mandatory = {}
    TwoIds = {approval}
    Flushers = {f1, f2}
    Operators = {o1}
    MailBatch = 2
    MailRetries = 2
    DueSoonDays = 1
    OverdueDays = {1, 2}
    DueDay = 1
    LastDay = 3
    MaxMails = 2
    MaxDeaths = 1
INVARIANTS RepeatsNeedFaults LadderClimbs
PROPERTY EventuallySettled
CHECK_DEADLOCK FALSE
