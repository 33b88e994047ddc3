SPECIFICATION Spec
CONSTANTS
    Handlers = {h1, h2}
    MaxAttempts = 2
    TickPerSecond = 2
    MaxClock = 2
    MaxTokens = 2
    MaxResets = 2
INVARIANTS SuccessorsNeedOverlap OldSessionsNeedOverlap GuessesAreBounded LinkUsesNeedOverlap
SYMMETRY Symmetry
CHECK_DEADLOCK FALSE
