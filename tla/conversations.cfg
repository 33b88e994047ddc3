SPECIFICATION ConversationSpec
CONSTANTS
    PlannerEnabled = TRUE
    MaxReplans = 2
    Tasks = {t1, t2}
    Fleet = {"A", "D", "G", "J"}
    TargetChoices <- MCTargetChoices
    MayFindNothing = {"A"}
    Requests <- MCRequests
    Keyword <- MCKeyword
    Checkpointing = TRUE
    RecursionLimit = 25
    RouteCacheMax = 1
    MaxFailures = 1
    MaxKills = 1
INVARIANTS AnswerIsWhole SummaryCoversAll NoRework
PROPERTIES CompletedIsFinal EventuallyAnswered
CHECK_DEADLOCK FALSE
