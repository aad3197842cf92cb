SPECIFICATION MCSpec
CONSTANTS
    Executions <- MCExecutions
    BindingSlots = {"x"}
    Unit = "unit"
    Replies <- TwoReplies
    Contexts = {"outer", "inner"}
    RootContext = "outer"
    Truth <- MCTruth
    Pair <- MCPair
    ErrorValue <- MCErrorValue
    None = None
    Nil = Nil
    Declarations <- MCDeclarations
    Windows = {0, 1}
    EventIds = {1, 2}
    Payloads = {1, 2}
    Streams = {1, 2}
    MaxSeq = 2
    LastEpoch = 6
    StreamLimit = 2
    Batch = 1
    SourceSetups <- MCSourceSetups
CHECK_DEADLOCK FALSE
INVARIANTS
    StructuredTasks
    CancelledNeverSucceeds
    RecordsAgree
    RetryIsDuplicate
PROPERTIES
    CleanupAlwaysStarts
    OnlyItsAnswerResumes
    RaceKeepsFirst
    Terminates
    CancelCompletes
    ImplementsEventLog
    ExpiredLeave
