SPECIFICATION Spec
CONSTANTS
    Executions <- CleanupRaces
    BindingSlots = {"x"}
    Unit = "unit"
    Replies <- TwoReplies
    Contexts = {"outer", "inner"}
    RootContext = "outer"
    Truth <- MCTruth
    Pair <- MCPair
    ErrorValue <- MCErrorValue
    None = None
CHECK_DEADLOCK FALSE
PROPERTIES
    RaceAlwaysKeepsFirst
