SPECIFICATION ProcessSpec
CONSTANTS
    Attempts = {"a", "b"}
    MaxInflight = 2
    None = "none"
    Root = 1
    MaxId = 4
    Capacities <- TwoCapacities
    Batch = 1
    MaxLoad = 5
    MaxDrops = 1
    Accounts = {"P", "A", "B"}
    Line <- Family
    MaxInflightOps <- TwoCalls
    MaxSpent <- ParentTight
    Ceilings = {2}
    Costs = {0, 1, 2}
    Calls = {c1, c2, c3}
INVARIANTS
    FirstDecisionWins
    TableSound
    ExactAccounts
PROPERTIES
    NoCallAfterCompletion
