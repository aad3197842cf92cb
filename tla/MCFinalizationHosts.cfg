SPECIFICATION Spec
CONSTANTS
    None = "none"
    Requests = {"R"}
    Actors = {"A"}
    Parent <- RequestAndActor
    Finalizers <- OneEach
    Hosts = {h, i}
    Outcomes = {"Failed"}
    Openers = {"body", "finalizer"}
    MaxFaults = 0
SYMMETRY HostSymmetry
INVARIANTS
    OneOwner
    FinalizedInOrder
    ClosedTree
CHECK_DEADLOCK FALSE
