SPECIFICATION FairSpec
CONSTANTS
    None = "none"
    Requests = {"R"}
    Actors = {"A"}
    Parent <- RequestAndActor
    Finalizers <- OneEach
    Hosts = {"h"}
    Outcomes = {"Failed"}
    Openers = {}
    MaxFaults = 1
PROPERTIES
    FinalizersOnce
    TreeCleanupEnds
CHECK_DEADLOCK FALSE
