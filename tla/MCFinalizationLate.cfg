SPECIFICATION Spec
CONSTANTS
    None = "none"
    Requests = {"R"}
    Actors = {"A"}
    Parent <- RequestAndActor
    Finalizers <- OneEach
    Hosts = {"h"}
    Outcomes = {"Failed"}
    Openers = {"cleanup"}
    MaxFaults = 0
INVARIANTS
    NoLateInstallation
CHECK_DEADLOCK FALSE
