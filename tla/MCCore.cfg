SPECIFICATION CoreSpec
CHECK_DEADLOCK FALSE
CONSTANTS
    Capacity = 3
    MaxGeneration = 2
    Owners = {o1, o2}
    Resources = {r1}
    Methods = {m1}
    None = None
    MaxIssued = 4
    RingSize = 3
    Items = {"a", "b"}
    Ends = {"done", "failed"}
    Empty = Empty
    Tasks = {t1, t2, t3}
    Frames = {f1, f2}
    Size = 4
    MaxDepth = 3
    Vacant = Vacant
CONSTRAINT IssuedBound
SYMMETRY Symmetry
INVARIANTS
    ChildCount
PROPERTIES
    KeysIssuedOnce
    ImplementsDelegation
    ImplementsFifo
    ImplementsStacks
