SPECIFICATION Spec
CONSTANTS
    s = s
    a = a
    b = b
    c = c
    g = g
    j = j
    w = w
    e = e
    r1 = r1
    r2 = r2
    k1 = k1
    k2 = k2
    None = None
    Nodes = {s, a, b, c, g, w, e}
    Edges <- ForkEdges
    Start = s
    Type <- ForkType
    Guarded <- ForkGuards
    Default <- ForkDefault
    TimerAction <- ForkTimers
    Requests = {r1, r2}
    Sweepers = {k1, k2}
    Allowed = {"sendback", "hold", "cancel", "pause", "adhoc"}
    MaxRows = 4
    MaxTimers = 3
    MaxRestarts = 1
    MaxAsked = 3
INVARIANTS
    TypeOK
    NoDuplicateWork
    TimerActsOnce
    WorkRemains
    ActiveIsOpen
    CancelLeavesNothing
SYMMETRY Slots
CHECK_DEADLOCK FALSE
