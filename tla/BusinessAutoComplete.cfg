SPECIFICATION FairSpec
CONSTANTS
    s = s
    a = a
    b = b
    c = c
    g = g
    j = j
    w = w
    e = e
    r1 = r1
    r2 = r2
    k1 = k1
    k2 = k2
    None = None
    Nodes = {s, a, c, e}
    Edges <- LineEdges
    Start = s
    Type <- LineType
    Guarded = {}
    Default <- NoDefault
    TimerAction <- AutoComplete
    Requests = {r1, r2}
    Sweepers = {k1}
    Allowed = {}
    MaxRows = 2
    MaxTimers = 1
    MaxRestarts = 0
    MaxAsked = 3
PROPERTIES
    TimersAreServed
CHECK_DEADLOCK FALSE
