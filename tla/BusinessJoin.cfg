SPECIFICATION Spec
CONSTANTS
    s = s
    a = a
    b = b
    c = c
    g = g
    j = j
    w = w
    e = e
    r1 = r1
    r2 = r2
    k1 = k1
    k2 = k2
    None = None
    Nodes = {s, a, c, j, e}
    Edges <- JoinEdges
    Start = s
    Type <- JoinType
    Guarded = {}
    Default <- NoDefault
    TimerAction <- NoTimer
    Requests = {r1, r2}
    Sweepers = {k1}
    Allowed = {}
    MaxRows = 2
    MaxTimers = 0
    MaxRestarts = 0
    MaxAsked = 3
INVARIANTS
    JoinsForward
CHECK_DEADLOCK FALSE
