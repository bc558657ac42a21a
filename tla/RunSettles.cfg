SPECIFICATION FairSpec
CONSTANTS
    s = s
    d = d
    f = f
    a = a
    h = h
    j = j
    e = e
    r1 = r1
    r2 = r2
    None = None
    Nodes = {s, d, f, a, h, j}
    Out <- ChildOut
    Type <- ChildType
    Rank <- ChildRank
    First = d
    Prefix = {s}
    Requests = {r1}
    Worker = worker
    Kinds = {"pause", "resume", "cancel", "resolve", "force"}
    Outcomes = {"complete", "ask", "diff", "seek", "fail", "throw"}
    MaxAsked = 2
    MaxWaits = 3
    MaxStops = 1
PROPERTIES
    RunsSettle
CHECK_DEADLOCK FALSE
