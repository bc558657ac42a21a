SPECIFICATION Spec
CONSTANTS
    s = s
    d = d
    f = f
    a = a
    h = h
    j = j
    e = e
    r1 = r1
    r2 = r2
    None = None
    Nodes = {s, d, f, a, h, j, e}
    Out <- ForkOut
    Type <- ForkType
    Rank <- ForkRank
    First = d
    Prefix = {s}
    Requests = {r1}
    Worker = worker
    Kinds = {"pause", "resume", "cancel", "resolve", "delegate", "human", "force"}
    Outcomes = {"complete", "seek", "fail"}
    MaxAsked = 3
    MaxWaits = 2
    MaxStops = 1
INVARIANTS
    TypeOK
    BranchesAreSound
    AllBranchesDone
    WaitingHasItsWait
    StepsFollowRun
    GatesAreApproved
CHECK_DEADLOCK FALSE
