SPECIFICATION FairSpec
CONSTANTS
    s1 = s1
    s2 = s2
    p1 = p1
    p2 = p2
    r1 = r1
    r2 = r2
    None = None
    VotePhase = 2
    Sessions = {s1, s2}
    Peers = {p1, p2}
    Requests = {r1, r2}
    MaxItems = 2
    MaxFailures = 1
INVARIANTS
    TypeOK
    PlanIsUnanimous
    ReviewsHavePlans
    OneItemPerSession
PROPERTIES
    VerdictStands
    CancelStopsDebate
    DebateEnds
CHECK_DEADLOCK FALSE
