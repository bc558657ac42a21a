SPECIFICATION Spec
CONSTANTS
    u1 = u1
    u2 = u2
    u3 = u3
    t1 = t1
    t2 = t2
    t3 = t3
    role = role
    None = None
    Approvers = {u1, u2, u3}
    Teams = {t1, t2, t3}
    TeamsOf <- OwnTeam
    Roles = {role}
    Targets = {u1, role}
    Implicit = FALSE
    OwnerTeams = {t3}
    ClaimOwner = None
    Mode = "QUORUM"
    Minimum = 2
    PostStep = TRUE
    Requests = {1, 2}
    Faults = {"overlap", "sendback", "delegate", "cancel", "server"}
INVARIANTS
    TypeOK
    MarksFollowVotes
PROPERTIES
    ImplementsGate
CHECK_DEADLOCK FALSE
