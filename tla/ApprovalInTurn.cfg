SPECIFICATION Spec
CONSTANTS
    u1 = u1
    u2 = u2
    u3 = u3
    t1 = t1
    t2 = t2
    t3 = t3
    role = role
    None = None
    Approvers = {u1, u2, u3}
    Teams = {t1, t2, t3}
    TeamsOf <- OwnTeam
    Roles = {role}
    Targets = {u1, t2, t3}
    Implicit = FALSE
    OwnerTeams = {}
    ClaimOwner = None
    Mode = "ALL_REQUIRED"
    Minimum = 0
    PostStep = FALSE
    Requests = {1, 2}
    Faults = {"delegate", "cancel"}
INVARIANTS
    SomebodyMayVote
    EnoughApprovers
    HeldMeansShort
CHECK_DEADLOCK FALSE
