SPECIFICATION FairSpec
CONSTANTS
    e1 = e1
    e2 = e2
    c1 = c1
    r1 = r1
    q1 = q1
    None = None
    Executors = {e1, e2}
    Capabilities = {c1}
    Runs = {r1}
    Requests = {q1}
    CapabilityOf <- MCCapabilityOf
    Faults = {"network"}
INVARIANTS
    ExclusiveExecution
PROPERTIES
    OrphansAreRecovered
    OwnedQueueDrains
CHECK_DEADLOCK FALSE
