SPECIFICATION Spec
CONSTANTS
    e1 = e1
    c1 = c1
    r1 = r1
    q1 = q1
    None = None
    Executors = {e1}
    Capabilities = {c1}
    Runs = {r1}
    Requests = {q1}
    CapabilityOf <- MCCapabilityOf
    Faults = {"takeover", "release", "suspicion", "restart", "server",
              "network", "overlap"}
INVARIANTS
    TypeOK
    LeaseOnlyWhileRunning
CHECK_DEADLOCK FALSE
