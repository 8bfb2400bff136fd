SPECIFICATION FairSpec
CONSTANTS
    Threads = {t1, t2}
    Workers = {t1}
    Listeners = {x1, x2}
    NoOne = NoOne
    Workload = {"write", "register", "deregister", "notify"}
    MaxCalls = 5
INVARIANTS TypeOK QuietAfterDrain
PROPERTY CallsReturnUnlessLockedOut
CHECK_DEADLOCK FALSE
