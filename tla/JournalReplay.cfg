CONSTANTS
    Clients = {c1, c2}
    Labels = {l1}
    Values = {v1}
    Nothing = Nothing
    NoLabel = NoLabel
    StreamIds = {s1, s2}
    Workload = {"upsert", "register", "deregister", "notify", "process", "pageTree", "fullTree"}
    MaxJournalSize = 2
    MaxOps = 3
    MaxRestarts = 1
SPECIFICATION Spec
SYMMETRY Symmetry
INVARIANTS
    TypeOK
    JournalIsTailOfLog
    

    
CHECK_DEADLOCK FALSE
