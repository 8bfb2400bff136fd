CONSTANTS
    Clients = {c1, c2}
    Labels = {l1}
    Values = {v1, v2}
    Nothing = Nothing
    NoLabel = NoLabel
    StreamIds = {s1, s2}
    Workload = {"upsert", "delete", "register"}
    MaxJournalSize = 4
    MaxOps = 3
    MaxRestarts = 0
SPECIFICATION FairSpec
INVARIANTS
    LiveNodesCurrent
    DeletedNodesGone
PROPERTY
    EventuallyCurrent
