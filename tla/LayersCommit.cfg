SPECIFICATION LayeredSpec
CONSTANTS
    Labels <- TwoParents
    Names = {}
    Nothing = Nothing
    MaxVersionSequence = 2
    Authors = {}
    Listeners = {}
    Workload = {"upsert", "delete"}
    MaxWrites = 1
    MaxLayers = 4
INVARIANTS LayersTypeOK LayersDisjoint
PROPERTY CommitShowsWhatWasSeen
CHECK_DEADLOCK FALSE
