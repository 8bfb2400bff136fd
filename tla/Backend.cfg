SPECIFICATION Spec
CONSTANTS
    Labels <- ThreeLabels
    Names <- ChildName
    Nothing = Nothing
    MaxVersionSequence = 3
    Authors = {a1, a2}
    Listeners = {x1}
    Workload = {"upsert", "delete", "transact", "create"}
    MaxWrites = 2
INVARIANTS StaleTransactionRejected ExactListenersCurrent NotifiedOnlyInRule
CONSTRAINT Focus
SYMMETRY Symmetry
