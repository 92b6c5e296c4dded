SPECIFICATION FairSpec
CONSTANTS
    Turns = {t1, t2, t3}
    Free = Free
    Orphan = Orphan
    LeaseOutlivesTurn = TRUE
    MaxUpdates = 2
INVARIANTS OneTurnInside CopyIsCurrent
PROPERTIES NoLostUpdate ImplementsSerialSession EveryRequestEnds
