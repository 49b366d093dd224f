SPECIFICATION Spec
CONSTANTS
    Receipts = {1, 2, 3}
    k1 = k1
    Nothing = Nothing
    MaxBin = 1
    MaxSynced = 1
    Drafts <- MCDrafts
CHECK_DEADLOCK FALSE
INVARIANTS
    TypeOK
    OriginalsRemain
    OverrideHolds
    
