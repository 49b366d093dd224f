SPECIFICATION FairSpec
CONSTANTS
    Receipts = {r1, r2}
    Touched = {r1}
    MaxQueue = 1
    MaxFaults = 1
    Nobody = Nobody
CHECK_DEADLOCK FALSE
INVARIANTS
    TypeOK
    ExtractingIsReal
PROPERTIES
    SelfHealing
