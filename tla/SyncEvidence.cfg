SPECIFICATION Spec
CONSTANTS
    Receipts = {r1}
    Workers = {w1}
    Accounts = {a1}
    Sigs = {s1, s2}
    TxnIds <- OneToThree
    Qualities = {"ready", "invalid"}
    Modes <- DefaultAndForce
    Settings = {"live"}
    Faults = {"crash", "lost", "restart", "duplicate", "enqueue"}
    MaxVer = 2
    MaxSyncs = 2
    None = None
SYMMETRY Alike
CHECK_DEADLOCK FALSE
INVARIANTS
    TypeOK
    OneTxnPerReceipt
    SyncedHasEvidence
PROPERTIES
    EvidenceKept
