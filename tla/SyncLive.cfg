SPECIFICATION FairSpec
CONSTANTS
    Receipts = {r1}
    Workers = {w1}
    Accounts = {a1}
    Sigs = {s1, s2}
    TxnIds <- OneToThree
    Qualities = {"ready", "ungated"}
    Modes <- EveryFlag
    Settings = {"live", "dry", "off"}
    Faults = {"lost"}
    MaxVer = 2
    MaxSyncs = 2
    None = None
CHECK_DEADLOCK FALSE
INVARIANTS
    OneJobPerReceipt
PROPERTIES
    NoSilentRecreate
    SyncingEnds
