SPECIFICATION FairDelivery
CONSTANTS
    Files = {f1}
    Shippers = {daemon, drain}
    Daemons = {daemon}
    DryRun = {}
    RsyncDryRun = {}
    Contents = {c1}
    content <- SameContent
    Scanners = {loop, api}
    ScanLoops = {loop}
    ScanFaults = {"move", "crash"}
    MaxFaults = 2
    Nobody = Nobody
CHECK_DEADLOCK FALSE
INVARIANTS
    DeliveryTypeOK
    NotDestroyed
    NeverDropped
PROPERTIES
    ImplementsHandOff
    
