CONSTANTS
    Clients = {c1, c2}
    Nobody = Nobody
    MaxPackets = 2
SPECIFICATION FairSpec
INVARIANTS
    TypeOK
    NoLostWakeup
PROPERTIES
    PacketsHandled
    ClosedForgotten
