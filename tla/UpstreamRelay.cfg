CONSTANTS
    talker = talker
    dribbler = dribbler
    Clients = {talker, dribbler}
    Nobody = Nobody
    Hosts = {h1}
    Unresolved = Unresolved
    HeaderSize = 1
    PacketSize = 3
    Timeout = 2
    Window = 1
    MaxSent <- Pieces
SPECIFICATION FairSpec
INVARIANTS
    TypeOK
    Verbatim
    PeekingBounded
PROPERTIES
    Accepted
    BothEnd
    LastWordsDelivered
CHECK_DEADLOCK FALSE
