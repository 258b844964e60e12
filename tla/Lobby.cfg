CONSTANTS
    Clients = {c1}
    GameIds = {g1, g2}
    MaxChanges = 4
    MaxPlayers = 1
    MaxQueue = 1
SPECIFICATION FairSpec
INVARIANTS
    TypeOK
    RowsTrue
    NoneMissedInPlace
PROPERTIES
    ListsConverge
CHECK_DEADLOCK FALSE
