CONSTANTS
    Clients = {c1, c2}
    GameIds = {g1}
    Nobody = Nobody
    NoGame = NoGame
    Capacity = 2
    MaxActor = 3
    Grace = 1
    EmptyTtl = 1
    Liberties <- UniqueIds
SPECIFICATION FairSpec
INVARIANTS
    TypeOK
    CapacityRespected
    SessionHasSeat
    MarkersAreTrue
PROPERTIES
    SeatsAreKept
    DeadSeatsFreed
    EmptyRoomsReclaimed
