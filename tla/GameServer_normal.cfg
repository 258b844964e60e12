CONSTANTS
    Clients = {c1, c2}
    GameIds = {g1, g2}
    Nobody = Nobody
    NoGame = NoGame
    Capacity = 2
    MaxActor = 3
    Grace = 1
    EmptyTtl = 1
    Liberties = {}
SPECIFICATION Spec
SYMMETRY Symmetric
INVARIANTS
    SeatsMatchSessions
    RostersAgree
PROPERTY
    ImplementsMembership
