CONSTANTS
    Clients = {c1, c2}
    GameIds = {g1}
    Nobody = Nobody
    NoGame = NoGame
    Capacity = 2
    MaxActor = 2
    Grace = 1
    EmptyTtl = 1
    Liberties = {"reuse"}
SPECIFICATION Spec
PROPERTY
    GraceHonoured
