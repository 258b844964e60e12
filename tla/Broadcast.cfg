CONSTANTS
    Clients = {c1, c2, c3}
    NoKey = NoKey
    Encrypted = TRUE
    MaxEvents = 2
    MaxUpdates = 2
    Updaters = {c1}
SPECIFICATION Spec
SYMMETRY Symmetric
INVARIANTS
    EventsInOrder
    PropertiesConverge
    ModePreserved
CHECK_DEADLOCK FALSE
