CONSTANTS
    Clients = {c1}
    Nobody = Nobody
    MaxOps <- Twice
    MaxReplies <- Twice
SPECIFICATION FairSpec
INVARIANTS
    OpsAccounted
    RepliesAccounted
PROPERTIES
    NoReconnect
    EndsTogether
    OpsForwarded
CHECK_DEADLOCK FALSE
