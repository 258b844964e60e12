CONSTANTS
    PayloadBytes <- SerializePayload
    ReadPayload <- DeserializePayload
    Sessions <- AllSessions
    ChunkSizes = {14}
    Prime = 1009
    Base = 22
    Private <- PrivateKeys
    PublicKey <- PublicOf
    SharedKey <- SharedOf
    Times <- UptimeAndTime
    MaxPings = 1
SPECIFICATION Spec
INVARIANTS
    ReadAsSent
    InSync
    ClientStaysOnProxy
CHECK_DEADLOCK FALSE
