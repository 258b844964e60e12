CONSTANTS
    Soft = 2
    Hard = 5
    Habits <- PromptOrPinging
    MaxData = 2
    MaxWire = 4
    MaxTorn = 2
SPECIFICATION FairSpec
INVARIANTS
    FramingKept
    DeliveredInOrder
    AnsweringClientSurvives
PROPERTIES
    SilentClientClosed
    DataArrives
