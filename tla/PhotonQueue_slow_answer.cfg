CONSTANTS
    Soft = 2
    Hard = 5
    Habits <- OnlySlow
    MaxData = 1
    MaxWire = 4
    MaxTorn = 3
SPECIFICATION Spec
INVARIANT
    FramingDeterministic
