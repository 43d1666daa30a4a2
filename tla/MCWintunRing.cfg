CONSTANTS
    p1 = p1 p2 = p2
    Packet = {p1, p2}
    Size <- SmallAndLarge
    Nothing = Nothing
    Capacity = 14
    Trailing = 6
    Align = 2
    Header = 2
    Invalid = 99
    MaxSessions = 2
SPECIFICATION Spec
INVARIANTS NoFalseAlarm OneReader
PROPERTIES ImplementsQueues ReadsAll DriverReadsOn
CHECK_DEADLOCK FALSE
