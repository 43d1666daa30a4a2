CONSTANTS
    Client = Client
    Server = Server
    Tls = {c1, s1}
    Reset = Reset
    NoMsg = NoMsg
    NoPkt = NoPkt
    SendWindow = 2
    RecvWindow = 2
    AckV1Max = 2
    ControlMax = 1
    Stream <- OneEach
    c1 = c1 c2 = c2 c3 = c3 s1 = s1
    Duplicates = FALSE
    MaxFlight = 1
SPECIFICATION Spec
PROPERTIES ImplementsChannel WindowDrains
CHECK_DEADLOCK FALSE
