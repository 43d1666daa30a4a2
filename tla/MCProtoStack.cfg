CONSTANTS
    Client = Client
    Server = Server
    Tls = {c1, c2, c3}
    Reset = Reset
    NoMsg = NoMsg
    NoPkt = NoPkt
    SendWindow = 2
    RecvWindow = 2
    AckV1Max = 2
    ControlMax = 1
    Stream <- ThreeAndNone
    c1 = c1 c2 = c2 c3 = c3 s1 = s1
    Duplicates = TRUE
    MaxFlight = 2
SPECIFICATION Safety
INVARIANTS WindowsAgree OrderedExactlyOnce DroppedOnlyWhenReceived NoAckOwedWhenIdle NeverBeyondWindow
CHECK_DEADLOCK FALSE
