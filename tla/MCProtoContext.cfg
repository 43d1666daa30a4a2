CONSTANTS
    Client = Client
    Server = Server
    None = None
    NoKey = NoKey
    KeyIdMask = 3
    MaxKeys = 3
    Limits = {FALSE, TRUE}
SPECIFICATION Safety
INVARIANTS KeysAgree KeyedWhenActive HandshakeNeverStuck
PROPERTIES FreshKeyIsKept
CHECK_DEADLOCK FALSE
