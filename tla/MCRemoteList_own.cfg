CONSTANTS
    e1 = e1
    e2 = e2
    e3 = e3
    e4 = e4
    h1 = h1
    h2 = h2
    a1 = a1
    a2 = a2
    a3 = a3
    Failed = Failed
    NoList = NoList
    Profile <- FlakyProfile
    Host = {h1, h2}
    Addr = {a1, a2, a3}
    HostOf <- MCHostOf
    Compatible <- MCCompatible
    Answers <- FlakyAnswers
    CacheModes = {TRUE}
    Lifetime = TRUE
    Random = TRUE
SPECIFICATION Safety
INVARIANT OwnAddresses
CHECK_DEADLOCK FALSE
