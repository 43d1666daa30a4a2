CONSTANTS
    main = main
    task = task
    Apps = {main}
    Tasks = {}
    Commands <- Never
    MaxThreads = 4
    MaxScripts = 4
    AppScripts <- StartOnly
    EstablishedScripts <- Nothing
    ClosedScripts <- Nothing
    SwitchOnTwice = FALSE
    BadConfigs = {main}
    Subscribed <- Both
SPECIFICATION Safety
INVARIANTS OneSession
CHECK_DEADLOCK FALSE
