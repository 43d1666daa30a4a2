CONSTANTS
    main = main
    task = task
    Apps = {main, task}
    Tasks = {task}
    Commands <- StopStatsRestart
    MaxThreads = 2
    MaxScripts = 1
    AppScripts <- StartOnly
    EstablishedScripts <- InHandler
    ClosedScripts <- InClosed
    SwitchOnTwice = TRUE
    BadConfigs = {main}
    Subscribed <- Both
SPECIFICATION Spec
INVARIANTS ClientInControl OnlyOvertakenCallsCrash
PROPERTIES ImplementsLifecycle StopCloses SwitchCompletes
CHECK_DEADLOCK FALSE
