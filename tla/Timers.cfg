SPECIFICATION FairSpec
CONSTANTS
    MaxTimers = 3
    MaxReloads = 1
INVARIANTS
    SafeBeforeReload
    ProtectedWhileNeeded
PROPERTIES
    IntervalClearIsFinal
    ImplementsTimerService
    EveryTimerResolves
    ClosedInTheEnd
CHECK_DEADLOCK FALSE
