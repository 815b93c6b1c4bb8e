SPECIFICATION FairSpec
CONSTANTS
    MaxTimers = 3
    MaxReloads = 1
INVARIANTS
    ProtectedWhilePending
PROPERTIES
    ImplementsTimerService
    EveryTimerResolves
CHECK_DEADLOCK FALSE
