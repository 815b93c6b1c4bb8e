SPECIFICATION FairSpec
CONSTANTS
    Timers = {t1}
    Sessions = {s1}
    Requests = {r1}
    MaxFrameCalls = 3
INVARIANTS
    ProtectedWhileQueued
PROPERTIES
    CalledInOrder
    EveryFrameRuns
    IdleProgramEnds
CHECK_DEADLOCK FALSE
