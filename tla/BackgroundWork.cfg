SPECIFICATION FairWorkSpec
CONSTANTS
    Job = {j1,j2,j3}
    NoJob = NoJob
    MaxRuntimes = 2
INVARIANTS
    ProtectedUntilCalled
    NoWorkForDestroyedRuntime
PROPERTIES
    AcceptedIsAnswered
CHECK_DEADLOCK FALSE
