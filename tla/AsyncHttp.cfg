SPECIFICATION FairSpec
CONSTANTS
    Request = {r1,r2,r3}
    NoRequest = NoRequest
INVARIANTS
    ProtectedUntilAnswered
    AnsweredByShutdown
PROPERTIES
    AnsweredUnlessStranded
CHECK_DEADLOCK FALSE
