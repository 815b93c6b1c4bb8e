SPECIFICATION FairSpec
CONSTANTS
    MaxFrames = 4
    Rounds = 2
INVARIANTS
    EveryFrameIsAccountedFor
    EncodedInOrder
    FlagsOutliveMapping
PROPERTIES
    StopReturns
\* The program ends.
CHECK_DEADLOCK FALSE
