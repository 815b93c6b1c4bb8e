SPECIFICATION FairReloadSpec
CONSTANTS
    MaxSaves = 2
    MaxWatches = 2
INVARIANTS
    NothingMissed
PROPERTIES
    SaveInPlaceIsLoaded
CHECK_DEADLOCK FALSE
