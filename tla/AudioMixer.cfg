SPECIFICATION FairMixerSpec
CONSTANTS
    Source = {s1, s2}
    Length = 1
    MaxWhen = 1
    MaxCalls = 5
INVARIANTS
    PlayingIsListed
    FreedIsUnlisted
PROPERTIES
    SourcesEnd
\* The program ends.
CHECK_DEADLOCK FALSE
