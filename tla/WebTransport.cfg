CONSTANTS
    ClientBidi = {cb}
    ClientUni = {}
    ServerBidi = {}
    ServerUni = {su}
    MaxUnits = 1
SPECIFICATION FairSpec
INVARIANTS ReadInOrder WrittenInOrder SessionsAgree
PROPERTY ClosedIsSettled
CHECK_DEADLOCK FALSE
