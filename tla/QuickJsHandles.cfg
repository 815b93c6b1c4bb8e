CONSTANTS
    Box = {h1, h2, h3}
    Object = {o1, o2}
    NoObject = NoObject
    MaxRefs = 3
    MaxNesting = 3
SPECIFICATION QuickSpec
INVARIANTS BoxesAreAllocated KeptObjectsExist
CHECK_DEADLOCK FALSE
SYMMETRY BoxSymmetry
