CONSTANTS
    Handle = {h1, h2, h3, h4}
    Function = {f1}
    MaxDepth = 2
SPECIFICATION Spec
INVARIANTS KeptHandlesAreLive HandlesInUseAreLive DeletedOnce
PROPERTIES FrameReleasesAll
CHECK_DEADLOCK FALSE
SYMMETRY HandleSymmetry
