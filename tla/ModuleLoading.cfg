CONSTANTS
    Module = {e, a, b}
    Entry = e
    Host = host
    MaxLoads = 2
SPECIFICATION Spec
INVARIANTS ExecutedOnce OneExportsObject
CHECK_DEADLOCK FALSE
