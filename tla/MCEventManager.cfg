CONSTANTS
    MAX_EVENTS = 3
    NULL = NULL
    Fds = {0, 3, 4, 5}
    Callbacks = {cb}
    Data = {d}
    Masks <- MCMasks
    Reports <- MCReports
SPECIFICATION Spec
INVARIANTS TypeOK TableCoherent CapacityExact
PROPERTY ImplementsRegistry
CHECK_DEADLOCK FALSE
