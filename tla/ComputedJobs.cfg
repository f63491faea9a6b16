SPECIFICATION Spec
CONSTANTS
    Job <- MCJob
    Worker <- MCWorker
    Backend <- MCBackend
    BackendOf <- MCBackendOf
    None = None
    MaxTime = 2
    j1 = j1
    j2 = j2
    w1 = w1
    w2 = w2
    w3 = w3
    backend = backend
    other = other
SYMMETRY Symmetry
INVARIANTS
    TypeOK
    ExclusiveClaim
    NoOvertaking
PROPERTIES
    ReopenedByRaceOnly
CHECK_DEADLOCK FALSE
