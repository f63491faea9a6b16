SPECIFICATION Spec
CONSTANTS
    Table <- MCTable
    Rows <- MCRows
    None = None
    MaxLockedRetries = 5
    ListsWrite = FALSE
    MaxWrites = 3
    t1 = t1
    t2 = t2
    old = old
    new = new
INVARIANTS
    TypeOK
PROPERTIES
    NoSilentRefresh
    ChangesAreTold
    Settles
CHECK_DEADLOCK FALSE
