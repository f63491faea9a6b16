SPECIFICATION Spec
CONSTANTS
    Call <- MCCall
    Program <- MCProgram
    ProgramOf <- MCProgramOf
    Cell <- MCCell
    Statements <- MCStatements
    Transactional <- MCTransactional
    Nobody = Nobody
    b1 = b1
    b2 = b2
    o1 = o1
    o2 = o2
    backend = backend
    other = other
    row1 = row1
    fts1 = fts1
    row2 = row2
INVARIANTS
    TypeOK
    OwnCallsNeverContend
PROPERTIES
    CallsAreAtomic
CHECK_DEADLOCK FALSE
