SPECIFICATION USpec
CONSTANTS
    Table <- MCTable
    Record <- MCRecord
    TableOf <- MCTableOf
    Field <- MCField
    Value <- MCValue
    Resolve <- MCResolve
    LookUp <- MCLookUp
    None = None
    Astray = Astray
    MaxBatches = 4
    MaxCommented = 1
    r1 = r1
    r2 = r2
    c1 = c1
    main = main
    copy = copy
    cell = cell
    v1 = v1
    v2 = v2
PROPERTIES
    WalksEditHistory
CHECK_DEADLOCK FALSE
