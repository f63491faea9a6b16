SPECIFICATION Spec
CONSTANTS
    Field <- MCField
    Record <- MCRecord
    View <- MCView
    Primary <- MCPrimary
    Choice <- MCChoice
    Type <- Types
    Written <- Red
    Offered <- Offers
    Other = Other
    Empty = Empty
    Null = Null
    NoKey = NoKey
    None = None
    Keep = Keep
    MaxBatches = 2
    MaxUnlogged = 1
    title = title
    tag = tag
    r1 = r1
    v1 = v1
    red = red
INVARIANTS
    TypeOK
    DeletedFieldRecoverable
    PrimaryActive
CHECK_DEADLOCK FALSE
