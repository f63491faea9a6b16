SPECIFICATION ESpec
CONSTANTS
    Field <- MCField
    Record <- MCRecord
    View <- MCView
    Primary <- MCPrimary
    Choice <- MCChoice
    Type <- AllTypes
    Written <- TextsAndLists
    Offered <- Offers
    Other = Other
    Empty = Empty
    Null = Null
    NoKey = NoKey
    None = None
    Keep = Keep
    MaxBatches = 4
    MaxUnlogged = 0
    title = title
    tag = tag
    r1 = r1
    v1 = v1
    red = red
INVARIANTS
    CellsFitType
PROPERTIES
    WalksFieldHistory
CHECK_DEADLOCK FALSE
