CONSTANTS
    c1 = c1  c2 = c2  i1 = i1  i2 = i2
    None = None
    Conns <- MCConns
    Ids <- MCIds
    ClockRepeats = FALSE
    MaxMsgs = 2
    Priorities <- MCPriorities
    WritePriority = 1
SPECIFICATION NodeSpec
INVARIANTS  MessageAccounted
PROPERTIES  EventuallyWritten
CHECK_DEADLOCK FALSE
