CONSTANTS
    None = None
    Conns = {x1, x2}
    Methods = {"mining.submit", "mining.subscribe"}
    MaxReqs = 1
SPECIFICATION FairSpec
PROPERTY StopReturns
CHECK_DEADLOCK FALSE
