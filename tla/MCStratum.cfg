CONSTANTS
    None = None
    Conns = {x1, x2}
    Methods = {"mining.submit", "mining.subscribe"}
    MaxReqs = 1
SPECIFICATION FairSpec
INVARIANTS TypeOK ClientsTracked
PROPERTIES RequestAnswered
CHECK_DEADLOCK FALSE
