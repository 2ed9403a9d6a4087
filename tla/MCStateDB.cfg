CONSTANTS
    None = None
    Addrs = {a1}
    Keys = {k1}
    Vals = {v0, v1}
    ZeroVal = v0
    Codes = {c1}
    Nonces = {1}
    BalanceBound = 1
    MaxSnaps = 1
SPECIFICATION Spec
CHECK_DEADLOCK FALSE
INVARIANTS TypeOK AccountReadsSeeWrites RootCacheFresh
