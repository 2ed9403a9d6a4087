CONSTANTS
    c1 = c1
    c2 = c2
    k1 = k1
    k2 = k2
    k3 = k3
    v1 = v1
    v2 = v2
    None = None
    Clients <- MCClients
    Keys <- MCOneKey
    Vals <- MCVals
    SizeOf <- MCSizeOf
    Capacity = 2
    DiskCap = 3
SPECIFICATION Spec
INVARIANT
    NoResurrection
