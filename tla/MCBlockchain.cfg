CONSTANTS
    hG = hG  hA1 = hA1  hA2 = hA2  hB1 = hB1  hB2 = hB2  hB3 = hB3
    hA3 = hA3  hC1 = hC1  hC2 = hC2
    hBad = hBad  hOrphan = hOrphan  hUnknown = hUnknown
    NoHash = NoHash
    Peers = {p1}
    None = None
    Candidates <- MCCandidates
    Genesis <- MCGenesis
SPECIFICATION NodeSpec
CHECK_DEADLOCK FALSE
INVARIANTS TypeOK IndexDense SyncStateSound
PROPERTIES LedgerSpec RoundEnds
