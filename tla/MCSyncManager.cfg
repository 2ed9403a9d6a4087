CONSTANTS
    hG = hG  t1 = t1  t2 = t2  s1 = s1  s2 = s2
    NoHash = NoHash
    ZeroHash = ZeroHash
    None = None
    Genesis <- MCGenesis
    Times <- MCTimes
    Syncs <- MCSyncs
    MaxHeight = 3
    PeerHeights = {3}
    BatchSize = 2
    MaxStarts = 1
SPECIFICATION FairSpec
INVARIANTS TypeOK SyncFlagTracks
PROPERTIES SyncCatchesUp
CHECK_DEADLOCK FALSE
