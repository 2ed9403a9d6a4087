CONSTANTS
    c1 = c1  c2 = c2  c3 = c3  l1 = l1  l2 = l2
    Loops <- MCLoops
    None = None
    Callers <- MCCallers
SPECIFICATION FairSpec
INVARIANTS TypeOK NoLoopAfterStop
PROPERTIES WorkerTerminates
