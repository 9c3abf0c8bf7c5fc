SPECIFICATION Spec
CONSTANTS
    r1 = r1
    r2 = r2
    t1 = t1
    t2 = t2
    Requests <- MCRequests
    Valid <- MCRequests
    Handlers <- MCHandlers
    MaxSkew = 1
    NonceTTL = 2
    MaxClock = 6
INVARIANTS TypeOK RememberedThroughTTL PunctualDuplicateAtEdges
SYMMETRY Symmetry
