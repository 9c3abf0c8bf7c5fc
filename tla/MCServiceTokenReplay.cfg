SPECIFICATION Spec
CONSTANTS
    r1 = r1
    r2 = r2
    t1 = t1
    t2 = t2
    Requests = {r1}
    Valid = {r1}
    Handlers = {t1}
    MaxSkew = 1
    NonceTTL = 2
    MaxClock = 2
PROPERTY AcceptedOnce
