SPECIFICATION Spec
CONSTANTS
    c1 = c1
    c2 = c2
    c3 = c3
    Cves = {c1, c2, c3}
    Place <- MCPlace
    PageSize = 1
    Lookback = 2
    MaxTime = 5
INVARIANTS TypeOK LossIsBounded CoveredIsKnown
