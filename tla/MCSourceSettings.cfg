SPECIFICATION Spec
CONSTANTS
    h1 = h1
    h2 = h2
    nvd = nvd
    kev = kev
    f1 = f1
    k1 = k1
    k2 = k2
    Handlers <- MCHandlers
    Sources <- MCSources
    Keyed = {nvd}
    Fields = {f1}
    ApiKeys = {k1, k2}
    NoKey = NoKey
    Keep = Keep
    Clear = Clear
    NoRow = NoRow
INVARIANTS TypeOK LoggedWasSaved
PROPERTIES BlankKeepsKeyAlone KeyNeedsEntry
SYMMETRY Symmetry
