SPECIFICATION FairSpec
CONSTANTS
    nvd = nvd
    kev = kev
    c1 = c1
    p1 = p1
    high = high
    unknown = unknown
    Sources <- MCSources
    Rank <- MCRank
    Cves <- MCCves
    Packages <- MCPackages
    Severities = {unknown, high}
    Unknown = unknown
    LastModified = 2
    Editions <- MCEditions
    NoRecord = NoRecord
INVARIANTS TypeOK SucceededIsInCatalog OwnDatesStand ForeignKeysHold
PROPERTY EnabledIsAttempted
