SPECIFICATION FairSpec
CONSTANTS
    h1 = h1
    h2 = h2
    p1 = p1
    p2 = p2
    v1 = v1
    c1 = c1
    s1 = s1
    s2 = s2
    s3 = s3
    src = src
    Hosts <- MCHosts
    Packages <- MCPackages
    Versions <- MCVersions
    Cves <- MCCves
    Sources = {src}
    Affected <- MCAffected
    Snapshots <- MCSnapshots
    Content <- MCContent
    NoRow = NoRow
    Handlers = {t1, t2}
    Nobody = Nobody
INVARIANTS TypeOK OpenFindingHasPackage StaleReadStands
PROPERTIES ImplementsLedger EveryRequestAnswered
