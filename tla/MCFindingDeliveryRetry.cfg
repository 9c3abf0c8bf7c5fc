SPECIFICATION CalmSpec
CONSTANTS
    t1 = t1
    t2 = t2
    h1 = h1
    p1 = p1
    v1 = v1
    v2 = v2
    c1 = c1
    c2 = c2
    x1 = x1
    x2 = x2
    s1 = s1
    s2 = s2
    Hosts = {h1}
    Packages = {p1}
    Versions <- MCVersions
    Cves <- MCCves
    Sources <- MCSources
    Affected <- OneAffected
    Snapshots = {s1, s2}
    Content <- MCContent
    NoRow = NoRow
    Handlers = {t1}
    MaxBatch = 1
PROPERTY RetryDelivers
