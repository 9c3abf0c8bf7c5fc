CONSTANTS
    MaxInt = 8
    NoList = NoList
    Quiet = Quiet
    Names <- MCNames
    Cves <- MCCves
    Documents <- MCDocuments
    Packages <- MCPackages
    Imported <- MCImported
    Versions <- MCVersions
SPECIFICATION Spec
INVARIANT TypeOK
INVARIANT VerdictFollowsDocument
INVARIANT CandidatesComplete
INVARIANT StoredVerdictStands
INVARIANT OrderIsKeyOrder
PROPERTY UpdateNeverReexposes
