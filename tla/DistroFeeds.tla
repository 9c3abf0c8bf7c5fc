------------------------------ MODULE DistroFeeds ------------------------------
(***************************************************************************)
(* The parsers of the distributions' advisories (internal/feed/distro.go): *)
(* from a document to CVE records, here their identifiers, and rows of     *)
(* affected_packages.  A document is what encoding/json makes of it; a     *)
(* JSON object is a function on its keys.  Blanks around values are left   *)
(* out.                                                                    *)
(***************************************************************************)
EXTENDS VersionOrder

CONSTANTS Cves,      \* identifiers that begin with CVE-
          NoList     \* a nil slice: no list of affected versions
ASSUME CvesAssumption == Cves \intersect {"", NoList} = {}

Less == 60                 \* of <unfixed>, <end-of-life>, ...

CleanFixedVersion(v) ==
    IF v = <<>> \/ v = <<48>> \/ v[1] = Less THEN <<>> ELSE v

(* AffectedPackage with the fields a parser sets.                          *)
Row(source, distro, release, codename, cve, name, fixed, versions, repository) ==
    [source |-> source, distro |-> distro, release |-> release,
     codename |-> codename, cve |-> cve, name |-> name, sourceName |-> "",
     fixed |-> fixed, versions |-> versions, repository |-> repository]

(* A release whose status or placeholder says that nothing was fixed.      *)
DebianReleaseCanAffect(status, fixed) ==
    /\ status \notin {"not-affected", "undetermined"}
    /\ fixed # <<>>
    /\ fixed[1] # Less

(* The entries of the tracker, each a package and a CVE.                   *)
ParseDebianTracker(entries) ==
    [records |-> {e.cve : e \in entries},
     affected |->
        UNION {{Row("debian", "debian", <<>>, codename, e.cve, e.name,
                    CleanFixedVersion(e.releases[codename].fixed), NoList, "") :
                   codename \in {c \in DOMAIN e.releases :
                      DebianReleaseCanAffect(e.releases[c].status,
                                             e.releases[c].fixed)}} :
               e \in entries}]

(* Only identifiers of CVEs count; other databases' are listed among them. *)
ParseAlpineSecDB(packages, release, repository) ==
    LET fixes == UNION {{p.name} \X (DOMAIN p.secfixes) \X Cves :
                        p \in {q \in packages : q.name # ""}}
        used == {f \in fixes :
                   /\ CleanFixedVersion(f[2]) # <<>>
                   /\ \E p \in packages : /\ p.name = f[1]
                                          /\ f[2] \in DOMAIN p.secfixes
                                          /\ f[3] \in p.secfixes[f[2]]}
    IN  [records |-> {f[3] : f \in used},
         affected |-> {Row("alpine", "alpine", release, "", f[3], f[1],
                           CleanFixedVersion(f[2]), NoList, repository) : f \in used}]

NoCve == ""
FirstCVE(ids) == LET i == SelectInSeq(ids, LAMBDA id : id \in Cves)
                 IN  IF i = 0 THEN NoCve ELSE ids[i]

(* doc.id: the CVE named by the document's own identifier, or NoCve.       *)
CVEOfDocument(doc) ==
    IF FirstCVE(doc.upstream) # NoCve THEN FirstCVE(doc.upstream)
    ELSE IF FirstCVE(doc.aliases) # NoCve THEN FirstCVE(doc.aliases)
    ELSE doc.id

(* parseUbuntuEcosystem: the first part with one dot and four bytes or     *)
(* more.                                                                   *)
IsRelease(part) == Len(part) = 2 /\ Len(part[1]) + Len(part[2]) + 1 >= 4
ReleaseOf(ecosystem) ==
    LET i == SelectInSeq(ecosystem, LAMBDA part : IsRelease(part))
    IN  IF i = 0 THEN <<>> ELSE ecosystem[i]

(* A bug for comparison: the first fixed event is kept.                    *)
FirstFixed(events) ==
    LET i == SelectInSeq(events, LAMBDA v : v # <<>>)
    IN  IF i = 0 THEN <<>> ELSE events[i]

(* Of several fixed events the last one counts.                            *)
LastFixed(events) ==
    LET i == SelectLastInSeq(events, LAMBDA v : v # <<>>)
    IN  IF i = 0 THEN <<>> ELSE events[i]

ParseUbuntuOSVDocument(doc) ==
    LET cve == CVEOfDocument(doc)
    IN  IF cve = NoCve THEN [records |-> {}, affected |-> {}]
        ELSE [records |-> {cve},
              affected |->
                 {Row("ubuntu", "ubuntu", ReleaseOf(a.ecosystem), a.codename, cve,
                      a.name, CleanFixedVersion(LastFixed(a.events)), a.versions,
                      "") : a \in {b \in doc.affected : b.name # ""}}]

Separator == {Hyphen, 46, 95}

(* rpmELVersionPattern: "el" and a number between separators or ends.  The *)
(* positions at which it matches, and the number at the first of them.     *)
DigitsFrom(v, i) == Span(Drop(v, i - 1), Digits)
ReleaseTags(v) ==
    {i \in 1 .. Len(v) - 2 :
        LET end == i + 2 + DigitsFrom(v, i + 2)
        IN  /\ v[i] = 101 /\ v[i + 1] = 108 /\ v[i + 2] \in Digits
            /\ i > 1 => v[i - 1] \in Separator
            /\ end <= Len(v) => v[end] \in Separator}
RedHatVersionFromFixedEVR(v) ==
    IF ReleaseTags(v) = {} THEN <<>>
    ELSE LET i == Min(ReleaseTags(v)) + 2
         IN  <<SubSeq(v, i, i + DigitsFrom(v, i) - 1)>>

(* splitRedHatFixedPackage: a package without its architecture, at its     *)
(* last two hyphens; what lacks a part is left out.                        *)
SplitRedHatFixedPackage(p) ==
    IF p.name = "" \/ p.version = <<>> \/ p.release = <<>>
    THEN [name |-> "", fixed |-> <<>>]
    ELSE [name |-> p.name, fixed |-> p.version \o <<Hyphen>> \o p.release]

ParseRedHatCSAFList(advisories) ==
    LET split(p) == SplitRedHatFixedPackage(p)
        usable(p) == /\ split(p).name # ""
                     /\ RedHatVersionFromFixedEVR(split(p).fixed) # <<>>
        ids(a) == a.cves \ {NoCve}     \* uniqueNonEmptyStrings
        fixes == UNION {{p \in a.packages : usable(p)} \X ids(a) : a \in advisories}
    IN  [records |-> UNION {ids(a) : a \in advisories},
         affected |->
            {Row("redhat", "rhel", RedHatVersionFromFixedEVR(split(f[1]).fixed), "",
                 f[2], split(f[1]).name, split(f[1]).fixed, NoList, "") : f \in fixes}]
=============================================================================
