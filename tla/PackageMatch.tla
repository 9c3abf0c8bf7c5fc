----------------------------- MODULE PackageMatch -----------------------------
(***************************************************************************)
(* MatchPackage (internal/vuln/matcher.go, types.go): does a row of        *)
(* affected_packages flag an installed package?  And affectedCandidates    *)
(* (internal/store/ctops.go), the query that picks the rows it is asked    *)
(* about.                                                                  *)
(*                                                                         *)
(* Names are strings, "" for none, in lower case where the code folds      *)
(* case.  Versions are sequences of bytes, a release such as 9.7 is the    *)
(* sequence of its components; <<>> is none.                               *)
(***************************************************************************)
EXTENDS VersionOrder

(* isRHELCompatibleDistro                                                  *)
RHELCompatible == {"rhel", "redhat", "redhatenterpriseserver", "almalinux",
                   "rocky", "centos", "ol", "oraclelinux", "miraclelinux"}
IsRHELCompatibleDistro(pkg) ==
    pkg.distro \in RHELCompatible \/ "rhel" \in pkg.like

RHELRowForRPM(pkg, row) ==
    pkg.source = "rpm" /\ row.distro = "rhel" /\ IsRHELCompatibleDistro(pkg)

DistroMatches(pkg, row) == pkg.distro = row.distro \/ RHELRowForRPM(pkg, row)

(* A major release of RHEL stands for the minor releases of its family.    *)
DistroVersionMatches(pkg, row) ==
    \/ pkg.release = row.release
    \/ /\ RHELRowForRPM(pkg, row)
       /\ Len(row.release) = 1
       /\ IsStrictPrefix(row.release, pkg.release)

PackageNameMatches(pkg, row) ==
    /\ row.name # ""
    /\ \/ pkg.sourceName = row.name
       \/ pkg.name = row.name
       \/ (row.sourceName # "" /\ pkg.sourceName = row.sourceName)

HasEpoch(v) == Colon \in Range(v)
HasRelease(v) == Hyphen \in Range(v)

(* A bug for comparison: only a missing release is looked at.              *)
BestRPMVersionByRelease(installed, source) ==
    IF source = <<>> \/ (~HasRelease(source) /\ HasRelease(installed))
    THEN installed ELSE source

(* The source's version, unless it lacks a part the installed one has.     *)
BestRPMVersionForMatch(installed, source) ==
    IF \/ source = <<>>
       \/ (~HasRelease(source) /\ HasRelease(installed))
       \/ (~HasEpoch(source) /\ HasEpoch(installed))
    THEN installed ELSE source

SourceVersionForMatch(pkg, row) ==
    IF pkg.sourceName # row.name \/ pkg.sourceVersion = <<>> THEN pkg.version
    ELSE IF pkg.source = "rpm"
         THEN BestRPMVersionForMatch(pkg.version, pkg.sourceVersion)
         ELSE pkg.sourceVersion

Concerns(pkg, row) ==
    /\ pkg.source \in {"dpkg", "rpm", "apk"}
    /\ row.distro # "" => DistroMatches(pkg, row)
    /\ row.release # <<>> /\ pkg.release # <<>> => DistroVersionMatches(pkg, row)
    /\ row.codename # "" /\ pkg.codename # "" => pkg.codename = row.codename
    /\ PackageNameMatches(pkg, row)

MatchPackage(pkg, row) ==
    LET installed == SourceVersionForMatch(pkg, row)
    IN  /\ Concerns(pkg, row)
        /\ installed # <<>>
        /\ \/ installed \in row.versions
           \/ /\ row.fixed # <<>>
              /\ CompareDistroVersion(pkg.source, installed, row.fixed) < 0

(* A bug for comparison: the query looks at package_name alone.            *)
CandidatesByPackageName(packages, rows) ==
    LET names == (UNION {{p.name, p.sourceName} : p \in packages}) \ {""}
    IN  {r \in rows : r.name \in names}

AffectedCandidates(packages, rows) ==
    LET names == (UNION {{p.name, p.sourceName} : p \in packages}) \ {""}
    IN  {r \in rows : r.name \in names \/ r.sourceName \in names}
=============================================================================
