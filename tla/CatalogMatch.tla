----------------------------- MODULE CatalogMatch -----------------------------
(***************************************************************************)
(* From an advisory to a verdict: a distribution's document is parsed      *)
(* (internal/feed/distro.go), its rows are stored one by one               *)
(* (UpsertAffectedPackages), and an installed package is matched with the  *)
(* table (matchSnapshotFindings) whatever has been stored by then.         *)
(*                                                                         *)
(* No source that buildSources wires parses these documents yet; a source  *)
(* that does returns what the parser returns (FetchResult), and SyncOnce   *)
(* stores it as here.  Rows of other means may be in the table too.  One   *)
(* sync runs at a time here; runs that overlap are in FeedSync.            *)
(***************************************************************************)
EXTENDS PackageMatch, DistroFeeds

CONSTANTS Names,       \* of CVEs, packages, sources, distributions; "" for none
          Documents,   \* [id, source, body, ...], editions share an id
          Packages,    \* inventory rows as MatchPackage sees them
          Imported,    \* rows the table may hold from elsewhere
          Versions,    \* the versions the orders are compared on
          Quiet        \* no sync is running

VARIABLES rows,        \* affected_packages
          pending,     \* rows of the sync that runs, not stored yet
          fetched,     \* its document
          complete,    \* for each id, what must stand of its last whole sync
          package      \* a package of the inventory
vars == <<rows, pending, fetched, complete, package>>

(* What encoding/json hands to the parsers: text where there should be any,*)
(* and for a version or a release its bytes.                               *)
HoldsText(d) ==
    \/ /\ d.source = "debian"
       /\ \A e \in d.body : /\ {e.cve, e.name} \union DOMAIN e.releases \subseteq Names
                          /\ \A c \in DOMAIN e.releases : e.releases[c].fixed \in Strings
    \/ /\ d.source = "alpine"
       /\ d.release \in Seq(Strings) /\ d.repository \in Names
       /\ \A p \in d.body : p.name \in Names /\ DOMAIN p.secfixes \subseteq Strings
    \/ /\ d.source = "ubuntu"
       /\ d.body.id \in Names /\ {d.body.upstream, d.body.aliases} \subseteq Seq(Names)
       /\ \A a \in d.body.affected :
             /\ {a.name, a.codename} \subseteq Names
             /\ a.ecosystem \in Seq(Seq(Strings)) /\ a.events \in Seq(Strings)
             /\ a.versions \in (SUBSET Strings) \union {NoList}
    \/ /\ d.source = "redhat"
       /\ \A a \in d.body : /\ a.cves \subseteq Names
                          /\ \A p \in a.packages : /\ p.name \in Names
                                                   /\ {p.version, p.release} \subseteq Strings

(* The columns of affected_packages that matter here.                      *)
AffectedPackages ==
    [source : Names, distro : Names, release : Seq(Strings), codename : Names,
     cve : Names, name : Names, sourceName : Names, fixed : Strings,
     versions : (SUBSET Strings) \union {NoList}, repository : Names]
Storable(row) == row.versions # NoList

(* The columns of the inventory's packages that MatchPackage looks at.     *)
InstalledPackages ==
    [source : Names, name : Names, version : Strings, sourceName : Names,
     sourceVersion : Strings, distro : Names, like : SUBSET Names,
     release : Seq(Strings), codename : Names]

ASSUME QuietAssumption == Quiet \notin Documents
ASSUME NamesAssumption ==
    Cves \union {"", "debian", "alpine", "ubuntu", "redhat", "rhel"} \subseteq Names
ASSUME DocumentsAssumption == \A d \in Documents : HoldsText(d)
ASSUME ImportedAssumption ==
    Imported \subseteq AffectedPackages /\ \A row \in Imported : Storable(row)
ASSUME PackagesAssumption == Packages \subseteq InstalledPackages
ASSUME VersionsAssumption == Versions \subseteq Strings

Ids == {d.id : d \in Documents}

Parse(d) ==
    CASE d.source = "debian" -> ParseDebianTracker(d.body)
      [] d.source = "alpine" -> ParseAlpineSecDB(d.body, d.release, d.repository)
      [] d.source = "ubuntu" -> ParseUbuntuOSVDocument(d.body)
      [] d.source = "redhat" -> ParseRedHatCSAFList(d.body)

(* A row as the matcher reads it: a nil slice has no elements.             *)
AsRead(row) == [row EXCEPT !.versions = IF @ = NoList THEN {} ELSE @]

(* affected_packages_source_identity_idx                                   *)
Key(row) == <<row.cve, row.source, row.distro, row.release, row.codename,
              row.name, row.fixed, row.repository>>

(* ON CONFLICT: nothing is taken away by a row that does not say it.       *)
Merged(old, row) ==
    [old EXCEPT !.sourceName = IF row.sourceName # "" THEN row.sourceName ELSE @,
                !.versions = IF row.versions # {} THEN row.versions ELSE @]

(* A bug for comparison: ON CONFLICT DO NOTHING.                           *)
UpsertedOnce(table, row) ==
    IF \E old \in table : Key(old) = Key(row) THEN table ELSE table \union {row}

Upserted(table, row) ==
    LET same == {old \in table : Key(old) = Key(row)}
    IN  (table \ same) \union
            (IF same = {} THEN {row} ELSE {Merged(old, row) : old \in same})

(* Another row with the key of r brings a list of its own: r's list goes.  *)
Restates(row, r) ==
    /\ Key(row) = Key(r)
    /\ row.versions # {}
    /\ ~(r.versions \subseteq row.versions)
Undisputed(table, said) == {r \in table : ~\E row \in said : Restates(row, r)}

Init == /\ rows \in SUBSET Imported
        /\ pending = {}
        /\ fetched = Quiet
        /\ complete = [id \in Ids |-> {}]
        /\ package \in Packages

(* A sync begins: the document is parsed, and what it said before is open. *)
Fetch(d) ==
    /\ fetched = Quiet
    /\ fetched' = d
    /\ pending' = Parse(d).affected
    /\ complete' = [complete EXCEPT ![d.id] = {}]
    /\ UNCHANGED <<rows, package>>

(* A bug for comparison: a row that cannot be stored is taken as stored.   *)
UpsertRowAsIs(row) ==
    /\ row \in pending
    /\ rows' = rows \union {row}
    /\ pending' = pending \ {row}
    /\ UNCHANGED <<fetched, complete, package>>

(* upsertAffectedPackage, one statement and one commit for each row.       *)
UpsertRow(row) ==
    /\ row \in pending
    /\ Storable(row)
    /\ rows' = Upserted(rows, row)
    /\ pending' = pending \ {row}
    /\ complete' = [id \in Ids |-> Undisputed(complete[id], {row})]
    /\ UNCHANGED <<fetched, package>>

(* A statement fails and UpsertAffectedPackages ends there, or the process *)
(* stops.  A row with a nil slice can only fail: affected_versions is NOT  *)
(* NULL, and pgx writes a nil slice as NULL.                               *)
SyncFails ==
    /\ fetched # Quiet
    /\ fetched' = Quiet
    /\ pending' = {}
    /\ UNCHANGED <<rows, complete, package>>

SyncDone ==
    /\ fetched # Quiet
    /\ pending = {}
    /\ fetched' = Quiet
    /\ complete' = [complete EXCEPT ![fetched.id] =
                       Undisputed(Parse(fetched).affected, Parse(fetched).affected)]
    /\ UNCHANGED <<rows, pending, package>>

(* The host reports another version, or another package is looked at.      *)
Install(p) ==
    /\ package' = p
    /\ UNCHANGED <<rows, pending, fetched, complete>>

Next == \/ \E d \in Documents : Fetch(d)
        \/ \E row \in pending : UpsertRow(row)
        \/ SyncFails
        \/ SyncDone
        \/ \E p \in Packages : Install(p)

Spec == Init /\ [][Next]_vars

(* The CVEs a package is flagged for, as matchSnapshotFindings finds them. *)
Flagged(p, table) ==
    {row.cve : row \in {r \in AffectedCandidates({p}, table) : MatchPackage(p, r)}}

-----------------------------------------------------------------------------
(* References the code is compared with.                                   *)

At(k, i) == IF i <= Len(k) THEN k[i] ELSE 0

(* The numbers dpkg's ordering gives the bytes of a part: a tilde before   *)
(* the end, the end before letters, letters before the rest; runs of       *)
(* digits by value.  Rpm: separators apart, numbers after letters.  Apk:   *)
(* the end of a part before every byte, a number where its digits are.     *)
Weight(c) == IF c = Tilde THEN -1 ELSE IF c \in Letters THEN c ELSE c + 256
DebianKey[s \in Strings] ==
    LET text == Prefix(s, NonDigits)
        number == Prefix(After(s, NonDigits), Digits)
    IN  IF s = <<>> THEN <<>>
        ELSE [i \in DOMAIN text |-> Weight(text[i])] \o <<0, Value[number]>>
                 \o DebianKey[DebianRest(s)]

RPMKey[s \in Strings] ==
    LET letters == Prefix(s, RPMAlpha)
        digits == Prefix(s, Digits)
    IN  IF s = <<>> THEN <<>>
        ELSE IF letters # <<>> THEN <<1>> \o letters \o <<0>> \o RPMKey[After(s, RPMAlpha)]
        ELSE IF digits # <<>> THEN <<2, Value[digits]>> \o RPMKey[After(s, Digits)]
        ELSE RPMKey[Tail(s)]

NaturalKey[s \in Strings] ==
    LET text == Prefix(s, NonDigits)
        digits == Prefix(s, Digits)
    IN  IF s = <<>> THEN <<>>
        ELSE IF text # <<>> THEN [i \in DOMAIN text |-> text[i] + 1] \o <<0>>
                                     \o NaturalKey[After(s, NonDigits)]
        ELSE <<49, Value[digits]>> \o NaturalKey[After(s, Digits)]

Keys(source, v) ==
    LET e == SplitEpoch(v)
        r == SplitRevision(e.rest)
    IN  IF source \in DebianSources
        THEN <<<<e.epoch>>, DebianKey[r.upstream], DebianKey[r.revision]>>
        ELSE IF source \in RPMSources THEN <<<<e.epoch>>, RPMKey[e.rest]>>
        ELSE <<NaturalKey[v]>>

KeyCompare(source, v, w) ==
    LET k == Keys(source, v)
        l == Keys(source, w)
        differ == {i \in DOMAIN k : LexCompare(At, k[i], l[i]) # 0}
    IN  IF differ = {} THEN 0 ELSE LexCompare(At, k[Min(differ)], l[Min(differ)])

(* Epochs so far apart that the int the code subtracts them to wraps: then *)
(* it has them the wrong way round.  Only a negative one is ever so far.   *)
EpochsOverflow(source, v, w) ==
    /\ source \in DebianSources \union RPMSources
    /\ ~InInt(SplitEpoch(v).epoch - SplitEpoch(w).epoch)
Unsigned(v) == SplitEpoch(v).epoch >= 0

(* What an advisory is about is the source package, when it is named, and  *)
(* for rpm the build, whose version is the installed one.                  *)
AdvisedVersion(p, name) ==
    IF p.source # "rpm" /\ p.sourceName = name /\ p.sourceVersion # <<>>
    THEN p.sourceVersion ELSE p.version

(* What a document, read by a person, says to the holder of a package:     *)
(* the CVE, the name of the package it affects, and the fixed version or   *)
(* the affected ones.  The release of a Red Hat build names the            *)
(* distribution it is for: build.el.                                       *)
Says(cve, name, fixed, versions) ==
    [cve |-> cve, name |-> name, fixed |-> fixed, versions |-> versions]

DebianSays(entries, p) ==
    {Says(e.cve, e.name, e.releases[p.codename].fixed, {}) :
        e \in {f \in entries :
                 /\ p.distro = "debian"
                 /\ p.codename \in DOMAIN f.releases
                 /\ f.releases[p.codename].status \notin {"not-affected", "undetermined"}}}

AlpineSays(packages, release, p) ==
    UNION {{Says(cve, q.name, v, {}) : v \in {w \in DOMAIN q.secfixes : cve \in q.secfixes[w]}} :
              cve \in Cves,
              q \in {r \in packages : p.distro = "alpine" /\ p.release = release}}

UbuntuSays(doc, p) ==
    UNION {{Says(cve, a.name, fixed, a.versions) : fixed \in Range(a.events) \union {<<>>}} :
        cve \in Cves \intersect (Range(doc.upstream) \union Range(doc.aliases) \union {doc.id}),
        a \in {b \in doc.affected : p.distro = "ubuntu" /\ p.release \in Range(b.ecosystem)}}

RedHatSays(advisories, p) ==
    UNION {{Says(cve, build.name, build.version \o <<Hyphen>> \o build.release, {}) :
               cve \in a.cves \ {NoCve},
               build \in {b \in a.packages : IsRHELCompatibleDistro(p) /\ b.el = p.release[1]}} :
           a \in advisories}

Said(d, p) ==
    CASE d.source = "debian" -> DebianSays(d.body, p)
      [] d.source = "alpine" -> AlpineSays(d.body, d.release, p)
      [] d.source = "ubuntu" -> UbuntuSays(d.body, p)
      [] d.source = "redhat" -> IF p.source = "rpm" THEN RedHatSays(d.body, p) ELSE {}

IsFix(v) == v \notin {<<>>, <<48>>} /\ v[1] # Less

Applies(t, p) ==
    /\ p.source \in {"dpkg", "rpm", "apk"}
    /\ t.name # "" /\ t.name \in {p.name, p.sourceName}
    /\ \/ t.versions # NoList /\ AdvisedVersion(p, t.name) \in t.versions
       \/ /\ IsFix(t.fixed)
          /\ KeyCompare(p.source, AdvisedVersion(p, t.name), t.fixed) < 0

Advised(d, p) == {t.cve : t \in {s \in Said(d, p) : Applies(s, p)}}

(* The versions of a package that have all their parts: the source of an   *)
(* rpm may be named without its epoch or its release.                      *)
Whole(p) ==
    {p.version} \union
        IF \/ p.sourceVersion = <<>>
           \/ HasEpoch(p.version) /\ ~HasEpoch(p.sourceVersion)
           \/ HasRelease(p.version) /\ ~HasRelease(p.sourceVersion)
        THEN {} ELSE {p.sourceVersion}

(* The numbers of the releases a build is tagged with, el9 or el9_2.       *)
Tags(v) ==
    LET tagged(i, j) == /\ v[i] = 101 /\ v[i + 1] = 108 /\ \A k \in i + 2 .. j : v[k] \in Digits
                        /\ i = 1 \/ v[i - 1] \in Separator
                        /\ j = Len(v) \/ v[j + 1] \in Separator
    IN  {SubSeq(v, e[1] + 2, e[2]) :
            e \in {f \in (1 .. Len(v)) \X (1 .. Len(v)) : f[1] + 2 <= f[2] /\ tagged(f[1], f[2])}}

(* What the parsers and MatchPackage count on.  A document for Ubuntu is   *)
(* about one CVE, each of its packages about one release, and its fixes    *)
(* ascend; a Red Hat build is tagged with the release it is for and no     *)
(* other; releases have names; no epoch is negative.  The host tells its   *)
(* release, and an rpm's source has the rpm's version, if it has a whole   *)
(* one.                                                                    *)
DebianPlain(entries, p) ==
    /\ p.codename # ""
    /\ \A e \in entries : /\ "" \notin DOMAIN e.releases
                          /\ \A c \in DOMAIN e.releases : Unsigned(e.releases[c].fixed)

AlpinePlain(packages, release, p) ==
    /\ <<>> \notin {release, p.release}
    /\ \A q \in packages : \A v \in DOMAIN q.secfixes : Unsigned(v)

OneRelease(ecosystem) ==
    \E r \in Range(ecosystem) : \A part \in Range(ecosystem) : IsRelease(part) <=> part = r
Ascends(source, events) ==
    \A i, j \in DOMAIN events :
        i < j /\ IsFix(events[i]) /\ events[j] # <<>> =>
           IsFix(events[j]) /\ KeyCompare(source, events[i], events[j]) <= 0
UbuntuPlain(doc, p) ==
    /\ IsRelease(p.release)
    /\ doc.id \in Cves \union {""}
    /\ \A c, e \in Cves \intersect (Range(doc.upstream) \union Range(doc.aliases) \union {doc.id}) :
          c = e
    /\ \A a \in {b \in doc.affected : b.name # ""} :
          /\ OneRelease(a.ecosystem)
          /\ p.release \in Range(a.ecosystem) /\ "" \notin {a.codename, p.codename} =>
                a.codename = p.codename
          /\ Ascends(p.source, a.events)
          /\ \A v \in Range(a.events) : Unsigned(v)

RedHatPlain(advisories, p) ==
    /\ p.release # <<>> /\ p.release[1] # <<>>
    /\ p.distro = "rhel" => p.source = "rpm"
    /\ \A a \in advisories : \A b \in a.packages :
          /\ Tags(b.version \o <<Hyphen>> \o b.release) = IF b.el = <<>> THEN {} ELSE {b.el}
          /\ b.el # <<>> => <<>> \notin {b.version, b.release} /\ b.version[1] # Less
          /\ Unsigned(b.version \o <<Hyphen>> \o b.release)

Plain(d, p) ==
    /\ p.version # <<>>
    /\ Unsigned(p.version) /\ Unsigned(p.sourceVersion)
    /\ p.source = "rpm" => Whole(p) = {p.version}
    /\ \/ d.source = "debian" /\ DebianPlain(d.body, p)
       \/ d.source = "alpine" /\ AlpinePlain(d.body, d.release, p)
       \/ d.source = "ubuntu" /\ UbuntuPlain(d.body, p)
       \/ d.source = "redhat" /\ RedHatPlain(d.body, p)

-----------------------------------------------------------------------------
(* Properties.                                                             *)

(* What is stored are rows of text that hold a list of versions, a nil     *)
(* slice never; a sync runs for one document at a time.                    *)
TypeOK ==
    /\ rows \subseteq AffectedPackages /\ \A row \in rows : Storable(row)
    /\ fetched \in Documents \union {Quiet}
    /\ pending \subseteq (IF fetched = Quiet THEN {} ELSE Parse(fetched).affected)
    /\ complete \in [Ids -> SUBSET AffectedPackages]
    /\ package \in Packages

(* CompareDistroVersion (vuln/version.go) compares any two versions as     *)
(* their keys compare, tildes, separators, leading zeros, empty parts and  *)
(* epochs at the limits of an int included, and exactly the other way      *)
(* round where the difference of the epochs is no int.  The order depends  *)
(* on the package's source alone: it is checked where nothing is stored    *)
(* and no sync runs, which every package is in.                            *)
OrderIsKeyOrder ==
    rows = {} /\ fetched = Quiet => \A v, w \in Versions :
        LET source == package.source
        IN  CompareDistroVersion(source, v, w) =
                IF EpochsOverflow(source, v, w) THEN 0 - KeyCompare(source, v, w)
                ELSE KeyCompare(source, v, w)

(* The rows of a document of the form the parsers count on flag a package  *)
(* for exactly the CVEs the document says it has: parsers and MatchPackage *)
(* agree on names, releases, source versions and what a fixed version is.  *)
VerdictFollowsDocument ==
    fetched # Quiet /\ Plain(fetched, package) =>
        Flagged(package, {AsRead(row) : row \in Parse(fetched).affected})
            = Advised(fetched, package)

(* The query of affectedCandidates (store/ctops.go) leaves out no row that *)
(* MatchPackage would match.                                               *)
CandidatesComplete ==
    {row \in rows : MatchPackage(package, row)} \subseteq AffectedCandidates({package}, rows)

(* While a document whose last sync was whole is the latest of its id,     *)
(* what it says of the package is flagged, whatever editions, imports and  *)
(* syncs of others left in affected_packages, up to the rows that others   *)
(* have restated.                                                          *)
StoredVerdictStands ==
    \A id \in Ids : Flagged(package, complete[id]) \subseteq Flagged(package, rows)

(* With the same rows, a package that only goes up in version is flagged   *)
(* for nothing it was not flagged for, except where the new version is     *)
(* listed: a host that updates cannot gain a finding from the order, nor   *)
(* from MatchPackage's choice between an rpm's two versions, as long as    *)
(* none of the whole versions it reports is below one it reported before.  *)
(* Negative epochs are excepted, of a package and of a fix: the order has  *)
(* a circle through them.                                                  *)
Listed(p, table) == {row.cve : row \in {r \in table : p.version \in r.versions
                                                   \/ p.sourceVersion \in r.versions}}
NotLower(p, q) ==
    LET notAbove(v, w) == KeyCompare(p.source, v, w) <= 0
    IN  /\ q = [p EXCEPT !.version = q.version, !.sourceVersion = q.sourceVersion]
        /\ p.version # <<>>
        /\ \A v \in {p.version, p.sourceVersion, q.version, q.sourceVersion} : Unsigned(v)
        /\ IF p.source = "rpm" THEN \A v \in Whole(p), w \in Whole(q) : notAbove(v, w)
           ELSE /\ p.sourceVersion = <<>> <=> q.sourceVersion = <<>>
                /\ notAbove(p.version, q.version)
                /\ notAbove(p.sourceVersion, q.sourceVersion)
Signed(table) == {row.cve : row \in {r \in table : ~Unsigned(r.fixed)}}
UpdateNeverReexposes ==
    [][rows' = rows /\ NotLower(package, package') =>
         Flagged(package', rows) \subseteq Flagged(package, rows) \union Listed(package', rows)
                                              \union Signed(rows)]_vars
=============================================================================
