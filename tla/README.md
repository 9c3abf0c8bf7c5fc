# CT-CVE in TLA+

CT-CVE keeps a catalog of vulnerabilities (from NVD and CISA KEV), takes
software inventory from CT Ops as signed snapshots, matches the two, stores
the findings and posts them back to CT Ops. Everything it knows is in one
PostgreSQL database; one Go process serves HTTP requests concurrently and runs
the feed synchronisation in goroutines of its own.

This directory models that program, checks the models with TLC on small
instances and proves what matters most for every instance with TLAPS.

## 1. Inventory of the system

| Component | State | Operations | Hard behaviour | What makes it correct |
|---|---|---|---|---|
| Inventory store (`store/ctops.go`) | `ct_ops_hosts`, `ct_ops_software_packages`, `ct_ops_inventory_snapshots`, `integration_findings` | `ApplyInventorySnapshot`: lookup, upserts, match, resolve, insert response, touch status, commit | READ COMMITTED transactions that overlap, row locks taken in the order of the request's arrays, deadlocks, duplicate requests, lost commit acknowledgements, crashes, feeds that write the catalog meanwhile | a snapshot is applied at once and at most once; no finding stays open on a package that is not there |
| Inventory endpoint (`ctops/handler.go`) | the request's own; `last_error_code`, `response_json` | verify, apply, deliver in batches, record, answer | every call runs under the client's context; posts fail, time out and arrive late; clients retry; the process stops | nothing is posted that was not committed; nothing twice; the answer `none` means delivered |
| Request verification (`ctops/service_token.go`) | `ct_cve_service_nonces` | window check, purge, insert | two statements with a clock reading taken earlier | an accepted request is remembered as long as it could be accepted again, which it is but for the last moment |
| Feed synchronisation (`feed/syncer.go`, `store/postgres.go`) | `cve_records`, `affected_packages`, `feed_source_status` | load sources, fetch, upsert row by row, record result | the startup run and the ticker's run at the same time, partial writes, sources that share rows | a source shown as successful is in the catalog; a failing source starves no other |
| NVD, CISA KEV clients (`feed/nvd.go`, `feed/cisa.go`) | none | fetch and parse, NVD by pages of a 14 day window | a list that changes while it is paged, gaps between windows | what is missed is bounded by what moved |
| Distribution parsers (`feed/distro.go`) | none | parse four advisory formats | each has its own placeholders, identifiers and names of a release; no source wires them yet | the rows say what the advisory says |
| Matching and version order (`vuln/`) | none | `MatchPackage`, `CompareDistroVersion` | RPM, dpkg and apk corner cases | the comparison is a total order, where epochs are not negative; parsers, query and matcher agree on what a row is about |
| Admin console (`gui/handler.go`, `auth/`) | `gui_users`, `gui_sessions`, `feed_source_config`, `operational_logs` | signup, login, logout, save source settings, status page | two signups, read-modify-write of settings, a log entry written apart from the change | one administrator; no setting lost; every change logged |
| Connection health (`ctops/handler.go`) | `ct_ops_connection_status` | record, read | shares its row with the delivery's error fields | - |
| Migrations (`store/postgres.go`) | `schema_migrations` | apply in order, one transaction each | several instances that start at once | each migration applied once, in order |
| Bundle scripts (`deploy/`) | files, containers | start, upgrade | interruption between steps | an interrupted upgrade can be run again |

How they meet: the endpoint calls verification, then the store, then CT Ops,
then the store again; the store reads `affected_packages` and `cve_records`,
which the feeds write without any coordination; the forms of the console decide
which sources the next synchronisation visits; migrations run before any of it.
`PROJECT.json` lists the hazards line by line and the properties that answer
them.

## 2. Modules

| Module | Stands for | Composition |
|---|---|---|
| `Inventory` | the data: snapshots, findings, matching, what a snapshot does to the tables | extended by all connector modules |
| `SnapshotLedger` | what the store promises: a snapshot is applied in one step | the abstract specification |
| `InventoryStore` | `ApplyInventorySnapshot`, statement by statement | implements `SnapshotLedger` (`ImplementsLedger`) |
| `FindingDelivery` | `serveInventorySnapshot` and `deliverFindings` | takes applying as one step, as `InventoryStore` justifies |
| `ServiceToken` | the window check and `RememberNonce` | |
| `FeedSync` | `Run`, `SyncOnce` and the catalog upserts | |
| `NvdFetch` | `NVDSource.Fetch` and what the catalog learns by it | the fetch that is one step of `FeedSync` |
| `VersionOrder` | `CompareDistroVersion`: dpkg, rpm, apk | |
| `PackageMatch` | `MatchPackage`, `affectedCandidates` | extends `VersionOrder` |
| `DistroFeeds` | the parsers of Debian, Alpine, Ubuntu and Red Hat advisories | extends `VersionOrder` |
| `CatalogMatch` | advisory, parser, `affected_packages`, verdict | extends `PackageMatch` and `DistroFeeds` |
| `SourceSettings` | `serveSourceConfig` over `feed_source_config` and `operational_logs` | |
| `AdminAccounts` | signup, login, logout and the redirects of the status pages | |
| `InventoryStoreProofs`, `FindingDeliveryProofs`, `ServiceTokenProofs`, `FeedSyncProofs`, `NvdFetchProofs`, `SourceSettingsProofs`, `AdminAccountsProofs`, `CatalogMatchProofs` | theorems | |
| `MC...` | small instances for TLC | |

Operators commented "A bug for comparison" are not part of any specification:
each is a definition with a plausible mistake, kept beside the right one, and
`PROJECT.json` says which property tells the two apart.

### Correspondence to the code

**Inventory.** All tables of the connector are keyed by the organisation, so one
organisation is modelled. A snapshot's rows are functions on identifiers; the
order of the arrays is any order (`NextRows`, `NextBatches`). The catalog is a
set of rows that flag a package version for a CVE: the join of
`affectedCandidates` with `MatchPackage`. The shipped wiring of sources leaves
`affected_packages` empty (`main.go:92-105`), but `feed.FetchResult`, the store
and the tests allow rows, so the models have them. Nothing else of a row
matters to matching here; the conditions of `MatchPackage` are in `PackageMatch`.

**InventoryStore.** `pc[t]` is the statement a handler's transaction is at:
`lookup` (`getSnapshotResponse`), `write` (the upserts), `resolve`
(`resolveStaleFindings`), `response` (`insertSnapshotResponse`), `status`
(`touchInventoryStatus`), `commit`. Uncommitted writes are not stored: they are
what the snapshot lists for the rows in `lock`; `Commit` makes them visible with
`HostsAfter`, `PackagesAfter` and `FindingsAfter`. A statement that meets a row
another transaction has written waits (`Wait`); when the holder ends it goes on
(`TakeRow`) or, for the plain INSERT, fails on the committed key
(`DuplicateKey`). Finding rows need no lock of their own in the model because
a transaction only touches findings of packages whose rows it has locked; that this
is so is part of the proved invariant's use. `CatalogChange` is one row of a feed
run. `Fail` is any statement error or cancelled context, `Crash` the process.

**SnapshotLedger.** `phase` is the abstraction of `pc`: `idle`, `asked` (before
the catalog was read), `looked` (after). `Apply` may answer `failed`: a commit
whose acknowledgement was lost.

**FindingDelivery.** `pc[h]` follows the handler: `apply`, `deliver` (before a post),
`await` (in `httpClient.Do`), `record` (`RecordFindingDelivery`), `failed`
(the error branch of `serveInventorySnapshot`), `update`, `answer`. `gone` is the cancelled
`r.Context()`: every store call can then only fail. `wire` holds posts the network
still has; a post can fail for its sender and arrive afterwards. Findings are
reported per candidate row, so several sources make several reports of one
finding. `due`, `sent` and `accepted` are history variables. The catalog is fixed
here; `InventoryStore` is where it changes.

A statement that is reported to have failed, to a handler that lost its connection, say, may have
taken effect: `RecordDelivery`, `UpsertFails`, `StoreFails` and `Fail` have the case in their models.

**ServiceToken.** The clock does not go back. `now` is the handler's
reading, used for the window, the purge and the expiry alike; purge and insert are
two steps. Stamps are chosen by senders, whose clocks may be off either way. The unit of time
is the least that the database tells apart, a microsecond.

**FeedSync.** `startup` and `ticker` are the two goroutines that can be in
`SyncOnce` at once. A source publishes editions; a fetch returns the one of its
moment or fails; each row is a step (`upsertCVERecord`, `upsertAffectedPackage`),
`Merge` is the ON CONFLICT clause for the columns the properties tell apart.
`raced` is a history variable. One source dates a CVE (`DatesAssumption`): NVD does,
the records of CISA KEV have no `ModifiedAt`.

**NvdFetch.** `Begin` fixes the window, each `FetchPage` is one request and the delay
after it, and NVD modifies CVEs at any moment. `Place` is the order of NVD's result list,
so that `Index` is what `startIndex` counts. A CVE that is modified while a fetch runs
has a modification time after the window and leaves the list, and those behind it
move up by one: that, not slowness, is how a record is lost. `left`, `since` and `until`
are history variables. One run at a time is modelled; two at a time are `FeedSync`'s.
The dates in the records are read with RFC 3339 (`nvd.go:207-217`), which gives none for a
time without a zone; the catalog's `modified_at` is then NULL, and nothing in the
process reads it to decide what to fetch, so `known` stands for the content of a row.

**VersionOrder.** Versions are sequences of ASCII bytes, because their classes and
order are all the code looks at; in `MCCatalogMatch` they are written as characters.
Loops that eat two strings are recursive functions on the pair of what is left of them: a
`Round` is what one iteration compares, a `Rest` what it leaves. They are functions, not
operators, so that they can be proved about. An epoch is an int: what `strconv.Atoi` refuses as
too large stays in the version (`SplitEpoch`), and `ae - be` wraps around (`Minus`). `MaxInt` is a
constant, so that a run reaches its limits.

**PackageMatch**, **DistroFeeds.** Records with the fields that decide, one operator per
function of the code; case folding and blanks are left out, so names are the folded ones. A
document is what `encoding/json` makes of it. `build.el` in a Red Hat document is a
ghost: it says which major release a build is for, and only `RedHatSays` reads it.
`NoList` is a nil slice, which the matcher reads as an empty list and the store
refuses. No CVE is the empty string (`CvesAssumption`), which stands for a document without one.
`IsRelease` is what `parseUbuntuEcosystem` takes for a release: one dot and at least four bytes.

**CatalogMatch.** `Fetch` parses a document, `UpsertRow` stores one of its rows,
`SyncFails` drops the rest, `SyncDone` ends the sync; `Install` puts another package before
the matcher. One sync runs at a time, `FeedSync` has the overlap of two; rows from elsewhere are
there from the start (`Imported`). `complete` is a history variable: what must stand of the last whole sync of each
document. A row leaves it when another row with its key is stored with a list of versions that
lacks some of its own (`Restates`), for the ON CONFLICT clause keeps the last list; rows of one
document that do this to each other never enter it (`Undisputed`). `HoldsText`,
`AffectedPackages` and `InstalledPackages` are the types of what the parsers, the table and
the inventory hold; `Names` are any texts that the code only compares. `AsRead`, `Merged` and `Key` are the matcher's,
the ON CONFLICT clause's and the unique index's reading of a row. What the verdict is
compared with is written apart from the code: `Says` and its relatives read a document as a person
would, and `KeyCompare` orders versions by mapping each to a sequence of numbers.
`Plain` is the form of a document that the parsers and the matcher count on, and outside which
they do differ from what it says: a document for Ubuntu is about one CVE, each of its packages about one
release, and its fixes ascend (the code keeps the first CVE, the release it finds and the last fix); a Red
Hat build is tagged with the release it is for and with no other; releases have names and
the host tells its own; an rpm's source has the rpm's version or only a part of one; and no epoch
is negative (`Unsigned`), with which the comparison is no order.

**SourceSettings.** A request is at `read` (`effectiveConfig`), `save`
(`UpsertFeedSourceConfig`) or `log` (`RecordOperationalLog`): three statements without
a transaction. `Effective` is `ApplySourceSettings`: a saved row replaces the
environment's setting, its API key even when it is empty. `KeyFromForm` is the key of
`sourceSettingFromForm`; a form that ticks "clear" and enters a key enters it. The
enabled mark, the endpoint and the delay are posted by every form, so they are one
value; the code's rule that an empty endpoint or a zero delay does not replace the
environment's has no case here, because saved rows have neither. `overlapped` and
`written` are history variables. A restart comes with any environment.

**AdminAccounts.** `pc[b]` is what browser `b` shows or the statement its request is
at. The redirects are followed, as browsers do: a request that ends in one is at the
first statement of the page it leads to. CreateUser is two steps, `StartCreate`
(the snapshot that NOT EXISTS reads) and `InsertUser` (the row), because under READ
COMMITTED two of them overlap. A token that no cookie carries can be taken
again when its session has expired: tokens are random and such a row cannot be
told from an absent one. `FindSession` that fails counts as a session that
is not found, as in `currentSession`. `late` is a history variable.

## 3. Runs

| Run | Instance | Shows |
|---|---|---|
| `store` | 2 handlers, 3 snapshots that move, remove and tombstone 2 packages on 2 hosts, changing catalog | no open finding without its package; what was read as stale stands; the ledger is implemented; every request is answered, deadlocks included |
| `delivery` | 2 handlers, 2 snapshots of the same package, batches of two, two candidates for one finding | only committed findings are posted, no match twice, `none` is stored by a handler only after its last batch, an error is cleared only by a delivery |
| `delivery_replay` | 2 handlers | **violated**: CT Ops is told `none` for findings it does not have |
| `delivery_retry` | 1 handler, calm environment | **violated**: a retry for `retry_findings` never delivers |
| `token` | 2 requests, 2 handlers, skew 1, time to live 2, clock to 6 | a nonce is kept for its time to live; without a late handler, a request is accepted again only at the last moment of its window, after the first |
| `token_replay` | 1 request, 1 handler, the same times, clock to 2 | **violated**: a request accepted at the first moment of its window is accepted again at the last |
| `feeds` | 2 runs, 2 sources that share a CVE, 2 editions of NVD, under fairness | a successful source is in the catalog; dates stand; foreign keys hold; an enabled source is attempted for ever |
| `matching` | 4 formats, 7 documents of which 3 are editions of one, 33 packages, 3 rows from elsewhere; 106 versions compared in three orders, ints from -9 to 8 | versions are compared as by their keys, and the other way round where a difference of epochs is no int; a package is flagged for what a plain advisory says, and stays flagged for it while other syncs go on, up to rows that others restate; only rows with a list of versions are stored; the query misses no row; an update exposes nothing |
| `nvd` | 3 CVEs, pages of 1, a window of 2, clock to 5 | a fetch loses at most as many CVEs as left its list; what undisturbed fetches cover without a gap is known |
| `settings` | 2 requests, 2 sources of which one has a key, 2 API keys, any environment | a blank key field keeps the key unless another form intervenes; a key comes only from a form that enters it; the log is true |
| `accounts` | 2 operators, 2 names, 2 session tokens, clock to 1 | nobody is signed in to another's account; a signup posted when there was a user makes none; every visit ends at a page or an error |
| `accounts_admin` | the same | **violated**: two signups that overlap make two administrators |

### Bounds, and why they are enough

Two handlers make every pair of transactions, and a cycle of waits has length
two with two rows; the invariant of the store speaks of one transaction and the
locks, so a third adds no case (and the proof covers any number). Three snapshots
are the smallest set with an install, a move with a removal, and a tombstone over
the same packages. In `delivery` the first snapshot has up to three reports (two
candidates for one finding, and a resolved one), so that with batches of two
a delivery has several batches, open findings before resolved ones; `answered` and `response` have a cell
per snapshot, so requests repeat without a bound. In `token`, `MaxClock = 6` lets
one nonce be inserted, expire and be purged, inserted again and expire again, by handlers
with old readings; `NonceTTL = 2 * MaxSkew` is the ratio of the code's ten and five minutes, with
which expiry and the end of the window meet. In `token_replay` the clock ends at the moment of the
second acceptance, so no handler of a counterexample lags. In
`feeds`, two editions are one that is overtaken; a row of NVD and one of KEV for
the same CVE are the two orders of a shared row. In `nvd`, pages of one make every
place of the list a page boundary, and three CVEs are one read, one lost and one that
moved; a window of two in a clock to five lets fetches overlap, touch and leave a gap. In
`matching`, the versions are all those of up to three bytes out of a digit, a letter, a
tilde and a hyphen, and those with epochs (at, within and beyond the limits of an int, which are
-9 and 8 here), separators, leading zeros and parts of
different lengths; each format has a placeholder, a row that must be dropped and a row
that must not; `Notice` has two entries whose rows share a key, and shares it with a row from
elsewhere, so that lists are restated within and across documents; the packages are older, equal and newer than each fix, with and
without a source package, and of distributions that are and are not related to RHEL. In `settings` two requests are
every overlap of a source's forms, a source without a key is there for what must
not happen to it, and two keys tell the key that was read from the one that was
saved since. In `accounts` two operators with two names are two signups for the same
name and for different ones; a lifetime of one lets a session expire while its
browser holds it. `MaxClock`, `MaxTime` and `LastModified` are the
only counters, and all are bounded in guards or by constants.

Symmetry is used where handlers or requests are interchangeable, and only in runs
without liveness properties.

### Fairness, and why the code justifies it

* `InventoryStore!Fairness`: PostgreSQL executes a statement that is not blocked,
  wakes waiters in turn (strong fairness: a row may be taken by others again
  and again, but its queue is served), and its deadlock detector aborts a
  transaction of every cycle. Nothing is assumed of requests, failures, crashes
  or feeds.
* `FindingDelivery!CalmSpec`, used only for the violated `RetryDelivers`, gives the
  code every help: a handler goes on (`HandlerFairness`: each post returns at the
  latest with the timeout of the `http.Client`, `main.go:56`), no crash, no hang-up, CT
  Ops re-sends until answered `none` and accepts a batch in the end. It is violated
  all the same.
* `FeedSync!Fairness`: the ticker fires and each run goes on (feeds are fetched
  with a client timeout). A step of a run includes the failure of a fetch, so feeds
  may fail for ever. `EnabledIsAttempted` excepts the behaviours in which store calls fail
  or the process restarts again and again: with a database that is never there nothing
  can be attempted.
* `AdminAccounts!FairSpec`: a request at a statement gets its result or an error.
  Operators owe nothing, and any statement may fail, so a page may always be an
  error page; what is excluded is being redirected for ever.

### Findings

* `NoneMeansDelivered` (`ctops/handler.go:127`): the answer `none` is committed
  with the snapshot, before delivery, and replays repeat it. A crash, hang-up
  or duplicate in between has CT Ops told `none` for findings it never got.
* `RetryDelivers` (`ctops/handler.go:127`): a failed delivery is answered
  `retry_findings`, but re-sending the snapshot is a replay, and nothing else posts
  findings.
* `AcceptedOnce` (`store/ctops.go:27`): a nonce lasts twice `maxClockSkew` and is purged when
  `expires_at <= now`, and the window refuses only what is more than `maxClockSkew` away
  (`service_token.go:139`). A request accepted exactly five minutes before its stamp is forgotten
  exactly five minutes after it, and accepted again then. `PunctualDuplicateAtEdges` is what holds
  of handlers that do not lag.
* `NoSignupAfterAdmin` (`store/postgres.go:405`): `WHERE NOT EXISTS` in a READ
  COMMITTED statement lets two overlapping signups with different names both in.
  `LateSignupMakesNone` is what holds.

Besides, and without a run of their own:

* A saved setting is not always logged (`gui/handler.go:159`): the entry is a second
  statement that can fail or never be reached. `LoggedWasSaved` is the direction that holds.
* A blank key field is filled with the key that was read, and the whole row is saved
  (`gui/handler.go:145-155`): a form saved in between is undone. `BlankKeepsKeyAlone`, with
  its exception for `overlapped`, is what holds.
* The rows of the Debian, Alpine and Red Hat parsers have a nil `AffectedVersions`, which is
  written as NULL into a NOT NULL column (`0001_initial.sql:31`): a source wired to
  them could store no row. `CatalogMatch!UpsertRow` has the refusal.
* No row of `affected_packages` is ever deleted, and the fixed version is part of the key: a
  package stays flagged by the row of a fix that was too high and was corrected since. An edition
  that empties a list of versions keeps the old list (`postgres.go:129`). Two entries of an
  Ubuntu document with the same key overwrite each other's lists. `StoredVerdictStands` excepts
  exactly the rows whose list is replaced so (`Restates`).
* Of an Ubuntu document with several CVEs the parser keeps the first, and of several fixes the
  last, even where it is not the highest (`distro.go:190`): `VerdictFollowsDocument` is
  about documents of one CVE whose fixes ascend (`Plain`).
* `ParseDebianTracker` makes no row for a vulnerability without a fix, so it flags nothing.
* A build whose release has no `el` tag of its own, such as `module+el8.9.0+1`, gives
  no row (`distro.go:13`, `251-254`).
* `rpmvercmp` takes a tilde for a letter: `1.0~rc1` is later than `1.0`, the opposite of
  rpm's own rule. apk versions have no order of their own: `1.0_rc1` is later than `1.0`.
  `OrderIsKeyOrder` states the orders the code has, which are total all the same among versions
  without negative epochs.
* With negative epochs, which `strconv.Atoi` accepts, `CompareDistroVersion` is no order for dpkg and
  rpm: MaxInt64:1 is later than 0:1, that is later than -2:1, and that is later than MaxInt64:1, since
  `ae - be` wraps (`version.go:36`, `129`; `NegativeEpochsMakeCircle`). An epoch beyond an int is no
  epoch but a part of the version (`version.go:46`, `139`), which compares with an epoch of zero.
* A package of unknown release or codename is flagged by the rows of every release.
* NVD's pages are read by index from a list that moves (`nvd.go:80-97`), and the window is always 14
  days (`nvd.go:42`), while the interval of the synchronisation is configurable: `LossIsBounded`
  and `CoveredIsKnown` say exactly how much can be missed.

## 4. Proofs

`InventoryStoreProofs` holds for any handlers, hosts, packages, snapshots,
contents and catalog that satisfy the assumptions of `Inventory` and
`InventoryStore` (contents are well-typed, `Nobody` is no handler, `NoRow` no row).
`OpenFindingHasPackage` is not inductive: it survives a commit only because the
transaction matched what it listed and resolved everything else that was open on
those packages, and because nobody else changed those findings since it looked. The
inductive invariant `IInv` adds, for every transaction, `Held`: which rows it has
locked at which statement, that its `view` is of packages it lists, and that after
`resolve` its `stale` is what `Stale` would compute now. The last is kept by the
locks: another transaction that commits changes findings only of packages it
lists, whose rows it holds, and one row has one holder. From `LocksProtect`
(`IInv` always) follow `OpenFindingsHavePackages`, `StaleReadsStand` and, with a
step-by-step correspondence, `StoreImplementsLedger`.

`ServiceTokenProofs` holds for any skew, time to live and number of requests
and handlers. Its invariant says that handlers never use a time ahead of the
clock, that each time a request was let in at lies within the skew of its stamp,
and that the row of an accepted nonce lasts until its time to live is over
(`NoncesAreRemembered`). Two acceptances of one request are therefore `NonceTTL` apart by the
clock of the second, and a handler that does not lag reads that clock within the skew of the
stamp. With a time to live of at least twice the skew (`TimeAssumption`), that leaves the two ends of the
window and nothing between (`PunctualDuplicatesAtEdges`), and with a longer one nothing at
all. That the ends are open is the violated `AcceptedOnce`.

`SourceSettingsProofs` holds for any number of requests, sources and keys, if there is a
source and a value for its fields, and if no API key is the empty string. Its
invariant says what a request that is about to save holds: no key for a source that
uses none or a form that clears it, and for a blank key field the key that is *still*
in effect, unless another form for the source was saved since (`overlapped`). From it
follow `BlankKeyKeeps` and `KeysAreEntered`, and with the request's entry in
`written`, `LogIsTrue`.

`AdminAccountsProofs` holds for any number of browsers, names and tokens. Its
invariant relates cookies to accounts (`Own`: expired sessions included, since a
clock that moved says nothing about whose they are) and signups to the moment they were
posted (`Prompt`: who gets as far as creating a user was not late).

`FindingDeliveryProofs` holds for any handlers, snapshots, batch size and catalog, with
a network and a CT Ops that do what they like. Its invariant says of each handler how
far it is (`Progress`): what it still has to post, has in flight and had accepted
add up to what its snapshot owes; of two handlers that one at most delivers a snapshot
(`Apart`), because the stored response is what admits to delivering; and of the
books (`Books`) that what was sent is due and what is stored was committed. `PostsAreOnce`
needs all three: a batch still on the wire belongs to the part of its handler that is not left.

`FeedSyncProofs` holds for any number of sources, CVEs, packages and editions, if a
source lists the CVE of every package it affects and one source dates a CVE
(`EditionsAssumption`, `DatesAssumption`). The invariant is about each run (`Work`):
the rows of the fetched edition that are no longer in `rest` are in the catalog, with its marks
and, if no run has overtaken it, its dates. `MergeKeeps` is the reason it survives the
other run: the ON CONFLICT clause takes nothing away that `Holds` asks for.

`NvdFetchProofs` holds for any finite set of CVEs in any order, any page size, window and
clock. `LossIsBounded` is not inductive, because it speaks of the end of a fetch: the invariant bounds
what has been passed by at every page (`Missed`). A CVE that leaves the list moves those behind
it up by one place, so one more of them at most slips past the page boundary
(`LossGrowsByOne`), and the one that left pays for it. A fetch that lost
nothing has therefore read its whole window (`WholeFetchIsRead`), and `CoverageIsKnown` follows,
because what is read and did not leave the list is the latest version (`StoredIsLatest`).

`CatalogMatchProofs` holds for any documents, packages, imported rows and versions of any
bytes and any length, if documents are typed as `encoding/json` makes them (`DocumentsAssumption`), stored
rows and inventory as their columns are (`ImportedAssumption`, `PackagesAssumption`), and the CVEs and the
parsers' own words are names (`NamesAssumption`). It has five parts.

1. *Recursion.* The library's induction theorems take an operator as a parameter, which the
   provers cannot instantiate, so they are done without: a set of naturals that is not empty has a
   least element (`LeastElement`, from the order of the finite sets by strict inclusion), which
   gives induction over sets of naturals (`InductionOverNat`); two functions that agree at their
   places and recur alike are one (`RecursionsAgree`), and one that recurs exists
   (`RecursionTheorem`), which is what lets the CHOOSE of a recursive definition be unfolded.
2. *Versions.* `VersionsCompareKeys`: `CompareDistroVersion` compares any two versions as
   their keys compare, and the other way round where the difference of the epochs is no int
   (`EpochsOverflow`). A key is a sequence of blocks, one for each iteration of the code's
   loop. A round compares the first blocks; when it finds them equal they are equally long, so
   the rest of the keys decides as the rest of the loop does.
   The order of keys is lexicographic on integers, so the comparison is antisymmetric and
   transitive on versions whose epochs are not too far apart (`VersionsAreOrdered`), on
   all without negative epochs among others (`UnsignedVersionsAreOrdered`). With them it is not:
   epochs of `MaxInt`, 0 and -2 make a circle whatever `MaxInt` is (`NegativeEpochsMakeCircle`, from
   the fact that every int is written somehow, `EpochsExist`).
3. *The table.* `StoredVerdictStands` is not inductive: it speaks of verdicts, and a row may
   be merged with one of another document. The invariant `IInv` adds to `TypeOK` that each row that
   must stand is kept in the table under its key, with a list of versions no
   smaller (`Stands`), and that of the running sync each row is pending or already stored
   with what is undisputed of it (`Stored`); the second becomes the first at `SyncDone`. A kept row
   flags what the row flags (`KeptRowsFlag`). `TypeOK` is inductive by itself.
4. *Updates.* `UpdatesNeverReexpose` needs that the order is transitive (part 2, hence no
   negative epochs), and that
   whichever of an rpm's two versions `MatchPackage` chooses is a whole one.
5. *Verdicts.* `VerdictsFollowDocuments`, parser by parser: a row that flags is made of an
   entry that says so (nothing is made up), and an entry that applies makes a row that
   flags (nothing is lost). For Ubuntu the last of the ascending fixes stands for all; for
   Red Hat the tag the code finds in the build is the only one there is.

Only model-checked: every liveness property (`EveryRequestAnswered` and the like), since fairness and
ENABLED are outside what the prover handles. All other properties of passing runs are proved.

## 5. Not modelled, and why

* **Connection health endpoint**: `RecordConnectionHealth` writes `last_health_check_at`, which
  nothing reads but the answer itself.
* **Migrations**: they run before anything else and end the process when they fail; what two
  instances do at once depends on the locks of each DDL statement, which PostgreSQL's
  documentation gives and this code does not.
* **The upgrade and bundle scripts**: their steps are other programs, and none of their state
  is the program's.
* **CISA KEV**: one request, which is one step of `FeedSync`.
* **Descriptions, severities, scores and dates** that parsers copy: no decision of the code
  depends on them, `FeedSync` has the merge of those that could be lost.
* **HTML, read-only pages, parsing of the environment** (constant for the life of a process),
  **cryptography** (hashes, signatures, tokens), **request validation** (it only refuses),
  **build and packaging**.
* **The order of snapshots**: `generatedAt` is stored and never compared, and no document says what
  should win; the models apply snapshots in any order.

## 6. What is left

A property of the order in which CT Ops' snapshots should win, once a document states
it; a refinement that shows an answer of `InventoryStore` to be the one step `FindingDelivery` takes for
it, with the catalog changing under both; the start of several instances, with the locks of the
migrations' statements.
