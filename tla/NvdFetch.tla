------------------------------- MODULE NvdFetch -------------------------------
(***************************************************************************)
(* NVDSource.Fetch (internal/feed/nvd.go) and what the catalog learns by   *)
(* it: each fetch asks for the CVEs modified in the last Lookback time     *)
(* units, page by page, while NVD goes on modifying them.  The end of the  *)
(* window is the time the fetch began, so that a CVE modified since is no  *)
(* longer in the list, and those behind it move up.                        *)
(*                                                                         *)
(* One run at a time; FeedSync has the two that may overlap.               *)
(***************************************************************************)
EXTENDS Integers, FiniteSets

CONSTANTS Cves, Place,     \* NVD lists CVEs in an order of its own
          PageSize,        \* nvdResultsPerPage
          Lookback,        \* NVDSourceOptions.Lookback
          MaxTime          \* bound of the clock
ASSUME PlaceAssumption ==
    /\ IsFiniteSet(Cves) /\ Cves # {}
    /\ Place \in [Cves -> Nat]
    /\ \A c, d \in Cves : Place[c] = Place[d] => c = d
ASSUME SizeAssumption == PageSize \in Nat \ {0} /\ Lookback \in Nat \ {0}
ASSUME TimeAssumption == MaxTime \in Nat

Time == 0 .. MaxTime
Never == -1

VARIABLES now,
          changed,     \* lastModified of each CVE at NVD, Never before it is published
          pc,          \* idle, page: about to ask for one, store: all read
          end,         \* end of the window of this fetch
          startIndex,
          total,       \* totalResults of the page before
          got,         \* the records read so far, [CVE, lastModified]
          known        \* the version in cve_records, Never where there is no row
(* History: the CVEs that left the list of this fetch; from when to when   *)
(* fetches have looked without a gap.                                      *)
VARIABLES left, since, until

fetch == <<pc, end, startIndex, total, got, left>>
vars == <<now, changed, fetch, known, since, until>>

TypeOK ==
    /\ now \in Time
    /\ changed \in [Cves -> Time \union {Never}]
    /\ pc \in {"idle", "page", "store"}
    /\ end \in Time
    /\ startIndex \in 0 .. Cardinality(Cves) + PageSize - 1
    /\ total \in 0 .. Cardinality(Cves)
    /\ got \subseteq Cves \X Time
    /\ known \in [Cves -> Time \union {Never}]
    /\ left \subseteq Cves
    /\ since \in Int
    /\ until \in Time \union {Never}

Init == /\ now = 0
        /\ changed \in [Cves -> {0, Never}]
        /\ pc = "idle"
        /\ end = 0 /\ startIndex = 0 /\ total = 0 /\ got = {} /\ left = {}
        /\ known = [c \in Cves |-> Never]
        /\ since = 0 /\ until = Never

(* What NVD answers with: the CVEs last modified in the window.            *)
Window == {c \in Cves : changed[c] # Never /\ changed[c] \in end - Lookback .. end}
Index(c) == Cardinality({d \in Window : Place[d] < Place[c]})

Reset == /\ pc' = "idle"
         /\ end' = 0 /\ startIndex' = 0 /\ total' = 0 /\ got' = {} /\ left' = {}

Begin ==
    /\ pc = "idle"
    /\ pc' = "page"
    /\ end' = now
    /\ startIndex' = 0
    /\ total' = 1            \* so that the first page is asked for
    /\ UNCHANGED <<now, changed, got, left, known, since, until>>

(* A bug for comparison: a page more is asked for when the list is at its  *)
(* end.                                                                    *)
FetchPageMore ==
    /\ pc = "page"
    /\ got' = got \union {<<c, changed[c]>> :
                 c \in {d \in Window : Index(d) \in startIndex .. startIndex + PageSize - 1}}
    /\ total' = Cardinality(Window)
    /\ startIndex' = startIndex + PageSize
    /\ pc' = IF startIndex' <= total' THEN "page" ELSE "store"
    /\ UNCHANGED <<now, changed, end, left, known, since, until>>

(* A bug for comparison: a page ends with its last index included.         *)
FetchPageWide ==
    /\ pc = "page"
    /\ got' = got \union {<<c, changed[c]>> :
                 c \in {d \in Window : Index(d) \in startIndex .. startIndex + PageSize - 1}}
    /\ total' = Cardinality(Window)
    /\ startIndex' = startIndex + PageSize + 1
    /\ pc' = IF startIndex' < total' THEN "page" ELSE "store"
    /\ UNCHANGED <<now, changed, end, left, known, since, until>>

(* One request, the total read anew, and the delay before the next one.    *)
FetchPage ==
    /\ pc = "page"
    /\ got' = got \union {<<c, changed[c]>> :
                 c \in {d \in Window : Index(d) \in startIndex .. startIndex + PageSize - 1}}
    /\ total' = Cardinality(Window)
    /\ startIndex' = startIndex + PageSize
    /\ pc' = IF startIndex' < total' THEN "page" ELSE "store"
    /\ UNCHANGED <<now, changed, end, left, known, since, until>>

(* A page that cannot be had, a status that is not 2xx, an answer that is  *)
(* no JSON, a cancelled context, a stopped process: the pages are dropped. *)
FetchFails ==
    /\ pc # "idle"
    /\ Reset
    /\ UNCHANGED <<now, changed, known, since, until>>

(* UpsertCVERecords, all rows; a failure on the way leaves some (FeedSync).*)
Versions(c) == {v \in Time : <<c, v>> \in got}
(* A bug for comparison: a row that is there is kept.                      *)
StoredOnce(c, v) ==
    IF v # Never \/ Versions(c) = {} THEN v ELSE CHOOSE w \in Versions(c) : TRUE
Stored(c, v) == IF Versions(c) = {} THEN v ELSE CHOOSE w \in Versions(c) : TRUE

Store ==
    /\ pc = "store"
    /\ known' = [c \in Cves |-> Stored(c, known[c])]
    /\ IF left = {}
       THEN /\ since' = IF until # Never /\ end - Lookback <= until THEN since
                        ELSE end - Lookback
            /\ until' = end
       ELSE UNCHANGED <<since, until>>
    /\ Reset
    /\ UNCHANGED <<now, changed>>

StorePartly ==
    /\ pc = "store"
    /\ \E some \in SUBSET Cves :
          known' = [c \in Cves |-> IF c \in some THEN Stored(c, known[c]) ELSE known[c]]
    /\ Reset
    /\ UNCHANGED <<now, changed, since, until>>

(* NVD publishes or modifies a CVE, at an instant of its own: times are in *)
(* milliseconds, and no window ends at the very one.                       *)
Modify(c) ==
    /\ now < MaxTime
    /\ now' = now + 1
    /\ changed' = [changed EXCEPT ![c] = now']
    /\ left' = IF pc # "idle" /\ c \in Window THEN left \union {c} ELSE left
    /\ UNCHANGED <<pc, end, startIndex, total, got, known, since, until>>

(* Time passes between pages, between fetches, and while nothing runs.     *)
Tick ==
    /\ now < MaxTime
    /\ now' = now + 1
    /\ UNCHANGED <<changed, fetch, known, since, until>>

Next == \/ Begin \/ FetchPage \/ FetchFails \/ Store \/ StorePartly
        \/ \E c \in Cves : Modify(c)
        \/ Tick

Spec == Init /\ [][Next]_vars
-----------------------------------------------------------------------------
(* A fetch misses at most as many CVEs as left its list while it was read: *)
(* pages fetched by index (nvd.go:80-97) lose the records that move up     *)
(* past a page already read, and none without such a move.                 *)
LossIsBounded ==
    pc = "store" =>
        Cardinality({c \in Window : <<c, changed[c]>> \notin got}) <= Cardinality(left)

(* The catalog knows the latest version of every CVE modified in the time  *)
(* that undisturbed fetches have covered without a gap: a CVE is missed    *)
(* only if its list moved under a fetch, or if more than Lookback went by  *)
(* between two fetches (nvd.go:42, 66-68).                                 *)
CoveredIsKnown ==
    \A c \in Cves :
        changed[c] # Never /\ changed[c] >= since /\ changed[c] <= until
            => known[c] = changed[c]
=============================================================================
