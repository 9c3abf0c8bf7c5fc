--------------------------- MODULE NvdFetchProofs ---------------------------
(***************************************************************************)
(* Proofs about NvdFetch, for any CVEs, any order NVD lists them in, any   *)
(* page size and any window.  A CVE that leaves the list moves those       *)
(* behind it up by one place, so at most one of them moves past the page   *)
(* boundary: that is the step of the inductive invariant (LossGrowsByOne). *)
(***************************************************************************)
EXTENDS NvdFetch, FiniteSetTheorems, TLAPS

(* The place of c in a list of W, and what a fetch has passed by unread,   *)
(* when R is what it has read and n the index of its next page.            *)
PlaceIn(W, c) == Cardinality({d \in W : Place[d] < Place[c]})
Passed(W, n, R) == {c \in W : PlaceIn(W, c) < n /\ c \notin R}

Read == {c \in Cves : <<c, changed[c]>> \in got}
Missed == Passed(Window, startIndex, Read)

Clock ==
    /\ until <= now
    /\ \A c \in Cves : changed[c] <= now
    /\ pc # "idle" => until <= end /\ end <= now

Reading ==
    /\ pc = "idle" => got = {} /\ left = {}
    /\ pc = "page" => startIndex < total
    /\ \A p \in got : p[1] \in left \/ (p[1] \in Window /\ changed[p[1]] = p[2])
    /\ \A c \in left : changed[c] > end
    /\ pc = "store" => \A c \in Window : PlaceIn(Window, c) < startIndex
    /\ pc # "idle" => Cardinality(Missed) <= Cardinality(left)

IInv == TypeOK /\ Clock /\ Reading /\ CoveredIsKnown

-----------------------------------------------------------------------------
(* The places of a list are told apart and end before its length.          *)
LEMMA Places ==
    ASSUME NEW W \in SUBSET Cves
    PROVE  /\ IsFiniteSet(W) /\ Cardinality(W) \in Nat
           /\ Cardinality(W) <= Cardinality(Cves)
           /\ \A c \in Cves : PlaceIn(W, c) \in Nat
           /\ \A c \in W : PlaceIn(W, c) < Cardinality(W)
           /\ \A c, d \in W : PlaceIn(W, c) = PlaceIn(W, d) => c = d
<1>1. IsFiniteSet(W) /\ Cardinality(W) \in Nat /\ Cardinality(W) <= Cardinality(Cves)
  BY PlaceAssumption, FS_Subset, FS_CardinalityType
<1>2. ASSUME NEW c \in Cves
      PROVE  PlaceIn(W, c) \in Nat
  <2>1. {d \in W : Place[d] < Place[c]} \in SUBSET W
    OBVIOUS
  <2>2. QED BY <1>1, <2>1, FS_Subset, FS_CardinalityType DEF PlaceIn
<1>3. ASSUME NEW V \in SUBSET W, NEW c \in W, \A d \in V : Place[d] < Place[c]
      PROVE  Cardinality(V) < Cardinality(W)
  <2>0. Place[c] \in Nat
    BY PlaceAssumption
  <2>1. c \notin V
    BY <1>3, <2>0
  <2>2. Cardinality(V) <= Cardinality(W) /\ Cardinality(V) # Cardinality(W)
    BY <1>1, <2>1, FS_Subset
  <2>3. Cardinality(V) \in Nat
    BY <1>1, FS_Subset, FS_CardinalityType
  <2>4. QED BY <1>1, <2>2, <2>3
<1>4. ASSUME NEW c \in W
      PROVE  PlaceIn(W, c) < Cardinality(W)
  <2> DEFINE V == {d \in W : Place[d] < Place[c]}
  <2>1. V \in SUBSET W /\ \A d \in V : Place[d] < Place[c]
    OBVIOUS
  <2> HIDE DEF V
  <2>2. Cardinality(V) < Cardinality(W)
    BY <1>3, <2>1
  <2>3. QED BY <2>2 DEF V, PlaceIn
<1>5. ASSUME NEW c \in W, NEW d \in W, Place[c] < Place[d]
      PROVE  PlaceIn(W, c) < PlaceIn(W, d)
  <2> DEFINE C == {e \in W : Place[e] < Place[c]}
             D == {e \in W : Place[e] < Place[d]}
  <2>1. Place[c] \in Nat /\ Place[d] \in Nat /\ \A e \in W : Place[e] \in Nat
    BY PlaceAssumption
  <2>2. C \in SUBSET D /\ c \in D /\ c \notin C
    BY <1>5, <2>1
  <2>3. IsFiniteSet(D) /\ IsFiniteSet(C)
    BY <1>1, FS_Subset
  <2>4. Cardinality(C) <= Cardinality(D) /\ Cardinality(C) # Cardinality(D)
    <3> HIDE DEF C, D
    <3>1. QED BY <2>2, <2>3, FS_Subset
  <2>5. Cardinality(C) \in Nat /\ Cardinality(D) \in Nat
    BY <2>3, FS_CardinalityType
  <2>6. QED BY <2>4, <2>5 DEF PlaceIn
<1>6. ASSUME NEW c \in W, NEW d \in W, PlaceIn(W, c) = PlaceIn(W, d)
      PROVE  c = d
  <2>1. Place[c] \in Nat /\ Place[d] \in Nat
    BY PlaceAssumption
  <2>2. ~(Place[c] < Place[d]) /\ ~(Place[d] < Place[c])
    BY <1>2, <1>5, <1>6
  <2>3. QED BY <2>1, <2>2, PlaceAssumption
<1>7. QED BY <1>1, <1>2, <1>4, <1>6

(* Without c, each place is the one before, or one less.                   *)
LEMMA PlacesMoveUp ==
    ASSUME NEW W \in SUBSET Cves, NEW c \in W, NEW d \in Cves
    PROVE  /\ PlaceIn(W \ {c}, d) <= PlaceIn(W, d)
           /\ PlaceIn(W, d) <= PlaceIn(W \ {c}, d) + 1
<1> DEFINE D == {e \in W : Place[e] < Place[d]}
           E == {e \in W \ {c} : Place[e] < Place[d]}
<1>1. E = D \ {c}
  OBVIOUS
<1>2. IsFiniteSet(W) /\ D \in SUBSET W
  BY Places
<1>3. IsFiniteSet(D)
  <2> HIDE DEF D
  <2>1. QED BY <1>2, FS_Subset
<1>4. Cardinality(D) \in Nat
  BY <1>3, FS_CardinalityType
<1>5. Cardinality(E) = IF c \in D THEN Cardinality(D) - 1 ELSE Cardinality(D)
  <2> HIDE DEF D, E
  <2>1. QED BY <1>1, <1>3, FS_RemoveElement
<1>6. PlaceIn(W, d) = Cardinality(D) /\ PlaceIn(W \ {c}, d) = Cardinality(E)
  BY DEF PlaceIn
<1> HIDE DEF D, E
<1>7. QED BY <1>4, <1>5, <1>6

LEMMA PassedIsFinite ==
    ASSUME NEW W \in SUBSET Cves, NEW n, NEW R
    PROVE  IsFiniteSet(Passed(W, n, R)) /\ Cardinality(Passed(W, n, R)) \in Nat
<1>1. Passed(W, n, R) \in SUBSET W
  BY DEF Passed
<1>2. QED BY <1>1, Places, FS_Subset, FS_CardinalityType

(* When a CVE leaves the list, one more at most is passed by.              *)
LEMMA LossGrowsByOne ==
    ASSUME NEW W \in SUBSET Cves, NEW c \in W, NEW n \in Nat, NEW R
    PROVE  Cardinality(Passed(W \ {c}, n, R)) <= Cardinality(Passed(W, n, R)) + 1
<1> DEFINE M == Passed(W, n, R)
           N == Passed(W \ {c}, n, R)
<1>1. IsFiniteSet(M) /\ Cardinality(M) \in Nat
  BY PassedIsFinite
<1>2. W \ {c} \in SUBSET Cves
  OBVIOUS
<1>3. Cardinality(N) \in Nat
  <2> DEFINE V == W \ {c}
  <2> HIDE DEF V
  <2>1. V \in SUBSET Cves
    BY <1>2 DEF V
  <2>2. Cardinality(Passed(V, n, R)) \in Nat
    BY <2>1, PassedIsFinite
  <2>3. QED BY <2>2 DEF V
<1>4. ASSUME NEW d \in N, d \notin M
      PROVE  d \in W /\ PlaceIn(W, d) = n
  <2>1. d \in W /\ d \in W \ {c} /\ d \notin R /\ PlaceIn(W \ {c}, d) < n
    BY <1>4 DEF Passed
  <2>2. ~(PlaceIn(W, d) < n)
    BY <1>4, <2>1 DEF Passed
  <2>3. PlaceIn(W, d) <= PlaceIn(W \ {c}, d) + 1
    BY <2>1, PlacesMoveUp
  <2>4. PlaceIn(W, d) \in Nat
    BY <2>1, Places
  <2>5. PlaceIn(W \ {c}, d) \in Nat
    <3> DEFINE V == W \ {c}
    <3>1. V \in SUBSET Cves
      OBVIOUS
    <3> HIDE DEF V
    <3>2. PlaceIn(V, d) \in Nat
      BY <2>1, <3>1, Places
    <3>3. QED BY <3>2 DEF V
  <2>6. QED BY <2>1, <2>2, <2>3, <2>4, <2>5
<1> HIDE DEF M, N
<1>5. CASE N \subseteq M
  <2>1. Cardinality(N) <= Cardinality(M)
    BY <1>1, <1>5, FS_Subset
  <2>2. QED BY <1>1, <1>3, <2>1 DEF M, N
<1>6. CASE ~(N \subseteq M)
  <2>1. PICK e \in N : e \notin M
    BY <1>6
  <2>2. \A d \in N : d \in M \/ d = e
    BY <1>4, <2>1, Places
  <2>3. N \in SUBSET (M \union {e})
    BY <2>2
  <2>4. IsFiniteSet(M \union {e}) /\ Cardinality(M \union {e}) = Cardinality(M) + 1
    BY <1>1, <2>1, FS_AddElement
  <2>5. Cardinality(N) <= Cardinality(M \union {e})
    BY <2>3, <2>4, FS_Subset
  <2>6. QED BY <2>4, <2>5 DEF M, N
<1>7. QED BY <1>5, <1>6

-----------------------------------------------------------------------------
LEMMA WindowFacts ==
    /\ Window \in SUBSET Cves
    /\ \A c \in Cves : Index(c) = PlaceIn(Window, c)
BY DEF Window, Index, PlaceIn

(* What a record of the fetch holds is an instant.                         *)
LEMMA VersionsAreTimes ==
    ASSUME TypeOK, NEW c \in Cves, NEW v
    PROVE  /\ Versions(c) = {} => Stored(c, v) = v
           /\ Versions(c) # {} => Stored(c, v) \in Versions(c)
           /\ Versions(c) \subseteq Time
           /\ v \in Time \union {Never} => Stored(c, v) \in Time \union {Never}
BY DEF Versions, Stored

(* A row is overwritten by a version that fits it, unless it was modified  *)
(* since the fetch began.                                                  *)
LEMMA StoredIsLatest ==
    ASSUME TypeOK, Reading, NEW c \in Cves, c \notin left, NEW v
    PROVE  /\ Versions(c) \subseteq {changed[c]}
           /\ Versions(c) # {} => c \in Window
           /\ Stored(c, v) \in {v, changed[c]}
<1>1. \A w \in Versions(c) : c \in Window /\ changed[c] = w
  <2> SUFFICES ASSUME NEW w \in Versions(c)
               PROVE  c \in Window /\ changed[c] = w
    OBVIOUS
  <2>1. <<c, w>> \in got
    BY DEF Versions
  <2>2. <<c, w>>[1] = c /\ <<c, w>>[2] = w
    OBVIOUS
  <2>3. <<c, w>>[1] \in left
          \/ (<<c, w>>[1] \in Window /\ changed[<<c, w>>[1]] = <<c, w>>[2])
    BY <2>1 DEF Reading
  <2>4. QED BY <2>2, <2>3
<1>2. Versions(c) \subseteq {changed[c]} /\ (Versions(c) # {} => c \in Window)
  BY <1>1
<1>3. Stored(c, v) \in {v, changed[c]}
  BY <1>2, VersionsAreTimes
<1>4. QED BY <1>2, <1>3

LEMMA InitHolds == Init => IInv
<1> SUFFICES ASSUME Init PROVE IInv
  OBVIOUS
<1>1. Cardinality(Cves) \in Nat
  BY PlaceAssumption, FS_CardinalityType
<1>2. TypeOK
  BY <1>1, SizeAssumption, TimeAssumption DEF Init, TypeOK, Time, Never
<1>3. Clock
  BY DEF Init, Clock, Never
<1>4. Reading
  BY DEF Init, Reading
<1>5. CoveredIsKnown
  BY DEF Init, CoveredIsKnown, Never
<1>6. QED BY <1>2, <1>3, <1>4, <1>5 DEF IInv

(* The window and what is missed of it change with NVD's dates and the     *)
(* fetch alone.                                                            *)
LEMMA SameWindow ==
    ASSUME UNCHANGED <<changed, end>>
    PROVE  Window' = Window /\ \A c : (Index(c))' = Index(c)
BY DEF Window, Index

LEMMA BeginKeeps == IInv /\ Begin => IInv'
<1> SUFFICES ASSUME IInv, Begin PROVE IInv'
  OBVIOUS
<1> USE DEF IInv
<1>1. Cardinality(Cves) \in Nat /\ Cardinality(Cves) > 0
  BY PlaceAssumption, FS_CardinalityType, FS_EmptySet
<1>2. TypeOK'
  BY <1>1, SizeAssumption DEF Begin, TypeOK
<1>3. Clock'
  BY DEF Begin, Clock, TypeOK, Time
<1>4. Reading'
  <2>1. got' = {} /\ left' = {} /\ startIndex' = 0 /\ total' = 1 /\ pc' = "page"
    BY DEF Begin, Reading
  <2>2. Missed' = {}
    <3>1. Window' \in SUBSET Cves
      BY DEF Window
    <3> DEFINE W == Window'
    <3> HIDE DEF W
    <3>2. \A c \in W : PlaceIn(W, c) \in Nat
      BY <3>1, Places DEF W
    <3>3. Passed(W, 0, Read') = {}
      BY <3>2 DEF Passed
    <3>4. QED BY <2>1, <3>3 DEF Missed, W, Passed, PlaceIn
  <2>3. (Cardinality(Missed) <= Cardinality(left))'
    BY <2>1, <2>2, FS_EmptySet
  <2>4. QED BY <2>1, <2>3 DEF Reading
<1>5. CoveredIsKnown'
  BY DEF Begin, CoveredIsKnown
<1>6. QED BY <1>2, <1>3, <1>4, <1>5

LEMMA FetchPageKeeps == IInv /\ FetchPage => IInv'
<1> SUFFICES ASSUME IInv, FetchPage PROVE IInv'
  OBVIOUS
<1> USE DEF IInv
<1>0. /\ pc = "page" /\ left' = left /\ changed' = changed /\ end' = end
      /\ startIndex' = startIndex + PageSize
      /\ total' = Cardinality(Window)
      /\ got' = got \union {<<c, changed[c]>> :
                 c \in {d \in Window : Index(d) \in startIndex .. startIndex + PageSize - 1}}
      /\ pc' = IF startIndex' < total' THEN "page" ELSE "store"
  BY DEF FetchPage
<1>1. Window' = Window
  BY <1>0, SameWindow
<1>2. /\ Cardinality(Cves) \in Nat /\ Cardinality(Window) \in Nat
      /\ Cardinality(Window) <= Cardinality(Cves)
  BY WindowFacts, Places, PlaceAssumption, FS_CardinalityType
<1>3. \A c \in Window : changed[c] \in Time
  BY DEF Window, TypeOK
<1>4. TypeOK'
  <2>1. got' \subseteq Cves \X Time
    BY <1>0, <1>3, WindowFacts DEF TypeOK
  <2>2. startIndex' \in 0 .. Cardinality(Cves) + PageSize - 1
    BY <1>0, <1>2, SizeAssumption DEF TypeOK, Reading
  <2>3. total' \in 0 .. Cardinality(Cves)
    BY <1>0, <1>2
  <2>4. QED BY <1>0, <2>1, <2>2, <2>3 DEF FetchPage, TypeOK
<1>5. Clock'
  BY DEF FetchPage, Clock
<1>6. Reading'
  <2>1. startIndex \in Nat /\ startIndex' \in Nat
    BY <1>0, SizeAssumption DEF TypeOK
  <2>2. \A p \in got' : p[1] \in left' \/ (p[1] \in Window' /\ changed'[p[1]] = p[2])
    <3>1. \A c \in Window : <<c, changed[c]>>[1] = c /\ <<c, changed[c]>>[2] = changed[c]
      OBVIOUS
    <3>2. QED BY <1>0, <1>1, <3>1 DEF Reading
  <2>3. pc' = "store" => \A c \in Window : PlaceIn(Window, c) < startIndex'
    <3>1. \A c \in Window : /\ PlaceIn(Window, c) \in Nat
                            /\ PlaceIn(Window, c) < Cardinality(Window)
      BY WindowFacts, Places
    <3>2. pc' = "store" => ~(startIndex' < Cardinality(Window))
      BY <1>0
    <3>3. QED BY <1>2, <2>1, <3>1, <3>2
  <2>4. Passed(Window, startIndex', Read') \in SUBSET Missed
    <3> SUFFICES ASSUME NEW c \in Passed(Window, startIndex', Read')
                 PROVE  c \in Missed
      OBVIOUS
    <3>1. /\ c \in Window /\ c \in Cves
          /\ PlaceIn(Window, c) < startIndex + PageSize
          /\ <<c, changed[c]>> \notin got'
      BY <1>0, WindowFacts DEF Passed, Read
    <3>2. PlaceIn(Window, c) \in Nat /\ Index(c) = PlaceIn(Window, c)
      BY <3>1, WindowFacts, Places
    <3>3. Index(c) \notin startIndex .. startIndex + PageSize - 1
      BY <1>0, <3>1
    <3>4. PlaceIn(Window, c) < startIndex
      BY <2>1, <3>1, <3>2, <3>3, SizeAssumption
    <3>5. <<c, changed[c]>> \notin got
      BY <1>0, <3>1
    <3>6. QED BY <3>1, <3>4, <3>5 DEF Missed, Passed, Read
  <2>5. (Cardinality(Missed) <= Cardinality(left))'
    <3>1. IsFiniteSet(Missed) /\ Cardinality(Missed) \in Nat
      BY WindowFacts, PassedIsFinite DEF Missed
    <3>2. Cardinality(left) \in Nat
      BY PlaceAssumption, FS_Subset, FS_CardinalityType DEF TypeOK
    <3>3. Cardinality(Missed) <= Cardinality(left)
      BY <1>0 DEF Reading
    <3>4. /\ Cardinality(Passed(Window, startIndex', Read')) <= Cardinality(Missed)
          /\ Cardinality(Passed(Window, startIndex', Read')) \in Nat
      BY <2>4, <3>1, FS_Subset, FS_CardinalityType
    <3>5. Missed' = Passed(Window, startIndex', Read')
      BY <1>1 DEF Missed, Passed, PlaceIn
    <3> DEFINE m == Cardinality(Missed)
               k == Cardinality(Passed(Window, startIndex', Read'))
               l == Cardinality(left)
    <3> HIDE DEF m, k, l
    <3>6. m \in Nat /\ k \in Nat /\ l \in Nat /\ m <= l /\ k <= m
      BY <3>1, <3>2, <3>3, <3>4 DEF m, k, l
    <3>7. k <= l
      BY <3>6
    <3>8. Cardinality(Missed') <= Cardinality(left')
      BY <1>0, <3>5, <3>7 DEF k, l
    <3>9. QED BY <3>8
  <2>6. \A c \in left' : changed'[c] > end'
    BY <1>0 DEF Reading
  <2>7. (\A c \in Window : PlaceIn(Window, c) < startIndex)'
           <=> \A c \in Window : PlaceIn(Window, c) < startIndex'
    BY <1>1 DEF PlaceIn
  <2>8. QED BY <1>0, <1>1, <2>2, <2>3, <2>5, <2>6, <2>7 DEF Reading
<1>7. CoveredIsKnown'
  BY DEF FetchPage, CoveredIsKnown
<1>8. QED BY <1>4, <1>5, <1>6, <1>7

(* What a reset leaves: nothing read, nothing lost.                        *)
LEMMA ResetReads == Reset => Reading'
<1> SUFFICES ASSUME Reset PROVE Reading'
  OBVIOUS
<1>1. pc' = "idle" /\ got' = {} /\ left' = {}
  BY DEF Reset
<1>2. QED BY <1>1 DEF Reading

LEMMA FetchFailsKeeps == IInv /\ FetchFails => IInv'
<1> SUFFICES ASSUME IInv, FetchFails PROVE IInv'
  OBVIOUS
<1> USE DEF IInv
<1>1. Cardinality(Cves) \in Nat
  BY PlaceAssumption, FS_CardinalityType
<1>2. TypeOK'
  BY <1>1, SizeAssumption, TimeAssumption DEF FetchFails, Reset, TypeOK, Time
<1>3. Clock'
  BY DEF FetchFails, Reset, Clock
<1>4. Reading'
  BY ResetReads DEF FetchFails
<1>5. CoveredIsKnown'
  BY DEF FetchFails, CoveredIsKnown
<1>6. QED BY <1>2, <1>3, <1>4, <1>5

(* With a whole fetch that lost nothing, the catalog has the window.       *)
LEMMA WholeFetchIsRead ==
    ASSUME TypeOK, Reading, pc = "store", left = {},
           NEW c \in Window
    PROVE  <<c, changed[c]>> \in got
<1>1. IsFiniteSet(Missed) /\ Cardinality(Missed) \in Nat
  BY WindowFacts, PassedIsFinite DEF Missed
<1>2. Cardinality(Missed) <= Cardinality(left)
  BY DEF Reading
<1>3. Cardinality(Missed) = 0
  BY <1>1, <1>2, FS_EmptySet
<1>4. Missed = {}
  BY <1>1, <1>3, FS_EmptySet
<1>5. PlaceIn(Window, c) < startIndex
  BY DEF Reading
<1>6. c \in Cves
  BY WindowFacts
<1>7. QED BY <1>4, <1>5, <1>6 DEF Missed, Passed, Read

LEMMA StoreKeeps == IInv /\ Store => IInv'
<1> SUFFICES ASSUME IInv, Store PROVE IInv'
  OBVIOUS
<1> USE DEF IInv
<1>0. /\ pc = "store" /\ changed' = changed /\ now' = now
      /\ known' = [c \in Cves |-> Stored(c, known[c])]
      /\ Reset
  BY DEF Store
<1>1. Cardinality(Cves) \in Nat
  BY PlaceAssumption, FS_CardinalityType
<1>2. known' \in [Cves -> Time \union {Never}]
  BY <1>0, VersionsAreTimes DEF TypeOK
<1>3. /\ until' \in {until, end}
      /\ since' \in {since, end - Lookback}
  BY DEF Store
<1>4. TypeOK'
  <2>1. end \in Int /\ Lookback \in Int
    BY SizeAssumption DEF TypeOK, Time
  <2>2. since' \in Int /\ until' \in Time \union {Never}
    BY <1>3, <2>1 DEF TypeOK
  <2>3. /\ end' \in Time /\ total' \in 0 .. Cardinality(Cves)
        /\ startIndex' \in 0 .. Cardinality(Cves) + PageSize - 1
    BY <1>0, <1>1, SizeAssumption, TimeAssumption DEF Reset, Time
  <2>4. QED BY <1>0, <1>2, <2>2, <2>3 DEF Reset, TypeOK
<1>5. Clock'
  BY <1>0, <1>3 DEF Reset, Clock
<1>6. Reading'
  BY <1>0, ResetReads
<1>7. CoveredIsKnown'
  <2> SUFFICES ASSUME NEW c \in Cves, changed[c] # Never,
                      changed[c] >= since', changed[c] <= until'
               PROVE  known'[c] = changed[c]
    BY <1>0 DEF CoveredIsKnown
  <2>1. /\ changed[c] \in Int /\ end \in Int /\ since \in Int /\ until \in Int
        /\ Lookback \in Nat /\ until <= end
    BY <1>0, SizeAssumption DEF TypeOK, Time, Never, Clock
  <2>2. changed[c] <= end
    BY <1>3, <2>1
  <2>3. c \notin left
    BY <2>1, <2>2 DEF Reading
  <2>4. known'[c] = Stored(c, known[c])
    BY <1>0
  <2>5. Stored(c, known[c]) \in {known[c], changed[c]}
    BY <2>3, StoredIsLatest
  <2>6. CASE changed[c] >= since /\ changed[c] <= until
    BY <2>4, <2>5, <2>6 DEF CoveredIsKnown
  <2>7. CASE ~(changed[c] >= since /\ changed[c] <= until)
    <3>1. left = {}
      BY <2>7 DEF Store
    <3>2. /\ until' = end
          /\ since' = IF until # Never /\ end - Lookback <= until THEN since
                      ELSE end - Lookback
      BY <3>1 DEF Store
    <3>3. changed[c] >= end - Lookback
      BY <2>1, <2>7, <3>2
    <3>4. c \in Window
      BY <2>1, <2>2, <3>3 DEF Window
    <3>5. <<c, changed[c]>> \in got
      BY <1>0, <3>1, <3>4, WholeFetchIsRead
    <3>6. changed[c] \in Versions(c)
      BY <2>2, <3>5 DEF Versions, TypeOK
    <3>7. Stored(c, known[c]) \in Versions(c)
      BY <3>6, VersionsAreTimes
    <3>8. Versions(c) \subseteq {changed[c]}
      BY <2>3, StoredIsLatest
    <3>9. QED BY <2>4, <3>7, <3>8
  <2>8. QED BY <2>6, <2>7
<1>8. QED BY <1>4, <1>5, <1>6, <1>7

LEMMA StorePartlyKeeps == IInv /\ StorePartly => IInv'
<1> SUFFICES ASSUME IInv, StorePartly PROVE IInv'
  OBVIOUS
<1> USE DEF IInv
<1>0. /\ pc = "store" /\ Reset
      /\ UNCHANGED <<now, changed, since, until>>
  BY DEF StorePartly
<1>1. PICK some \in SUBSET Cves :
         known' = [c \in Cves |-> IF c \in some THEN Stored(c, known[c]) ELSE known[c]]
  BY DEF StorePartly
<1>2. Cardinality(Cves) \in Nat
  BY PlaceAssumption, FS_CardinalityType
<1>3. known' \in [Cves -> Time \union {Never}]
  BY <1>1, VersionsAreTimes DEF TypeOK
<1>4. TypeOK'
  BY <1>0, <1>2, <1>3, SizeAssumption, TimeAssumption DEF Reset, TypeOK, Time
<1>5. Clock'
  BY <1>0 DEF Reset, Clock
<1>6. Reading'
  BY <1>0, ResetReads
<1>7. CoveredIsKnown'
  <2> SUFFICES ASSUME NEW c \in Cves, changed[c] # Never,
                      changed[c] >= since, changed[c] <= until
               PROVE  known'[c] = changed[c]
    BY <1>0 DEF CoveredIsKnown
  <2>1. changed[c] \in Int /\ end \in Int /\ until \in Int /\ until <= end
    BY <1>0 DEF TypeOK, Time, Never, Clock
  <2>2. c \notin left
    BY <2>1 DEF Reading
  <2>3. known[c] = changed[c]
    BY DEF CoveredIsKnown
  <2>4. Stored(c, known[c]) = changed[c]
    BY <2>2, <2>3, StoredIsLatest
  <2>5. QED BY <1>1, <2>3, <2>4
<1>8. QED BY <1>4, <1>5, <1>6, <1>7

LEMMA TickKeeps == IInv /\ Tick => IInv'
<1> SUFFICES ASSUME IInv, Tick PROVE IInv'
  OBVIOUS
<1> USE DEF IInv
<1>0. /\ now < MaxTime /\ now' = now + 1
      /\ UNCHANGED <<changed, pc, end, startIndex, total, got, left, known, since, until>>
  BY DEF Tick, fetch
<1>1. now \in Time /\ now' \in Time /\ now <= now'
  BY <1>0, TimeAssumption DEF TypeOK, Time
<1>2. TypeOK'
  BY <1>0, <1>1 DEF TypeOK
<1>3. Clock'
  <2>1. until \in Int /\ end \in Int /\ \A c \in Cves : changed[c] \in Int
    BY DEF TypeOK, Time, Never
  <2>2. now \in Int /\ now' \in Int
    BY <1>1 DEF Time
  <2>3. QED BY <1>0, <1>1, <2>1, <2>2 DEF Clock
<1>4. Window' = Window
  BY <1>0, SameWindow
<1>5. Missed' = Missed
  BY <1>0, <1>4 DEF Missed, Passed, PlaceIn, Read
<1>6. Reading'
  BY <1>0, <1>4, <1>5 DEF Reading, PlaceIn
<1>7. CoveredIsKnown'
  BY <1>0 DEF CoveredIsKnown
<1>8. QED BY <1>2, <1>3, <1>6, <1>7

(* A CVE that is modified leaves the window of a fetch for good.           *)
LEMMA WindowAfterModify ==
    ASSUME IInv, NEW c \in Cves, Modify(c), pc # "idle"
    PROVE  /\ Window' = Window \ {c}
           /\ \A d \in Cves \ {c} : changed'[d] = changed[d]
           /\ changed'[c] > end
<1> USE DEF IInv
<1>1. now' = now + 1 /\ changed' = [changed EXCEPT ![c] = now'] /\ end' = end
  BY DEF Modify
<1>2. end <= now /\ now \in Int /\ end \in Int
  BY DEF Clock, TypeOK, Time
<1>3. changed'[c] > end' /\ changed'[c] = now + 1
  BY <1>1, <1>2 DEF TypeOK
<1>4. \A d \in Cves \ {c} : changed'[d] = changed[d]
  BY <1>1 DEF TypeOK
<1>5. ~(changed'[c] \in end' - Lookback .. end')
  BY <1>1, <1>2, <1>3
<1>6. Window' = Window \ {c}
  BY <1>1, <1>4, <1>5 DEF Window
<1>7. QED BY <1>1, <1>3, <1>4, <1>6

LEMMA ModifyKeeps == IInv /\ (\E c \in Cves : Modify(c)) => IInv'
<1> SUFFICES ASSUME IInv, NEW c \in Cves, Modify(c) PROVE IInv'
  OBVIOUS
<1> USE DEF IInv
<1>0. /\ now < MaxTime /\ now' = now + 1
      /\ changed' = [changed EXCEPT ![c] = now']
      /\ left' = IF pc # "idle" /\ c \in Window THEN left \union {c} ELSE left
      /\ UNCHANGED <<pc, end, startIndex, total, got, known, since, until>>
  BY DEF Modify
<1>1. now \in Time /\ now' \in Time /\ now <= now' /\ now \in Int
  BY <1>0, TimeAssumption DEF TypeOK, Time
<1>2. TypeOK'
  <2>1. changed' \in [Cves -> Time \union {Never}] /\ left' \subseteq Cves
    BY <1>0, <1>1 DEF TypeOK
  <2>2. QED BY <1>0, <1>1, <2>1 DEF TypeOK
<1>3. \A d \in Cves : changed'[d] = IF d = c THEN now' ELSE changed[d]
  BY <1>0 DEF TypeOK
<1>4. Clock'
  <2>1. until \in Int /\ end \in Int /\ \A d \in Cves : changed[d] \in Int
    BY DEF TypeOK, Time, Never
  <2>2. now' \in Int
    BY <1>0, <1>1
  <2>3. \A d \in Cves : changed'[d] <= now'
    BY <1>0, <1>1, <1>3, <2>1, <2>2 DEF Clock
  <2>4. until' <= now' /\ (pc' # "idle" => until' <= end' /\ end' <= now')
    BY <1>0, <1>1, <2>1, <2>2 DEF Clock
  <2>5. QED BY <2>3, <2>4 DEF Clock
<1>5. Reading'
  <2>1. CASE pc = "idle"
    <3>1. pc' = "idle" /\ got' = {} /\ left' = {}
      BY <1>0, <2>1 DEF Reading
    <3>2. QED BY <3>1 DEF Reading
  <2>2. CASE pc # "idle"
    <3>1. /\ Window' = Window \ {c}
          /\ \A d \in Cves \ {c} : changed'[d] = changed[d]
          /\ changed'[c] > end
      BY <2>2, WindowAfterModify
    <3>2. Window \in SUBSET Cves /\ startIndex \in Nat
      BY WindowFacts, SizeAssumption DEF TypeOK
    <3>3. left' = IF c \in Window THEN left \union {c} ELSE left
      BY <1>0, <2>2
    <3>4. \A p \in got' : p[1] \in left' \/ (p[1] \in Window' /\ changed'[p[1]] = p[2])
      BY <1>0, <3>1, <3>2, <3>3 DEF Reading
    <3>5. \A d \in left' : changed'[d] > end'
      BY <1>0, <3>1, <3>3 DEF Reading, TypeOK
    <3>6. pc' = "store" => \A d \in Window' : PlaceIn(Window', d) < startIndex'
      <4> SUFFICES ASSUME pc = "store", NEW d \in Window \ {c}
                   PROVE  PlaceIn(Window \ {c}, d) < startIndex
        BY <1>0, <3>1
      <4>1. PlaceIn(Window, d) < startIndex
        BY DEF Reading
      <4>2. CASE c \in Window
        <5> DEFINE V == Window \ {c}
        <5>1. V \in SUBSET Cves /\ d \in Cves
          BY <3>2
        <5>2. PlaceIn(V, d) <= PlaceIn(Window, d)
          BY <3>2, <4>2, <5>1, PlacesMoveUp
        <5> HIDE DEF V
        <5>3. PlaceIn(V, d) \in Nat /\ PlaceIn(Window, d) \in Nat
          BY <3>2, <5>1, Places
        <5>4. QED BY <3>2, <4>1, <5>2, <5>3 DEF V
      <4>3. CASE c \notin Window
        <5>1. Window \ {c} = Window
          BY <4>3
        <5>2. QED BY <4>1, <5>1
      <4>4. QED BY <4>2, <4>3
    <3>7. (Cardinality(Missed) <= Cardinality(left))'
      <4>1. Missed' = Passed(Window \ {c}, startIndex, Read)
        <5>1. \A d \in Window \ {c} : d \in Read' <=> d \in Read
          BY <1>0, <3>1, <3>2 DEF Read
        <5>2. QED BY <1>0, <3>1, <5>1 DEF Missed, Passed, PlaceIn
      <4>2. Cardinality(Missed) <= Cardinality(left)
        BY <2>2 DEF Reading
      <4>3. Cardinality(Missed) \in Nat
        BY <3>2, PassedIsFinite DEF Missed
      <4>4. IsFiniteSet(left) /\ Cardinality(left) \in Nat
        BY PlaceAssumption, FS_Subset, FS_CardinalityType DEF TypeOK
      <4>5. CASE c \notin Window
        <5>1. Window \ {c} = Window
          BY <4>5
        <5>2. Missed' = Missed /\ left' = left
          BY <3>3, <4>1, <4>5, <5>1 DEF Missed
        <5>3. Cardinality(Missed') <= Cardinality(left')
          BY <4>2, <5>2
        <5>4. QED BY <5>3
      <4>6. CASE c \in Window
        <5>1. c \notin left
          <6>1. c \in left => changed[c] > end
            BY DEF Reading
          <6>2. changed[c] <= end /\ changed[c] \in Int /\ end \in Int
            BY <4>6 DEF Window, TypeOK, Time, Never
          <6>3. QED BY <6>1, <6>2
        <5>2. left' = left \union {c} /\ Cardinality(left \union {c}) = Cardinality(left) + 1
          BY <3>3, <4>4, <4>6, <5>1, FS_AddElement
        <5> DEFINE m == Cardinality(Missed)
                   k == Cardinality(Passed(Window \ {c}, startIndex, Read))
                   l == Cardinality(left)
        <5>3. k <= m + 1
          BY <3>2, <4>6, LossGrowsByOne DEF Missed
        <5>4. m \in Nat /\ l \in Nat /\ m <= l
          BY <4>2, <4>3, <4>4
        <5>5. k \in Nat
          <6> DEFINE V == Window \ {c}
          <6>1. V \in SUBSET Cves
            BY <3>2
          <6> HIDE DEF V
          <6>2. Cardinality(Passed(V, startIndex, Read)) \in Nat
            BY <6>1, PassedIsFinite
          <6>3. QED BY <6>2 DEF V
        <5>6. Cardinality(Missed') = k /\ Cardinality(left') = l + 1
          BY <4>1, <5>2
        <5> HIDE DEF m, k, l
        <5>7. k <= l + 1
          BY <5>3, <5>4, <5>5
        <5>8. Cardinality(Missed') <= Cardinality(left')
          BY <5>6, <5>7
        <5>9. QED BY <5>8
      <4>7. QED BY <4>5, <4>6
    <3>8. pc' = "page" => startIndex' < total'
      BY <1>0 DEF Reading
    <3>9. QED BY <1>0, <2>2, <3>4, <3>5, <3>6, <3>7, <3>8 DEF Reading
  <2>3. QED BY <2>1, <2>2
<1>6. CoveredIsKnown'
  <2> SUFFICES ASSUME NEW d \in Cves, changed'[d] # Never,
                      changed'[d] >= since, changed'[d] <= until
               PROVE  known[d] = changed'[d]
    BY <1>0 DEF CoveredIsKnown
  <2>1. until \in Int /\ until <= now
    BY DEF Clock, TypeOK, Time, Never
  <2>2. d # c
    BY <1>0, <1>1, <1>3, <2>1
  <2>3. changed'[d] = changed[d]
    BY <1>3, <2>2
  <2>4. QED BY <2>3 DEF CoveredIsKnown
<1>7. QED BY <1>2, <1>4, <1>5, <1>6

-----------------------------------------------------------------------------
LEMMA StepKeeps == IInv /\ [Next]_vars => IInv'
<1> SUFFICES ASSUME IInv, [Next]_vars PROVE IInv'
  OBVIOUS
<1>1. CASE Begin
  BY <1>1, BeginKeeps
<1>2. CASE FetchPage
  BY <1>2, FetchPageKeeps
<1>3. CASE FetchFails
  BY <1>3, FetchFailsKeeps
<1>4. CASE Store
  BY <1>4, StoreKeeps
<1>5. CASE StorePartly
  BY <1>5, StorePartlyKeeps
<1>6. CASE \E c \in Cves : Modify(c)
  BY <1>6, ModifyKeeps
<1>7. CASE Tick
  BY <1>7, TickKeeps
<1>8. CASE UNCHANGED vars
  <2>1. Window' = Window
    BY <1>8, SameWindow DEF vars, fetch
  <2>2. Missed' = Missed
    BY <1>8, <2>1 DEF vars, fetch, Missed, Passed, PlaceIn, Read
  <2>3. TypeOK' /\ Clock' /\ CoveredIsKnown'
    BY <1>8 DEF vars, fetch, IInv, TypeOK, Clock, CoveredIsKnown
  <2>4. Reading'
    BY <1>8, <2>1, <2>2 DEF vars, fetch, IInv, Reading, PlaceIn
  <2>5. QED BY <2>3, <2>4 DEF IInv
<1>9. QED BY <1>1, <1>2, <1>3, <1>4, <1>5, <1>6, <1>7, <1>8 DEF Next

THEOREM Invariance == Spec => []IInv
<1>1. QED BY InitHolds, StepKeeps, PTL DEF Spec

(* The variables keep their types; no page past the end of the list is     *)
(* asked for (the loop of NVDSource.Fetch, nvd.go:80-97).                  *)
THEOREM TypeCorrect == Spec => []TypeOK
<1>1. IInv => TypeOK
  BY DEF IInv
<1>2. QED BY <1>1, Invariance, PTL

(* Whatever NVD modifies between the pages, a fetch misses at most as many *)
(* CVEs as left its list.                                                  *)
THEOREM LossesAreBounded == Spec => []LossIsBounded
<1>1. IInv => LossIsBounded
  <2> SUFFICES ASSUME IInv, pc = "store"
               PROVE  Cardinality({c \in Window : <<c, changed[c]>> \notin got})
                        <= Cardinality(left)
    BY DEF LossIsBounded
  <2>1. \A c \in Window : c \in Cves /\ PlaceIn(Window, c) < startIndex
    BY WindowFacts DEF IInv, Reading
  <2>2. {c \in Window : <<c, changed[c]>> \notin got} = Missed
    BY <2>1 DEF Missed, Passed, Read
  <2>3. QED BY <2>2 DEF IInv, Reading
<1>2. QED BY <1>1, Invariance, PTL

(* The catalog has the latest version of every CVE that fetches which lost *)
(* nothing have covered without a gap, for any page size and window.       *)
THEOREM CoverageIsKnown == Spec => []CoveredIsKnown
<1>1. IInv => CoveredIsKnown
  BY DEF IInv
<1>2. QED BY <1>1, Invariance, PTL
=============================================================================
