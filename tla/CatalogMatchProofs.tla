---------------------------- MODULE CatalogMatchProofs ----------------------------
(***************************************************************************)
(* Proofs about CatalogMatch, for any documents, packages and versions of  *)
(* any bytes: CompareDistroVersion orders versions as the keys do where    *)
(* the difference of the epochs is an int, and so without negative epochs, *)
(* and goes in a circle with them; what a whole sync stored is flagged for *)
(* as long as nobody restates it; an update exposes to nothing; and each   *)
(* parser's rows flag what its document says.                              *)
(***************************************************************************)
EXTENDS CatalogMatch, FiniteSetTheorems, TLAPS

-----------------------------------------------------------------------------
(* Least elements, and functions defined by recursion.                     *)

(* A set of natural numbers that is not empty has a least element: the     *)
(* library's well-founded order on finite sets, for the sets of the        *)
(* smaller numbers.                                                        *)
LEMMA LeastElement ==
    ASSUME NEW S \in SUBSET Nat, S # {}
    PROVE  \E m \in S : \A k \in S : m <= k
<1> DEFINE T == {0 .. n : n \in S}
<1>1. T \subseteq FiniteSubsetsOf(Nat)
  <2>1. \A n \in S : IsFiniteSet(0 .. n) /\ 0 .. n \in SUBSET Nat
    BY FS_Interval
  <2> QED BY <2>1 DEF FiniteSubsetsOf
<1>2. PICK x \in T : \A y \in T : ~ (<<y, x>> \in StrictSubsetOrdering(Nat))
  <2>1. IsWellFoundedOn(StrictSubsetOrdering(Nat), FiniteSubsetsOf(Nat))
    BY FS_StrictSubsetOrderingWellFounded
  <2>2. T # {}
    OBVIOUS
  <2> HIDE DEF T
  <2> QED BY <1>1, <2>1, <2>2, WFMin
<1>3. PICK m \in S : x = 0 .. m
  OBVIOUS
<1>4. ASSUME NEW k \in S, k < m PROVE FALSE
  <2>1. 0 .. k \subseteq 0 .. m /\ m \notin 0 .. k /\ m \in 0 .. m
    BY <1>4
  <2>2. (0 .. k) \in T /\ (0 .. m) \in T
    OBVIOUS
  <2>3. 0 .. k \in SUBSET Nat /\ 0 .. m \in SUBSET Nat
    BY <1>4
  <2> HIDE DEF T
  <2> QED BY <2>1, <2>2, <2>3, <1>2, <1>3 DEF StrictSubsetOrdering
<1> QED BY <1>4

(* Induction on the natural numbers, for a set instead of an operator.     *)
LEMMA InductionOverNat ==
    ASSUME NEW S \in SUBSET Nat,
           \A n \in Nat : (\A k \in Nat : k < n => k \in S) => n \in S
    PROVE  S = Nat
<1> SUFFICES ASSUME Nat \ S # {} PROVE FALSE
  OBVIOUS
<1>1. PICK m \in Nat \ S : \A k \in Nat \ S : m <= k
  BY LeastElement
<1>2. \A k \in Nat : k < m => k \in S
  BY <1>1
<1> QED BY <1>1, <1>2

(* Min chooses the least element.                                          *)
LEMMA MinIsLeast ==
    ASSUME NEW S \in SUBSET Nat, S # {}
    PROVE  Min(S) \in S /\ \A k \in S : Min(S) <= k
BY LeastElement DEF Min

(* A function whose values G fixes, and a G whose value at x depends on    *)
(* the values at smaller arguments only.                                   *)
IsFixpoint(f, G, S, V) == f \in [S -> V] /\ f = G[f]
LooksDown(G, S, V, size) ==
    \A f, g \in [S -> V] : \A x \in S :
        (\A y \in S : size[y] < size[x] => f[y] = g[y]) => G[f][x] = G[g][x]

(* A recursive definition that looks at smaller arguments only has a       *)
(* solution.                                                               *)
LEMMA RecursionTheorem ==
    ASSUME NEW S, NEW V, V # {}, NEW size \in [S -> Nat],
           NEW G \in [[S -> V] -> [S -> V]], LooksDown(G, S, V, size)
    PROVE  \E f : IsFixpoint(f, G, S, V)
<1> DEFINE Good(n, f) == \A x \in S : size[x] < n => f[x] = G[f][x]
           A == {n \in Nat : \A f, g \in [S -> V] : Good(n, f) /\ Good(n, g) =>
                                \A x \in S : size[x] < n => f[x] = g[x]}
           B == {n \in Nat : \E f \in [S -> V] : Good(n, f)}
<1>1. A = Nat
  <2> SUFFICES ASSUME NEW n \in Nat, \A k \in Nat : k < n => k \in A
               PROVE  n \in A
    <3> A \in SUBSET Nat
      OBVIOUS
    <3> HIDE DEF A
    <3> QED BY InductionOverNat
  <2> SUFFICES ASSUME NEW f \in [S -> V], NEW g \in [S -> V], Good(n, f), Good(n, g),
                      NEW x \in S, size[x] < n
               PROVE  f[x] = g[x]
    OBVIOUS
  <2>1. size[x] \in A /\ size[x] \in Nat
    OBVIOUS
  <2>2. Good(size[x], f) /\ Good(size[x], g)
    OBVIOUS
  <2>3. \A y \in S : size[y] < size[x] => f[y] = g[y]
    <3> HIDE DEF Good
    <3> QED BY <2>1, <2>2
  <2>4. G[f][x] = G[g][x]
    BY <2>3 DEF LooksDown
  <2> QED BY <2>4
<1>2. B = Nat
  <2> SUFFICES ASSUME NEW n \in Nat, \A k \in Nat : k < n => k \in B
               PROVE  n \in B
    <3> B \in SUBSET Nat
      OBVIOUS
    <3> HIDE DEF B
    <3> QED BY InductionOverNat
  <2>1. CASE n = 0
    <3>1. PICK v \in V : TRUE
      OBVIOUS
    <3>2. [x \in S |-> v] \in [S -> V]
      OBVIOUS
    <3>3. Good(0, [x \in S |-> v])
      OBVIOUS
    <3> HIDE DEF Good
    <3> QED BY <2>1, <3>2, <3>3
  <2>2. CASE n # 0
    <3>1. n - 1 \in B
      BY <2>2
    <3>2. PICK f \in [S -> V] : Good(n - 1, f)
      BY <3>1
    <3>3. G[f] \in [S -> V]
      OBVIOUS
    <3>4. ASSUME NEW x \in S, size[x] < n PROVE G[f][x] = G[G[f]][x]
      <4>1. \A y \in S : size[y] < size[x] => f[y] = G[f][y]
        BY <3>2, <3>4, <2>2
      <4> QED BY <3>3, <4>1 DEF LooksDown
    <3>5. Good(n, G[f])
      BY <3>4
    <3> HIDE DEF Good
    <3> QED BY <3>3, <3>5
  <2> QED BY <2>1, <2>2
<1> DEFINE pick(n) == CHOOSE f \in [S -> V] : Good(n, f)
           h == [x \in S |-> pick(size[x] + 1)[x]]
<1>3. \A n \in Nat : pick(n) \in [S -> V] /\ Good(n, pick(n))
  <2> TAKE n \in Nat
  <2>1. \E f \in [S -> V] : Good(n, f)
    <3> HIDE DEF Good
    <3> QED BY <1>2
  <2> HIDE DEF Good
  <2> QED BY <2>1
<1>4. h \in [S -> V]
  <2> HIDE DEF pick
  <2> QED BY <1>3
<1>5. ASSUME NEW x \in S PROVE h[x] = G[h][x]
  <2> DEFINE f == pick(size[x] + 1)
  <2>1. f \in [S -> V] /\ Good(size[x] + 1, f)
    <3> HIDE DEF Good, pick
    <3> QED BY <1>3
  <2>2. ASSUME NEW y \in S, size[y] < size[x] PROVE f[y] = h[y]
    <3> DEFINE g == pick(size[y] + 1)
    <3>1. g \in [S -> V] /\ Good(size[y] + 1, g)
      <4> HIDE DEF Good, pick
      <4> QED BY <1>3
    <3>2. Good(size[y] + 1, f)
      <4> HIDE DEF f
      <4> QED BY <2>1, <2>2
    <3>3. size[y] + 1 \in A
      BY <1>1
    <3>4. h[y] = g[y]
      <4> HIDE DEF pick
      <4> QED OBVIOUS
    <3> HIDE DEF Good, f, g, h
    <3> QED BY <2>1, <3>1, <3>2, <3>3, <3>4
  <2>3. h[x] = f[x]
    <3> HIDE DEF pick
    <3> QED OBVIOUS
  <2>4. f[x] = G[f][x]
    <3> HIDE DEF f
    <3> QED BY <2>1
  <2> HIDE DEF f, h
  <2> QED BY <2>1, <2>2, <2>3, <2>4, <1>4 DEF LooksDown
<1> HIDE DEF h
<1> QED BY <1>4, <1>5 DEF IsFixpoint

(* Recursion along one rest of the argument that gets smaller until E.     *)
GetsSmaller(S, E, rest, size) ==
    /\ E \subseteq S
    /\ size \in [S -> Nat]
    /\ rest \in [S -> S]
    /\ \A x \in S \ E : size[rest[x]] < size[x]
IsRecursion(f, S, E, base, step, rest) ==
    f = [x \in S |-> IF x \in E THEN base[x] ELSE step[<<x, f[rest[x]]>>]]

(* Such a recursive function exists, whatever is done at each step...      *)
LEMMA RecursionExists ==
    ASSUME NEW S, NEW E, NEW V, V # {}, NEW rest, NEW size, GetsSmaller(S, E, rest, size),
           NEW base \in [S -> V], NEW step \in [S \X V -> V]
    PROVE  \E f \in [S -> V] : IsRecursion(f, S, E, base, step, rest)
<1>1. E \subseteq S /\ size \in [S -> Nat] /\ rest \in [S -> S]
      /\ \A x \in S \ E : size[rest[x]] < size[x]
  BY DEF GetsSmaller
<1> USE <1>1
<1> DEFINE body(f) == [x \in S |-> IF x \in E THEN base[x] ELSE step[<<x, f[rest[x]]>>]]
           G == [f \in [S -> V] |-> body(f)]
<1>2. G \in [[S -> V] -> [S -> V]]
  <2> SUFFICES ASSUME NEW f \in [S -> V] PROVE body(f) \in [S -> V]
    OBVIOUS
  <2>1. \A x \in S : <<x, f[rest[x]]>> \in S \X V
    OBVIOUS
  <2> QED BY <2>1
<1>3. ASSUME NEW f \in [S -> V], NEW g \in [S -> V], NEW x \in S,
             \A y \in S : size[y] < size[x] => f[y] = g[y]
      PROVE  G[f][x] = G[g][x]
  <2>1. x \notin E => f[rest[x]] = g[rest[x]]
    BY <1>3
  <2> QED BY <2>1
<1>4. LooksDown(G, S, V, size)
  <2> HIDE DEF G
  <2> QED BY <1>3 DEF LooksDown
<1>5. PICK f : IsFixpoint(f, G, S, V)
  <2> HIDE DEF G
  <2> QED BY <1>2, <1>4, RecursionTheorem
<1>6. f \in [S -> V] /\ f = body(f)
  BY <1>5 DEF IsFixpoint
<1> QED BY <1>6 DEF IsRecursion

(* ... and two functions that follow it in the same way are equal.         *)
LEMMA RecursionsAgree ==
    ASSUME NEW S, NEW E, NEW rest, NEW size, GetsSmaller(S, E, rest, size), NEW f, NEW g,
           \A x \in E : f[x] = g[x],
           \A x \in S \ E : f[rest[x]] = g[rest[x]] => f[x] = g[x]
    PROVE  \A x \in S : f[x] = g[x]
<1>1. E \subseteq S /\ size \in [S -> Nat] /\ rest \in [S -> S]
      /\ \A x \in S \ E : size[rest[x]] < size[x]
  BY DEF GetsSmaller
<1> USE <1>1
<1> DEFINE A == {n \in Nat : \A x \in S : size[x] = n => f[x] = g[x]}
<1>2. A = Nat
  <2> SUFFICES ASSUME NEW n \in Nat, \A k \in Nat : k < n => k \in A
               PROVE  n \in A
    <3> A \in SUBSET Nat
      OBVIOUS
    <3> HIDE DEF A
    <3> QED BY InductionOverNat
  <2> SUFFICES ASSUME NEW x \in S, size[x] = n, x \notin E PROVE f[x] = g[x]
    OBVIOUS
  <2>1. size[rest[x]] \in A
    OBVIOUS
  <2> QED BY <2>1
<1> QED
  <2> TAKE x \in S
  <2>1. size[x] \in A
    BY <1>2
  <2> QED BY <2>1

-----------------------------------------------------------------------------
(* Comparing sequences place by place.                                     *)

(* Of two functions on the places 1, 2, ... the first place where they     *)
(* differ decides.                                                         *)
Places == Nat \ {0}
DecidesAt(d, c, f, g) ==
    /\ \A i \in 1 .. d - 1 : f[i] = g[i]
    /\ f[d] # g[d]
    /\ c = Sign(f[d] - g[d])
Decides(c, f, g) ==
    \/ c = 0 /\ \A i \in Places : f[i] = g[i]
    \/ \E d \in Places : DecidesAt(d, c, f, g)

(* The sign of the difference at the least place is decided by it.         *)
LEMMA LeastDecides ==
    ASSUME NEW f \in [Places -> Int], NEW g \in [Places -> Int], NEW n \in Nat,
           \A i \in Places : i > n => f[i] = g[i],
           NEW D, D = {i \in 1 .. n : f[i] # g[i]},
           NEW c, c = IF D = {} THEN 0 ELSE Sign(f[Min(D)] - g[Min(D)])
    PROVE  Decides(c, f, g)
<1>1. CASE D = {}
  <2>1. \A i \in Places : f[i] = g[i]
    BY <1>1 DEF Places
  <2> QED BY <1>1, <2>1 DEF Decides
<1>2. CASE D # {}
  <2>1. D \in SUBSET Nat /\ D \in SUBSET (1 .. n)
    OBVIOUS
  <2>2. Min(D) \in D /\ \A k \in D : Min(D) <= k
    BY <1>2, <2>1, MinIsLeast
  <2>3. PICK d \in 1 .. n : d = Min(D) /\ d \in D /\ \A k \in D : d <= k
    BY <2>1, <2>2
  <2>4. f[d] # g[d] /\ \A i \in 1 .. d - 1 : f[i] = g[i]
    BY <2>3
  <2>5. DecidesAt(d, c, f, g)
    BY <1>2, <2>3, <2>4 DEF DecidesAt
  <2>6. d \in Places
    BY DEF Places
  <2> QED BY <2>5, <2>6 DEF Decides
<1> QED BY <1>1, <1>2

(* Only one sign is decided.                                               *)
LEMMA DecidedOnce ==
    ASSUME NEW f, NEW g, NEW c, NEW e, Decides(c, f, g), Decides(e, f, g)
    PROVE  c = e
<1>1. CASE \A i \in Places : f[i] = g[i]
  BY <1>1 DEF Decides, DecidesAt
<1>2. CASE ~\A i \in Places : f[i] = g[i]
  <2>1. PICK d \in Places : DecidesAt(d, c, f, g)
    BY <1>2 DEF Decides
  <2>2. PICK b \in Places : DecidesAt(b, e, f, g)
    BY <1>2 DEF Decides
  <2>3. ~(d < b) /\ ~(b < d)
    BY <2>1, <2>2 DEF DecidesAt, Places
  <2>4. d = b
    BY <2>3 DEF Places
  <2> QED BY <2>1, <2>2, <2>4 DEF DecidesAt
<1> QED BY <1>1, <1>2

(* The other way around, the opposite sign is decided.                     *)
LEMMA DecisionsTurn ==
    ASSUME NEW f \in [Places -> Int], NEW g \in [Places -> Int], NEW c, Decides(c, f, g)
    PROVE  c \in {-1, 0, 1} /\ Decides(0 - c, g, f)
<1>1. CASE c = 0 /\ \A i \in Places : f[i] = g[i]
  <2>1. 0 - c = 0 /\ \A i \in Places : g[i] = f[i]
    BY <1>1
  <2> QED BY <1>1, <2>1 DEF Decides
<1>2. ASSUME NEW d \in Places, DecidesAt(d, c, f, g)
      PROVE  c \in {-1, 0, 1} /\ Decides(0 - c, g, f)
  <2>1. PICK m \in Int, n \in Int : m = f[d] /\ n = g[d]
    OBVIOUS
  <2>2. m # n /\ c = Sign(m - n)
    BY <1>2, <2>1 DEF DecidesAt
  <2>3. c \in {-1, 0, 1} /\ 0 - c = Sign(n - m)
    BY <2>2 DEF Sign
  <2>4. DecidesAt(d, 0 - c, g, f)
    BY <1>2, <2>1, <2>3 DEF DecidesAt, Places
  <2> QED BY <2>3, <2>4 DEF Decides
<1> QED BY <1>1, <1>2 DEF Decides

(* Where f is not above g: up to the place that decides.                   *)
LEMMA UpToDecision ==
    ASSUME NEW f \in [Places -> Int], NEW g \in [Places -> Int], NEW c, c <= 0,
           NEW d \in Places, DecidesAt(d, c, f, g), NEW m \in Places, m <= d
    PROVE  f[m] <= g[m] /\ (m = d => f[m] < g[m])
<1>1. PICK i \in Int, j \in Int : i = f[m] /\ j = g[m]
  OBVIOUS
<1>2. CASE m = d
  BY <1>1, <1>2 DEF DecidesAt, Sign
<1>3. CASE m < d
  BY <1>1, <1>3 DEF DecidesAt, Places
<1> QED BY <1>1, <1>2, <1>3 DEF Places

(* Three signs of a circle of comparisons are all 0 when none is above 0.  *)
NoCircle(xy, yz, zx) ==
    xy <= 0 /\ yz <= 0 /\ zx <= 0 => xy = 0 /\ yz = 0 /\ zx = 0

(* Decisions go in no circle.                                              *)
LEMMA DecidedInCircle ==
    ASSUME NEW f \in [Places -> Int], NEW g \in [Places -> Int], NEW h \in [Places -> Int],
           NEW p, Decides(p, f, g), NEW q, Decides(q, g, h), NEW r, Decides(r, h, f)
    PROVE  NoCircle(p, q, r)
<1> DEFINE Bound(d, c, x, y) == \A m \in Places : d = 0 \/ m <= d =>
                                   x[m] <= y[m] /\ (m = d => x[m] < y[m])
           Place(d, c, x, y) == /\ d \in Nat /\ (c = 0 <=> d = 0)
                                /\ c <= 0 => Bound(d, c, x, y)
<1>1. ASSUME NEW x \in [Places -> Int], NEW y \in [Places -> Int], NEW c, Decides(c, x, y)
      PROVE  \E d : Place(d, c, x, y)
  <2>1. CASE c = 0 /\ \A i \in Places : x[i] = y[i]
    <3>1. Place(0, c, x, y)
      BY <2>1 DEF Places
    <3> QED BY <3>1
  <2>2. ASSUME NEW d \in Places, DecidesAt(d, c, x, y)
        PROVE  Place(d, c, x, y)
    <3>1. d \in Nat /\ d # 0
      BY DEF Places
    <3>2. c # 0
      <4>1. x[d] \in Int /\ y[d] \in Int
        OBVIOUS
      <4> QED BY <2>2, <4>1 DEF DecidesAt, Sign
    <3>3. c <= 0 => Bound(d, c, x, y)
      BY <2>2, <3>1, UpToDecision
    <3> QED BY <3>1, <3>2, <3>3
  <2> QED BY <1>1, <2>1, <2>2 DEF Decides
<1>2. PICK d : Place(d, p, f, g)
  BY <1>1
<1>3. PICK e : Place(e, q, g, h)
  BY <1>1
<1>4. PICK b : Place(b, r, h, f)
  BY <1>1
<1> SUFFICES ASSUME p <= 0, q <= 0, r <= 0, ~(p = 0 /\ q = 0 /\ r = 0) PROVE FALSE
  BY DEF NoCircle
<1>5. d \in Nat /\ e \in Nat /\ b \in Nat /\ ~(d = 0 /\ e = 0 /\ b = 0)
  BY <1>2, <1>3, <1>4
<1>6. PICK m \in Places : /\ d = 0 \/ m <= d
                          /\ e = 0 \/ m <= e
                          /\ b = 0 \/ m <= b
                          /\ m = d \/ m = e \/ m = b
  <2> HIDE DEF Place
  <2>1. CASE d # 0 /\ (e = 0 \/ d <= e) /\ (b = 0 \/ d <= b)
    BY <1>5, <2>1 DEF Places
  <2>2. CASE e # 0 /\ (d = 0 \/ e <= d) /\ (b = 0 \/ e <= b)
    BY <1>5, <2>2 DEF Places
  <2>3. CASE b # 0 /\ (d = 0 \/ b <= d) /\ (e = 0 \/ b <= e)
    BY <1>5, <2>3 DEF Places
  <2> QED BY <1>5, <2>1, <2>2, <2>3
<1>7. /\ f[m] <= g[m] /\ (m = d => f[m] < g[m])
      /\ g[m] <= h[m] /\ (m = e => g[m] < h[m])
      /\ h[m] <= f[m] /\ (m = b => h[m] < f[m])
  BY <1>2, <1>3, <1>4, <1>6
<1>8. f[m] \in Int /\ g[m] \in Int /\ h[m] \in Int
  OBVIOUS
<1> QED BY <1>6, <1>7, <1>8

(* Sequences of numbers, 0 after their end, and their order.               *)
Numbers == Seq(Int)
Padded(k) == [i \in Places |-> At(k, i)]
Lex(k, l) == LexCompare(At, k, l)

(* A sequence with zeros after its end is a function on the places.        *)
LEMMA PaddedFacts ==
    ASSUME NEW k \in Numbers
    PROVE  /\ Len(k) \in Nat
           /\ Padded(k) \in [Places -> Int]
           /\ \A i \in Places : Padded(k)[i] = IF i <= Len(k) THEN k[i] ELSE 0
<1>1. Len(k) \in Nat /\ \A i \in 1 .. Len(k) : k[i] \in Int
  BY DEF Numbers
<1>2. \A i \in Places : At(k, i) \in Int
  BY <1>1 DEF At, Places
<1> QED BY <1>1, <1>2 DEF Padded, At

(* The order of two sequences is what their padded forms decide...         *)
LEMMA LexDecides ==
    ASSUME NEW k \in Numbers, NEW l \in Numbers
    PROVE  Decides(Lex(k, l), Padded(k), Padded(l))
<1> DEFINE n == Len(k) + Len(l)
           D == {i \in 1 .. n : At(k, i) # At(l, i)}
           c == Lex(k, l)
           f == Padded(k)
           g == Padded(l)
<1>1. n \in Nat /\ 1 .. n \subseteq Places
  BY PaddedFacts DEF Places
<1>2. f \in [Places -> Int] /\ g \in [Places -> Int]
  BY PaddedFacts
<1>3. \A i \in Places : i > n => f[i] = g[i]
  <2> TAKE i \in Places
  <2>1. Len(k) \in Nat /\ Len(l) \in Nat /\ i \in Nat
    BY PaddedFacts DEF Places
  <2> HIDE DEF f, g
  <2> QED BY <2>1, PaddedFacts DEF f, g
<1>4. \A i \in Places : f[i] = At(k, i) /\ g[i] = At(l, i)
  BY DEF Padded
<1>5. D = {i \in 1 .. n : f[i] # g[i]}
  <2> HIDE DEF f, g, n
  <2> QED BY <1>1, <1>4
<1>6. D # {} => Min(D) \in Places
  <2>1. D \in SUBSET Nat /\ D \in SUBSET Places
    BY <1>1 DEF Places
  <2> HIDE DEF D
  <2> QED BY <2>1, MinIsLeast
<1>7. c = IF D = {} THEN 0 ELSE Sign(f[Min(D)] - g[Min(D)])
  <2>1. c = IF D = {} THEN 0 ELSE Sign(At(k, Min(D)) - At(l, Min(D)))
    BY DEF Lex, LexCompare
  <2> HIDE DEF D, f, g, c
  <2> QED BY <2>1, <1>4, <1>6
<1> HIDE DEF n, f, g, c, D
<1> QED BY <1>1, <1>2, <1>3, <1>5, <1>7, LeastDecides DEF f, g, c

(* ... and nothing else is.                                                *)
LEMMA LexIs ==
    ASSUME NEW k \in Numbers, NEW l \in Numbers, NEW c, Decides(c, Padded(k), Padded(l))
    PROVE  Lex(k, l) = c
BY LexDecides, DecidedOnce

(* So it is an order: antisymmetric, without circles.                      *)
LEMMA LexIsOrder ==
    /\ \A k, l \in Numbers : /\ Lex(k, l) \in {-1, 0, 1}
                             /\ Lex(l, k) = 0 - Lex(k, l)
    /\ \A k, l, m \in Numbers : NoCircle(Lex(k, l), Lex(l, m), Lex(m, k))
<1>1. ASSUME NEW k \in Numbers, NEW l \in Numbers
      PROVE  Lex(k, l) \in {-1, 0, 1} /\ Lex(l, k) = 0 - Lex(k, l)
  BY LexDecides, LexIs, DecisionsTurn, PaddedFacts
<1>2. ASSUME NEW k \in Numbers, NEW l \in Numbers, NEW m \in Numbers
      PROVE  NoCircle(Lex(k, l), Lex(l, m), Lex(m, k))
  BY LexDecides, DecidedInCircle, PaddedFacts
<1> QED BY <1>1, <1>2

(* Zeros at the end do not matter.                                         *)
LEMMA LexOfPadded ==
    ASSUME NEW k \in Numbers, NEW l \in Numbers, NEW m \in Numbers, NEW n \in Numbers,
           Padded(k) = Padded(m), Padded(l) = Padded(n)
    PROVE  Lex(k, l) = Lex(m, n)
BY LexDecides, LexIs

(* A sequence is equal to itself.                                          *)
LEMMA LexOfEquals ==
    ASSUME NEW k \in Numbers
    PROVE  Lex(k, k) = 0
<1>1. Decides(0, Padded(k), Padded(k))
  BY DEF Decides
<1> QED BY <1>1, LexIs

(* Where the first numbers differ, they decide.                            *)
LEMMA LexOfFirst ==
    ASSUME NEW k \in Numbers, NEW l \in Numbers, At(k, 1) # At(l, 1)
    PROVE  Lex(k, l) = Sign(At(k, 1) - At(l, 1))
<1>1. DecidesAt(1, Sign(At(k, 1) - At(l, 1)), Padded(k), Padded(l)) /\ 1 \in Places
  BY DEF DecidesAt, Padded, Places
<1> QED BY <1>1, LexIs DEF Decides

(* The places of two sequences joined.                                     *)
LEMMA JoinedFacts ==
    ASSUME NEW k \in Numbers, NEW x \in Numbers
    PROVE  /\ k \o x \in Numbers
           /\ Len(k \o x) = Len(k) + Len(x)
           /\ \A i \in Places : Padded(k \o x)[i] =
                 IF i <= Len(k) THEN k[i] ELSE Padded(x)[i - Len(k)]
<1>1. k \o x \in Numbers /\ Len(k \o x) = Len(k) + Len(x)
  BY DEF Numbers
<1>2. ASSUME NEW i \in Places
      PROVE  Padded(k \o x)[i] = IF i <= Len(k) THEN k[i] ELSE Padded(x)[i - Len(k)]
  <2>1. i \in Nat \ {0} /\ Len(k) \in Nat /\ Len(x) \in Nat
    BY PaddedFacts DEF Places
  <2>2. Padded(k \o x)[i] = IF i <= Len(k) + Len(x) THEN (k \o x)[i] ELSE 0
    BY <1>1, PaddedFacts
  <2>3. CASE i <= Len(k)
    BY <2>1, <2>2, <2>3 DEF Numbers
  <2>4. CASE i > Len(k)
    <3>1. i - Len(k) \in Places
      BY <2>1, <2>4 DEF Places
    <3>2. Padded(x)[i - Len(k)] = IF i - Len(k) <= Len(x) THEN x[i - Len(k)] ELSE 0
      BY <3>1, PaddedFacts
    <3>3. i <= Len(k) + Len(x) => (k \o x)[i] = x[i - Len(k)]
      BY <2>1, <2>4 DEF Numbers
    <3> QED BY <2>1, <2>2, <2>4, <3>2, <3>3
  <2> QED BY <2>1, <2>3, <2>4
<1> QED BY <1>1, <1>2

(* Neither of the two is a proper beginning of the other.                  *)
Apart(p, q) == \/ Len(p) = Len(q)
               \/ \E i \in Places : i <= Len(p) /\ i <= Len(q) /\ p[i] # q[i]

(* The order of keys is found block by block: when neither first block is  *)
(* a proper beginning of the other, the blocks decide, then what follows.  *)
LEMMA LexOfJoined ==
    ASSUME NEW p \in Numbers, NEW q \in Numbers, Apart(p, q),
           NEW x \in Numbers, NEW y \in Numbers
    PROVE  Lex(p \o x, q \o y) = Then(Lex(p, q), Lex(x, y))
<1> DEFINE f == Padded(p \o x)
           g == Padded(q \o y)
           c == Then(Lex(p, q), Lex(x, y))
<1>1. /\ Len(p) \in Nat /\ Len(q) \in Nat
      /\ p \o x \in Numbers /\ q \o y \in Numbers
      /\ Places = Nat \ {0}
      /\ \A i \in Places : /\ f[i] = IF i <= Len(p) THEN p[i] ELSE Padded(x)[i - Len(p)]
                           /\ g[i] = IF i <= Len(q) THEN q[i] ELSE Padded(y)[i - Len(q)]
                           /\ Padded(p)[i] = IF i <= Len(p) THEN p[i] ELSE 0
                           /\ Padded(q)[i] = IF i <= Len(q) THEN q[i] ELSE 0
  BY PaddedFacts, JoinedFacts DEF Places
<1> HIDE DEF f, g
<1>2. ASSUME NEW d \in Places, d <= Len(p), d <= Len(q), DecidesAt(d, Lex(p, q), Padded(p), Padded(q))
      PROVE  Decides(c, f, g)
  <2>1. Lex(p, q) # 0
    <3>1. Padded(p)[d] \in Int /\ Padded(q)[d] \in Int
      BY PaddedFacts
    <3> QED BY <1>2, <3>1 DEF DecidesAt, Sign
  <2>2. c = Lex(p, q)
    BY <2>1 DEF Then
  <2>3. \A i \in 1 .. d - 1 : i \in Places /\ i <= Len(p) /\ i <= Len(q)
    BY <1>1, <1>2
  <2>4. \A i \in 1 .. d - 1 : f[i] = g[i]
    BY <1>1, <1>2, <2>3 DEF DecidesAt
  <2>5. f[d] = Padded(p)[d] /\ g[d] = Padded(q)[d]
    BY <1>1, <1>2
  <2>6. DecidesAt(d, c, f, g)
    <3> HIDE DEF c
    <3> QED BY <1>2, <2>2, <2>4, <2>5 DEF DecidesAt
  <2> QED BY <2>6 DEF Decides
<1>3. CASE Lex(p, q) # 0
  <2>1. PICK d \in Places : DecidesAt(d, Lex(p, q), Padded(p), Padded(q))
    BY <1>3, LexDecides DEF Decides
  <2>2. d <= Len(p) /\ d <= Len(q)
    <3>1. CASE Len(p) = Len(q)
      BY <1>1, <2>1, <3>1 DEF DecidesAt
    <3>2. ASSUME NEW i \in Places, i <= Len(p), i <= Len(q), p[i] # q[i]
          PROVE  d <= Len(p) /\ d <= Len(q)
      <4>1. Padded(p)[i] # Padded(q)[i]
        BY <1>1, <3>2
      <4>2. ~(i < d)
        BY <1>1, <2>1, <4>1 DEF DecidesAt
      <4> QED BY <1>1, <3>2, <4>2
    <3> QED BY <3>1, <3>2 DEF Apart
  <2> QED BY <1>1, <1>2, <2>1, <2>2, LexIs DEF f, g
<1>4. CASE Lex(p, q) = 0
  <2>1. \A i \in Places : Padded(p)[i] = Padded(q)[i]
    <3> SUFFICES ASSUME NEW d \in Places, DecidesAt(d, Lex(p, q), Padded(p), Padded(q))
                 PROVE  FALSE
      BY LexDecides DEF Decides
    <3>1. Padded(p)[d] \in Int /\ Padded(q)[d] \in Int
      BY PaddedFacts
    <3> QED BY <1>4, <3>1 DEF DecidesAt, Sign
  <2>2. Len(p) = Len(q)
    BY <1>1, <2>1 DEF Apart
  <2>3. c = Lex(x, y)
    BY <1>4 DEF Then
  <2>4. \A i \in Places : i <= Len(p) => f[i] = g[i]
    BY <1>1, <2>1, <2>2
  <2>5. \A i \in Places : i > Len(p) => /\ i - Len(p) \in Places
                                        /\ f[i] = Padded(x)[i - Len(p)]
                                        /\ g[i] = Padded(y)[i - Len(p)]
    BY <1>1, <2>2
  <2>6. CASE Lex(x, y) = 0 /\ \A i \in Places : Padded(x)[i] = Padded(y)[i]
    <3>1. \A i \in Places : f[i] = g[i]
      BY <1>1, <2>4, <2>5, <2>6
    <3>2. Decides(c, f, g)
      BY <2>3, <2>6, <3>1 DEF Decides
    <3> QED BY <1>1, <3>2, LexIs DEF f, g
  <2>7. ASSUME NEW d \in Places, DecidesAt(d, Lex(x, y), Padded(x), Padded(y))
        PROVE  Lex(p \o x, q \o y) = c
    <3>1. PICK n \in Places : n = d + Len(p) /\ n > Len(p) /\ n - Len(p) = d
      BY <1>1
    <3>2. f[n] = Padded(x)[d] /\ g[n] = Padded(y)[d]
      BY <2>5, <3>1
    <3>3. ASSUME NEW i \in 1 .. n - 1 PROVE f[i] = g[i]
      <4>1. CASE i <= Len(p)
        BY <1>1, <2>4, <4>1
      <4>2. CASE i > Len(p)
        <5>1. i \in Places /\ i - Len(p) \in 1 .. d - 1
          BY <1>1, <3>1, <3>3, <4>2
        <5> QED BY <2>5, <2>7, <4>2, <5>1 DEF DecidesAt
      <4> QED BY <1>1, <4>1, <4>2
    <3>4. DecidesAt(n, c, f, g)
      <4> HIDE DEF c
      <4> QED BY <2>3, <2>7, <3>2, <3>3 DEF DecidesAt
    <3>5. Decides(c, f, g)
      BY <3>1, <3>4 DEF Decides
    <3> QED BY <1>1, <3>5, LexIs DEF f, g
  <2> QED BY <2>6, <2>7, LexDecides DEF Decides
<1> QED BY <1>3, <1>4

(* The order of single numbers.                                            *)
LEMMA LexOfOne ==
    ASSUME NEW m \in Int, NEW n \in Int
    PROVE  <<m>> \in Numbers /\ <<n>> \in Numbers /\ Lex(<<m>>, <<n>>) = Sign(m - n)
<1>1. <<m>> \in Numbers /\ <<n>> \in Numbers
  BY DEF Numbers
<1>2. At(<<m>>, 1) = m /\ At(<<n>>, 1) = n
  BY DEF At
<1>3. CASE m # n
  BY <1>1, <1>2, <1>3, LexOfFirst
<1>4. CASE m = n
  BY <1>1, <1>4, LexOfEquals DEF Sign
<1> QED BY <1>1, <1>3, <1>4

(* A 0 at the end changes nothing.                                         *)
LEMMA ZeroAtTheEnd ==
    ASSUME NEW k \in Numbers
    PROVE  Padded(k \o <<0>>) = Padded(k)
<1>1. <<0>> \in Numbers /\ Len(<<0>>) = 1
  BY DEF Numbers
<1>2. \A i \in Places : Padded(<<0>>)[i] = 0
  <2> TAKE i \in Places
  <2>1. Padded(<<0>>)[i] = IF i <= 1 THEN <<0>>[i] ELSE 0
    BY <1>1, PaddedFacts
  <2>2. i <= 1 => i = 1
    BY DEF Places
  <2> QED BY <2>1, <2>2
<1>3. \A i \in Places : Padded(k \o <<0>>)[i] = Padded(k)[i]
  <2> TAKE i \in Places
  <2>1. i \in Nat \ {0} /\ Len(k) \in Nat
    BY PaddedFacts DEF Places
  <2>2. i > Len(k) => i - Len(k) \in Places
    BY <2>1 DEF Places
  <2>3. Padded(k \o <<0>>)[i] = IF i <= Len(k) THEN k[i] ELSE Padded(<<0>>)[i - Len(k)]
    BY <1>1, JoinedFacts
  <2>4. Padded(k)[i] = IF i <= Len(k) THEN k[i] ELSE 0
    BY PaddedFacts
  <2> QED BY <1>2, <2>1, <2>2, <2>3, <2>4
<1>4. k \o <<0>> \in Numbers
  BY <1>1, JoinedFacts
<1> QED BY <1>3 DEF Padded

(* Numbers other than 0, up to an end that a 0 marks.                      *)
Texts == Seq(Int \ {0})

(* A 0 that ends a text keeps texts apart, and changes no order.           *)
LEMMA LexOfTexts ==
    ASSUME NEW u \in Texts, NEW w \in Texts
    PROVE  /\ u \in Numbers /\ w \in Numbers
           /\ u \o <<0>> \in Numbers /\ w \o <<0>> \in Numbers
           /\ Apart(u \o <<0>>, w \o <<0>>)
           /\ Lex(u \o <<0>>, w \o <<0>>) = Lex(u, w)
<1>1. /\ u \in Numbers /\ w \in Numbers /\ <<0>> \in Numbers
      /\ Len(u) \in Nat /\ Len(w) \in Nat /\ Len(<<0>>) = 1
      /\ \A i \in 1 .. Len(u) : u[i] # 0
      /\ \A i \in 1 .. Len(w) : w[i] # 0
  BY DEF Texts, Numbers
<1>2. /\ u \o <<0>> \in Numbers /\ w \o <<0>> \in Numbers
      /\ Len(u \o <<0>>) = Len(u) + 1
      /\ Len(w \o <<0>>) = Len(w) + 1
  BY <1>1, JoinedFacts
<1>3. /\ \A i \in 1 .. Len(u) : (u \o <<0>>)[i] = u[i]
      /\ \A i \in 1 .. Len(w) : (w \o <<0>>)[i] = w[i]
      /\ (u \o <<0>>)[Len(u) + 1] = 0 /\ (w \o <<0>>)[Len(w) + 1] = 0
  BY <1>1 DEF Numbers
<1>4. Apart(u \o <<0>>, w \o <<0>>)
  <2>1. CASE Len(u) = Len(w)
    BY <1>2, <2>1 DEF Apart
  <2>2. CASE Len(u) < Len(w)
    <3>1. Len(u) + 1 \in Places /\ Len(u) + 1 \in 1 .. Len(w)
      BY <1>1, <2>2 DEF Places
    <3>2. (u \o <<0>>)[Len(u) + 1] # (w \o <<0>>)[Len(u) + 1]
      BY <1>1, <1>3, <3>1
    <3>3. Len(u) + 1 <= Len(u \o <<0>>) /\ Len(u) + 1 <= Len(w \o <<0>>)
      BY <1>1, <1>2, <2>2
    <3> QED BY <3>1, <3>2, <3>3 DEF Apart
  <2>3. CASE Len(w) < Len(u)
    <3>1. Len(w) + 1 \in Places /\ Len(w) + 1 \in 1 .. Len(u)
      BY <1>1, <2>3 DEF Places
    <3>2. (u \o <<0>>)[Len(w) + 1] # (w \o <<0>>)[Len(w) + 1]
      BY <1>1, <1>3, <3>1
    <3>3. Len(w) + 1 <= Len(u \o <<0>>) /\ Len(w) + 1 <= Len(w \o <<0>>)
      BY <1>1, <1>2, <2>3
    <3> QED BY <3>1, <3>2, <3>3 DEF Apart
  <2> QED BY <1>1, <2>1, <2>2, <2>3
<1>5. Lex(u \o <<0>>, w \o <<0>>) = Lex(u, w)
  BY <1>1, <1>2, ZeroAtTheEnd, LexOfPadded
<1> QED BY <1>1, <1>2, <1>4, <1>5

-----------------------------------------------------------------------------
(* Strings of bytes, their parts, and comparing bytes.                     *)

(* Span counts the bytes of a class at the beginning.                      *)
LEMMA SpanFacts ==
    ASSUME NEW s \in Strings, NEW class
    PROVE  /\ Span(s, class) \in 0 .. Len(s)
           /\ \A i \in 1 .. Span(s, class) : s[i] \in class
           /\ Span(s, class) < Len(s) => s[Span(s, class) + 1] \notin class
<1> DEFINE I == {i \in 1 .. Len(s) : s[i] \notin class}
<1>1. CASE I = {}
  BY <1>1 DEF Span, SelectInSeq, Strings
<1>2. CASE I # {}
  <2>1. Min(I) \in I /\ \A k \in I : Min(I) <= k
    BY <1>2, MinIsLeast
  <2>2. Span(s, class) = Min(I) - 1
    BY <1>2, <2>1 DEF Span, SelectInSeq
  <2>3. \A i \in 1 .. Len(s) : i \in I <=> s[i] \notin class
    OBVIOUS
  <2>4. I \subseteq 1 .. Len(s) /\ Len(s) \in Nat
    BY DEF Strings
  <2>5. PICK m \in Nat : m = Min(I) /\ m \in 1 .. Len(s)
    <3>1. Min(I) \in 1 .. Len(s)
      <4> HIDE DEF I
      <4> QED BY <2>1, <2>4
    <3>2. Min(I) \in Nat
      <4> HIDE DEF I
      <4> QED BY <3>1, <2>4
    <3> HIDE DEF I
    <3> QED BY <3>1, <3>2
  <2>6. s[m] \notin class
    BY <2>1, <2>5
  <2>7. \A i \in 1 .. m - 1 : s[i] \in class
    <3> HIDE DEF I
    <3> QED BY <2>1, <2>3, <2>4, <2>5
  <2> HIDE DEF I
  <2> QED BY <2>2, <2>4, <2>5, <2>6, <2>7
<1> QED BY <1>1, <1>2

(* They are cut off into Prefix, and After is what remains.                *)
LEMMA PrefixAndAfter ==
    ASSUME NEW s \in Strings, NEW class
    PROVE  /\ Prefix(s, class) \in Strings
           /\ Len(Prefix(s, class)) = Span(s, class)
           /\ \A i \in 1 .. Span(s, class) : Prefix(s, class)[i] = s[i]
           /\ After(s, class) \in Strings
           /\ Len(After(s, class)) = Len(s) - Span(s, class)
           /\ \A i \in 1 .. Len(s) - Span(s, class) :
                 After(s, class)[i] = s[i + Span(s, class)]
<1>1. PICK n \in Nat : n = Span(s, class) /\ n <= Len(s) /\ Len(s) \in Nat
  BY SpanFacts DEF Strings
<1>2. /\ Prefix(s, class) = SubSeq(s, 1, n)
      /\ After(s, class) = SubSeq(s, n + 1, Len(s))
  BY <1>1 DEF Prefix, After, Take, Drop
<1> QED BY <1>1, <1>2 DEF Strings

(* Bytes of strings are numbers.                                           *)
LEMMA BytesOfStrings ==
    ASSUME NEW s \in Strings
    PROVE  Len(s) \in Nat /\ \A i \in 1 .. Len(s) : s[i] \in Bytes /\ s[i] \in Int
<1>1. Len(s) \in Nat /\ \A i \in 1 .. Len(s) : s[i] \in Bytes
  BY DEF Strings
<1>2. Bytes \subseteq Int
  BY DEF Bytes
<1> QED BY <1>1, <1>2

(* A string that is not empty has a first byte.                            *)
LEMMA FirstByte ==
    ASSUME NEW s \in Strings, s # <<>>
    PROVE  s[1] \in Bytes /\ Len(s) \in Nat \ {0}
BY DEF Strings

(* The empty string is the one of length 0.                                *)
LEMMA EmptyString ==
    /\ <<>> \in Strings
    /\ \A s \in Strings : Len(s) = 0 <=> s = <<>>
BY DEF Strings

(* After gets shorter when the first byte is of the class.                 *)
LEMMA AfterFirst ==
    ASSUME NEW s \in Strings, NEW class
    PROVE  /\ After(s, class) \in Strings
           /\ Len(After(s, class)) <= Len(s)
           /\ s # <<>> /\ s[1] \in class => Len(After(s, class)) < Len(s)
           /\ After(s, class) # <<>> => After(s, class)[1] \notin class
<1>1. /\ After(s, class) \in Strings
      /\ Len(After(s, class)) = Len(s) - Span(s, class)
      /\ \A i \in 1 .. Len(s) - Span(s, class) : After(s, class)[i] = s[i + Span(s, class)]
  BY PrefixAndAfter
<1>2. PICK n \in Nat : n = Span(s, class) /\ n <= Len(s) /\ Len(s) \in Nat
  BY SpanFacts DEF Strings
<1>3. n < Len(s) => s[n + 1] \notin class
  BY SpanFacts, <1>2
<1>4. ASSUME s # <<>>, s[1] \in class PROVE n # 0
  <2>1. Len(s) # 0
    BY <1>4, EmptyString
  <2> QED BY <1>2, <1>3, <1>4, <2>1
<1>5. ASSUME After(s, class) # <<>> PROVE After(s, class)[1] \notin class
  <2>1. Len(After(s, class)) # 0
    BY <1>1, <1>5, EmptyString
  <2>2. n < Len(s) /\ 1 \in 1 .. Len(s) - n
    BY <1>1, <1>2, <2>1
  <2>3. After(s, class)[1] = s[1 + n]
    BY <1>1, <1>2, <2>2
  <2> QED BY <1>2, <1>3, <2>2, <2>3
<1> QED BY <1>1, <1>2, <1>4, <1>5

(* Front and Tail are shorter strings.                                     *)
LEMMA ShorterByOne ==
    ASSUME NEW s \in Strings, s # <<>>
    PROVE  /\ Front(s) \in Strings /\ Len(Front(s)) < Len(s)
           /\ Tail(s) \in Strings
           /\ Last(s) \in Int
<1>1. Len(s) \in Nat \ {0} /\ \A i \in 1 .. Len(s) : s[i] \in Bytes /\ s[i] \in Int
  BY FirstByte, BytesOfStrings
<1>2. Front(s) \in Strings /\ Len(Front(s)) < Len(s)
  BY <1>1 DEF Front, Strings
<1>3. Tail(s) \in Strings
  BY <1>1 DEF Strings
<1>4. Last(s) \in Int
  BY <1>1 DEF Last
<1> QED BY <1>2, <1>3, <1>4

(* Length as a function, for recursions on strings.                        *)
Length == [s \in Strings |-> Len(s)]

(* The lengths of strings are natural numbers.                             *)
LEMMA LengthFacts ==
    /\ Length \in [Strings -> Nat]
    /\ \A s \in Strings : Length[s] = Len(s)
BY DEF Length, Strings

(* Differences of one sign are 0 together.                                 *)
LEMMA SignFacts ==
    ASSUME NEW a \in Int, NEW b \in Int, NEW c \in Int, NEW d \in Int,
           Sign(a - b) = Sign(c - d)
    PROVE  a = b <=> c = d
BY DEF Sign

(* BytesCompare orders strings as sequences of numbers are ordered that    *)
(* compare place by place as the bytes do.                                 *)
LEMMA BytesAsNumbers ==
    ASSUME NEW x \in Strings, NEW y \in Strings, NEW k \in Numbers, NEW l \in Numbers,
           Len(k) = Len(x), Len(l) = Len(y),
           \A i \in Places : Sign(ByteOrder(x, i) - ByteOrder(y, i)) = Sign(At(k, i) - At(l, i))
    PROVE  BytesCompare(x, y) = Lex(k, l)
<1> DEFINE n == Len(x) + Len(y)
           D == {i \in 1 .. n : ByteOrder(x, i) # ByteOrder(y, i)}
           E == {i \in 1 .. n : At(k, i) # At(l, i)}
<1>1. n \in Nat /\ 1 .. n \subseteq Places
  BY BytesOfStrings DEF Places
<1>2. \A i \in Places : /\ ByteOrder(x, i) \in Int /\ ByteOrder(y, i) \in Int
                        /\ At(k, i) \in Int /\ At(l, i) \in Int
  <2> TAKE i \in Places
  <2>1. Padded(k)[i] \in Int /\ Padded(l)[i] \in Int
    BY PaddedFacts
  <2>2. Padded(k)[i] = At(k, i) /\ Padded(l)[i] = At(l, i)
    BY DEF Padded
  <2>3. ByteOrder(x, i) \in Int /\ ByteOrder(y, i) \in Int
    BY BytesOfStrings DEF ByteOrder, Places
  <2> QED BY <2>1, <2>2, <2>3
<1>3. \A i \in Places : ByteOrder(x, i) = ByteOrder(y, i) <=> At(k, i) = At(l, i)
  BY <1>2, SignFacts
<1>4. D = E
  <2> HIDE DEF n
  <2> QED BY <1>1, <1>3
<1>5. D # {} => Min(D) \in Places
  <2>1. D \in SUBSET Nat /\ D \in SUBSET Places
    BY <1>1 DEF Places
  <2> HIDE DEF D
  <2> QED BY <2>1, MinIsLeast
<1>6. BytesCompare(x, y) = IF D = {} THEN 0
                           ELSE Sign(ByteOrder(x, Min(D)) - ByteOrder(y, Min(D)))
  BY DEF BytesCompare, LexCompare
<1>7. Lex(k, l) = IF E = {} THEN 0 ELSE Sign(At(k, Min(E)) - At(l, Min(E)))
  BY DEF Lex, LexCompare
<1> HIDE DEF D, E
<1> QED BY <1>4, <1>5, <1>6, <1>7

(* A string is a sequence of numbers.                                      *)
LEMMA StringsAreNumbers ==
    ASSUME NEW s \in Strings
    PROVE  s \in Numbers /\ Len(s) \in Nat /\ \A i \in 1 .. Len(s) : s[i] \in Nat
<1>1. Bytes \subseteq Nat
  BY DEF Bytes
<1>2. Len(s) \in Nat /\ \A i \in 1 .. Len(s) : s[i] \in Nat
  BY <1>1, BytesOfStrings
<1> QED BY <1>1, <1>2 DEF Strings, Numbers

(* Where no byte is 0, strings are compared as numbers are.                *)
LEMMA PositiveBytes ==
    ASSUME NEW x \in Strings, NEW y \in Strings,
           \A i \in 1 .. Len(x) : x[i] # 0, \A i \in 1 .. Len(y) : y[i] # 0
    PROVE  x \in Numbers /\ y \in Numbers /\ BytesCompare(x, y) = Lex(x, y)
<1>1. \A s \in Strings : /\ s \in Numbers /\ Len(s) \in Nat
                         /\ \A i \in 1 .. Len(s) : s[i] \in Nat
  BY StringsAreNumbers
<1>2. x \in Numbers /\ y \in Numbers
  BY <1>1
<1>3. ASSUME NEW i \in Places
      PROVE  Sign(ByteOrder(x, i) - ByteOrder(y, i)) = Sign(At(x, i) - At(y, i))
  <2>1. i <= Len(x) => i \in 1 .. Len(x)
    BY <1>1 DEF Places
  <2>2. i <= Len(y) => i \in 1 .. Len(y)
    BY <1>1 DEF Places
  <2>3. /\ IF i <= Len(x) THEN ByteOrder(x, i) = x[i] /\ At(x, i) = x[i] /\ x[i] \in Nat \ {0}
           ELSE ByteOrder(x, i) = -1 /\ At(x, i) = 0
        /\ IF i <= Len(y) THEN ByteOrder(y, i) = y[i] /\ At(y, i) = y[i] /\ y[i] \in Nat \ {0}
           ELSE ByteOrder(y, i) = -1 /\ At(y, i) = 0
    BY <1>1, <2>1, <2>2 DEF ByteOrder, At, Places
  <2> QED BY <2>3 DEF Sign
<1> QED BY <1>2, <1>3, BytesAsNumbers

-----------------------------------------------------------------------------
(* Numerals: comparing digits is comparing values.                         *)

(* Value satisfies its recursive definition.                               *)
LEMMA ValueFacts ==
    /\ Value[<<>>] = 0
    /\ \A s \in Strings : Value[s] \in Int
    /\ \A s \in Strings : s # <<>> => Value[s] = 10 * Value[Front(s)] + Last(s) - 48
<1> DEFINE E == {<<>>}
           base == [s \in Strings |-> 0]
           step == [p \in Strings \X Int |-> IF p[1] = <<>> THEN 0 ELSE 10 * p[2] + Last(p[1]) - 48]
           rest == [s \in Strings |-> IF s = <<>> THEN s ELSE Front(s)]
           body(f) == [s \in Strings |-> IF s = <<>> THEN 0 ELSE 10 * f[Front(s)] + Last(s) - 48]
<1>1. GetsSmaller(Strings, E, rest, Length)
  <2>1. rest \in [Strings -> Strings] /\ \A s \in Strings \ E : rest[s] = Front(s)
    BY ShorterByOne
  <2>2. \A s \in Strings \ E : Length[Front(s)] < Length[s]
    BY LengthFacts, ShorterByOne
  <2> HIDE DEF rest
  <2> QED BY <2>1, <2>2, LengthFacts, EmptyString DEF GetsSmaller
<1>2. base \in [Strings -> Int] /\ step \in [Strings \X Int -> Int]
  <2> SUFFICES ASSUME NEW p \in Strings \X Int, p[1] # <<>>
               PROVE  10 * p[2] + Last(p[1]) - 48 \in Int
    OBVIOUS
  <2>1. PICK s \in Strings, n \in Int : s = p[1] /\ n = p[2] /\ s # <<>>
    OBVIOUS
  <2>2. Last(s) \in Int
    BY <2>1, ShorterByOne
  <2> QED BY <2>1, <2>2
<1>3. PICK f \in [Strings -> Int] : IsRecursion(f, Strings, E, base, step, rest)
  <2>1. Int # {}
    OBVIOUS
  <2> HIDE DEF E, base, step, rest
  <2> QED BY <1>1, <1>2, <2>1, RecursionExists
<1>4. \A s \in Strings : f[s] = IF s = <<>> THEN 0 ELSE 10 * f[Front(s)] + Last(s) - 48
  <2> TAKE s \in Strings
  <2>1. f[s] = IF s \in E THEN base[s] ELSE step[<<s, f[rest[s]]>>]
    <3> HIDE DEF E, base, step, rest
    <3> QED BY <1>3 DEF IsRecursion
  <2>2. CASE s = <<>>
    BY <2>1, <2>2
  <2>3. CASE s # <<>>
    <3>1. Front(s) \in Strings /\ f[Front(s)] \in Int /\ rest[s] = Front(s)
      BY <2>3, ShorterByOne
    <3>2. f[s] = step[<<s, f[Front(s)]>>]
      <4> HIDE DEF step, rest
      <4> QED BY <2>1, <2>3, <3>1
    <3> HIDE DEF rest
    <3> QED BY <2>3, <3>1, <3>2
  <2> QED BY <2>2, <2>3
<1>5. f = body(f)
  BY <1>4
<1>6. Value = body(Value)
  BY <1>5 DEF Value
<1>7. \A s \in Strings : Value[s] = f[s]
  <2>1. \A s \in Strings : Value[s] = IF s = <<>> THEN 0 ELSE 10 * Value[Front(s)] + Last(s) - 48
    <3> SUFFICES ASSUME NEW s \in Strings
                 PROVE  body(Value)[s] = IF s = <<>> THEN 0 ELSE 10 * Value[Front(s)] + Last(s) - 48
      BY <1>6
    <3> QED OBVIOUS
  <2>2. \A s \in Strings \ E : rest[s] = Front(s)
    OBVIOUS
  <2>3. \A s \in E : s \in Strings /\ s = <<>>
    BY EmptyString
  <2> HIDE DEF body, rest, base, step
  <2>4. \A s \in E : Value[s] = f[s]
    BY <1>4, <2>1, <2>3
  <2>5. \A s \in Strings \ E : Value[rest[s]] = f[rest[s]] => Value[s] = f[s]
    BY <1>4, <2>1, <2>2
  <2> HIDE DEF E
  <2> QED BY <1>1, <2>4, <2>5, RecursionsAgree
<1>8. \A s \in Strings : s # <<>> => Value[Front(s)] = f[Front(s)]
  BY <1>7, ShorterByOne
<1> HIDE DEF body, rest, base, step
<1> QED BY <1>4, <1>7, <1>8, EmptyString

(* Strings of digits.                                                      *)
Numerals == Seq(Digits)

(* The parts of a numeral.                                                 *)
LEMMA NumeralFacts ==
    ASSUME NEW s \in Numerals
    PROVE  /\ s \in Strings /\ Len(s) \in Nat /\ (Len(s) = 0 <=> s = <<>>)
           /\ \A i \in 1 .. Len(s) : s[i] \in 48 .. 57
           /\ s # <<>> => /\ Front(s) \in Numerals /\ Len(Front(s)) = Len(s) - 1
                          /\ \A i \in 1 .. Len(s) - 1 : Front(s)[i] = s[i]
                          /\ Last(s) = s[Len(s)] /\ Last(s) \in 48 .. 57
                          /\ s = Front(s) \o <<Last(s)>>
<1>1. /\ Len(s) \in Nat /\ (Len(s) = 0 <=> s = <<>>)
      /\ \A i \in 1 .. Len(s) : s[i] \in Digits
  BY DEF Numerals
<1>2. Digits = 48 .. 57 /\ Digits \subseteq Bytes
  BY DEF Digits, Bytes
<1>3. s \in Strings
  BY <1>2 DEF Numerals, Strings
<1>4. ASSUME s # <<>>
      PROVE  /\ Front(s) \in Numerals /\ Len(Front(s)) = Len(s) - 1
             /\ \A i \in 1 .. Len(s) - 1 : Front(s)[i] = s[i]
             /\ Last(s) = s[Len(s)] /\ Last(s) \in Digits
             /\ s = Front(s) \o <<Last(s)>>
  <2>1. Len(s) \in Nat \ {0}
    BY <1>1, <1>4
  <2>2. /\ Front(s) \in Numerals /\ Len(Front(s)) = Len(s) - 1
        /\ \A i \in 1 .. Len(s) - 1 : Front(s)[i] = s[i]
    <3>1. PICK n \in Nat : n = Len(s) - 1
      BY <2>1
    <3>2. Front(s) = SubSeq(s, 1, n)
      BY <3>1 DEF Front
    <3>3. SubSeq(s, 1, n) \in Numerals
      BY <2>1, <3>1 DEF Numerals
    <3>4. Len(SubSeq(s, 1, n)) = n /\ \A i \in 1 .. n : SubSeq(s, 1, n)[i] = s[i]
      BY <2>1, <3>1 DEF Numerals
    <3> QED BY <3>1, <3>2, <3>3, <3>4
  <2>3. Last(s) = s[Len(s)] /\ Last(s) \in Digits
    BY <1>1, <2>1 DEF Last
  <2>4. s = Front(s) \o <<Last(s)>>
    BY <2>1, <2>2, <2>3 DEF Numerals
  <2> QED BY <2>2, <2>3, <2>4
<1> QED BY <1>1, <1>2, <1>3, <1>4

(* The last digit of a numeral and the value before it.                    *)
LEMMA ValueOfNumeral ==
    ASSUME NEW s \in Numerals, s # <<>>
    PROVE  \E d \in 0 .. 9 : /\ Last(s) = d + 48
                            /\ Value[s] = 10 * Value[Front(s)] + d
                            /\ Value[Front(s)] \in Int /\ Value[s] \in Int
<1>1. /\ s \in Strings /\ Front(s) \in Strings /\ Last(s) \in 48 .. 57
  BY NumeralFacts
<1>2. PICK l \in 48 .. 57, b \in Int : l = Last(s) /\ b = Value[Front(s)]
  BY <1>1, ValueFacts
<1>3. Value[s] = 10 * b + l - 48
  BY <1>1, <1>2, ValueFacts
<1>4. l - 48 \in 0 .. 9 /\ l = (l - 48) + 48 /\ 10 * b + l - 48 = 10 * b + (l - 48)
  OBVIOUS
<1> QED BY <1>1, <1>2, <1>3, <1>4, ValueFacts

(* Numbers with one more digit are compared by what is before it, then by  *)
(* it.                                                                     *)
LEMMA TenTimes ==
    ASSUME NEW b \in Int, NEW e \in Int, NEW d \in 0 .. 9, NEW g \in 0 .. 9
    PROVE  /\ b > e => 10 * b + d > 10 * e + g
           /\ Sign((10 * b + d) - (10 * e + g)) = Then(Sign(b - e), Sign(d - g))
           /\ Sign((d + 48) - (g + 48)) = Sign(d - g)
           /\ b = 0 /\ d # 0 => 10 * b + d > 0
           /\ b > 0 => 10 * b + d > 0
BY DEF Sign, Then

(* Of two numerals without leading zeros, the longer is larger.            *)
LEMMA LongerIsLarger ==
    ASSUME NEW x \in Numerals, NEW y \in Numerals, Len(x) > Len(y), x[1] # 48
    PROVE  Value[x] > Value[y]
<1> DEFINE Larger(n) == \A s, t \in Numerals : Len(s) = n /\ n > Len(t) /\ s[1] # 48 =>
                            Value[s] > Value[t]
           A == {n \in Nat : Larger(n)}
<1>1. A = Nat
  <2> SUFFICES ASSUME NEW n \in Nat, \A k \in Nat : k < n => k \in A
               PROVE  n \in A
    <3> A \in SUBSET Nat
      OBVIOUS
    <3> HIDE DEF A
    <3> QED BY InductionOverNat
  <2> SUFFICES ASSUME NEW s \in Numerals, NEW t \in Numerals, Len(s) = n, n > Len(t), s[1] # 48
               PROVE  Value[s] > Value[t]
    OBVIOUS
  <2>1. n > 1 => Larger(n - 1)
    <3>1. n > 1 => n - 1 \in A
      OBVIOUS
    <3> QED BY <3>1
  <2> HIDE DEF A
  <2>2. Len(t) \in Nat /\ n # 0 /\ s # <<>>
    BY NumeralFacts
  <2>3. PICK d \in 0 .. 9 : /\ Last(s) = d + 48
                            /\ Value[s] = 10 * Value[Front(s)] + d
                            /\ Value[Front(s)] \in Int /\ Value[s] \in Int
    BY <2>2, ValueOfNumeral
  <2>4. /\ Front(s) \in Numerals /\ Len(Front(s)) = n - 1 /\ Last(s) = s[n]
        /\ n > 1 => Front(s)[1] = s[1]
    <3>1. n > 1 => 1 \in 1 .. n - 1
      OBVIOUS
    <3>2. /\ Front(s) \in Numerals /\ Len(Front(s)) = n - 1 /\ Last(s) = s[n]
          /\ \A i \in 1 .. n - 1 : Front(s)[i] = s[i]
      BY <2>2, NumeralFacts
    <3> QED BY <3>1, <3>2
  <2>5. \A u \in Numerals : n > 1 /\ n - 1 > Len(u) => Value[Front(s)] > Value[u]
    BY <2>1, <2>4
  <2>6. CASE t = <<>>
    <3>1. Value[t] = 0 /\ Len(t) = 0
      BY <2>6, ValueFacts
    <3>2. CASE n = 1
      <4>1. Front(s) = <<>>
        BY <2>4, <3>2, NumeralFacts
      <4>2. Value[Front(s)] = 0 /\ d # 0
        BY <2>3, <2>4, <3>2, <4>1, ValueFacts
      <4> QED BY <2>3, <3>1, <4>2, TenTimes
    <3>3. CASE n > 1
      <4>1. Value[Front(s)] > 0
        BY <2>5, <3>1, <3>3
      <4> QED BY <2>3, <3>1, <4>1, TenTimes
    <3> QED BY <2>2, <3>2, <3>3
  <2>7. CASE t # <<>>
    <3>1. PICK g \in 0 .. 9 : /\ Last(t) = g + 48
                              /\ Value[t] = 10 * Value[Front(t)] + g
                              /\ Value[Front(t)] \in Int /\ Value[t] \in Int
      BY <2>7, ValueOfNumeral
    <3>2. Front(t) \in Numerals /\ Len(Front(t)) = Len(t) - 1 /\ Len(t) # 0
      BY <2>7, NumeralFacts
    <3>3. n > 1 /\ n - 1 > Len(Front(t))
      BY <2>2, <3>2
    <3>4. Value[Front(s)] > Value[Front(t)]
      BY <2>5, <3>2, <3>3
    <3> QED BY <2>3, <3>1, <3>4, TenTimes
  <2> QED BY <2>6, <2>7
<1>2. Len(x) \in A
  <2> HIDE DEF A
  <2> QED BY <1>1, NumeralFacts
<1> QED BY <1>2

(* Of two numerals of one length, the first digit that differs decides.    *)
LEMMA FirstDigitDecides ==
    ASSUME NEW x \in Numerals, NEW y \in Numerals, Len(x) = Len(y)
    PROVE  x \in Numbers /\ y \in Numbers /\ Sign(Value[x] - Value[y]) = Lex(x, y)
<1>1. \A s \in Numerals : s \in Numbers
  BY NumeralFacts, StringsAreNumbers
<1> DEFINE Same(n) == \A s, t \in Numerals : Len(s) = n /\ Len(t) = n =>
                          Sign(Value[s] - Value[t]) = Lex(s, t)
           A == {n \in Nat : Same(n)}
<1>2. A = Nat
  <2> SUFFICES ASSUME NEW n \in Nat, \A k \in Nat : k < n => k \in A
               PROVE  n \in A
    <3> A \in SUBSET Nat
      OBVIOUS
    <3> HIDE DEF A
    <3> QED BY InductionOverNat
  <2> SUFFICES ASSUME NEW s \in Numerals, NEW t \in Numerals, Len(s) = n, Len(t) = n
               PROVE  Sign(Value[s] - Value[t]) = Lex(s, t)
    OBVIOUS
  <2>1. n # 0 => Same(n - 1)
    <3>1. n # 0 => n - 1 \in A
      OBVIOUS
    <3> QED BY <3>1
  <2> HIDE DEF A
  <2>2. CASE n = 0
    <3>1. s = <<>> /\ t = <<>>
      BY <2>2, NumeralFacts
    <3> QED BY <1>1, <3>1, ValueFacts, LexOfEquals DEF Sign
  <2>3. CASE n # 0
    <3>1. s # <<>> /\ t # <<>>
      BY <2>3, NumeralFacts
    <3>2. /\ Front(s) \in Numerals /\ Len(Front(s)) = n - 1
          /\ Front(t) \in Numerals /\ Len(Front(t)) = n - 1
          /\ s = Front(s) \o <<Last(s)>> /\ t = Front(t) \o <<Last(t)>>
      BY <3>1, NumeralFacts
    <3>3. PICK d \in 0 .. 9 : /\ Last(s) = d + 48
                              /\ Value[s] = 10 * Value[Front(s)] + d
                              /\ Value[Front(s)] \in Int /\ Value[s] \in Int
      BY <3>1, ValueOfNumeral
    <3>4. PICK g \in 0 .. 9 : /\ Last(t) = g + 48
                              /\ Value[t] = 10 * Value[Front(t)] + g
                              /\ Value[Front(t)] \in Int /\ Value[t] \in Int
      BY <3>1, ValueOfNumeral
    <3>5. Sign(Value[Front(s)] - Value[Front(t)]) = Lex(Front(s), Front(t))
      BY <2>1, <2>3, <3>2
    <3>6. /\ Lex(<<Last(s)>>, <<Last(t)>>) = Sign(d - g)
          /\ <<Last(s)>> \in Numbers /\ <<Last(t)>> \in Numbers
      <4>1. d + 48 \in Int /\ g + 48 \in Int /\ Sign((d + 48) - (g + 48)) = Sign(d - g)
        BY TenTimes
      <4> QED BY <3>3, <3>4, <4>1, LexOfOne
    <3>7. Apart(Front(s), Front(t))
      BY <3>2 DEF Apart
    <3>8. Lex(s, t) = Then(Sign(Value[Front(s)] - Value[Front(t)]), Sign(d - g))
      <4>1. Lex(Front(s) \o <<Last(s)>>, Front(t) \o <<Last(t)>>) =
               Then(Lex(Front(s), Front(t)), Lex(<<Last(s)>>, <<Last(t)>>))
        BY <1>1, <3>2, <3>6, <3>7, LexOfJoined
      <4> QED BY <3>2, <3>5, <3>6, <4>1
    <3>9. PICK b \in Int, e \in Int : b = Value[Front(s)] /\ e = Value[Front(t)]
      BY <3>3, <3>4
    <3>10. Value[s] = 10 * b + d /\ Value[t] = 10 * e + g
      BY <3>3, <3>4, <3>9
    <3>11. Sign((10 * b + d) - (10 * e + g)) = Then(Sign(b - e), Sign(d - g))
      BY TenTimes
    <3>12. Sign(Value[s] - Value[t]) = Sign((10 * b + d) - (10 * e + g))
      BY <3>10
    <3>13. Lex(s, t) = Then(Sign(b - e), Sign(d - g))
      BY <3>8, <3>9
    <3> QED BY <3>11, <3>12, <3>13
  <2> QED BY <2>2, <2>3
<1>3. Len(x) \in A
  <2> HIDE DEF A
  <2> QED BY <1>2, NumeralFacts
<1> QED BY <1>1, <1>3

(* Sequences of the same elements are equal.                               *)
LEMMA SameSequences ==
    ASSUME NEW S, NEW s \in Seq(S), NEW t \in Seq(S), Len(s) = Len(t),
           \A i \in 1 .. Len(s) : s[i] = t[i]
    PROVE  s = t
OBVIOUS

(* What remains of a numeral.                                              *)
LEMMA DropFacts ==
    ASSUME NEW s \in Numerals, NEW k \in 0 .. Len(s)
    PROVE  /\ Drop(s, k) \in Numerals /\ Len(Drop(s, k)) = Len(s) - k
           /\ \A i \in 1 .. Len(s) - k : Drop(s, k)[i] = s[i + k]
<1>1. PICK n \in Nat : n = Len(s) /\ k \in Nat /\ k <= n
  BY DEF Numerals
<1>2. Drop(s, k) = SubSeq(s, k + 1, n)
  BY <1>1 DEF Drop
<1>3. SubSeq(s, k + 1, n) \in Numerals
  BY <1>1 DEF Numerals
<1>4. Len(SubSeq(s, k + 1, n)) = n - k /\ \A i \in 1 .. n - k : SubSeq(s, k + 1, n)[i] = s[i + k]
  BY <1>1 DEF Numerals
<1> QED BY <1>1, <1>2, <1>3, <1>4

(* Cutting off the first digits and the last one commute.                  *)
LEMMA FrontOfDrop ==
    ASSUME NEW s \in Numerals, NEW k \in 0 .. Len(s) - 1
    PROVE  /\ Drop(s, k) # <<>> /\ s # <<>>
           /\ Last(Drop(s, k)) = Last(s)
           /\ Front(Drop(s, k)) = Drop(Front(s), k)
<1>1. PICK n \in Nat : n = Len(s) /\ k \in Nat /\ k < n
  BY DEF Numerals
<1>2. /\ Drop(s, k) \in Numerals /\ Len(Drop(s, k)) = n - k
      /\ \A i \in 1 .. n - k : Drop(s, k)[i] = s[i + k]
  <2>1. k \in 0 .. Len(s)
    BY <1>1
  <2> QED BY <1>1, <2>1, DropFacts
<1>3. Drop(s, k) # <<>> /\ s # <<>>
  BY <1>1, <1>2, NumeralFacts
<1>4. /\ Front(s) \in Numerals /\ Len(Front(s)) = n - 1 /\ Last(s) = s[n]
      /\ \A i \in 1 .. n - 1 : Front(s)[i] = s[i]
  BY <1>1, <1>3, NumeralFacts
<1>5. /\ Front(Drop(s, k)) \in Numerals /\ Len(Front(Drop(s, k))) = n - k - 1
      /\ Last(Drop(s, k)) = Drop(s, k)[n - k]
      /\ \A i \in 1 .. n - k - 1 : Front(Drop(s, k))[i] = Drop(s, k)[i]
  BY <1>2, <1>3, NumeralFacts
<1>6. Last(Drop(s, k)) = Last(s)
  <2>1. n - k \in 1 .. n - k /\ (n - k) + k = n
    BY <1>1
  <2>2. Drop(s, k)[n - k] = s[(n - k) + k]
    BY <1>2, <2>1
  <2> QED BY <1>4, <1>5, <2>1, <2>2
<1>7. /\ Drop(Front(s), k) \in Numerals /\ Len(Drop(Front(s), k)) = n - 1 - k
      /\ \A i \in 1 .. n - 1 - k : Drop(Front(s), k)[i] = Front(s)[i + k]
  <2>1. k \in 0 .. Len(Front(s))
    BY <1>1, <1>4
  <2> QED BY <1>4, <2>1, DropFacts
<1>8. Front(Drop(s, k)) = Drop(Front(s), k)
  <2> DEFINE a == Front(Drop(s, k))
             b == Drop(Front(s), k)
  <2>1. ASSUME NEW i \in 1 .. n - 1 - k PROVE a[i] = b[i]
    <3>1. i \in 1 .. n - k /\ i \in 1 .. n - k - 1 /\ i + k \in 1 .. n - 1
      BY <1>1
    <3> QED BY <1>2, <1>4, <1>5, <1>7, <3>1
  <2>2. a \in Seq(Digits) /\ b \in Seq(Digits) /\ Len(a) = Len(b) /\ Len(a) = n - 1 - k
    BY <1>1, <1>5, <1>7 DEF Numerals
  <2> HIDE DEF a, b
  <2>3. a = b
    BY <2>1, <2>2, SameSequences
  <2> QED BY <2>3 DEF a, b
<1> QED BY <1>3, <1>6, <1>8

(* Zeros at the beginning add nothing to a value.                          *)
LEMMA LeadingZeros ==
    ASSUME NEW x \in Numerals, NEW k \in 0 .. Len(x), \A i \in 1 .. k : x[i] = 48
    PROVE  Value[Drop(x, k)] = Value[x]
<1> DEFINE Same(n) == \A s \in Numerals : Len(s) = n => \A j \in 0 .. n :
              (\A i \in 1 .. j : s[i] = 48) => Value[Drop(s, j)] = Value[s]
           A == {n \in Nat : Same(n)}
<1>1. A = Nat
  <2> SUFFICES ASSUME NEW n \in Nat, \A m \in Nat : m < n => m \in A
               PROVE  n \in A
    <3> A \in SUBSET Nat
      OBVIOUS
    <3> HIDE DEF A
    <3> QED BY InductionOverNat
  <2> SUFFICES ASSUME NEW s \in Numerals, Len(s) = n, NEW j \in 0 .. n, \A i \in 1 .. j : s[i] = 48
               PROVE  Value[Drop(s, j)] = Value[s]
    OBVIOUS
  <2>1. n # 0 => Same(n - 1)
    <3>1. n # 0 => n - 1 \in Nat /\ n - 1 < n
      OBVIOUS
    <3>2. n # 0 => n - 1 \in A
      <4> HIDE DEF A
      <4> QED BY <3>1
    <3> QED BY <3>2
  <2> HIDE DEF A
  <2>2. CASE n = 0
    <3>1. s = <<>>
      BY <2>2, NumeralFacts
    <3>2. Drop(s, j) \in Numerals /\ Len(Drop(s, j)) = 0
      BY <2>2, DropFacts
    <3> QED BY <3>1, <3>2, NumeralFacts
  <2>3. CASE n # 0
    <3>1. s # <<>>
      BY <2>3, NumeralFacts
    <3>2. /\ Front(s) \in Numerals /\ Len(Front(s)) = n - 1 /\ Last(s) = s[n]
          /\ \A i \in 1 .. n - 1 : Front(s)[i] = s[i]
      BY <3>1, NumeralFacts
    <3>3. PICK d \in 0 .. 9 : /\ Last(s) = d + 48
                              /\ Value[s] = 10 * Value[Front(s)] + d
                              /\ Value[Front(s)] \in Int /\ Value[s] \in Int
      BY <3>1, ValueOfNumeral
    <3>4. CASE j = n
      <4>1. Drop(s, j) = <<>>
        <5>1. Drop(s, j) \in Numerals /\ Len(Drop(s, j)) = 0
          BY <3>4, DropFacts
        <5> QED BY <5>1, NumeralFacts
      <4>2. Drop(Front(s), n - 1) = <<>>
        <5>1. n - 1 \in 0 .. Len(Front(s))
          BY <2>3, <3>2
        <5>2. Drop(Front(s), n - 1) \in Numerals /\ Len(Drop(Front(s), n - 1)) = 0
          BY <3>2, <5>1, DropFacts
        <5> QED BY <5>2, NumeralFacts
      <4>3. Value[Front(s)] = 0
        <5>1. \A i \in 1 .. n - 1 : Front(s)[i] = 48
          BY <3>2, <3>4
        <5>2. n - 1 \in 0 .. n - 1
          BY <2>3
        <5>3. Value[Drop(Front(s), n - 1)] = Value[Front(s)]
          BY <2>1, <2>3, <3>2, <5>1, <5>2
        <5> QED BY <4>2, <5>3, ValueFacts
      <4>4. d = 0
        <5>1. s[n] = 48
          BY <2>3, <3>4
        <5>2. d + 48 = 48
          BY <3>2, <3>3, <5>1
        <5>3. \A e \in 0 .. 9 : e + 48 = 48 => e = 0
          OBVIOUS
        <5> QED BY <5>2, <5>3
      <4> QED BY <3>3, <4>1, <4>3, <4>4, ValueFacts
    <3>5. CASE j # n
      <4>1. j \in 0 .. Len(s) - 1 /\ j \in 0 .. n - 1
        BY <3>5
      <4>2. Drop(s, j) # <<>> /\ Last(Drop(s, j)) = Last(s) /\ Front(Drop(s, j)) = Drop(Front(s), j)
        BY <4>1, FrontOfDrop
      <4>3. Drop(s, j) \in Numerals
        BY DropFacts
      <4>4. PICK g \in 0 .. 9 : /\ Last(Drop(s, j)) = g + 48
                                /\ Value[Drop(s, j)] = 10 * Value[Drop(Front(s), j)] + g
        BY <4>2, <4>3, ValueOfNumeral
      <4>5. g = d
        BY <3>3, <4>2, <4>4
      <4>6. Value[Drop(Front(s), j)] = Value[Front(s)]
        <5>1. \A i \in 1 .. j : Front(s)[i] = 48
          BY <3>2, <4>1
        <5> QED BY <2>1, <2>3, <3>2, <4>1, <5>1
      <4> QED BY <3>3, <4>4, <4>5, <4>6
    <3> QED BY <3>4, <3>5
  <2> QED BY <2>2, <2>3
<1>2. Len(x) \in A
  <2> HIDE DEF A
  <2> QED BY <1>1, NumeralFacts
<1> QED BY <1>2

(* The numeral that compareNumericStrings keeps has the same value.        *)
LEMMA StrippedNumerals ==
    ASSUME NEW x \in Numerals
    PROVE  /\ After(x, {48}) \in Numerals
           /\ Value[After(x, {48})] = Value[x]
           /\ After(x, {48}) # <<>> => After(x, {48})[1] # 48
<1>1. x \in Strings
  BY NumeralFacts
<1>2. PICK k \in 0 .. Len(x) : k = Span(x, {48}) /\ \A i \in 1 .. k : x[i] = 48
  BY <1>1, SpanFacts
<1>3. After(x, {48}) = Drop(x, k)
  BY <1>2 DEF After
<1>4. After(x, {48}) # <<>> => After(x, {48})[1] \notin {48}
  BY <1>1, AfterFirst
<1>5. Drop(x, k) \in Numerals
  BY DropFacts
<1>6. Value[Drop(x, k)] = Value[x]
  BY <1>2, LeadingZeros
<1> QED BY <1>3, <1>4, <1>5, <1>6

(* compareNumericStrings compares values, however long the numerals are.   *)
LEMMA NumericOrderIsOfValues ==
    ASSUME NEW x \in Numerals, NEW y \in Numerals
    PROVE  NumericCompare(x, y) = Sign(Value[x] - Value[y])
<1> DEFINE a == After(x, {48})
           b == After(y, {48})
<1>1. /\ a \in Numerals /\ Value[a] = Value[x] /\ (a # <<>> => a[1] # 48)
      /\ b \in Numerals /\ Value[b] = Value[y] /\ (b # <<>> => b[1] # 48)
  BY StrippedNumerals
<1>2. NumericCompare(x, y) = Then(Sign(Len(a) - Len(b)), BytesCompare(a, b))
  BY DEF NumericCompare
<1> HIDE DEF a, b
<1>3. PICK m \in Int, n \in Int : m = Value[a] /\ n = Value[b]
  BY <1>1, NumeralFacts, ValueFacts
<1>4. Len(a) \in Nat /\ Len(b) \in Nat /\ a \in Strings /\ b \in Strings
      /\ (Len(a) # 0 => a # <<>>) /\ (Len(b) # 0 => b # <<>>)
  BY <1>1, NumeralFacts
<1>5. CASE Len(a) > Len(b)
  <2>1. m > n
    BY <1>1, <1>3, <1>4, <1>5, LongerIsLarger
  <2>2. Sign(m - n) = 1 /\ Sign(Len(a) - Len(b)) = 1
    BY <1>4, <1>5, <2>1 DEF Sign
  <2> QED BY <1>1, <1>2, <1>3, <2>2 DEF Then
<1>6. CASE Len(b) > Len(a)
  <2>1. n > m
    BY <1>1, <1>3, <1>4, <1>6, LongerIsLarger
  <2>2. Sign(m - n) = -1 /\ Sign(Len(a) - Len(b)) = -1
    BY <1>4, <1>6, <2>1 DEF Sign
  <2> QED BY <1>1, <1>2, <1>3, <2>2 DEF Then
<1>7. CASE Len(a) = Len(b)
  <2>1. Sign(Value[a] - Value[b]) = Lex(a, b)
    BY <1>1, <1>7, FirstDigitDecides
  <2>2. /\ \A i \in 1 .. Len(a) : a[i] \in 48 .. 57
        /\ \A i \in 1 .. Len(b) : b[i] \in 48 .. 57
    BY <1>1, NumeralFacts
  <2>3. BytesCompare(a, b) = Lex(a, b)
    BY <1>4, <2>2, PositiveBytes
  <2>4. Sign(Len(a) - Len(b)) = 0
    BY <1>4, <1>7 DEF Sign
  <2> QED BY <1>1, <1>2, <2>1, <2>3, <2>4 DEF Then
<1> QED BY <1>4, <1>5, <1>6, <1>7

-----------------------------------------------------------------------------
(* What the three orders have in common.                                   *)

(* Recursion on two strings at once.                                       *)
Pairs == Strings \X Strings
LengthOfPair == [p \in Pairs |-> Len(p[1]) + Len(p[2])]
RestOfPair(rest) == [p \in Pairs |-> <<rest[p[1]], rest[p[2]]>>]

(* It ends when the strings together get shorter.                          *)
LEMMA PairsGetSmaller ==
    ASSUME NEW E \in SUBSET Pairs, NEW rest \in [Strings -> Strings],
           \A p \in Pairs \ E : Len(rest[p[1]]) + Len(rest[p[2]]) < Len(p[1]) + Len(p[2])
    PROVE  GetsSmaller(Pairs, E, RestOfPair(rest), LengthOfPair)
<1>1. \A s \in Strings : Len(s) \in Nat
  BY BytesOfStrings
<1>2. \A p \in Pairs : /\ p[1] \in Strings /\ p[2] \in Strings
                       /\ LengthOfPair[p] = Len(p[1]) + Len(p[2])
                       /\ RestOfPair(rest)[p] = <<rest[p[1]], rest[p[2]]>>
  BY DEF Pairs, LengthOfPair, RestOfPair
<1>3. LengthOfPair \in [Pairs -> Nat]
  <2>1. \A p \in Pairs : Len(p[1]) + Len(p[2]) \in Nat
    <3> TAKE p \in Pairs
    <3>1. PICK m \in Nat, n \in Nat : m = Len(p[1]) /\ n = Len(p[2])
      BY <1>1, <1>2
    <3>2. m + n \in Nat
      OBVIOUS
    <3> QED BY <3>1, <3>2
  <2> QED BY <2>1 DEF LengthOfPair
<1>4. RestOfPair(rest) \in [Pairs -> Pairs]
  BY DEF Pairs, RestOfPair
<1>5. ASSUME NEW p \in Pairs \ E
      PROVE  LengthOfPair[RestOfPair(rest)[p]] < LengthOfPair[p]
  <2>1. RestOfPair(rest)[p] \in Pairs
    BY <1>4
  <2> QED BY <1>2, <2>1
<1> QED BY <1>3, <1>4, <1>5 DEF GetsSmaller

(* A rest that is shorter for every string but the empty one.              *)
ShorterRest(rest) ==
    rest \in [Strings -> Strings] /\ \A s \in Strings \ {<<>>} : Len(rest[s]) < Len(s)

(* Keys that are defined block by block along such a rest exist.           *)
LEMMA KeysExist ==
    ASSUME NEW rest, ShorterRest(rest), NEW step \in [Strings \X Numbers -> Numbers]
    PROVE  /\ GetsSmaller(Strings, {<<>>}, rest, Length)
           /\ \E f \in [Strings -> Numbers] : \A s \in Strings :
                 f[s] = IF s = <<>> THEN <<>> ELSE step[<<s, f[rest[s]]>>]
<1> DEFINE base == [s \in Strings |-> <<>>]
<1>1. GetsSmaller(Strings, {<<>>}, rest, Length)
  BY LengthFacts, EmptyString DEF GetsSmaller, ShorterRest
<1>2. base \in [Strings -> Numbers] /\ Numbers # {}
  <2>1. <<>> \in Numbers
    BY DEF Numbers
  <2> QED BY <2>1
<1>3. PICK f \in [Strings -> Numbers] : IsRecursion(f, Strings, {<<>>}, base, step, rest)
  <2> HIDE DEF base
  <2> QED BY <1>1, <1>2, RecursionExists
<1>4. ASSUME NEW s \in Strings
      PROVE  f[s] = IF s = <<>> THEN <<>> ELSE step[<<s, f[rest[s]]>>]
  <2>1. f[s] = IF s \in {<<>>} THEN base[s] ELSE step[<<s, f[rest[s]]>>]
    <3> HIDE DEF base
    <3> QED BY <1>3 DEF IsRecursion
  <2> QED BY <2>1
<1> QED BY <1>1, <1>4

(* A block taken apart before its number.                                  *)
LEMMA Associated ==
    ASSUME NEW k \in Numbers, NEW m \in Int, NEW l \in Numbers
    PROVE  /\ (k \o <<0, m>>) \o l = (k \o <<0>>) \o (<<m>> \o l)
           /\ k \o <<0, m>> \in Numbers /\ k \o <<0>> \in Numbers
           /\ <<m>> \o l \in Numbers
BY DEF Numbers

(* Then is associative.                                                    *)
LEMMA ThenTwice ==
    ASSUME NEW a, NEW b, NEW c
    PROVE  Then(a, Then(b, c)) = Then(Then(a, b), c)
BY DEF Then

(* The bytes cut off are of the class.                                     *)
LEMMA PrefixOfClass ==
    ASSUME NEW s \in Strings, NEW class
    PROVE  Prefix(s, class) \in Strings /\ \A i \in 1 .. Len(Prefix(s, class)) : Prefix(s, class)[i] \in class
BY PrefixAndAfter, SpanFacts

(* Digits cut off are a numeral.                                           *)
LEMMA PrefixIsNumeral ==
    ASSUME NEW s \in Strings
    PROVE  /\ Prefix(s, Digits) \in Numerals
           /\ Value[Prefix(s, Digits)] \in Int
<1>1. Prefix(s, Digits) \in Numerals
  BY PrefixOfClass DEF Numerals, Strings
<1> QED BY <1>1, NumeralFacts, ValueFacts

-----------------------------------------------------------------------------
(* dpkg's order.                                                           *)

(* A round of dpkg's comparison uses up something.                         *)
LEMMA DebianRestIsShorter ==
    ASSUME NEW s \in Strings
    PROVE  /\ DebianRest(s) \in Strings
           /\ Len(DebianRest(s)) <= Len(s)
           /\ s # <<>> => Len(DebianRest(s)) < Len(s)
<1>1. PICK t \in Strings : /\ t = After(s, NonDigits)
                           /\ Len(t) <= Len(s)
                           /\ s # <<>> /\ s[1] \in NonDigits => Len(t) < Len(s)
                           /\ t # <<>> => t[1] \notin NonDigits
  BY AfterFirst
<1>2. /\ After(t, Digits) \in Strings /\ Len(After(t, Digits)) <= Len(t)
      /\ t # <<>> /\ t[1] \in Digits => Len(After(t, Digits)) < Len(t)
  BY AfterFirst
<1>3. DebianRest(s) = After(t, Digits)
  BY <1>1 DEF DebianRest
<1>4. Len(s) \in Nat /\ Len(t) \in Nat /\ Len(After(t, Digits)) \in Nat
      /\ (s # <<>> => Len(s) # 0)
  BY <1>2, BytesOfStrings, EmptyString
<1>5. t # <<>> => t[1] \in Digits
  BY <1>1, FirstByte DEF NonDigits
<1>6. t = <<>> => Len(t) = 0
  BY EmptyString
<1> QED BY <1>1, <1>2, <1>3, <1>4, <1>5, <1>6

(* The weights of the bytes before the first digit, and the number after.  *)
Weights(text) == [i \in DOMAIN text |-> Weight(text[i])]
DebianText(s) == Weights(Prefix(s, NonDigits))
DebianNumber(s) == Value[Prefix(After(s, NonDigits), Digits)]
DebianBlock(s) == DebianText(s) \o <<0, DebianNumber(s)>>

(* Weights are texts: none of them is 0.                                   *)
LEMMA WeightsAreTexts ==
    ASSUME NEW t \in Strings
    PROVE  Weights(t) \in Texts /\ Len(Weights(t)) = Len(t)
           /\ \A i \in 1 .. Len(t) : Weights(t)[i] = Weight(t[i])
<1>1. Len(t) \in Nat /\ DOMAIN t = 1 .. Len(t) /\ \A i \in 1 .. Len(t) : t[i] \in Nat
  BY StringsAreNumbers DEF Strings
<1>2. \A c \in Nat : Weight(c) \in Int \ {0}
  BY DEF Weight, Letters
<1>3. Weights(t) = [i \in 1 .. Len(t) |-> Weight(t[i])]
  BY <1>1 DEF Weights
<1>4. \A i \in 1 .. Len(t) : Weight(t[i]) \in Int \ {0}
  BY <1>1, <1>2
<1> QED BY <1>1, <1>3, <1>4 DEF Texts

(* debianLexCompare orders texts as their weights are ordered.             *)
LEMMA WeightsAreOrdered ==
    ASSUME NEW x \in Strings, NEW y \in Strings
    PROVE  LexCompare(DebianOrder, x, y) = Lex(Weights(x), Weights(y))
<1> DEFINE n == Len(x) + Len(y)
           D == {i \in 1 .. n : DebianOrder(x, i) # DebianOrder(y, i)}
           E == {i \in 1 .. n : At(Weights(x), i) # At(Weights(y), i)}
<1>1. n \in Nat /\ 1 .. n \subseteq Places
  BY BytesOfStrings DEF Places
<1>2. ASSUME NEW s \in Strings, NEW i \in Places
      PROVE  DebianOrder(s, i) = At(Weights(s), i)
  <2>1. Len(s) \in Nat /\ (i <= Len(s) => i \in 1 .. Len(s))
    BY BytesOfStrings DEF Places
  <2> QED BY <2>1, WeightsAreTexts DEF DebianOrder, At, Weight, Places
<1>3. D = E
  <2> HIDE DEF n
  <2> QED BY <1>1, <1>2
<1>4. D # {} => Min(D) \in Places
  <2>1. D \in SUBSET Nat /\ D \in SUBSET Places
    BY <1>1 DEF Places
  <2> HIDE DEF D
  <2> QED BY <2>1, MinIsLeast
<1>5. LexCompare(DebianOrder, x, y) =
        IF D = {} THEN 0 ELSE Sign(DebianOrder(x, Min(D)) - DebianOrder(y, Min(D)))
  BY DEF LexCompare
<1>6. Lex(Weights(x), Weights(y)) =
        IF E = {} THEN 0 ELSE Sign(At(Weights(x), Min(E)) - At(Weights(y), Min(E)))
  <2>1. Len(Weights(x)) = Len(x) /\ Len(Weights(y)) = Len(y)
    BY WeightsAreTexts
  <2> QED BY <2>1 DEF Lex, LexCompare
<1> HIDE DEF D, E
<1> QED BY <1>2, <1>3, <1>4, <1>5, <1>6

(* The parts of a block are a text and a number.                           *)
LEMMA DebianParts ==
    ASSUME NEW s \in Strings
    PROVE  /\ DebianText(s) \in Texts
           /\ DebianNumber(s) \in Int
           /\ DebianBlock(s) \in Numbers
<1>1. DebianText(s) \in Texts
  BY PrefixAndAfter, WeightsAreTexts DEF DebianText
<1>2. DebianNumber(s) \in Int
  BY PrefixAndAfter, PrefixIsNumeral DEF DebianNumber
<1>3. DebianBlock(s) \in Numbers
  <2>1. <<0, DebianNumber(s)>> \in Numbers
    BY <1>2 DEF Numbers
  <2> QED BY <1>1, <2>1, LexOfTexts, JoinedFacts DEF DebianBlock
<1> QED BY <1>1, <1>2, <1>3

(* DebianKey satisfies its recursive definition.                           *)
LEMMA DebianKeyFacts ==
    /\ DebianKey[<<>>] = <<>>
    /\ \A s \in Strings : DebianKey[s] \in Numbers
    /\ \A s \in Strings : s # <<>> => DebianKey[s] = DebianBlock(s) \o DebianKey[DebianRest(s)]
<1> DEFINE rest == [s \in Strings |-> DebianRest(s)]
           step == [p \in Strings \X Numbers |-> DebianBlock(p[1]) \o p[2]]
           body(f) == [s \in Strings |-> IF s = <<>> THEN <<>>
                                         ELSE DebianBlock(s) \o f[DebianRest(s)]]
<1>1. ShorterRest(rest)
  <2>1. rest \in [Strings -> Strings] /\ \A s \in Strings : rest[s] = DebianRest(s)
    BY DebianRestIsShorter
  <2> HIDE DEF rest
  <2> QED BY <2>1, DebianRestIsShorter DEF ShorterRest
<1>2. step \in [Strings \X Numbers -> Numbers]
  <2>1. \A p \in Strings \X Numbers : DebianBlock(p[1]) \o p[2] \in Numbers
    BY DebianParts, JoinedFacts
  <2> QED BY <2>1
<1>3. PICK f \in [Strings -> Numbers] : \A s \in Strings :
         f[s] = IF s = <<>> THEN <<>> ELSE step[<<s, f[rest[s]]>>]
  <2> HIDE DEF rest, step
  <2> QED BY <1>1, <1>2, KeysExist
<1>4. \A s \in Strings : f[s] = IF s = <<>> THEN <<>> ELSE DebianBlock(s) \o f[DebianRest(s)]
  <2> TAKE s \in Strings
  <2>1. DebianRest(s) \in Strings /\ f[DebianRest(s)] \in Numbers
    BY DebianRestIsShorter
  <2>2. rest[s] = DebianRest(s) /\ step[<<s, f[DebianRest(s)]>>] = DebianBlock(s) \o f[DebianRest(s)]
    BY <2>1
  <2> HIDE DEF rest, step
  <2> QED BY <1>3, <2>2
<1>5. f = body(f)
  BY <1>4
<1>6. DebianKey = body(DebianKey)
  <2>1. DebianKey = CHOOSE g : g = [s \in Strings |-> IF s = <<>> THEN <<>>
          ELSE [i \in DOMAIN Prefix(s, NonDigits) |-> Weight(Prefix(s, NonDigits)[i])]
                 \o <<0, Value[Prefix(After(s, NonDigits), Digits)]>> \o g[DebianRest(s)]]
    BY DEF DebianKey
  <2>2. DebianKey = CHOOSE g : g = body(g)
    BY <2>1 DEF DebianBlock, DebianText, DebianNumber, Weights
  <2> HIDE DEF body
  <2> QED BY <1>5, <2>2
<1>7. \A s \in Strings : DebianKey[s] = IF s = <<>> THEN <<>>
                                        ELSE DebianBlock(s) \o DebianKey[DebianRest(s)]
  <2> SUFFICES ASSUME NEW s \in Strings
               PROVE  body(DebianKey)[s] = IF s = <<>> THEN <<>>
                                        ELSE DebianBlock(s) \o DebianKey[DebianRest(s)]
    BY <1>6
  <2> QED OBVIOUS
<1>8. \A s \in Strings : DebianKey[s] = f[s]
  <2>1. GetsSmaller(Strings, {<<>>}, rest, Length)
    <3> HIDE DEF rest, step
    <3> QED BY <1>1, <1>2, KeysExist
  <2>2. \A s \in Strings : rest[s] = DebianRest(s)
    OBVIOUS
  <2> HIDE DEF rest, body, step
  <2>3. \A s \in {<<>>} : DebianKey[s] = f[s]
    BY <1>4, <1>7, EmptyString
  <2>4. \A s \in Strings \ {<<>>} : DebianKey[rest[s]] = f[rest[s]] => DebianKey[s] = f[s]
    BY <1>4, <1>7, <2>2
  <2> QED BY <2>1, <2>3, <2>4, RecursionsAgree
<1> HIDE DEF body
<1> QED BY <1>7, <1>8, EmptyString

(* A key from its text on: what the end of a string stands for is explicit. *)
DebianLong(s) == (DebianText(s) \o <<0>>) \o (<<DebianNumber(s)>> \o DebianKey[DebianRest(s)])

(* Written out for the empty string too, a key only gains zeros at the     *)
(* end.                                                                    *)
LEMMA DebianLongFacts ==
    ASSUME NEW s \in Strings
    PROVE  DebianLong(s) \in Numbers /\ Padded(DebianLong(s)) = Padded(DebianKey[s])
<1>1. /\ DebianText(s) \in Numbers /\ DebianNumber(s) \in Int
      /\ DebianKey[DebianRest(s)] \in Numbers
      /\ DebianText(s) \o <<0>> \in Numbers
      /\ <<DebianNumber(s)>> \o DebianKey[DebianRest(s)] \in Numbers
  BY DebianParts, DebianKeyFacts, DebianRestIsShorter, LexOfTexts, Associated
<1>2. DebianLong(s) \in Numbers
  BY <1>1, JoinedFacts DEF DebianLong
<1>3. CASE s # <<>>
  <2>1. DebianKey[s] = (DebianText(s) \o <<0, DebianNumber(s)>>) \o DebianKey[DebianRest(s)]
    BY <1>3, DebianKeyFacts DEF DebianBlock
  <2>2. DebianKey[s] = DebianLong(s)
    BY <1>1, <2>1, Associated DEF DebianLong
  <2> QED BY <1>2, <2>2
<1>4. CASE s = <<>>
  <2>1. After(s, NonDigits) = <<>> /\ DebianRest(s) = <<>>
    <3>1. /\ After(s, NonDigits) \in Strings /\ Len(After(s, NonDigits)) <= 0
          /\ DebianRest(s) \in Strings /\ Len(DebianRest(s)) <= 0
      BY <1>4, AfterFirst, DebianRestIsShorter, EmptyString
    <3> QED BY <3>1, EmptyString, BytesOfStrings
  <2>2. ASSUME NEW class PROVE Prefix(s, class) = <<>>
    <3>1. Prefix(s, class) \in Strings /\ Len(Prefix(s, class)) = 0
      BY <1>4, PrefixAndAfter, SpanFacts, EmptyString
    <3> QED BY <3>1, EmptyString
  <2>3. DebianNumber(s) = 0
    BY <1>4, <2>1, <2>2, ValueFacts DEF DebianNumber
  <2>4. DebianText(s) = <<>>
    <3>1. DebianText(s) \in Texts /\ Len(DebianText(s)) = 0
      BY <1>4, <2>2, WeightsAreTexts, EmptyString DEF DebianText
    <3> QED BY <3>1 DEF Texts
  <2>5. DebianKey[s] = <<>> /\ DebianKey[DebianRest(s)] = <<>>
    BY <1>4, <2>1, DebianKeyFacts
  <2>6. DebianLong(s) = <<0>> \o <<0>>
    <3>1. <<>> \o <<0>> = <<0>> /\ <<0>> \o <<>> = <<0>>
      BY SameSequences
    <3> QED BY <2>3, <2>4, <2>5, <3>1 DEF DebianLong
  <2>7. Padded(<<0>> \o <<0>>) = Padded(<<>>)
    <3>1. <<0>> = <<>> \o <<0>>
      BY SameSequences
    <3>2. <<0>> \in Numbers /\ <<>> \in Numbers
      BY DEF Numbers
    <3> QED BY <3>1, <3>2, ZeroAtTheEnd
  <2> QED BY <1>2, <2>5, <2>6, <2>7
<1> QED BY <1>2, <1>3, <1>4

(* One round of the loop compares the first blocks.                        *)
LEMMA DebianRoundOfKeys ==
    ASSUME NEW x \in Strings, NEW y \in Strings
    PROVE  Lex(DebianKey[x], DebianKey[y]) =
              Then(DebianRound(x, y), Lex(DebianKey[DebianRest(x)], DebianKey[DebianRest(y)]))
<1> DEFINE a == DebianText(x)
           b == DebianText(y)
           m == DebianNumber(x)
           n == DebianNumber(y)
           k == DebianKey[DebianRest(x)]
           l == DebianKey[DebianRest(y)]
<1>1. /\ a \in Texts /\ b \in Texts /\ m \in Int /\ n \in Int
      /\ k \in Numbers /\ l \in Numbers
  BY DebianParts, DebianKeyFacts, DebianRestIsShorter
<1>2. Lex(DebianKey[x], DebianKey[y]) = Lex((a \o <<0>>) \o (<<m>> \o k), (b \o <<0>>) \o (<<n>> \o l))
  <2>1. \A s \in Strings : DebianKey[s] \in Numbers
    BY DebianKeyFacts
  <2>2. Lex(DebianLong(x), DebianLong(y)) = Lex(DebianKey[x], DebianKey[y])
    BY <2>1, DebianLongFacts, LexOfPadded
  <2> QED BY <2>2 DEF DebianLong
<1>3. DebianRound(x, y) = Then(Lex(a, b), Sign(m - n))
  <2>1. LexCompare(DebianOrder, Prefix(x, NonDigits), Prefix(y, NonDigits)) = Lex(a, b)
    BY PrefixAndAfter, WeightsAreOrdered DEF DebianText
  <2>2. NumericCompare(Prefix(After(x, NonDigits), Digits), Prefix(After(y, NonDigits), Digits))
           = Sign(m - n)
    BY PrefixAndAfter, PrefixIsNumeral, NumericOrderIsOfValues DEF DebianNumber
  <2> QED BY <2>1, <2>2 DEF DebianRound
<1> HIDE DEF a, b, m, n, k, l
<1>4. /\ a \o <<0>> \in Numbers /\ b \o <<0>> \in Numbers
      /\ Apart(a \o <<0>>, b \o <<0>>)
      /\ Lex(a \o <<0>>, b \o <<0>>) = Lex(a, b)
  BY <1>1, LexOfTexts
<1>5. /\ <<m>> \in Numbers /\ <<n>> \in Numbers /\ Lex(<<m>>, <<n>>) = Sign(m - n)
      /\ Apart(<<m>>, <<n>>)
      /\ <<m>> \o k \in Numbers /\ <<n>> \o l \in Numbers
  BY <1>1, LexOfOne, JoinedFacts DEF Apart
<1>6. Lex(<<m>> \o k, <<n>> \o l) = Then(Sign(m - n), Lex(k, l))
  BY <1>1, <1>5, LexOfJoined
<1>7. Lex((a \o <<0>>) \o (<<m>> \o k), (b \o <<0>>) \o (<<n>> \o l))
         = Then(Lex(a, b), Then(Sign(m - n), Lex(k, l)))
  BY <1>4, <1>5, <1>6, LexOfJoined
<1> QED BY <1>2, <1>3, <1>7, ThenTwice DEF k, l

(* If one gets shorter, both together do.                                  *)
LEMMA OneIsShorter ==
    ASSUME NEW i \in Nat, NEW j \in Nat, NEW k \in Nat, NEW l \in Nat,
           k <= i, l <= j, k < i \/ l < j
    PROVE  k + l < i + j
OBVIOUS

(* debianPartCompare orders parts of versions as their keys are ordered.   *)
LEMMA DebianPartsCompareKeys ==
    ASSUME NEW v \in Strings, NEW w \in Strings
    PROVE  DebianPartCompare[<<v, w>>] = Lex(DebianKey[v], DebianKey[w])
<1> DEFINE rest == [s \in Strings |-> DebianRest(s)]
           E == {<<<<>>, <<>>>>}
           lex == [p \in Pairs |-> Lex(DebianKey[p[1]], DebianKey[p[2]])]
           body(f) == [p \in Pairs |->
                         IF p = <<<<>>, <<>>>> THEN 0
                         ELSE Then(DebianRound(p[1], p[2]),
                                   f[<<DebianRest(p[1]), DebianRest(p[2])>>])]
<1>1. /\ rest \in [Strings -> Strings] /\ \A s \in Strings : rest[s] = DebianRest(s)
      /\ E \in SUBSET Pairs
  BY DebianRestIsShorter, EmptyString DEF Pairs
<1>2. \A p \in Pairs : /\ p[1] \in Strings /\ p[2] \in Strings
                       /\ p # <<<<>>, <<>>>> => p[1] # <<>> \/ p[2] # <<>>
  BY DEF Pairs
<1>3. \A x, y \in Strings : <<x, y>> \in Pairs /\ lex[<<x, y>>] = Lex(DebianKey[x], DebianKey[y])
  BY DEF Pairs
<1>4. GetsSmaller(Pairs, E, RestOfPair(rest), LengthOfPair)
  <2>1. ASSUME NEW p \in Pairs \ E
        PROVE  Len(rest[p[1]]) + Len(rest[p[2]]) < Len(p[1]) + Len(p[2])
    <3>1. PICK x \in Strings, y \in Strings : x = p[1] /\ y = p[2] /\ (x # <<>> \/ y # <<>>)
      BY <1>2
    <3>2. PICK i \in Nat, j \in Nat, k \in Nat, l \in Nat :
             /\ i = Len(x) /\ j = Len(y) /\ k = Len(DebianRest(x)) /\ l = Len(DebianRest(y))
             /\ k <= i /\ l <= j
             /\ x # <<>> => k < i
             /\ y # <<>> => l < j
      BY DebianRestIsShorter, BytesOfStrings
    <3>3. k < i \/ l < j
      BY <3>1, <3>2
    <3>4. k + l < i + j
      BY <3>2, <3>3, OneIsShorter
    <3> HIDE DEF rest, E
    <3> QED BY <1>1, <3>1, <3>2, <3>4
  <2> HIDE DEF rest, E
  <2> QED BY <1>1, <2>1, PairsGetSmaller
<1>5. ASSUME NEW p \in Pairs PROVE lex[p] = body(lex)[p]
  <2>1. PICK x \in Strings, y \in Strings : x = p[1] /\ y = p[2] /\ p = <<x, y>>
    BY DEF Pairs
  <2>2. body(lex)[p] = IF p = <<<<>>, <<>>>> THEN 0
                       ELSE Then(DebianRound(x, y), lex[<<DebianRest(x), DebianRest(y)>>])
    BY <2>1
  <2>3. lex[<<DebianRest(x), DebianRest(y)>>] = Lex(DebianKey[DebianRest(x)], DebianKey[DebianRest(y)])
    BY <1>3, DebianRestIsShorter
  <2>4. lex[p] = Lex(DebianKey[x], DebianKey[y])
    BY <2>1
  <2> HIDE DEF lex, body
  <2>5. CASE p = <<<<>>, <<>>>>
    <3>1. Lex(DebianKey[<<>>], DebianKey[<<>>]) = 0
      BY DebianKeyFacts, EmptyString, LexOfEquals
    <3> QED BY <2>1, <2>2, <2>4, <2>5, <3>1
  <2>6. CASE p # <<<<>>, <<>>>>
    BY <2>2, <2>3, <2>4, <2>6, DebianRoundOfKeys
  <2> QED BY <2>5, <2>6
<1>6. lex = body(lex)
  BY <1>5
<1>7. DebianPartCompare = body(DebianPartCompare)
  BY <1>6 DEF DebianPartCompare, Pairs
<1>8. ASSUME NEW p \in Pairs
      PROVE  DebianPartCompare[p] = IF p = <<<<>>, <<>>>> THEN 0
                 ELSE Then(DebianRound(p[1], p[2]),
                           DebianPartCompare[<<DebianRest(p[1]), DebianRest(p[2])>>])
  <2> SUFFICES body(DebianPartCompare)[p] = IF p = <<<<>>, <<>>>> THEN 0
                 ELSE Then(DebianRound(p[1], p[2]),
                           DebianPartCompare[<<DebianRest(p[1]), DebianRest(p[2])>>])
    BY <1>7
  <2> QED OBVIOUS
<1>9. ASSUME NEW p \in Pairs
      PROVE  lex[p] = IF p = <<<<>>, <<>>>> THEN 0
                 ELSE Then(DebianRound(p[1], p[2]), lex[<<DebianRest(p[1]), DebianRest(p[2])>>])
  <2> HIDE DEF lex
  <2> QED BY <1>5
<1>10. \A p \in Pairs : RestOfPair(rest)[p] = <<DebianRest(p[1]), DebianRest(p[2])>>
  BY <1>2 DEF RestOfPair
<1>11. \A p \in Pairs : DebianPartCompare[p] = lex[p]
  <2> HIDE DEF lex, body, rest
  <2>1. \A p \in E : DebianPartCompare[p] = lex[p]
    BY <1>1, <1>8, <1>9
  <2>2. ASSUME NEW p \in Pairs \ E,
               DebianPartCompare[RestOfPair(rest)[p]] = lex[RestOfPair(rest)[p]]
        PROVE  DebianPartCompare[p] = lex[p]
    <3>1. p \in Pairs /\ p # <<<<>>, <<>>>>
      OBVIOUS
    <3> HIDE DEF E
    <3>2. DebianPartCompare[p] = Then(DebianRound(p[1], p[2]), DebianPartCompare[RestOfPair(rest)[p]])
      BY <1>8, <1>10, <3>1
    <3>3. lex[p] = Then(DebianRound(p[1], p[2]), lex[RestOfPair(rest)[p]])
      BY <1>9, <1>10, <3>1
    <3> QED BY <2>2, <3>2, <3>3
  <2> HIDE DEF E
  <2> QED BY <1>4, <2>1, <2>2, RecursionsAgree
<1> HIDE DEF lex
<1> QED BY <1>3, <1>11

-----------------------------------------------------------------------------
(* rpm's order.                                                            *)

(* Every byte is a digit, a letter or a separator for rpm, and only one    *)
(* of them.                                                                *)
LEMMA DigitsAndLetters ==
    /\ Digits \subseteq Int
    /\ Digits # RPMAlpha
    /\ \A c \in Bytes : c \in Digits \/ c \in RPMAlpha \/ c \in RPMSeparators
    /\ \A c \in Digits : c \notin RPMAlpha /\ c \notin RPMSeparators
    /\ \A c \in RPMAlpha : c \notin RPMSeparators /\ c # 0
<1>1. 48 \in Digits /\ 48 \notin RPMAlpha
  BY DEF Digits, RPMAlpha, Letters, Tilde
<1>2. \A c \in Bytes : c \in Digits \/ c \in RPMAlpha \/ c \in RPMSeparators
  BY DEF RPMSeparators, RPMAlpha
<1>3. \A c \in Digits : c \notin RPMAlpha /\ c \notin RPMSeparators
  BY DEF Digits, RPMSeparators, RPMAlpha, Letters, Tilde
<1>4. \A c \in RPMAlpha : c \notin RPMSeparators /\ c # 0
  BY DEF RPMSeparators, RPMAlpha, Letters, Tilde
<1> QED BY <1>1, <1>2, <1>3, <1>4 DEF Digits

(* The first byte tells which class is cut off.                            *)
LEMMA PrefixOfFirst ==
    ASSUME NEW s \in Strings, s # <<>>, NEW class
    PROVE  /\ Prefix(s, class) # <<>> <=> s[1] \in class
           /\ s[1] \in class => Prefix(s, class)[1] = s[1]
           /\ s[1] \notin class => After(s, class) = s
<1>1. s[1] \in Bytes /\ Len(s) \in Nat \ {0}
  BY FirstByte
<1>2. PICK n \in Nat : /\ n = Span(s, class) /\ n <= Len(s)
                       /\ \A i \in 1 .. n : s[i] \in class
                       /\ n < Len(s) => s[n + 1] \notin class
  BY <1>1, SpanFacts
<1>3. /\ Prefix(s, class) \in Strings /\ Len(Prefix(s, class)) = n
      /\ \A i \in 1 .. n : Prefix(s, class)[i] = s[i]
  BY <1>2, PrefixAndAfter
<1>4. n = 0 <=> s[1] \notin class
  BY <1>1, <1>2
<1>5. Prefix(s, class) # <<>> <=> n # 0
  BY <1>3, EmptyString
<1>6. n = 0 => After(s, class) = s
  <2>1. Drop(s, 0) = s
    BY DEF Drop, Strings
  <2> QED BY <1>2, <2>1 DEF After
<1> QED BY <1>2, <1>3, <1>4, <1>5, <1>6

(* The first n of the l bytes of s are in the class, the next is not, and  *)
(* a is what comes after them.                                             *)
SplitsAt(s, class, a, n, l) ==
    /\ n <= l
    /\ \A i \in 1 .. n : s[i] \in class
    /\ n < l => s[n + 1] \notin class
    /\ a \in Strings /\ Len(a) = l - n
    /\ \A i \in 1 .. l - n : a[i] = s[i + n]

(* After splits a string so.                                               *)
LEMMA SpanAndAfter ==
    ASSUME NEW s \in Strings, NEW class
    PROVE  \E n \in Nat : SplitsAt(s, class, After(s, class), n, Len(s))
<1>1. Span(s, class) \in Nat /\ Span(s, class) <= Len(s)
  BY SpanFacts, BytesOfStrings
<1>2. PICK n \in Nat : n = Span(s, class)
  BY <1>1
<1>3. /\ \A i \in 1 .. n : s[i] \in class
      /\ n < Len(s) => s[n + 1] \notin class
  BY <1>2, SpanFacts
<1>4. /\ After(s, class) \in Strings
      /\ Len(After(s, class)) = Len(s) - n
      /\ \A i \in 1 .. Len(s) - n : After(s, class)[i] = s[i + n]
  BY <1>2, PrefixAndAfter
<1> QED BY <1>1, <1>2, <1>3, <1>4 DEF SplitsAt

(* It may be cut off byte by byte.                                         *)
LEMMA AfterTail ==
    ASSUME NEW s \in Strings, s # <<>>, NEW class, s[1] \in class
    PROVE  /\ Tail(s) \in Strings /\ Len(Tail(s)) < Len(s)
           /\ After(s, class) = After(Tail(s), class)
<1>1. PICK l \in Nat, k \in Nat : l = Len(s) /\ l = k + 1
  <2>1. PICK l \in Nat : l = Len(s) /\ l # 0
    BY FirstByte
  <2>2. l - 1 \in Nat /\ l = (l - 1) + 1
    BY <2>1
  <2> QED BY <2>1, <2>2
<1>2. PICK t \in Strings : /\ t = Tail(s) /\ Len(t) = k
                           /\ \A i \in 1 .. k : t[i] = s[i + 1]
  <2>1. Len(s) # 0
    BY <1>1
  <2>2. Tail(s) \in Strings /\ Len(Tail(s)) = Len(s) - 1
        /\ \A i \in 1 .. Len(s) - 1 : Tail(s)[i] = s[i + 1]
    BY <2>1 DEF Strings
  <2>3. Len(s) - 1 = k
    BY <1>1
  <2> QED BY <2>2, <2>3
<1>3. PICK n \in Nat : SplitsAt(s, class, After(s, class), n, l)
  BY <1>1, SpanAndAfter
<1>4. PICK m \in Nat : SplitsAt(t, class, After(t, class), m, k)
  BY <1>2, SpanAndAfter
<1> USE DEF SplitsAt
<1>5. n = m + 1
  <2>1. n # 0
    BY <1>1, <1>3
  <2>2. ~(n < m + 1)
    <3> SUFFICES ASSUME n < m + 1 PROVE FALSE
      OBVIOUS
    <3>1. n \in 1 .. m /\ n < l /\ n \in 1 .. k
      BY <1>1, <1>4, <2>1
    <3> QED BY <1>2, <1>3, <1>4, <3>1
  <2>3. ~(n > m + 1)
    <3> SUFFICES ASSUME n > m + 1 PROVE FALSE
      OBVIOUS
    <3>1. m + 1 \in 1 .. k /\ m < k /\ m + 2 \in 1 .. n /\ (m + 1) + 1 = m + 2
      BY <1>1, <1>3
    <3> QED BY <1>2, <1>3, <1>4, <3>1
  <2> QED BY <2>2, <2>3
<1>6. After(s, class) = After(t, class)
  <2> DEFINE a == After(s, class)
             b == After(t, class)
  <2>1. /\ a \in Strings /\ Len(a) = l - n
        /\ \A i \in 1 .. l - n : a[i] = s[i + n]
    BY <1>3
  <2>2. /\ b \in Strings /\ Len(b) = k - m
        /\ \A i \in 1 .. k - m : b[i] = t[i + m]
    BY <1>4
  <2> HIDE DEF a, b
  <2>3. ASSUME NEW i \in 1 .. l - n PROVE a[i] = b[i]
    <3>1. i \in 1 .. k - m /\ i + m \in 1 .. k /\ (i + m) + 1 = i + n
      BY <1>1, <1>3, <1>4, <1>5
    <3> QED BY <1>2, <2>1, <2>2, <3>1
  <2>4. Len(a) = Len(b)
    BY <1>1, <1>5, <2>1, <2>2
  <2>5. a = b
    BY <2>1, <2>2, <2>3, <2>4, SameSequences DEF Strings
  <2> QED BY <2>5 DEF a, b
<1>7. Len(t) < Len(s)
  BY <1>1, <1>2
<1> QED BY <1>2, <1>6, <1>7

(* The first block of an rpm's key, and what remains: a separator is       *)
(* skipped.                                                                *)
RPMBlock(s) == IF s[1] \in Digits THEN <<2, Value[Prefix(s, Digits)]>>
               ELSE <<1>> \o Prefix(s, RPMAlpha) \o <<0>>
RPMNext(s) == IF s = <<>> THEN s
              ELSE IF s[1] \in RPMSeparators THEN Tail(s) ELSE RPMRest(s)

(* A step uses up something.                                               *)
LEMMA RPMNextIsShorter ==
    ASSUME NEW s \in Strings
    PROVE  RPMNext(s) \in Strings /\ (s # <<>> => Len(RPMNext(s)) < Len(s))
<1> SUFFICES ASSUME s # <<>> PROVE RPMNext(s) \in Strings /\ Len(RPMNext(s)) < Len(s)
  BY DEF RPMNext
<1>1. s[1] \in Bytes
  BY FirstByte
<1>2. CASE s[1] \in RPMSeparators
  BY <1>2, AfterTail DEF RPMNext
<1>3. CASE s[1] \notin RPMSeparators
  <2>1. s[1] \in RPMClass(s)
    BY <1>1, <1>3, DigitsAndLetters DEF RPMClass
  <2> QED BY <1>3, <2>1, AfterFirst DEF RPMNext, RPMRest
<1> QED BY <1>2, <1>3

(* Letters are texts.                                                      *)
LEMMA TextsOfLetters ==
    ASSUME NEW s \in Strings
    PROVE  /\ Prefix(s, RPMAlpha) \in Strings
           /\ Prefix(s, RPMAlpha) \in Numbers
           /\ \A i \in 1 .. Len(Prefix(s, RPMAlpha)) : Prefix(s, RPMAlpha)[i] # 0
           /\ <<1>> \o Prefix(s, RPMAlpha) \in Texts
           /\ <<1>> \in Numbers
<1>1. PICK t \in Strings : t = Prefix(s, RPMAlpha) /\ \A i \in 1 .. Len(t) : t[i] # 0
  BY PrefixOfClass, DigitsAndLetters
<1>2. t \in Numbers /\ Len(t) \in Nat /\ \A i \in 1 .. Len(t) : t[i] \in Nat \ {0}
  BY <1>1, StringsAreNumbers
<1>3. t \in Texts
  BY <1>2 DEF Numbers, Texts
<1>4. <<1>> \in Texts /\ <<1>> \in Numbers
  BY DEF Texts, Numbers
<1>5. <<1>> \o t \in Texts
  BY <1>3, <1>4 DEF Texts
<1> QED BY <1>1, <1>2, <1>4, <1>5

(* Blocks are of numbers.                                                  *)
LEMMA RPMBlocks ==
    ASSUME NEW s \in Strings
    PROVE  RPMBlock(s) \in Numbers
<1>1. <<2, Value[Prefix(s, Digits)]>> \in Numbers
  BY PrefixIsNumeral DEF Numbers
<1>2. (<<1>> \o Prefix(s, RPMAlpha)) \o <<0>> \in Numbers
  BY TextsOfLetters, LexOfTexts
<1> QED BY <1>1, <1>2 DEF RPMBlock

(* RPMKey satisfies its recursive definition.                              *)
LEMMA RPMKeyFacts ==
    /\ RPMKey[<<>>] = <<>>
    /\ \A s \in Strings : RPMKey[s] \in Numbers
    /\ \A s \in Strings : s # <<>> /\ s[1] \in RPMSeparators => RPMKey[s] = RPMKey[Tail(s)]
    /\ \A s \in Strings : s # <<>> /\ s[1] \notin RPMSeparators =>
          RPMKey[s] = RPMBlock(s) \o RPMKey[RPMRest(s)]
<1> DEFINE rest == [s \in Strings |-> RPMNext(s)]
           step == [p \in Strings \X Numbers |->
                      IF p[1][1] \in RPMSeparators THEN p[2] ELSE RPMBlock(p[1]) \o p[2]]
           body(f) == [s \in Strings |->
                         IF s = <<>> THEN <<>>
                         ELSE IF Prefix(s, RPMAlpha) # <<>>
                              THEN <<1>> \o Prefix(s, RPMAlpha) \o <<0>> \o f[After(s, RPMAlpha)]
                         ELSE IF Prefix(s, Digits) # <<>>
                              THEN <<2, Value[Prefix(s, Digits)]>> \o f[After(s, Digits)]
                         ELSE f[Tail(s)]]
           plain(f) == [s \in Strings |->
                         IF s = <<>> THEN <<>>
                         ELSE IF s[1] \in RPMSeparators THEN f[RPMNext(s)]
                         ELSE RPMBlock(s) \o f[RPMNext(s)]]
<1>1. ShorterRest(rest)
  <2>1. rest \in [Strings -> Strings] /\ \A s \in Strings : rest[s] = RPMNext(s)
    BY RPMNextIsShorter
  <2> HIDE DEF rest
  <2> QED BY <2>1, RPMNextIsShorter DEF ShorterRest
<1>2. step \in [Strings \X Numbers -> Numbers]
  <2>1. \A p \in Strings \X Numbers : RPMBlock(p[1]) \o p[2] \in Numbers
    BY RPMBlocks, JoinedFacts
  <2> QED BY <2>1
<1>3. PICK f \in [Strings -> Numbers] : \A s \in Strings :
         f[s] = IF s = <<>> THEN <<>> ELSE step[<<s, f[rest[s]]>>]
  <2> HIDE DEF rest, step
  <2> QED BY <1>1, <1>2, KeysExist
<1>4. ASSUME NEW g PROVE body(g) = plain(g)
  <2> SUFFICES ASSUME NEW s \in Strings, s # <<>> PROVE body(g)[s] = plain(g)[s]
    OBVIOUS
  <2>1. s[1] \in Bytes
    BY FirstByte
  <2>2. /\ Prefix(s, RPMAlpha) # <<>> <=> s[1] \in RPMAlpha
        /\ Prefix(s, Digits) # <<>> <=> s[1] \in Digits
    BY PrefixOfFirst
  <2>3. plain(g)[s] = IF s[1] \in RPMSeparators THEN g[RPMNext(s)]
                      ELSE RPMBlock(s) \o g[RPMNext(s)]
    OBVIOUS
  <2>4. body(g)[s] = IF Prefix(s, RPMAlpha) # <<>>
                              THEN <<1>> \o Prefix(s, RPMAlpha) \o <<0>> \o g[After(s, RPMAlpha)]
                         ELSE IF Prefix(s, Digits) # <<>>
                              THEN <<2, Value[Prefix(s, Digits)]>> \o g[After(s, Digits)]
                         ELSE g[Tail(s)]
    OBVIOUS
  <2> HIDE DEF body, plain
  <2>5. CASE s[1] \in RPMAlpha
    <3>1. s[1] \notin Digits /\ s[1] \notin RPMSeparators
      BY <2>5, DigitsAndLetters
    <3>2. RPMNext(s) = After(s, RPMAlpha) /\ RPMBlock(s) = <<1>> \o Prefix(s, RPMAlpha) \o <<0>>
      BY <3>1 DEF RPMNext, RPMRest, RPMClass, RPMBlock
    <3> QED BY <2>2, <2>3, <2>4, <2>5, <3>1, <3>2
  <2>6. CASE s[1] \in Digits
    <3>1. s[1] \notin RPMAlpha /\ s[1] \notin RPMSeparators
      BY <2>6, DigitsAndLetters
    <3>2. RPMNext(s) = After(s, Digits) /\ RPMBlock(s) = <<2, Value[Prefix(s, Digits)]>>
      BY <2>6, <3>1 DEF RPMNext, RPMRest, RPMClass, RPMBlock
    <3> QED BY <2>2, <2>3, <2>4, <2>6, <3>1, <3>2
  <2>7. CASE s[1] \in RPMSeparators
    <3>1. s[1] \notin RPMAlpha /\ s[1] \notin Digits
      BY <2>7, DigitsAndLetters
    <3>2. RPMNext(s) = Tail(s)
      BY <2>7 DEF RPMNext
    <3> QED BY <2>2, <2>3, <2>4, <2>7, <3>1, <3>2
  <2> QED BY <2>1, <2>5, <2>6, <2>7, DigitsAndLetters
<1>5. \A s \in Strings : f[s] = IF s = <<>> THEN <<>>
                                ELSE IF s[1] \in RPMSeparators THEN f[RPMNext(s)]
                                ELSE RPMBlock(s) \o f[RPMNext(s)]
  <2> TAKE s \in Strings
  <2>1. RPMNext(s) \in Strings /\ f[RPMNext(s)] \in Numbers
    BY RPMNextIsShorter
  <2>2. rest[s] = RPMNext(s)
        /\ step[<<s, f[RPMNext(s)]>>] = IF s[1] \in RPMSeparators THEN f[RPMNext(s)]
                                        ELSE RPMBlock(s) \o f[RPMNext(s)]
    BY <2>1
  <2> HIDE DEF rest, step
  <2> QED BY <1>3, <2>2
<1>6. f = body(f)
  <2>1. f = plain(f)
    BY <1>5
  <2> HIDE DEF plain, body
  <2> QED BY <1>4, <2>1
<1>7. RPMKey = body(RPMKey)
  <2>1. RPMKey = CHOOSE g : g = body(g)
    BY DEF RPMKey
  <2> HIDE DEF body
  <2> QED BY <1>6, <2>1
<1>8. \A s \in Strings : RPMKey[s] = IF s = <<>> THEN <<>>
                                     ELSE IF s[1] \in RPMSeparators THEN RPMKey[RPMNext(s)]
                                     ELSE RPMBlock(s) \o RPMKey[RPMNext(s)]
  <2>1. RPMKey = plain(RPMKey)
    <3> HIDE DEF plain, body
    <3> QED BY <1>4, <1>7
  <2> SUFFICES ASSUME NEW s \in Strings
               PROVE  plain(RPMKey)[s] = IF s = <<>> THEN <<>>
                                     ELSE IF s[1] \in RPMSeparators THEN RPMKey[RPMNext(s)]
                                     ELSE RPMBlock(s) \o RPMKey[RPMNext(s)]
    BY <2>1
  <2> QED OBVIOUS
<1>9. \A s \in Strings : RPMKey[s] = f[s]
  <2>1. GetsSmaller(Strings, {<<>>}, rest, Length)
    <3> HIDE DEF rest, step
    <3> QED BY <1>1, <1>2, KeysExist
  <2>2. \A s \in Strings : rest[s] = RPMNext(s)
    OBVIOUS
  <2> HIDE DEF rest, body, plain, step
  <2>3. \A s \in {<<>>} : RPMKey[s] = f[s]
    BY <1>5, <1>8, EmptyString
  <2>4. ASSUME NEW s \in Strings \ {<<>>}, RPMKey[rest[s]] = f[rest[s]]
        PROVE  RPMKey[s] = f[s]
    <3>1. s \in Strings /\ s # <<>> /\ RPMKey[RPMNext(s)] = f[RPMNext(s)]
      BY <2>2, <2>4
    <3>2. f[s] = IF s[1] \in RPMSeparators THEN f[RPMNext(s)] ELSE RPMBlock(s) \o f[RPMNext(s)]
      BY <1>5, <3>1
    <3>3. RPMKey[s] = IF s[1] \in RPMSeparators THEN RPMKey[RPMNext(s)]
                      ELSE RPMBlock(s) \o RPMKey[RPMNext(s)]
      BY <1>8, <3>1
    <3> QED BY <3>1, <3>2, <3>3
  <2> QED BY <2>1, <2>3, <2>4, RecursionsAgree
<1> HIDE DEF body, plain, rest, step
<1> QED BY <1>8, <1>9, EmptyString DEF RPMNext

(* What remains after the separators.                                      *)
LEMMA StripFacts ==
    ASSUME NEW s \in Strings
    PROVE  /\ Strip(s) \in Strings /\ Len(Strip(s)) <= Len(s)
           /\ Strip(s) # <<>> => /\ Strip(s)[1] \in Bytes \ RPMSeparators
                                 /\ RPMRest(Strip(s)) \in Strings
                                 /\ Len(RPMRest(Strip(s))) < Len(s)
<1>1. PICK t \in Strings : /\ t = Strip(s) /\ Len(t) <= Len(s)
                           /\ t # <<>> => t[1] \notin RPMSeparators
  BY AfterFirst DEF Strip
<1>2. t # <<>> => /\ t[1] \in Bytes \ RPMSeparators
                  /\ RPMRest(t) \in Strings /\ Len(RPMRest(t)) < Len(t)
  BY <1>1, FirstByte, RPMNextIsShorter DEF RPMNext
<1>3. Len(s) \in Nat /\ Len(t) \in Nat /\ (t # <<>> => Len(RPMRest(t)) \in Nat)
  BY <1>2, BytesOfStrings
<1> QED BY <1>1, <1>2, <1>3

(* Separators are not in the key.                                          *)
LEMMA KeyOfStripped == \A s \in Strings : RPMKey[s] = RPMKey[Strip(s)]
<1> DEFINE E == {s \in Strings : s = <<>> \/ s[1] \notin RPMSeparators}
           rest == [s \in Strings |-> RPMNext(s)]
           g == [s \in Strings |-> RPMKey[Strip(s)]]
<1>1. GetsSmaller(Strings, E, rest, Length)
  <2>1. /\ E \subseteq Strings /\ <<>> \in E
        /\ rest \in [Strings -> Strings] /\ \A s \in Strings : rest[s] = RPMNext(s)
    BY RPMNextIsShorter, EmptyString
  <2> HIDE DEF E, rest
  <2>2. ASSUME NEW s \in Strings \ E PROVE Length[rest[s]] < Length[s]
    <3>1. s # <<>> /\ RPMNext(s) \in Strings
      BY <2>1, RPMNextIsShorter
    <3> QED BY <2>1, <3>1, LengthFacts, RPMNextIsShorter
  <2> QED BY <2>1, <2>2, LengthFacts DEF GetsSmaller
<1>2. ASSUME NEW s \in E PROVE RPMKey[s] = g[s]
  <2>1. Strip(s) = s
    <3>1. CASE s = <<>>
      <4>1. Strip(s) \in Strings /\ Len(Strip(s)) <= 0
        BY <3>1, StripFacts, EmptyString
      <4> QED BY <3>1, <4>1, EmptyString, BytesOfStrings
    <3>2. CASE s # <<>>
      BY <3>2, PrefixOfFirst DEF Strip
    <3> QED BY <3>1, <3>2
  <2> QED BY <2>1
<1>3. ASSUME NEW s \in Strings \ E, RPMKey[rest[s]] = g[rest[s]]
      PROVE  RPMKey[s] = g[s]
  <2>1. s \in Strings /\ s # <<>> /\ s[1] \in RPMSeparators
    OBVIOUS
  <2>2. Tail(s) \in Strings /\ Strip(s) = Strip(Tail(s)) /\ RPMNext(s) = Tail(s)
    BY <2>1, AfterTail DEF Strip, RPMNext
  <2>3. rest[s] = Tail(s) /\ g[s] = RPMKey[Strip(s)] /\ g[Tail(s)] = RPMKey[Strip(Tail(s))]
    BY <2>1, <2>2
  <2> HIDE DEF E, rest, g
  <2> QED BY <1>3, <2>1, <2>2, <2>3, RPMKeyFacts
<1>4. \A s \in Strings : RPMKey[s] = g[s]
  <2> HIDE DEF E, rest, g
  <2> QED BY <1>1, <1>2, <1>3, RecursionsAgree
<1> QED BY <1>4

(* Two numbers, one after the other.                                       *)
LEMMA TwoNumbers ==
    ASSUME NEW a \in Int, NEW b \in Int
    PROVE  /\ <<a, b>> = <<a>> \o <<b>>
           /\ <<a, b>> \in Numbers /\ Len(<<a, b>>) = 2
           /\ <<a>> \in Numbers /\ <<b>> \in Numbers
<1>1. <<a, b>> = <<a>> \o <<b>>
  <2>1. Len(<<a>> \o <<b>>) = 2 /\ <<a>> \o <<b>> \in Seq(Int)
    OBVIOUS
  <2>2. (<<a>> \o <<b>>)[1] = a /\ (<<a>> \o <<b>>)[2] = b
    OBVIOUS
  <2>3. \A i \in 1 .. 2 : i = 1 \/ i = 2
    OBVIOUS
  <2>4. \A i \in 1 .. 2 : (<<a>> \o <<b>>)[i] = <<a, b>>[i]
    BY <2>2, <2>3
  <2>5. Len(<<a, b>>) = 2 /\ <<a, b>> \in Seq(Int)
    OBVIOUS
  <2> QED BY <2>1, <2>4, <2>5, SameSequences
<1> QED BY <1>1 DEF Numbers

(* Two keys that begin with numbers of the same kind.                      *)
LEMMA LexOfNumbers ==
    ASSUME NEW a \in Int, NEW m \in Int, NEW n \in Int, NEW k \in Numbers, NEW l \in Numbers
    PROVE  Lex(<<a, m>> \o k, <<a, n>> \o l) = Then(Sign(m - n), Lex(k, l))
<1>1. PICK p \in Numbers, q \in Numbers, r \in Numbers :
         /\ p = <<a>> /\ q = <<m>> /\ r = <<n>>
         /\ Len(q) = Len(r)
         /\ <<a, m>> = p \o q /\ <<a, n>> = p \o r
         /\ Lex(q, r) = Sign(m - n)
  <2>1. Len(<<m>>) = Len(<<n>>)
    OBVIOUS
  <2> QED BY <2>1, TwoNumbers, LexOfOne
<1>2. PICK u \in Numbers, w \in Numbers :
         u = <<a, m>> /\ w = <<a, n>> /\ Len(u) = Len(w) /\ u = p \o q /\ w = p \o r
  BY <1>1, TwoNumbers
<1>3. Lex(u, w) = Sign(m - n)
  <2>1. Lex(p \o q, p \o r) = Then(Lex(p, p), Lex(q, r))
    BY LexOfJoined DEF Apart
  <2> QED BY <1>1, <1>2, <2>1, LexOfEquals DEF Then
<1>4. Lex(u \o k, w \o l) = Then(Lex(u, w), Lex(k, l))
  BY <1>2, LexOfJoined DEF Apart
<1> QED BY <1>2, <1>3, <1>4

(* With different first numbers, whatever follows.                         *)
LEMMA LexOfHeads ==
    ASSUME NEW k \in Numbers, NEW l \in Numbers, NEW a \in Int, NEW b \in Int,
           a = At(k, 1), b = At(l, 1), a # b
    PROVE  Lex(k, l) = Sign(a - b)
BY LexOfFirst

(* The first number of two sequences joined.                               *)
LEMMA HeadOfJoined ==
    ASSUME NEW p \in Numbers, p # <<>>, NEW k \in Numbers
    PROVE  p \o k \in Numbers /\ At(p \o k, 1) = p[1] /\ p[1] \in Int
<1>1. Len(p) \in Nat /\ Len(p) # 0 /\ Len(k) \in Nat
  BY DEF Numbers
<1>2. p \o k \in Numbers /\ Len(p \o k) = Len(p) + Len(k)
  BY JoinedFacts
<1>3. (p \o k)[1] = p[1] /\ p[1] \in Int
  BY <1>1 DEF Numbers
<1> QED BY <1>1, <1>2, <1>3 DEF At

(* The first number of a key is its kind, 2 for digits and 1 for letters.  *)
LEMMA HeadOfRPMKey ==
    ASSUME NEW s \in Strings, s # <<>>, s[1] \notin RPMSeparators
    PROVE  At(RPMKey[s], 1) = IF s[1] \in Digits THEN 2 ELSE 1
<1>1. RPMKey[s] = RPMBlock(s) \o RPMKey[RPMRest(s)] /\ RPMKey[RPMRest(s)] \in Numbers
  BY RPMKeyFacts, RPMNextIsShorter DEF RPMNext
<1>2. CASE s[1] \in Digits
  <2>1. PICK v \in Int : v = Value[Prefix(s, Digits)]
    BY PrefixIsNumeral
  <2>2. RPMBlock(s) = <<2, v>>
    BY <1>2, <2>1 DEF RPMBlock
  <2>3. <<2, v>> \in Numbers /\ <<2, v>> # <<>> /\ <<2, v>>[1] = 2
    <3>1. <<2, v>> \in Numbers
      BY DEF Numbers
    <3>2. <<2, v>> # <<>> /\ <<2, v>>[1] = 2
      OBVIOUS
    <3> QED BY <3>1, <3>2
  <2> QED BY <1>1, <1>2, <2>2, <2>3, HeadOfJoined
<1>3. CASE s[1] \notin Digits
  <2>1. PICK t \in Texts : t = <<1>> \o Prefix(s, RPMAlpha) /\ t # <<>> /\ t[1] = 1
    <3>1. PICK u \in Numbers : u = Prefix(s, RPMAlpha)
      BY TextsOfLetters
    <3>2. <<1>> \o u # <<>> /\ (<<1>> \o u)[1] = 1
      BY DEF Numbers
    <3> QED BY <3>1, <3>2, TextsOfLetters
  <2>2. RPMBlock(s) = t \o <<0>>
    BY <1>3, <2>1 DEF RPMBlock
  <2>3. t \o <<0>> \in Numbers /\ (t \o <<0>>)[1] = 1 /\ t \o <<0>> # <<>>
    <3>1. t \o <<0>> \in Numbers
      BY LexOfTexts
    <3>2. (t \o <<0>>)[1] = 1 /\ t \o <<0>> # <<>>
      BY <2>1 DEF Texts
    <3> QED BY <3>1, <3>2
  <2> QED BY <1>1, <1>3, <2>2, <2>3, HeadOfJoined
<1> QED BY <1>2, <1>3

(* One round of rpm's loop compares the first blocks.                      *)
LEMMA RPMRoundOfKeys ==
    ASSUME NEW x \in Strings, x # <<>>, x[1] \in Bytes \ RPMSeparators,
           NEW y \in Strings, y # <<>>, y[1] \in Bytes \ RPMSeparators
    PROVE  Lex(RPMKey[x], RPMKey[y]) =
              Then(RPMRound(x, y), Lex(RPMKey[RPMRest(x)], RPMKey[RPMRest(y)]))
<1> DEFINE k == RPMKey[RPMRest(x)]
           l == RPMKey[RPMRest(y)]
<1>1. /\ RPMKey[x] = RPMBlock(x) \o k /\ RPMKey[y] = RPMBlock(y) \o l
      /\ k \in Numbers /\ l \in Numbers
      /\ RPMKey[x] \in Numbers /\ RPMKey[y] \in Numbers
  BY RPMKeyFacts, RPMNextIsShorter DEF RPMNext
<1>2. /\ RPMClass(x) = Digits <=> x[1] \in Digits
      /\ RPMClass(y) = Digits <=> y[1] \in Digits
      /\ RPMClass(x) = RPMClass(y) <=> (x[1] \in Digits <=> y[1] \in Digits)
  BY DigitsAndLetters DEF RPMClass
<1> HIDE DEF k, l
<1>3. CASE x[1] \in Digits /\ y[1] \in Digits
  <2>1. PICK m \in Int, n \in Int : m = Value[Prefix(x, Digits)] /\ n = Value[Prefix(y, Digits)]
    BY PrefixIsNumeral
  <2>2. RPMBlock(x) = <<2, m>> /\ RPMBlock(y) = <<2, n>>
    BY <1>3, <2>1 DEF RPMBlock
  <2>3. RPMRound(x, y) = Sign(m - n)
    BY <1>2, <1>3, <2>1, PrefixIsNumeral, NumericOrderIsOfValues DEF RPMRound
  <2>4. Lex(<<2, m>> \o k, <<2, n>> \o l) = Then(Sign(m - n), Lex(k, l))
    BY <1>1, LexOfNumbers
  <2> QED BY <1>1, <2>2, <2>3, <2>4 DEF k, l
<1>4. CASE x[1] \notin Digits /\ y[1] \notin Digits
  <2>1. PICK u \in Strings, w \in Strings :
           /\ u = Prefix(x, RPMAlpha) /\ w = Prefix(y, RPMAlpha)
           /\ u \in Numbers /\ w \in Numbers
           /\ \A i \in 1 .. Len(u) : u[i] # 0
           /\ \A i \in 1 .. Len(w) : w[i] # 0
           /\ <<1>> \o u \in Texts /\ <<1>> \o w \in Texts
           /\ <<1>> \in Numbers
    BY TextsOfLetters
  <2>2. RPMBlock(x) = (<<1>> \o u) \o <<0>> /\ RPMBlock(y) = (<<1>> \o w) \o <<0>>
    BY <1>4, <2>1 DEF RPMBlock
  <2>3. RPMRound(x, y) = BytesCompare(u, w)
    BY <1>2, <1>4, <2>1 DEF RPMRound
  <2>4. BytesCompare(u, w) = Lex(u, w)
    BY <2>1, PositiveBytes
  <2>5. Lex(<<1>> \o u, <<1>> \o w) = Lex(u, w)
    <3>1. Lex(<<1>> \o u, <<1>> \o w) = Then(Lex(<<1>>, <<1>>), Lex(u, w))
      BY <2>1, LexOfJoined DEF Apart
    <3> QED BY <2>1, <3>1, LexOfEquals DEF Then
  <2>6. Lex(((<<1>> \o u) \o <<0>>) \o k, ((<<1>> \o w) \o <<0>>) \o l) = Then(Lex(u, w), Lex(k, l))
    BY <1>1, <2>1, <2>5, LexOfTexts, LexOfJoined
  <2> QED BY <1>1, <2>2, <2>3, <2>4, <2>6 DEF k, l
<1>5. CASE x[1] \in Digits /\ y[1] \notin Digits
  <2>1. At(RPMKey[x], 1) = 2 /\ At(RPMKey[y], 1) = 1
    BY <1>5, HeadOfRPMKey
  <2>2. Lex(RPMKey[x], RPMKey[y]) = 1
    BY <1>1, <2>1, LexOfHeads DEF Sign
  <2>3. RPMRound(x, y) = 1
    BY <1>2, <1>5 DEF RPMRound
  <2> QED BY <2>2, <2>3 DEF Then
<1>6. CASE x[1] \notin Digits /\ y[1] \in Digits
  <2>1. At(RPMKey[x], 1) = 1 /\ At(RPMKey[y], 1) = 2
    BY <1>6, HeadOfRPMKey
  <2>2. Lex(RPMKey[x], RPMKey[y]) = -1
    BY <1>1, <2>1, LexOfHeads DEF Sign
  <2>3. RPMRound(x, y) = -1
    BY <1>2, <1>6 DEF RPMRound
  <2> QED BY <2>2, <2>3 DEF Then
<1> QED BY <1>3, <1>4, <1>5, <1>6

(* Where a string has ended, the other one is newer.                       *)
LEMMA RPMEndsOfKeys ==
    ASSUME NEW x \in Strings, x # <<>> => x[1] \in Bytes \ RPMSeparators,
           NEW y \in Strings, y # <<>> => y[1] \in Bytes \ RPMSeparators,
           x = <<>> \/ y = <<>>
    PROVE  Lex(RPMKey[x], RPMKey[y]) = RPMRound(x, y)
<1>1. PICK m \in Nat, n \in Nat : /\ m = Len(x) /\ n = Len(y)
                                  /\ (m = 0 <=> x = <<>>) /\ (n = 0 <=> y = <<>>)
  BY EmptyString, BytesOfStrings
<1>2. RPMRound(x, y) = Sign(m - n)
  BY <1>1 DEF RPMRound
<1>3. RPMKey[x] \in Numbers /\ RPMKey[y] \in Numbers /\ RPMKey[<<>>] = <<>>
  BY RPMKeyFacts
<1>4. At(<<>>, 1) = 0
  BY DEF At
<1>5. CASE x = <<>> /\ y = <<>>
  BY <1>1, <1>2, <1>3, <1>5, LexOfEquals DEF Sign
<1>6. CASE x # <<>> /\ y = <<>>
  <2>1. At(RPMKey[x], 1) \in {1, 2} /\ At(RPMKey[y], 1) = 0
    BY <1>3, <1>4, <1>6, HeadOfRPMKey
  <2>2. Lex(RPMKey[x], RPMKey[y]) = 1
    BY <1>3, <2>1, LexOfHeads DEF Sign
  <2>3. m > 0 /\ n = 0
    BY <1>1, <1>6
  <2> QED BY <1>2, <2>2, <2>3 DEF Sign
<1>7. CASE x = <<>> /\ y # <<>>
  <2>1. At(RPMKey[y], 1) \in {1, 2} /\ At(RPMKey[x], 1) = 0
    BY <1>3, <1>4, <1>7, HeadOfRPMKey
  <2>2. Lex(RPMKey[x], RPMKey[y]) = -1
    BY <1>3, <2>1, LexOfHeads DEF Sign
  <2>3. n > 0 /\ m = 0
    BY <1>1, <1>7
  <2> QED BY <1>2, <2>2, <2>3 DEF Sign
<1> QED BY <1>5, <1>6, <1>7

(* rpmvercmp orders versions as their keys are ordered.                    *)
LEMMA RPMPartsCompareKeys ==
    ASSUME NEW v \in Strings, NEW w \in Strings
    PROVE  RPMPartCompare[<<v, w>>] = Lex(RPMKey[v], RPMKey[w])
<1> DEFINE rest == [s \in Strings |-> IF Strip(s) = <<>> THEN s ELSE RPMRest(Strip(s))]
           E == {p \in Pairs : Strip(p[1]) = <<>> \/ Strip(p[2]) = <<>>}
           lex == [p \in Pairs |-> Lex(RPMKey[p[1]], RPMKey[p[2]])]
           body(f) == [p \in Pairs |->
              LET x == Strip(p[1])
                  y == Strip(p[2])
              IN  IF x = <<>> \/ y = <<>> THEN RPMRound(x, y)
                  ELSE Then(RPMRound(x, y), f[<<RPMRest(x), RPMRest(y)>>])]
<1>1. /\ rest \in [Strings -> Strings]
      /\ \A s \in Strings : Strip(s) # <<>> => rest[s] = RPMRest(Strip(s))
      /\ E \in SUBSET Pairs
      /\ \A p \in Pairs : p \in E <=> Strip(p[1]) = <<>> \/ Strip(p[2]) = <<>>
  BY StripFacts
<1>2. \A p \in Pairs : p[1] \in Strings /\ p[2] \in Strings
  BY DEF Pairs
<1>3. \A x, y \in Strings : <<x, y>> \in Pairs /\ lex[<<x, y>>] = Lex(RPMKey[x], RPMKey[y])
  BY DEF Pairs
<1>4. GetsSmaller(Pairs, E, RestOfPair(rest), LengthOfPair)
  <2> HIDE DEF rest, E
  <2>1. ASSUME NEW p \in Pairs \ E
        PROVE  Len(rest[p[1]]) + Len(rest[p[2]]) < Len(p[1]) + Len(p[2])
    <3>1. PICK x \in Strings, y \in Strings :
             x = p[1] /\ y = p[2] /\ Strip(x) # <<>> /\ Strip(y) # <<>>
      BY <1>1, <1>2
    <3>2. PICK i \in Nat, j \in Nat, k \in Nat, l \in Nat :
             /\ i = Len(x) /\ j = Len(y)
             /\ k = Len(RPMRest(Strip(x))) /\ l = Len(RPMRest(Strip(y)))
             /\ k < i /\ l < j
      BY <3>1, StripFacts, BytesOfStrings
    <3>3. k + l < i + j
      BY <3>2, OneIsShorter
    <3> QED BY <1>1, <3>1, <3>2, <3>3
  <2> QED BY <1>1, <2>1, PairsGetSmaller
<1>5. ASSUME NEW p \in Pairs PROVE lex[p] = body(lex)[p]
  <2>1. PICK v1 \in Strings, w1 \in Strings : v1 = p[1] /\ w1 = p[2] /\ p = <<v1, w1>>
    BY DEF Pairs
  <2>2. PICK x \in Strings, y \in Strings : x = Strip(v1) /\ y = Strip(w1)
    BY StripFacts
  <2>3. body(lex)[p] = IF x = <<>> \/ y = <<>> THEN RPMRound(x, y)
                       ELSE Then(RPMRound(x, y), lex[<<RPMRest(x), RPMRest(y)>>])
    BY <2>1, <2>2
  <2>4. lex[p] = Lex(RPMKey[v1], RPMKey[w1])
    BY <2>1
  <2> HIDE DEF lex, body
  <2>5. lex[p] = Lex(RPMKey[x], RPMKey[y])
    BY <2>2, <2>4, KeyOfStripped
  <2>6. /\ x # <<>> => x[1] \in Bytes \ RPMSeparators /\ RPMRest(x) \in Strings
        /\ y # <<>> => y[1] \in Bytes \ RPMSeparators /\ RPMRest(y) \in Strings
    BY <2>2, StripFacts
  <2>7. CASE x = <<>> \/ y = <<>>
    BY <2>3, <2>5, <2>6, <2>7, RPMEndsOfKeys
  <2>8. CASE x # <<>> /\ y # <<>>
    <3>1. lex[<<RPMRest(x), RPMRest(y)>>] = Lex(RPMKey[RPMRest(x)], RPMKey[RPMRest(y)])
      BY <1>3, <2>6, <2>8
    <3> QED BY <2>3, <2>5, <2>6, <2>8, <3>1, RPMRoundOfKeys
  <2> QED BY <2>7, <2>8
<1>6. lex = body(lex)
  BY <1>5
<1>7. RPMPartCompare = body(RPMPartCompare)
  BY <1>6 DEF RPMPartCompare, Pairs
<1>8. ASSUME NEW p \in Pairs
      PROVE  RPMPartCompare[p] =
                IF Strip(p[1]) = <<>> \/ Strip(p[2]) = <<>> THEN RPMRound(Strip(p[1]), Strip(p[2]))
                ELSE Then(RPMRound(Strip(p[1]), Strip(p[2])),
                          RPMPartCompare[<<RPMRest(Strip(p[1])), RPMRest(Strip(p[2]))>>])
  <2> SUFFICES body(RPMPartCompare)[p] =
                IF Strip(p[1]) = <<>> \/ Strip(p[2]) = <<>> THEN RPMRound(Strip(p[1]), Strip(p[2]))
                ELSE Then(RPMRound(Strip(p[1]), Strip(p[2])),
                          RPMPartCompare[<<RPMRest(Strip(p[1])), RPMRest(Strip(p[2]))>>])
    BY <1>7
  <2> QED OBVIOUS
<1>9. ASSUME NEW p \in Pairs
      PROVE  lex[p] =
                IF Strip(p[1]) = <<>> \/ Strip(p[2]) = <<>> THEN RPMRound(Strip(p[1]), Strip(p[2]))
                ELSE Then(RPMRound(Strip(p[1]), Strip(p[2])),
                          lex[<<RPMRest(Strip(p[1])), RPMRest(Strip(p[2]))>>])
  <2> HIDE DEF lex
  <2> QED BY <1>5
<1>10. \A p \in Pairs \ E : RestOfPair(rest)[p] = <<RPMRest(Strip(p[1])), RPMRest(Strip(p[2]))>>
  <2> HIDE DEF rest, E
  <2> QED BY <1>1, <1>2 DEF RestOfPair
<1>11. \A p \in Pairs : RPMPartCompare[p] = lex[p]
  <2> HIDE DEF lex, body, rest, E
  <2>1. ASSUME NEW p \in E PROVE RPMPartCompare[p] = lex[p]
    <3>1. p \in Pairs /\ (Strip(p[1]) = <<>> \/ Strip(p[2]) = <<>>)
      BY <1>1
    <3> QED BY <1>8, <1>9, <3>1
  <2>2. ASSUME NEW p \in Pairs \ E,
               RPMPartCompare[RestOfPair(rest)[p]] = lex[RestOfPair(rest)[p]]
        PROVE  RPMPartCompare[p] = lex[p]
    <3>1. ~(Strip(p[1]) = <<>> \/ Strip(p[2]) = <<>>)
      BY <1>1
    <3>2. RPMPartCompare[p] = Then(RPMRound(Strip(p[1]), Strip(p[2])),
                                   RPMPartCompare[RestOfPair(rest)[p]])
      BY <1>8, <1>10, <3>1
    <3>3. lex[p] = Then(RPMRound(Strip(p[1]), Strip(p[2])), lex[RestOfPair(rest)[p]])
      BY <1>9, <1>10, <3>1
    <3> QED BY <2>2, <3>2, <3>3
  <2> QED BY <1>4, <2>1, <2>2, RecursionsAgree
<1> HIDE DEF lex
<1> QED BY <1>3, <1>11

-----------------------------------------------------------------------------
(* The order of the other packages.                                        *)

(* takeNaturalPart takes the digits, or all bytes before the next digit.   *)
LEMMA NaturalPartFacts ==
    ASSUME NEW s \in Strings, s # <<>>
    PROVE  /\ s[1] \in Bytes
           /\ NaturalPart(s) = IF s[1] \in Digits THEN Prefix(s, Digits) ELSE Prefix(s, NonDigits)
           /\ NaturalPart(s) \in Strings /\ NaturalPart(s) # <<>>
           /\ NaturalPart(s)[1] = s[1]
           /\ NaturalRest(s) = IF s[1] \in Digits THEN After(s, Digits) ELSE After(s, NonDigits)
           /\ NaturalRest(s) \in Strings /\ Len(NaturalRest(s)) < Len(s)
           /\ Prefix(s, NonDigits) # <<>> <=> s[1] \notin Digits
<1>1. s[1] \in Bytes
  BY FirstByte
<1>2. s[1] \in NonDigits <=> s[1] \notin Digits
  BY <1>1 DEF NonDigits
<1>3. CASE s[1] \in Digits
  BY <1>1, <1>2, <1>3, PrefixOfFirst, PrefixOfClass, AfterFirst DEF NaturalPart, NaturalRest, NaturalClass
<1>4. CASE s[1] \notin Digits
  BY <1>1, <1>2, <1>4, PrefixOfFirst, PrefixOfClass, AfterFirst DEF NaturalPart, NaturalRest, NaturalClass
<1> QED BY <1>3, <1>4

(* The bytes of a text, raised by one above what marks its end.            *)
Raised(t) == [i \in DOMAIN t |-> t[i] + 1]
NaturalBlock(s) == IF s[1] \in Digits THEN <<49, Value[Prefix(s, Digits)]>>
                   ELSE Raised(Prefix(s, NonDigits)) \o <<0>>

(* Raised bytes are texts: none of them is 0.                              *)
LEMMA RaisedAreTexts ==
    ASSUME NEW t \in Strings
    PROVE  /\ Raised(t) \in Texts /\ Raised(t) \in Numbers /\ Len(Raised(t)) = Len(t)
           /\ \A i \in 1 .. Len(t) : Raised(t)[i] = t[i] + 1
<1>1. Len(t) \in Nat /\ DOMAIN t = 1 .. Len(t) /\ \A i \in 1 .. Len(t) : t[i] \in Nat
  BY StringsAreNumbers DEF Strings
<1>2. \A c \in Nat : c + 1 \in Int \ {0}
  OBVIOUS
<1>3. Raised(t) = [i \in 1 .. Len(t) |-> t[i] + 1]
  BY <1>1 DEF Raised
<1>4. \A i \in 1 .. Len(t) : t[i] + 1 \in Int \ {0}
  BY <1>1, <1>2
<1>5. Raised(t) \in Texts
  BY <1>1, <1>3, <1>4 DEF Texts
<1> QED BY <1>1, <1>3, <1>5, LexOfTexts

(* The order of bytes is the one of the raised bytes.                      *)
LEMMA RaisedBytesInOrder ==
    ASSUME NEW x \in Strings, NEW y \in Strings
    PROVE  BytesCompare(x, y) = Lex(Raised(x), Raised(y))
<1>1. ASSUME NEW s \in Strings, NEW i \in Places
      PROVE  ByteOrder(s, i) \in Int /\ At(Raised(s), i) = ByteOrder(s, i) + 1
  <2>1. Len(s) \in Nat /\ (i <= Len(s) => i \in 1 .. Len(s) /\ s[i] \in Nat)
    BY StringsAreNumbers DEF Places
  <2>2. i <= Len(s) => Raised(s)[i] = s[i] + 1
    BY <2>1, RaisedAreTexts
  <2>3. Len(Raised(s)) = Len(s)
    BY RaisedAreTexts
  <2>4. CASE i <= Len(s)
    BY <2>1, <2>2, <2>3, <2>4 DEF At, ByteOrder, Places
  <2>5. CASE ~(i <= Len(s))
    <3>1. ByteOrder(s, i) = -1 /\ At(Raised(s), i) = 0
      BY <2>1, <2>3, <2>5 DEF At, ByteOrder, Places
    <3> QED BY <3>1
  <2> QED BY <2>4, <2>5
<1>2. ASSUME NEW i \in Places
      PROVE  Sign(ByteOrder(x, i) - ByteOrder(y, i)) = Sign(At(Raised(x), i) - At(Raised(y), i))
  <2>1. PICK m \in Int, n \in Int : m = ByteOrder(x, i) /\ n = ByteOrder(y, i)
                                    /\ At(Raised(x), i) = m + 1 /\ At(Raised(y), i) = n + 1
    BY <1>1
  <2>2. (m + 1) - (n + 1) = m - n
    OBVIOUS
  <2> QED BY <2>1, <2>2
<1> QED BY <1>2, RaisedAreTexts, BytesAsNumbers

(* Blocks are of numbers.                                                  *)
LEMMA NaturalBlocks ==
    ASSUME NEW s \in Strings
    PROVE  NaturalBlock(s) \in Numbers
<1>1. <<49, Value[Prefix(s, Digits)]>> \in Numbers
  BY PrefixIsNumeral DEF Numbers
<1>2. Raised(Prefix(s, NonDigits)) \o <<0>> \in Numbers
  BY PrefixAndAfter, RaisedAreTexts, LexOfTexts
<1> QED BY <1>1, <1>2 DEF NaturalBlock

(* NaturalKey satisfies its recursive definition.                          *)
LEMMA NaturalKeyFacts ==
    /\ NaturalKey[<<>>] = <<>>
    /\ \A s \in Strings : NaturalKey[s] \in Numbers
    /\ \A s \in Strings : s # <<>> =>
          NaturalKey[s] = NaturalBlock(s) \o NaturalKey[NaturalRest(s)]
<1> DEFINE rest == [s \in Strings |-> IF s = <<>> THEN s ELSE NaturalRest(s)]
           step == [p \in Strings \X Numbers |-> NaturalBlock(p[1]) \o p[2]]
           body(f) == [s \in Strings |->
                         IF s = <<>> THEN <<>>
                         ELSE IF Prefix(s, NonDigits) # <<>>
                              THEN [i \in DOMAIN Prefix(s, NonDigits) |-> Prefix(s, NonDigits)[i] + 1]
                                     \o <<0>> \o f[After(s, NonDigits)]
                         ELSE <<49, Value[Prefix(s, Digits)]>> \o f[After(s, Digits)]]
           plain(f) == [s \in Strings |-> IF s = <<>> THEN <<>>
                                          ELSE NaturalBlock(s) \o f[NaturalRest(s)]]
<1>1. ShorterRest(rest)
  <2>1. rest \in [Strings -> Strings] /\ \A s \in Strings \ {<<>>} : rest[s] = NaturalRest(s)
    BY NaturalPartFacts
  <2>2. \A s \in Strings \ {<<>>} : Len(NaturalRest(s)) < Len(s)
    BY NaturalPartFacts
  <2> HIDE DEF rest
  <2> QED BY <2>1, <2>2 DEF ShorterRest
<1>2. step \in [Strings \X Numbers -> Numbers]
  <2>1. \A p \in Strings \X Numbers : NaturalBlock(p[1]) \o p[2] \in Numbers
    BY NaturalBlocks, JoinedFacts
  <2> QED BY <2>1
<1>3. PICK f \in [Strings -> Numbers] : \A s \in Strings :
         f[s] = IF s = <<>> THEN <<>> ELSE step[<<s, f[rest[s]]>>]
  <2> HIDE DEF rest, step
  <2> QED BY <1>1, <1>2, KeysExist
<1>4. ASSUME NEW g PROVE body(g) = plain(g)
  <2> SUFFICES ASSUME NEW s \in Strings, s # <<>> PROVE body(g)[s] = plain(g)[s]
    OBVIOUS
  <2>1. plain(g)[s] = NaturalBlock(s) \o g[NaturalRest(s)]
    OBVIOUS
  <2>2. body(g)[s] = IF Prefix(s, NonDigits) # <<>>
                     THEN Raised(Prefix(s, NonDigits)) \o <<0>> \o g[After(s, NonDigits)]
                     ELSE <<49, Value[Prefix(s, Digits)]>> \o g[After(s, Digits)]
    BY DEF Raised
  <2> HIDE DEF body, plain
  <2> QED BY <2>1, <2>2, NaturalPartFacts DEF NaturalBlock
<1>5. \A s \in Strings : f[s] = IF s = <<>> THEN <<>> ELSE NaturalBlock(s) \o f[NaturalRest(s)]
  <2> SUFFICES ASSUME NEW s \in Strings, s # <<>>
               PROVE  f[s] = NaturalBlock(s) \o f[NaturalRest(s)]
    BY <1>3
  <2>1. NaturalRest(s) \in Strings /\ f[NaturalRest(s)] \in Numbers
    BY NaturalPartFacts
  <2>2. rest[s] = NaturalRest(s)
        /\ step[<<s, f[NaturalRest(s)]>>] = NaturalBlock(s) \o f[NaturalRest(s)]
    BY <2>1
  <2> HIDE DEF rest, step
  <2> QED BY <1>3, <2>2
<1>6. f = body(f)
  <2>1. f = plain(f)
    BY <1>5
  <2> HIDE DEF plain, body
  <2> QED BY <1>4, <2>1
<1>7. NaturalKey = body(NaturalKey)
  <2>1. NaturalKey = CHOOSE g : g = body(g)
    BY DEF NaturalKey
  <2> HIDE DEF body
  <2> QED BY <1>6, <2>1
<1>8. \A s \in Strings : NaturalKey[s] = IF s = <<>> THEN <<>>
                                         ELSE NaturalBlock(s) \o NaturalKey[NaturalRest(s)]
  <2>1. NaturalKey = plain(NaturalKey)
    <3> HIDE DEF plain, body
    <3> QED BY <1>4, <1>7
  <2> SUFFICES ASSUME NEW s \in Strings
               PROVE  plain(NaturalKey)[s] = IF s = <<>> THEN <<>>
                                         ELSE NaturalBlock(s) \o NaturalKey[NaturalRest(s)]
    BY <2>1
  <2> QED OBVIOUS
<1>9. \A s \in Strings : NaturalKey[s] = f[s]
  <2>1. GetsSmaller(Strings, {<<>>}, rest, Length)
    <3> HIDE DEF rest, step
    <3> QED BY <1>1, <1>2, KeysExist
  <2>2. \A s \in Strings \ {<<>>} : rest[s] = NaturalRest(s)
    OBVIOUS
  <2> HIDE DEF rest, body, plain, step
  <2>3. \A s \in {<<>>} : NaturalKey[s] = f[s]
    BY <1>5, <1>8, EmptyString
  <2>4. ASSUME NEW s \in Strings \ {<<>>}, NaturalKey[rest[s]] = f[rest[s]]
        PROVE  NaturalKey[s] = f[s]
    <3>1. s \in Strings /\ s # <<>> /\ NaturalKey[NaturalRest(s)] = f[NaturalRest(s)]
      BY <2>2, <2>4
    <3> QED BY <1>5, <1>8, <3>1
  <2> QED BY <2>1, <2>3, <2>4, RecursionsAgree
<1> HIDE DEF body, plain, rest, step
<1> QED BY <1>8, <1>9, EmptyString

(* First bytes that differ decide.                                         *)
LEMMA FirstBytesDecide ==
    ASSUME NEW x \in Strings, x # <<>>, NEW y \in Strings, y # <<>>, x[1] # y[1]
    PROVE  BytesCompare(x, y) = Sign(x[1] - y[1])
<1>1. PICK m \in Int, n \in Int : m = x[1] /\ n = y[1] /\ m # n
  <2>1. x[1] \in Bytes /\ y[1] \in Bytes
    BY FirstByte
  <2>2. Bytes \subseteq Int
    BY DEF Bytes
  <2> QED BY <2>1, <2>2
<1>2. \A s \in Strings : s # <<>> => Raised(s) \in Numbers /\ At(Raised(s), 1) = s[1] + 1
  <2> SUFFICES ASSUME NEW s \in Strings, s # <<>>
               PROVE  Raised(s) \in Numbers /\ At(Raised(s), 1) = s[1] + 1
    OBVIOUS
  <2>1. Len(s) \in Nat \ {0} /\ 1 \in 1 .. Len(s)
    BY FirstByte
  <2> QED BY <2>1, RaisedAreTexts DEF At
<1>3. Lex(Raised(x), Raised(y)) = Sign((m + 1) - (n + 1))
  <2>1. At(Raised(x), 1) = m + 1 /\ At(Raised(y), 1) = n + 1 /\ m + 1 # n + 1
    BY <1>1, <1>2
  <2> QED BY <1>2, <2>1, LexOfHeads
<1>4. (m + 1) - (n + 1) = m - n
  OBVIOUS
<1> QED BY <1>1, <1>3, <1>4, RaisedBytesInOrder

(* The first number of a key is where the first byte is among the bytes;   *)
(* all digits are in one place.                                            *)
LEMMA HeadOfNaturalKey ==
    ASSUME NEW s \in Strings, s # <<>>
    PROVE  /\ At(NaturalKey[s], 1) = IF s[1] \in Digits THEN 49 ELSE s[1] + 1
           /\ s[1] \in Nat
<1>1. s[1] \in Nat
  <2>1. Bytes \subseteq Nat
    BY DEF Bytes
  <2> QED BY <2>1, FirstByte
<1>2. NaturalKey[s] = NaturalBlock(s) \o NaturalKey[NaturalRest(s)]
      /\ NaturalKey[NaturalRest(s)] \in Numbers
  BY NaturalKeyFacts, NaturalPartFacts
<1>3. CASE s[1] \in Digits
  <2>1. PICK v \in Int : v = Value[Prefix(s, Digits)]
    BY PrefixIsNumeral
  <2>2. NaturalBlock(s) = <<49, v>>
    BY <1>3, <2>1 DEF NaturalBlock
  <2>3. <<49, v>> \in Numbers
    BY DEF Numbers
  <2>4. <<49, v>> # <<>> /\ <<49, v>>[1] = 49
    OBVIOUS
  <2> QED BY <1>1, <1>2, <1>3, <2>2, <2>3, <2>4, HeadOfJoined
<1>4. CASE s[1] \notin Digits
  <2>1. PICK t \in Strings : t = Prefix(s, NonDigits) /\ t # <<>> /\ t[1] = s[1]
    BY <1>4, NaturalPartFacts
  <2>2. Len(t) \in Nat \ {0} /\ 1 \in 1 .. Len(t)
    BY <2>1, FirstByte
  <2>3. PICK u \in Texts : u = Raised(t) /\ Len(u) # 0 /\ u[1] = s[1] + 1
    BY <2>1, <2>2, RaisedAreTexts
  <2>4. NaturalBlock(s) = u \o <<0>>
    BY <1>4, <2>1, <2>3 DEF NaturalBlock
  <2>5. PICK b \in Numbers : b = u \o <<0>> /\ b # <<>> /\ b[1] = s[1] + 1
    <3>1. (u \o <<0>>)[1] = u[1] /\ u \o <<0>> # <<>>
      BY <2>3 DEF Texts
    <3> QED BY <2>3, <3>1, LexOfTexts
  <2>6. NaturalKey[s] = b \o NaturalKey[NaturalRest(s)]
    BY <1>2, <2>4, <2>5
  <2>7. At(NaturalKey[s], 1) = s[1] + 1
    BY <1>2, <2>5, <2>6, HeadOfJoined
  <2> QED BY <1>1, <1>4, <2>7
<1> QED BY <1>3, <1>4

(* So a digit and another byte are compared as bytes.                      *)
LEMMA DigitsAmongBytes ==
    ASSUME NEW c \in Nat, NEW d \in Nat, NEW a \in Int, NEW b \in Int,
           ~(c \in 48 .. 57 <=> d \in 48 .. 57),
           a = IF c \in 48 .. 57 THEN 49 ELSE c + 1,
           b = IF d \in 48 .. 57 THEN 49 ELSE d + 1
    PROVE  a # b /\ Sign(a - b) = Sign(c - d) /\ Sign(c - d) # 0
BY DEF Sign

(* One round of compareNaturalVersion's loop compares the first blocks.    *)
LEMMA NaturalRoundOfKeys ==
    ASSUME NEW x \in Strings, x # <<>>, NEW y \in Strings, y # <<>>
    PROVE  Lex(NaturalKey[x], NaturalKey[y]) =
              Then(NaturalRound(x, y), Lex(NaturalKey[NaturalRest(x)], NaturalKey[NaturalRest(y)]))
<1> DEFINE k == NaturalKey[NaturalRest(x)]
           l == NaturalKey[NaturalRest(y)]
<1>1. /\ NaturalKey[x] = NaturalBlock(x) \o k /\ NaturalKey[y] = NaturalBlock(y) \o l
      /\ k \in Numbers /\ l \in Numbers
      /\ NaturalKey[x] \in Numbers /\ NaturalKey[y] \in Numbers
  BY NaturalKeyFacts, NaturalPartFacts
<1> HIDE DEF k, l
<1>2. CASE x[1] \in Digits /\ y[1] \in Digits
  <2>1. PICK m \in Int, n \in Int : m = Value[Prefix(x, Digits)] /\ n = Value[Prefix(y, Digits)]
    BY PrefixIsNumeral
  <2>2. NaturalBlock(x) = <<49, m>> /\ NaturalBlock(y) = <<49, n>>
    BY <1>2, <2>1 DEF NaturalBlock
  <2>3. NaturalRound(x, y) = Sign(m - n)
    <3>1. NaturalRound(x, y) = NumericCompare(Prefix(x, Digits), Prefix(y, Digits))
      BY <1>2, NaturalPartFacts DEF NaturalRound
    <3> QED BY <2>1, <3>1, PrefixIsNumeral, NumericOrderIsOfValues
  <2>4. Lex(<<49, m>> \o k, <<49, n>> \o l) = Then(Sign(m - n), Lex(k, l))
    BY <1>1, LexOfNumbers
  <2> QED BY <1>1, <2>2, <2>3, <2>4 DEF k, l
<1>3. CASE x[1] \notin Digits /\ y[1] \notin Digits
  <2>1. PICK u \in Strings, w \in Strings :
           u = Prefix(x, NonDigits) /\ w = Prefix(y, NonDigits)
    BY PrefixAndAfter
  <2>2. NaturalBlock(x) = Raised(u) \o <<0>> /\ NaturalBlock(y) = Raised(w) \o <<0>>
    BY <1>3, <2>1 DEF NaturalBlock
  <2>3. NaturalRound(x, y) = BytesCompare(u, w)
    BY <1>3, <2>1, NaturalPartFacts DEF NaturalRound
  <2>4. BytesCompare(u, w) = Lex(Raised(u), Raised(w))
    BY RaisedBytesInOrder
  <2>5. Raised(u) \in Texts /\ Raised(w) \in Texts
    BY RaisedAreTexts
  <2>6. Lex((Raised(u) \o <<0>>) \o k, (Raised(w) \o <<0>>) \o l)
           = Then(Lex(Raised(u), Raised(w)), Lex(k, l))
    BY <1>1, <2>5, LexOfTexts, LexOfJoined
  <2> QED BY <1>1, <2>2, <2>3, <2>4, <2>6 DEF k, l
<1>4. CASE ~(x[1] \in Digits <=> y[1] \in Digits)
  <2>1. PICK c \in Nat, d \in Nat : c = x[1] /\ d = y[1] /\ c # d
    BY <1>4, HeadOfNaturalKey
  <2>2. PICK a \in Int, b \in Int : /\ a = At(NaturalKey[x], 1) /\ b = At(NaturalKey[y], 1)
                                    /\ a = IF c \in Digits THEN 49 ELSE c + 1
                                    /\ b = IF d \in Digits THEN 49 ELSE d + 1
    BY <2>1, HeadOfNaturalKey
  <2>3. a # b /\ Sign(a - b) = Sign(c - d) /\ Sign(c - d) # 0
    <3>1. ~(c \in 48 .. 57 <=> d \in 48 .. 57)
      BY <1>4, <2>1 DEF Digits
    <3> QED BY <2>2, <3>1, DigitsAmongBytes DEF Digits
  <2>4. Lex(NaturalKey[x], NaturalKey[y]) = Sign(c - d)
    BY <1>1, <2>2, <2>3, LexOfHeads
  <2>5. NaturalRound(x, y) = Sign(c - d)
    <3>1. NaturalRound(x, y) = BytesCompare(NaturalPart(x), NaturalPart(y))
      BY <1>4 DEF NaturalRound
    <3> QED BY <2>1, <3>1, NaturalPartFacts, FirstBytesDecide
  <2> QED BY <2>3, <2>4, <2>5 DEF Then
<1> QED BY <1>2, <1>3, <1>4

(* Where a string has ended, the other one is newer.                       *)
LEMMA NaturalEndsOfKeys ==
    ASSUME NEW x \in Strings, NEW y \in Strings, x = <<>> \/ y = <<>>
    PROVE  Lex(NaturalKey[x], NaturalKey[y]) = NaturalRound(x, y)
<1>1. PICK m \in Nat, n \in Nat : /\ m = Len(x) /\ n = Len(y)
                                  /\ (m = 0 <=> x = <<>>) /\ (n = 0 <=> y = <<>>)
  BY EmptyString, BytesOfStrings
<1>2. NaturalRound(x, y) = Sign(m - n)
  BY <1>1 DEF NaturalRound
<1>3. NaturalKey[x] \in Numbers /\ NaturalKey[y] \in Numbers /\ NaturalKey[<<>>] = <<>>
  BY NaturalKeyFacts
<1>4. At(<<>>, 1) = 0
  BY DEF At
<1>5. \A s \in Strings : s # <<>> => At(NaturalKey[s], 1) \in Nat \ {0}
  BY HeadOfNaturalKey
<1>6. CASE x = <<>> /\ y = <<>>
  BY <1>1, <1>2, <1>3, <1>6, LexOfEquals DEF Sign
<1>7. CASE x # <<>> /\ y = <<>>
  <2>1. At(NaturalKey[x], 1) \in Nat \ {0} /\ At(NaturalKey[y], 1) = 0
    BY <1>3, <1>4, <1>5, <1>7
  <2>2. Lex(NaturalKey[x], NaturalKey[y]) = 1
    BY <1>3, <2>1, LexOfHeads DEF Sign
  <2>3. m > 0 /\ n = 0
    BY <1>1, <1>7
  <2> QED BY <1>2, <2>2, <2>3 DEF Sign
<1>8. CASE x = <<>> /\ y # <<>>
  <2>1. At(NaturalKey[y], 1) \in Nat \ {0} /\ At(NaturalKey[x], 1) = 0
    BY <1>3, <1>4, <1>5, <1>8
  <2>2. Lex(NaturalKey[x], NaturalKey[y]) = -1
    BY <1>3, <2>1, LexOfHeads DEF Sign
  <2>3. n > 0 /\ m = 0
    BY <1>1, <1>8
  <2> QED BY <1>2, <2>2, <2>3 DEF Sign
<1> QED BY <1>6, <1>7, <1>8

(* compareNaturalVersion orders versions as their keys are ordered.        *)
LEMMA NaturalsCompareKeys ==
    ASSUME NEW v \in Strings, NEW w \in Strings
    PROVE  NaturalCompare[<<v, w>>] = Lex(NaturalKey[v], NaturalKey[w])
<1> DEFINE rest == [s \in Strings |-> IF s = <<>> THEN s ELSE NaturalRest(s)]
           E == {p \in Pairs : p[1] = <<>> \/ p[2] = <<>>}
           lex == [p \in Pairs |-> Lex(NaturalKey[p[1]], NaturalKey[p[2]])]
           body(f) == [p \in Pairs |->
              IF p[1] = <<>> \/ p[2] = <<>> THEN NaturalRound(p[1], p[2])
              ELSE Then(NaturalRound(p[1], p[2]), f[<<NaturalRest(p[1]), NaturalRest(p[2])>>])]
<1>1. /\ rest \in [Strings -> Strings]
      /\ \A s \in Strings : s # <<>> => rest[s] = NaturalRest(s)
      /\ E \in SUBSET Pairs
      /\ \A p \in Pairs : p \in E <=> p[1] = <<>> \/ p[2] = <<>>
  BY NaturalPartFacts
<1>2. \A p \in Pairs : p[1] \in Strings /\ p[2] \in Strings
  BY DEF Pairs
<1>3. \A x, y \in Strings : <<x, y>> \in Pairs /\ lex[<<x, y>>] = Lex(NaturalKey[x], NaturalKey[y])
  BY DEF Pairs
<1>4. GetsSmaller(Pairs, E, RestOfPair(rest), LengthOfPair)
  <2> HIDE DEF rest, E
  <2>1. ASSUME NEW p \in Pairs \ E
        PROVE  Len(rest[p[1]]) + Len(rest[p[2]]) < Len(p[1]) + Len(p[2])
    <3>1. PICK x \in Strings, y \in Strings : x = p[1] /\ y = p[2] /\ x # <<>> /\ y # <<>>
      BY <1>1, <1>2
    <3>2. PICK i \in Nat, j \in Nat, k \in Nat, l \in Nat :
             /\ i = Len(x) /\ j = Len(y)
             /\ k = Len(NaturalRest(x)) /\ l = Len(NaturalRest(y))
             /\ k < i /\ l < j
      BY <3>1, NaturalPartFacts, BytesOfStrings
    <3>3. k + l < i + j
      BY <3>2, OneIsShorter
    <3> QED BY <1>1, <3>1, <3>2, <3>3
  <2> QED BY <1>1, <2>1, PairsGetSmaller
<1>5. ASSUME NEW p \in Pairs PROVE lex[p] = body(lex)[p]
  <2>1. PICK x \in Strings, y \in Strings : x = p[1] /\ y = p[2] /\ p = <<x, y>>
    BY DEF Pairs
  <2>2. body(lex)[p] = IF x = <<>> \/ y = <<>> THEN NaturalRound(x, y)
                       ELSE Then(NaturalRound(x, y), lex[<<NaturalRest(x), NaturalRest(y)>>])
    BY <2>1
  <2>3. lex[p] = Lex(NaturalKey[x], NaturalKey[y])
    BY <2>1
  <2> HIDE DEF lex, body
  <2>4. CASE x = <<>> \/ y = <<>>
    BY <2>2, <2>3, <2>4, NaturalEndsOfKeys
  <2>5. CASE x # <<>> /\ y # <<>>
    <3>1. lex[<<NaturalRest(x), NaturalRest(y)>>] = Lex(NaturalKey[NaturalRest(x)], NaturalKey[NaturalRest(y)])
      BY <1>3, <2>5, NaturalPartFacts
    <3> QED BY <2>2, <2>3, <2>5, <3>1, NaturalRoundOfKeys
  <2> QED BY <2>4, <2>5
<1>6. lex = body(lex)
  BY <1>5
<1>7. NaturalCompare = body(NaturalCompare)
  BY <1>6 DEF NaturalCompare, Pairs
<1>8. ASSUME NEW p \in Pairs
      PROVE  NaturalCompare[p] =
                IF p[1] = <<>> \/ p[2] = <<>> THEN NaturalRound(p[1], p[2])
                ELSE Then(NaturalRound(p[1], p[2]),
                          NaturalCompare[<<NaturalRest(p[1]), NaturalRest(p[2])>>])
  <2> SUFFICES body(NaturalCompare)[p] =
                IF p[1] = <<>> \/ p[2] = <<>> THEN NaturalRound(p[1], p[2])
                ELSE Then(NaturalRound(p[1], p[2]),
                          NaturalCompare[<<NaturalRest(p[1]), NaturalRest(p[2])>>])
    BY <1>7
  <2> QED OBVIOUS
<1>9. ASSUME NEW p \in Pairs
      PROVE  lex[p] = IF p[1] = <<>> \/ p[2] = <<>> THEN NaturalRound(p[1], p[2])
                      ELSE Then(NaturalRound(p[1], p[2]),
                                lex[<<NaturalRest(p[1]), NaturalRest(p[2])>>])
  <2> HIDE DEF lex
  <2> QED BY <1>5
<1>10. \A p \in Pairs \ E : RestOfPair(rest)[p] = <<NaturalRest(p[1]), NaturalRest(p[2])>>
  <2> HIDE DEF rest, E
  <2> QED BY <1>1, <1>2 DEF RestOfPair
<1>11. \A p \in Pairs : NaturalCompare[p] = lex[p]
  <2> HIDE DEF lex, body, rest, E
  <2>1. ASSUME NEW p \in E PROVE NaturalCompare[p] = lex[p]
    <3>1. p \in Pairs /\ (p[1] = <<>> \/ p[2] = <<>>)
      BY <1>1
    <3> QED BY <1>8, <1>9, <3>1
  <2>2. ASSUME NEW p \in Pairs \ E,
               NaturalCompare[RestOfPair(rest)[p]] = lex[RestOfPair(rest)[p]]
        PROVE  NaturalCompare[p] = lex[p]
    <3>1. ~(p[1] = <<>> \/ p[2] = <<>>)
      BY <1>1
    <3>2. NaturalCompare[p] = Then(NaturalRound(p[1], p[2]), NaturalCompare[RestOfPair(rest)[p]])
      BY <1>8, <1>10, <3>1
    <3>3. lex[p] = Then(NaturalRound(p[1], p[2]), lex[RestOfPair(rest)[p]])
      BY <1>9, <1>10, <3>1
    <3> QED BY <2>2, <3>2, <3>3
  <2> QED BY <1>4, <2>1, <2>2, RecursionsAgree
<1> HIDE DEF lex
<1> QED BY <1>3, <1>11

-----------------------------------------------------------------------------
(* Whole versions: epochs, upstream versions, revisions.                   *)

(* The first sign of several that is not 0.                                *)
FirstIn(f, n) ==
    LET D == {i \in 1 .. n : f[i] # 0} IN IF D = {} THEN 0 ELSE f[Min(D)]

(* It is what Then makes of three...                                       *)
LEMMA FirstOfThree ==
    ASSUME NEW f
    PROVE  FirstIn(f, 3) = Then(f[1], Then(f[2], f[3]))
<1> DEFINE D == {i \in 1 .. 3 : f[i] # 0}
<1>1. FirstIn(f, 3) = IF D = {} THEN 0 ELSE f[Min(D)]
  BY DEF FirstIn
<1>2. D \in SUBSET Nat
  OBVIOUS
<1>3. D # {} => Min(D) \in D /\ \A k \in D : Min(D) <= k
  <2> HIDE DEF D
  <2> QED BY <1>2, MinIsLeast
<1>4. \A i \in 1 .. 3 : i = 1 \/ i = 2 \/ i = 3
  OBVIOUS
<1>5. CASE f[1] # 0
  <2>1. 1 \in D
    BY <1>5
  <2>2. Min(D) = 1
    <3>1. Min(D) \in 1 .. 3 /\ Min(D) <= 1
      BY <1>3, <2>1
    <3> QED BY <3>1
  <2> QED BY <1>1, <1>5, <2>1, <2>2 DEF Then
<1>6. CASE f[1] = 0 /\ f[2] # 0
  <2>1. 2 \in D
    BY <1>6
  <2>2. Min(D) = 2
    <3>1. Min(D) \in 1 .. 3 /\ Min(D) <= 2 /\ f[Min(D)] # 0
      BY <1>3, <2>1
    <3> QED BY <1>6, <3>1
  <2> QED BY <1>1, <1>6, <2>1, <2>2 DEF Then
<1>7. CASE f[1] = 0 /\ f[2] = 0 /\ f[3] # 0
  <2>1. 3 \in D
    BY <1>7
  <2>2. Min(D) = 3
    <3>1. Min(D) \in 1 .. 3 /\ f[Min(D)] # 0
      BY <1>3, <2>1
    <3> QED BY <1>4, <1>7, <3>1
  <2> QED BY <1>1, <1>7, <2>1, <2>2 DEF Then
<1>8. CASE f[1] = 0 /\ f[2] = 0 /\ f[3] = 0
  <2>1. D = {}
    BY <1>4, <1>8
  <2> QED BY <1>1, <1>8, <2>1 DEF Then
<1> QED BY <1>1, <1>5, <1>6, <1>7, <1>8

(* ... of two...                                                           *)
LEMMA FirstOfTwo ==
    ASSUME NEW f
    PROVE  FirstIn(f, 2) = Then(f[1], f[2])
<1> DEFINE D == {i \in 1 .. 2 : f[i] # 0}
<1>1. FirstIn(f, 2) = IF D = {} THEN 0 ELSE f[Min(D)]
  BY DEF FirstIn
<1>2. D \in SUBSET Nat
  OBVIOUS
<1>3. D # {} => Min(D) \in D /\ \A k \in D : Min(D) <= k
  <2> HIDE DEF D
  <2> QED BY <1>2, MinIsLeast
<1>4. \A i \in 1 .. 2 : i = 1 \/ i = 2
  OBVIOUS
<1>5. CASE f[1] # 0
  <2>1. 1 \in D
    BY <1>5
  <2>2. Min(D) = 1
    <3>1. Min(D) \in 1 .. 2 /\ Min(D) <= 1
      BY <1>3, <2>1
    <3> QED BY <3>1
  <2> QED BY <1>1, <1>5, <2>1, <2>2 DEF Then
<1>6. CASE f[1] = 0 /\ f[2] # 0
  <2>1. 2 \in D
    BY <1>6
  <2>2. Min(D) = 2
    <3>1. Min(D) \in 1 .. 2 /\ f[Min(D)] # 0
      BY <1>3, <2>1
    <3> QED BY <1>4, <1>6, <3>1
  <2> QED BY <1>1, <1>6, <2>1, <2>2 DEF Then
<1>7. CASE f[1] = 0 /\ f[2] = 0
  <2>1. D = {}
    BY <1>4, <1>7
  <2> QED BY <1>1, <1>7, <2>1 DEF Then
<1> QED BY <1>1, <1>5, <1>6, <1>7

(* ... and of one.                                                         *)
LEMMA FirstOfOne ==
    ASSUME NEW f
    PROVE  FirstIn(f, 1) = f[1]
<1> DEFINE D == {i \in 1 .. 1 : f[i] # 0}
<1>1. FirstIn(f, 1) = IF D = {} THEN 0 ELSE f[Min(D)]
  BY DEF FirstIn
<1>2. D \in SUBSET Nat
  OBVIOUS
<1>3. D # {} => Min(D) \in D
  <2> HIDE DEF D
  <2> QED BY <1>2, MinIsLeast
<1> QED BY <1>1, <1>3

(* KeyCompare compares one key after the other.                            *)
LEMMA KeysInTurn ==
    ASSUME NEW source, NEW v, NEW w, NEW k, k = Keys(source, v), NEW l, l = Keys(source, w),
           NEW n \in Nat, DOMAIN k = 1 .. n,
           NEW f, \A i \in 1 .. n : f[i] = Lex(k[i], l[i])
    PROVE  KeyCompare(source, v, w) = FirstIn(f, n)
<1> DEFINE D == {i \in 1 .. n : f[i] # 0}
           C == {i \in 1 .. n : LexCompare(At, k[i], l[i]) # 0}
<1>1. C = D
  BY DEF Lex
<1>2. KeyCompare(source, v, w) = IF C = {} THEN 0 ELSE LexCompare(At, k[Min(C)], l[Min(C)])
  BY DEF KeyCompare
<1>3. D # {} => Min(D) \in 1 .. n
  <2>1. D \in SUBSET Nat /\ D \subseteq 1 .. n
    OBVIOUS
  <2> HIDE DEF D
  <2> QED BY <2>1, MinIsLeast
<1>4. D # {} => f[Min(D)] = LexCompare(At, k[Min(D)], l[Min(D)])
  <2> HIDE DEF D, C
  <2> QED BY <1>3 DEF Lex
<1> HIDE DEF C
<1>5. D = {i \in 1 .. n : f[i] # 0}
  OBVIOUS
<1> HIDE DEF D
<1>6. FirstIn(f, n) = IF D = {} THEN 0 ELSE f[Min(D)]
  BY <1>5 DEF FirstIn
<1> QED BY <1>1, <1>2, <1>4, <1>6

(* Max chooses the greatest element.                                       *)
LEMMA MaxIsGreatest ==
    ASSUME NEW n \in Nat, NEW S \in SUBSET (1 .. n), S # {}
    PROVE  Max(S) \in S /\ \A k \in S : Max(S) >= k
<1> DEFINE T == {n - i : i \in S}
<1>1. \A i \in S : i \in 1 .. n /\ n - i \in Nat
  OBVIOUS
<1>2. T \in SUBSET Nat /\ T # {}
  BY <1>1
<1>3. PICK m \in T : \A k \in T : m <= k
  <2> HIDE DEF T
  <2> QED BY <1>2, LeastElement
<1>4. PICK i \in S : m = n - i
  OBVIOUS
<1>5. \A j \in S : n - j \in T
  OBVIOUS
<1>6. \A j \in S : i >= j
  <2> HIDE DEF T
  <2> QED BY <1>3, <1>4, <1>5
<1> QED BY <1>6 DEF Max

(* The parts before and after a byte are strings.                          *)
LEMMA SplitsAreStrings ==
    ASSUME NEW s \in Strings, NEW i \in 0 .. Len(s)
    PROVE  /\ i # 0 => Take(s, i - 1) \in Strings
           /\ Drop(s, i) \in Strings
BY DEF Take, Drop, Strings

(* splitEpoch returns an int and a string.                                 *)
LEMMA EpochsAndRests ==
    ASSUME NEW v \in Strings
    PROVE  /\ SplitEpoch(v).epoch \in Int /\ InInt(SplitEpoch(v).epoch)
           /\ SplitEpoch(v).rest \in Strings
<1> DEFINE I == {j \in 1 .. Len(v) : v[j] = Colon}
           i == SelectInSeq(v, LAMBDA c : c = Colon)
<1>1. i \in 0 .. Len(v)
  <2>1. I \in SUBSET Nat /\ I \subseteq 1 .. Len(v) /\ Len(v) \in Nat
    BY BytesOfStrings
  <2>2. i = IF I # {} THEN Min(I) ELSE 0
    BY DEF SelectInSeq
  <2> HIDE DEF I, i
  <2>3. I # {} => Min(I) \in I
    BY <2>1, MinIsLeast
  <2>4. I # {} => i \in 1 .. Len(v)
    BY <2>1, <2>2, <2>3
  <2> QED BY <2>1, <2>2, <2>4
<1> HIDE DEF i
<1>2. CASE i > 0 /\ IsNumber(Take(v, i - 1)) /\ InInt(Number(Take(v, i - 1)))
  <2>1. /\ SplitEpoch(v).epoch = Number(Take(v, i - 1))
        /\ SplitEpoch(v).rest = Drop(v, i)
    BY <1>2 DEF SplitEpoch, i
  <2>2. PICK t \in Strings : t = Take(v, i - 1)
    BY <1>1, <1>2, SplitsAreStrings
  <2>3. t # <<>>
    <3> SUFFICES ASSUME t = <<>> PROVE FALSE
      OBVIOUS
    <3>1. Drop(<<>>, 0) = <<>>
      BY DEF Drop
    <3> QED BY <1>2, <2>2, <3>1 DEF IsNumber
  <2>4. Value[t] \in Int /\ Value[Tail(t)] \in Int
    BY <2>2, <2>3, ValueFacts, ShorterByOne
  <2>5. Number(t) \in Int
    BY <2>4 DEF Number
  <2>6. Drop(v, i) \in Strings
    BY <1>1, SplitsAreStrings
  <2> QED BY <1>2, <2>1, <2>2, <2>5, <2>6
<1>3. CASE ~(i > 0 /\ IsNumber(Take(v, i - 1)) /\ InInt(Number(Take(v, i - 1))))
  <2>1. SplitEpoch(v).epoch = 0 /\ SplitEpoch(v).rest = v
    BY <1>3 DEF SplitEpoch, i
  <2> QED BY <2>1, IntAssumption DEF InInt
<1> QED BY <1>2, <1>3

(* The difference of two ints has its sign when it is an int, and the      *)
(* opposite one when it wraps.                                             *)
LEMMA MinusFacts ==
    ASSUME NEW m \in Int, NEW n \in Int, InInt(m), InInt(n)
    PROVE  /\ InInt(m - n) => Sign(Minus(m, n)) = Sign(m - n)
           /\ ~InInt(m - n) => /\ Sign(Minus(m, n)) = 0 - Sign(m - n)
                              /\ Sign(m - n) # 0
BY IntAssumption DEF InInt, Minus, Sign

(* Epochs that are not negative are never too far apart.                   *)
LEMMA UnsignedEpochsFit ==
    ASSUME NEW source, NEW v \in Strings, NEW w \in Strings, Unsigned(v), Unsigned(w)
    PROVE  ~EpochsOverflow(source, v, w)
<1>1. PICK m \in Int, n \in Int : /\ m = SplitEpoch(v).epoch /\ InInt(m) /\ m >= 0
                                 /\ n = SplitEpoch(w).epoch /\ InInt(n) /\ n >= 0
  BY EpochsAndRests DEF Unsigned
<1> QED BY <1>1, IntAssumption DEF EpochsOverflow, InInt

(* splitDebianVersion returns strings.                                     *)
LEMMA UpstreamsAndRevisions ==
    ASSUME NEW v \in Strings
    PROVE  SplitRevision(v).upstream \in Strings /\ SplitRevision(v).revision \in Strings
<1> DEFINE I == {j \in 1 .. Len(v) : v[j] = Hyphen}
           i == SelectLastInSeq(v, LAMBDA c : c = Hyphen)
<1>1. i \in 0 .. Len(v)
  <2>1. I \in SUBSET (1 .. Len(v)) /\ Len(v) \in Nat
    BY BytesOfStrings
  <2>2. i = IF I # {} THEN Max(I) ELSE 0
    BY DEF SelectLastInSeq
  <2> HIDE DEF I, i
  <2>3. I # {} => Max(I) \in I
    BY <2>1, MaxIsGreatest
  <2>4. I # {} => i \in 1 .. Len(v)
    BY <2>1, <2>2, <2>3
  <2> QED BY <2>1, <2>2, <2>4
<1> HIDE DEF i
<1>2. i # 0 => Take(v, i - 1) \in Strings /\ Drop(v, i) \in Strings
  BY <1>1, SplitsAreStrings
<1>3. CASE i = 0
  BY <1>3, EmptyString DEF SplitRevision, i
<1>4. CASE i # 0
  BY <1>2, <1>4 DEF SplitRevision, i
<1> QED BY <1>3, <1>4

(* The keys of a version: of its epoch, of what follows for rpm, and of    *)
(* the two parts of that for dpkg.                                         *)
EpochKey(v) == <<SplitEpoch(v).epoch>>
RestKey(v) == RPMKey[SplitEpoch(v).rest]
UpstreamKey(v) == DebianKey[SplitRevision(SplitEpoch(v).rest).upstream]
RevisionKey(v) == DebianKey[SplitRevision(SplitEpoch(v).rest).revision]

(* They are sequences of numbers.                                          *)
LEMMA KeyFacts ==
    ASSUME NEW v \in Strings
    PROVE  /\ EpochKey(v) \in Numbers /\ RestKey(v) \in Numbers
           /\ UpstreamKey(v) \in Numbers /\ RevisionKey(v) \in Numbers
<1>1. SplitEpoch(v).epoch \in Int /\ SplitEpoch(v).rest \in Strings
  BY EpochsAndRests
<1>2. UpstreamKey(v) \in Numbers /\ RevisionKey(v) \in Numbers
  BY <1>1, UpstreamsAndRevisions, DebianKeyFacts DEF UpstreamKey, RevisionKey
<1>3. RestKey(v) \in Numbers
  BY <1>1, RPMKeyFacts DEF RestKey
<1> QED BY <1>1, <1>2, <1>3 DEF Numbers, EpochKey

(* Those of dpkg, one after the other.                                     *)
LEMMA DebianKeysInTurn ==
    ASSUME NEW source \in DebianSources, NEW v, NEW w
    PROVE  KeyCompare(source, v, w) =
              Then(Lex(EpochKey(v), EpochKey(w)),
                   Then(Lex(UpstreamKey(v), UpstreamKey(w)),
                        Lex(RevisionKey(v), RevisionKey(w))))
<1>1. PICK k : k = Keys(source, v) /\ k = <<EpochKey(v), UpstreamKey(v), RevisionKey(v)>>
  BY DEF Keys, EpochKey, UpstreamKey, RevisionKey
<1>2. PICK l : l = Keys(source, w) /\ l = <<EpochKey(w), UpstreamKey(w), RevisionKey(w)>>
  BY DEF Keys, EpochKey, UpstreamKey, RevisionKey
<1> DEFINE f == [i \in 1 .. 3 |-> Lex(k[i], l[i])]
<1>3. /\ f[1] = Lex(EpochKey(v), EpochKey(w))
      /\ f[2] = Lex(UpstreamKey(v), UpstreamKey(w))
      /\ f[3] = Lex(RevisionKey(v), RevisionKey(w))
  BY <1>1, <1>2
<1>4. KeyCompare(source, v, w) = Then(f[1], Then(f[2], f[3]))
  <2>1. PICK z \in Nat : z = 3
    OBVIOUS
  <2>2. DOMAIN k = 1 .. z
    BY <1>1, <2>1
  <2>3. \A i \in 1 .. z : f[i] = Lex(k[i], l[i])
    BY <2>1
  <2> HIDE DEF f
  <2>4. k = Keys(source, v) /\ l = Keys(source, w)
    BY <1>1, <1>2
  <2>5. KeyCompare(source, v, w) = FirstIn(f, z)
    BY <2>2, <2>3, <2>4, KeysInTurn
  <2> QED BY <2>1, <2>5, FirstOfThree
<1> HIDE DEF f
<1> QED BY <1>3, <1>4

(* Those of rpm.                                                           *)
LEMMA RPMKeysInTurn ==
    ASSUME NEW source \in RPMSources, source \notin DebianSources, NEW v, NEW w
    PROVE  KeyCompare(source, v, w) =
              Then(Lex(EpochKey(v), EpochKey(w)), Lex(RestKey(v), RestKey(w)))
<1>1. PICK k : k = Keys(source, v) /\ k = <<EpochKey(v), RestKey(v)>>
  BY DEF Keys, EpochKey, RestKey
<1>2. PICK l : l = Keys(source, w) /\ l = <<EpochKey(w), RestKey(w)>>
  BY DEF Keys, EpochKey, RestKey
<1> DEFINE f == [i \in 1 .. 2 |-> Lex(k[i], l[i])]
<1>3. f[1] = Lex(EpochKey(v), EpochKey(w)) /\ f[2] = Lex(RestKey(v), RestKey(w))
  BY <1>1, <1>2
<1>4. KeyCompare(source, v, w) = Then(f[1], f[2])
  <2>1. PICK z \in Nat : z = 2
    OBVIOUS
  <2>2. DOMAIN k = 1 .. z
    BY <1>1, <2>1
  <2>3. \A i \in 1 .. z : f[i] = Lex(k[i], l[i])
    BY <2>1
  <2> HIDE DEF f
  <2>4. k = Keys(source, v) /\ l = Keys(source, w)
    BY <1>1, <1>2
  <2>5. KeyCompare(source, v, w) = FirstIn(f, z)
    BY <2>2, <2>3, <2>4, KeysInTurn
  <2> QED BY <2>1, <2>5, FirstOfTwo
<1> HIDE DEF f
<1> QED BY <1>3, <1>4

(* The one key of all other packages.                                      *)
LEMMA OtherKeys ==
    ASSUME NEW source, source \notin DebianSources, source \notin RPMSources, NEW v, NEW w
    PROVE  KeyCompare(source, v, w) = Lex(NaturalKey[v], NaturalKey[w])
<1>1. PICK k : k = Keys(source, v) /\ k = <<NaturalKey[v]>>
  BY DEF Keys
<1>2. PICK l : l = Keys(source, w) /\ l = <<NaturalKey[w]>>
  BY DEF Keys
<1> DEFINE f == [i \in 1 .. 1 |-> Lex(k[i], l[i])]
<1>3. f[1] = Lex(NaturalKey[v], NaturalKey[w])
  BY <1>1, <1>2
<1>4. KeyCompare(source, v, w) = f[1]
  <2>1. PICK z \in Nat : z = 1
    OBVIOUS
  <2>2. DOMAIN k = 1 .. z
    BY <1>1, <2>1
  <2>3. \A i \in 1 .. z : f[i] = Lex(k[i], l[i])
    BY <2>1
  <2> HIDE DEF f
  <2>4. k = Keys(source, v) /\ l = Keys(source, w)
    BY <1>1, <1>2
  <2>5. KeyCompare(source, v, w) = FirstIn(f, z)
    BY <2>2, <2>3, <2>4, KeysInTurn
  <2> QED BY <2>1, <2>5, FirstOfOne
<1> HIDE DEF f
<1> QED BY <1>3, <1>4

(* The results of a comparison.                                            *)
Signs == {-1, 0, 1}

(* Where the difference of the epochs wraps they decide, and are reversed. *)
LEMMA EpochsDecide ==
    ASSUME NEW m \in Int, NEW n \in Int, InInt(m), InInt(n), NEW c \in Signs
    PROVE  Then(Sign(Minus(m, n)), c) =
              IF InInt(m - n) THEN Then(Sign(m - n), c) ELSE 0 - Then(Sign(m - n), c)
<1>1. PICK i \in Int, j \in Int : i = Sign(m - n) /\ j = Sign(Minus(m, n))
  BY DEF Sign
<1>2. CASE InInt(m - n)
  BY <1>2, MinusFacts
<1>3. CASE ~InInt(m - n)
  <2>1. j = 0 - i /\ i # 0
    BY <1>1, <1>3, MinusFacts
  <2>2. Then(j, c) = j /\ Then(i, c) = i
    BY <1>1, <2>1 DEF Then
  <2> QED BY <1>1, <1>3, <2>1, <2>2
<1> QED BY <1>2, <1>3

(* How far the comparison of the code is that of the keys.                 *)
FollowsKeys(source, v, w) ==
    CompareDistroVersion(source, v, w) =
        IF EpochsOverflow(source, v, w) THEN 0 - KeyCompare(source, v, w)
        ELSE KeyCompare(source, v, w)

(* compareDebianVersion follows the keys.                                  *)
LEMMA DebianVersionsCompareKeys ==
    ASSUME NEW source \in DebianSources, NEW v \in Strings, NEW w \in Strings
    PROVE  FollowsKeys(source, v, w)
<1>1. PICK m \in Int, n \in Int, s \in Strings, t \in Strings :
         /\ m = SplitEpoch(v).epoch /\ s = SplitEpoch(v).rest /\ InInt(m)
         /\ n = SplitEpoch(w).epoch /\ t = SplitEpoch(w).rest /\ InInt(n)
  BY EpochsAndRests
<1>2. PICK a \in Strings, b \in Strings, c \in Strings, d \in Strings :
         /\ a = SplitRevision(s).upstream /\ b = SplitRevision(s).revision
         /\ c = SplitRevision(t).upstream /\ d = SplitRevision(t).revision
  BY UpstreamsAndRevisions
<1> DEFINE e == Then(Lex(UpstreamKey(v), UpstreamKey(w)), Lex(RevisionKey(v), RevisionKey(w)))
<1>3. CompareDistroVersion(source, v, w) = Then(Sign(Minus(m, n)), e)
  <2>1. CompareDistroVersion(source, v, w) =
           Then(Sign(Minus(m, n)),
                Then(DebianPartCompare[<<a, c>>], DebianPartCompare[<<b, d>>]))
    BY <1>1, <1>2 DEF CompareDistroVersion, DebianCompare
  <2>2. /\ UpstreamKey(v) = DebianKey[a] /\ RevisionKey(v) = DebianKey[b]
        /\ UpstreamKey(w) = DebianKey[c] /\ RevisionKey(w) = DebianKey[d]
    BY <1>1, <1>2 DEF UpstreamKey, RevisionKey
  <2> QED BY <2>1, <2>2, DebianPartsCompareKeys
<1>4. KeyCompare(source, v, w) = Then(Sign(m - n), e)
  <2>1. Lex(EpochKey(v), EpochKey(w)) = Sign(m - n)
    BY <1>1, LexOfOne DEF EpochKey
  <2> QED BY <2>1, DebianKeysInTurn
<1>5. e \in Signs
  BY KeyFacts, LexIsOrder DEF Signs, Then
<1>6. EpochsOverflow(source, v, w) <=> ~InInt(m - n)
  BY <1>1 DEF EpochsOverflow
<1> HIDE DEF e
<1> QED BY <1>1, <1>3, <1>4, <1>5, <1>6, EpochsDecide DEF FollowsKeys

(* compareRPMVersion follows the keys.                                     *)
LEMMA RPMVersionsCompareKeys ==
    ASSUME NEW source \in RPMSources, source \notin DebianSources,
           NEW v \in Strings, NEW w \in Strings
    PROVE  FollowsKeys(source, v, w)
<1>1. PICK m \in Int, n \in Int, s \in Strings, t \in Strings :
         /\ m = SplitEpoch(v).epoch /\ s = SplitEpoch(v).rest /\ InInt(m)
         /\ n = SplitEpoch(w).epoch /\ t = SplitEpoch(w).rest /\ InInt(n)
  BY EpochsAndRests
<1> DEFINE e == Lex(RestKey(v), RestKey(w))
<1>2. CompareDistroVersion(source, v, w) = Then(Sign(Minus(m, n)), e)
  <2>1. CompareDistroVersion(source, v, w) =
           Then(Sign(Minus(m, n)), RPMPartCompare[<<s, t>>])
    BY <1>1 DEF CompareDistroVersion, RPMCompare
  <2>2. RestKey(v) = RPMKey[s] /\ RestKey(w) = RPMKey[t]
    BY <1>1 DEF RestKey
  <2> QED BY <2>1, <2>2, RPMPartsCompareKeys
<1>3. KeyCompare(source, v, w) = Then(Sign(m - n), e)
  <2>1. Lex(EpochKey(v), EpochKey(w)) = Sign(m - n)
    BY <1>1, LexOfOne DEF EpochKey
  <2> QED BY <2>1, RPMKeysInTurn
<1>4. e \in Signs
  BY KeyFacts, LexIsOrder DEF Signs
<1>5. EpochsOverflow(source, v, w) <=> ~InInt(m - n)
  BY <1>1 DEF EpochsOverflow
<1> HIDE DEF e
<1> QED BY <1>1, <1>2, <1>3, <1>4, <1>5, EpochsDecide DEF FollowsKeys

(* compareNaturalVersion, for all other packages, does, and has no epochs. *)
LEMMA OtherVersionsCompareKeys ==
    ASSUME NEW source, source \notin DebianSources, source \notin RPMSources,
           NEW v \in Strings, NEW w \in Strings
    PROVE  FollowsKeys(source, v, w)
<1>1. CompareDistroVersion(source, v, w) = NaturalCompare[<<v, w>>]
  BY DEF CompareDistroVersion
<1>2. ~EpochsOverflow(source, v, w)
  BY DEF EpochsOverflow
<1> QED BY <1>1, <1>2, OtherKeys, NaturalsCompareKeys DEF FollowsKeys

(* CompareDistroVersion compares any two versions of any bytes as their    *)
(* keys compare, for every source of packages, and exactly the other way   *)
(* round where the difference of the epochs is no int.                     *)
THEOREM VersionsCompareKeys ==
    \A source : \A v, w \in Strings :
        CompareDistroVersion(source, v, w) =
            IF EpochsOverflow(source, v, w) THEN 0 - KeyCompare(source, v, w)
            ELSE KeyCompare(source, v, w)
BY DebianVersionsCompareKeys, RPMVersionsCompareKeys, OtherVersionsCompareKeys
   DEF FollowsKeys

(* So does the order of the versions that the runs look at.                *)
THEOREM VersionOrderIsKeyOrder == Spec => []OrderIsKeyOrder
<1>1. OrderIsKeyOrder
  BY VersionsCompareKeys, VersionsAssumption DEF OrderIsKeyOrder
<1> QED BY <1>1, PTL

-----------------------------------------------------------------------------
(* The keys are an order, and CompareDistroVersion is where epochs fit.    *)

(* Two orders, one after the other, are an order.                          *)
LEMMA ThenIsOrder ==
    ASSUME NEW a \in Signs, NEW b \in Signs, NEW c \in Signs, NoCircle(a, b, c),
           NEW d \in Signs, NEW e \in Signs, NEW f \in Signs, NoCircle(d, e, f)
    PROVE  /\ NoCircle(Then(a, d), Then(b, e), Then(c, f))
           /\ Then(0 - a, 0 - d) = 0 - Then(a, d)
           /\ Then(a, d) \in Signs
BY DEF NoCircle, Then, Signs

(* What an order says of three versions u, v and w.                        *)
InOrder(uv, vu, vw, wu) == uv \in Signs /\ vu = 0 - uv /\ NoCircle(uv, vw, wu)

KeysOrdered(source, u, v, w) ==
    InOrder(KeyCompare(source, u, v), KeyCompare(source, v, u),
            KeyCompare(source, v, w), KeyCompare(source, w, u))
Ordered(source, u, v, w) ==
    InOrder(CompareDistroVersion(source, u, v), CompareDistroVersion(source, v, u),
            CompareDistroVersion(source, v, w), CompareDistroVersion(source, w, u))

(* The keys of apk are ordered.                                            *)
LEMMA OtherKeysAreOrdered ==
    ASSUME NEW source, source \notin DebianSources, source \notin RPMSources,
           NEW u \in Strings, NEW v \in Strings, NEW w \in Strings
    PROVE  KeysOrdered(source, u, v, w)
<1>1. \A x \in Strings : NaturalKey[x] \in Numbers
  BY NaturalKeyFacts
<1> QED BY <1>1, OtherKeys, LexIsOrder DEF KeysOrdered, InOrder, Signs

(* The keys of rpm are.                                                    *)
LEMMA RPMKeysAreOrdered ==
    ASSUME NEW source \in RPMSources, source \notin DebianSources,
           NEW u \in Strings, NEW v \in Strings, NEW w \in Strings
    PROVE  KeysOrdered(source, u, v, w)
<1>1. ASSUME NEW x \in Strings, NEW y \in Strings
      PROVE  /\ Lex(EpochKey(x), EpochKey(y)) \in Signs
             /\ Lex(EpochKey(y), EpochKey(x)) = 0 - Lex(EpochKey(x), EpochKey(y))
             /\ Lex(RestKey(x), RestKey(y)) \in Signs
             /\ Lex(RestKey(y), RestKey(x)) = 0 - Lex(RestKey(x), RestKey(y))
  BY KeyFacts, LexIsOrder DEF Signs
<1>2. /\ NoCircle(Lex(EpochKey(u), EpochKey(v)), Lex(EpochKey(v), EpochKey(w)),
                  Lex(EpochKey(w), EpochKey(u)))
      /\ NoCircle(Lex(RestKey(u), RestKey(v)), Lex(RestKey(v), RestKey(w)),
                  Lex(RestKey(w), RestKey(u)))
  BY KeyFacts, LexIsOrder
<1> QED BY <1>1, <1>2, RPMKeysInTurn, ThenIsOrder DEF KeysOrdered, InOrder

(* The keys of dpkg are.                                                   *)
LEMMA DebianKeysAreOrdered ==
    ASSUME NEW source \in DebianSources,
           NEW u \in Strings, NEW v \in Strings, NEW w \in Strings
    PROVE  KeysOrdered(source, u, v, w)
<1> DEFINE E(x) == EpochKey(x)
           K(x) == UpstreamKey(x)
           L(x) == RevisionKey(x)
           cd(x, y) == Then(Lex(K(x), K(y)), Lex(L(x), L(y)))
<1>1. ASSUME NEW x \in Strings PROVE E(x) \in Numbers /\ K(x) \in Numbers /\ L(x) \in Numbers
  BY KeyFacts
<1>2. ASSUME NEW x \in Strings, NEW y \in Strings
      PROVE  KeyCompare(source, x, y) = Then(Lex(E(x), E(y)), cd(x, y))
  BY DebianKeysInTurn
<1> HIDE DEF E, K, L
<1>3. ASSUME NEW x \in Strings, NEW y \in Strings
      PROVE  /\ Lex(E(x), E(y)) \in Signs /\ Lex(E(y), E(x)) = 0 - Lex(E(x), E(y))
             /\ Lex(K(x), K(y)) \in Signs /\ Lex(K(y), K(x)) = 0 - Lex(K(x), K(y))
             /\ Lex(L(x), L(y)) \in Signs /\ Lex(L(y), L(x)) = 0 - Lex(L(x), L(y))
  BY <1>1, LexIsOrder DEF Signs
<1>4. /\ NoCircle(Lex(E(u), E(v)), Lex(E(v), E(w)), Lex(E(w), E(u)))
      /\ NoCircle(Lex(K(u), K(v)), Lex(K(v), K(w)), Lex(K(w), K(u)))
      /\ NoCircle(Lex(L(u), L(v)), Lex(L(v), L(w)), Lex(L(w), L(u)))
  BY <1>1, LexIsOrder
<1>5. /\ NoCircle(cd(u, v), cd(v, w), cd(w, u))
      /\ \A x, y \in {u, v, w} : cd(x, y) \in Signs /\ cd(y, x) = 0 - cd(x, y)
  <2>1. NoCircle(cd(u, v), cd(v, w), cd(w, u))
    BY <1>3, <1>4, ThenIsOrder
  <2>2. ASSUME NEW x \in Strings, NEW y \in Strings
        PROVE  cd(x, y) \in Signs /\ cd(y, x) = 0 - cd(x, y)
    BY <1>3 DEF Then, Signs
  <2> QED BY <2>1, <2>2
<1> HIDE DEF cd
<1>6. /\ NoCircle(Then(Lex(E(u), E(v)), cd(u, v)), Then(Lex(E(v), E(w)), cd(v, w)),
                  Then(Lex(E(w), E(u)), cd(w, u)))
      /\ Then(0 - Lex(E(u), E(v)), 0 - cd(u, v)) = 0 - Then(Lex(E(u), E(v)), cd(u, v))
      /\ Then(Lex(E(u), E(v)), cd(u, v)) \in Signs
  BY <1>3, <1>4, <1>5, ThenIsOrder
<1> QED BY <1>2, <1>3, <1>5, <1>6 DEF KeysOrdered, InOrder

(* The keys are an order for every source.                                 *)
LEMMA KeysAreOrdered ==
    \A source : \A u, v, w \in Strings : KeysOrdered(source, u, v, w)
BY DebianKeysAreOrdered, RPMKeysAreOrdered, OtherKeysAreOrdered

(* CompareDistroVersion orders versions of any bytes, as far as no two of  *)
(* their epochs are too far apart, whatever the source: it is              *)
(* antisymmetric, and no fix is overtaken in a circle.                     *)
THEOREM VersionsAreOrdered ==
    \A source : \A u, v, w \in Strings :
        (\A x, y \in {u, v, w} : ~EpochsOverflow(source, x, y)) => Ordered(source, u, v, w)
<1> SUFFICES ASSUME NEW source, NEW u \in Strings, NEW v \in Strings, NEW w \in Strings,
                    \A x, y \in {u, v, w} : ~EpochsOverflow(source, x, y)
             PROVE  Ordered(source, u, v, w)
  OBVIOUS
<1>1. \A x, y \in {u, v, w} : CompareDistroVersion(source, x, y) = KeyCompare(source, x, y)
  BY VersionsCompareKeys
<1>2. KeysOrdered(source, u, v, w)
  BY KeysAreOrdered
<1> QED BY <1>1, <1>2 DEF KeysOrdered, Ordered

(* In particular it orders all versions without a negative epoch.          *)
THEOREM UnsignedVersionsAreOrdered ==
    \A source : \A u, v, w \in {x \in Strings : Unsigned(x)} : Ordered(source, u, v, w)
BY VersionsAreOrdered, UnsignedEpochsFit

(* Every natural number is written in digits.                              *)
LEMMA NumeralsExist == \A n \in Nat : \E s \in Numerals : s # <<>> /\ Value[s] = n
<1> DEFINE S == {n \in Nat : \E s \in Numerals : s # <<>> /\ Value[s] = n}
<1>1. ASSUME NEW n \in Nat, \A k \in Nat : k < n => k \in S PROVE n \in S
  <2>1. PICK q \in Nat, d \in 0 .. 9 : n = 10 * q + d
    <3>1. PICK q \in Int, d \in Int : q = n \div 10 /\ d = n % 10
      OBVIOUS
    <3>2. n = 10 * q + d /\ 0 <= d /\ d <= 9
      BY <3>1
    <3> QED BY <3>2
  <2>2. PICK t \in Numerals : Value[t] = q
    <3>1. CASE q = 0
      <4>1. <<>> \in Numerals
        BY DEF Numerals
      <4> QED BY <3>1, <4>1, ValueFacts
    <3>2. CASE q # 0
      BY <1>1, <2>1, <3>2
    <3> QED BY <3>1, <3>2
  <2>3. PICK s \in Numerals : s = Append(t, 48 + d)
    <3>1. PICK c \in Digits : c = 48 + d
      BY <2>1 DEF Digits
    <3>2. Append(t, c) \in Numerals
      BY DEF Numerals
    <3> QED BY <3>1, <3>2
  <2>4. s # <<>> /\ Front(s) = t /\ Last(s) = 48 + d
    BY <2>1, <2>2, <2>3 DEF Numerals, Front, Last
  <2>5. Value[s] = 10 * Value[Front(s)] + Last(s) - 48
    BY <2>4, ValueFacts, NumeralFacts
  <2>6. Value[s] = n
    BY <2>1, <2>2, <2>4, <2>5
  <2> QED BY <2>4, <2>6
<1>2. S \in SUBSET Nat
  OBVIOUS
<1> HIDE DEF S
<1>3. S = Nat
  BY <1>1, <1>2, InductionOverNat
<1> QED BY <1>3 DEF S

LEMMA ConcatIsString ==
    ASSUME NEW s \in Strings, NEW t \in Strings
    PROVE  s \o t \in Strings
<1>1. s \in Seq(Bytes) /\ t \in Seq(Bytes)
  BY DEF Strings
<1>2. s \o t \in Seq(Bytes)
  BY <1>1
<1> QED BY <1>2 DEF Strings

(* What is before the first colon of a version.                            *)
LEMMA CutAtColon ==
    ASSUME NEW t \in Strings, \A i \in 1 .. Len(t) : t[i] # Colon
    PROVE  /\ t \o <<Colon>> \in Strings
           /\ SelectInSeq(t \o <<Colon>>, LAMBDA c : c = Colon) = Len(t) + 1
           /\ Take(t \o <<Colon>>, Len(t)) = t
<1>1. PICK v \in Strings : v = t \o <<Colon>>
  <2>1. <<Colon>> \in Strings
    <3>1. Colon \in Bytes
      BY DEF Bytes, Colon
    <3> QED BY <3>1 DEF Strings
  <2> QED BY <2>1, ConcatIsString
<1>2. /\ Len(t) \in Nat /\ Len(v) = Len(t) + 1 /\ v[Len(t) + 1] = Colon
      /\ \A i \in 1 .. Len(t) : v[i] = t[i]
  BY <1>1 DEF Strings
<1> DEFINE I == {i \in 1 .. Len(v) : v[i] = Colon}
<1>3. I = {Len(t) + 1}
  BY <1>2
<1>4. Min(I) = Len(t) + 1
  <2>1. PICK n \in Nat : n = Len(t) + 1
    BY <1>2
  <2>2. I = {n} /\ I \in SUBSET Nat /\ I # {}
    BY <1>3, <2>1
  <2> HIDE DEF I
  <2> QED BY <2>1, <2>2, MinIsLeast
<1>5. SelectInSeq(v, LAMBDA c : c = Colon) = Len(t) + 1
  <2>1. SelectInSeq(v, LAMBDA c : c = Colon) = IF I # {} THEN Min(I) ELSE 0
    BY DEF SelectInSeq
  <2> HIDE DEF I
  <2> QED BY <1>3, <1>4, <2>1
<1>6. Take(v, Len(t)) = t
  <2>1. PICK n \in Nat : n = Len(t)
    BY <1>2
  <2>2. PICK x \in Strings : x = Take(v, n)
    BY <1>1, <1>2, <2>1 DEF Take, Strings
  <2>3. Len(x) = n /\ \A i \in 1 .. n : x[i] = t[i]
    BY <1>1, <1>2, <2>1, <2>2 DEF Take, Strings
  <2>4. x \in Seq(Bytes) /\ t \in Seq(Bytes) /\ Len(x) = Len(t)
    BY <2>1, <2>2, <2>3 DEF Strings
  <2>5. \A i \in 1 .. Len(x) : x[i] = t[i]
    BY <2>3
  <2>6. x = t
    BY <2>4, <2>5, SameSequences
  <2> QED BY <2>1, <2>2, <2>6
<1> QED BY <1>1, <1>5, <1>6

(* A numeral that is an int is an epoch, with and without a minus sign.    *)
LEMMA EpochsExist ==
    ASSUME NEW n \in Nat, n <= MaxInt
    PROVE  /\ \E v \in Strings : SplitEpoch(v).epoch = n
           /\ \E v \in Strings : SplitEpoch(v).epoch = -n
<1>1. PICK s \in Numerals : s # <<>> /\ Value[s] = n
  BY NumeralsExist
<1>2. /\ s \in Strings /\ Len(s) \in Nat \ {0}
      /\ \A i \in 1 .. Len(s) : s[i] \in 48 .. 57
  BY <1>1, NumeralFacts
<1>3. Span(s, Digits) = Len(s)
  <2>1. Span(s, Digits) \in 0 .. Len(s)
    BY <1>2, SpanFacts
  <2>2. Span(s, Digits) < Len(s) => s[Span(s, Digits) + 1] \notin Digits
    BY <1>2, SpanFacts
  <2>3. PICK k \in 0 .. Len(s) : k = Span(s, Digits)
    BY <2>1
  <2> QED BY <1>2, <2>2, <2>3 DEF Digits
<1>4. \E v \in Strings : SplitEpoch(v).epoch = n
  <2>1. \A i \in 1 .. Len(s) : s[i] # Colon
    BY <1>2 DEF Colon
  <2>2. IsNumber(s)
    <3>1. s[1] \notin {Plus, Hyphen}
      BY <1>2 DEF Plus, Hyphen
    <3>2. Drop(s, 0) = s
      BY <1>2 DEF Drop, Strings
    <3> QED BY <1>1, <1>3, <3>1, <3>2 DEF IsNumber
  <2>3. Number(s) = n
    <3>1. s[1] # Hyphen /\ s[1] # Plus
      BY <1>2 DEF Plus, Hyphen
    <3> QED BY <1>1, <3>1 DEF Number
  <2>4. InInt(n)
    BY IntAssumption DEF InInt
  <2>5. PICK v \in Strings : /\ SelectInSeq(v, LAMBDA c : c = Colon) = Len(s) + 1
                             /\ Take(v, Len(s)) = s
    BY <1>2, <2>1, CutAtColon
  <2>6. Len(s) + 1 > 0 /\ Len(s) + 1 - 1 = Len(s)
    BY <1>2
  <2>7. SplitEpoch(v).epoch = n
    BY <2>2, <2>3, <2>4, <2>5, <2>6 DEF SplitEpoch
  <2> QED BY <2>7
<1>5. \E v \in Strings : SplitEpoch(v).epoch = -n
  <2>1. PICK t \in Strings : t = <<Hyphen>> \o s
    <3>1. Hyphen \in Bytes
      BY DEF Bytes, Hyphen
    <3>2. <<Hyphen>> \in Strings
      BY <3>1 DEF Strings
    <3> QED BY <1>2, <3>2, ConcatIsString
  <2>2. /\ Len(t) = Len(s) + 1 /\ t[1] = Hyphen /\ Tail(t) = s /\ t # <<>>
        /\ \A i \in 2 .. Len(t) : t[i] = s[i - 1]
    BY <1>2, <2>1 DEF Strings
  <2>3. \A i \in 1 .. Len(t) : t[i] # Colon
    <3>1. t[1] # Colon
      BY <2>2 DEF Colon, Hyphen
    <3>2. ASSUME NEW i \in 2 .. Len(t) PROVE t[i] # Colon
      <4>1. i - 1 \in 1 .. Len(s) /\ t[i] = s[i - 1]
        BY <1>2, <2>2
      <4> QED BY <1>2, <4>1 DEF Colon
    <3> QED BY <1>2, <2>2, <3>1, <3>2
  <2>4. IsNumber(t)
    <3>1. Drop(t, 1) = Tail(t)
      BY <1>2, <2>2 DEF Drop, Strings
    <3> QED BY <1>1, <1>3, <2>2, <3>1 DEF IsNumber
  <2>5. Number(t) = -n
    <3>1. t[1] = Hyphen /\ Value[Tail(t)] = n
      BY <1>1, <2>2
    <3>2. Hyphen # Plus
      BY DEF Hyphen, Plus
    <3>3. Number(t) = -Value[Tail(t)]
      BY <3>1, <3>2, SMT DEF Number
    <3> QED BY <3>1, <3>3
  <2>6. InInt(-n)
    BY IntAssumption DEF InInt
  <2>7. PICK v \in Strings : /\ SelectInSeq(v, LAMBDA c : c = Colon) = Len(t) + 1
                             /\ Take(v, Len(t)) = t
    BY <2>3, CutAtColon
  <2>8. Len(t) + 1 > 0 /\ Len(t) + 1 - 1 = Len(t)
    BY <1>2, <2>2
  <2>9. SplitEpoch(v).epoch = -n
    BY <2>4, <2>5, <2>6, <2>7, <2>8 DEF SplitEpoch
  <2> QED BY <2>9
<1> QED BY <1>4, <1>5

(* The epochs decide, when they differ by an int.                          *)
LEMMA EpochsCompared ==
    ASSUME NEW source \in DebianSources \union RPMSources, NEW v \in Strings, NEW w \in Strings
    PROVE  Sign(Minus(SplitEpoch(v).epoch, SplitEpoch(w).epoch)) # 0 =>
              CompareDistroVersion(source, v, w) =
                 Sign(Minus(SplitEpoch(v).epoch, SplitEpoch(w).epoch))
BY DEF CompareDistroVersion, DebianCompare, RPMCompare, Then

(* With negative epochs it is no order: the largest epoch is after 0, 0 is *)
(* after -2, and -2 is after the largest, for dpkg and rpm alike.          *)
THEOREM NegativeEpochsMakeCircle ==
    \A source \in DebianSources \union RPMSources : \E u, v, w \in Strings :
        /\ CompareDistroVersion(source, u, v) = 1
        /\ CompareDistroVersion(source, v, w) = 1
        /\ CompareDistroVersion(source, w, u) = 1
<1> TAKE source \in DebianSources \union RPMSources
<1>1. PICK u \in Strings : SplitEpoch(u).epoch = MaxInt
  BY IntAssumption, EpochsExist
<1>2. PICK v \in Strings : SplitEpoch(v).epoch = 0
  BY IntAssumption, EpochsExist
<1>3. PICK w \in Strings : SplitEpoch(w).epoch = -2
  <2>1. 2 \in Nat /\ 2 <= MaxInt
    BY IntAssumption
  <2> QED BY <2>1, EpochsExist
<1>4. /\ Sign(Minus(MaxInt, 0)) = 1
      /\ Sign(Minus(0, -2)) = 1
      /\ Sign(Minus(-2, MaxInt)) = 1
  BY IntAssumption DEF Minus, Sign
<1> QED BY <1>1, <1>2, <1>3, <1>4, EpochsCompared

-----------------------------------------------------------------------------
(* What the parsers return.                                                *)

(* The names that the parsers write.                                       *)
LEMMA LiteralNames ==
    /\ "" \in Names /\ "debian" \in Names /\ "alpine" \in Names
    /\ "ubuntu" \in Names /\ "redhat" \in Names /\ "rhel" \in Names
    /\ Cves \subseteq Names
    /\ NoList \in (SUBSET Strings) \union {NoList}
BY NamesAssumption

(* What a parser returns is of text, and names no source package.          *)
Parsed(row) == row \in AffectedPackages /\ row.sourceName = ""

(* A row made of text is typed.                                            *)
LEMMA RowsAreTyped ==
    ASSUME NEW source \in Names, NEW distro \in Names, NEW release \in Seq(Strings),
           NEW codename \in Names, NEW cve \in Names, NEW name \in Names,
           NEW fixed \in Strings, NEW versions \in (SUBSET Strings) \union {NoList},
           NEW repository \in Names
    PROVE  Parsed(Row(source, distro, release, codename, cve, name, fixed, versions,
                      repository))
BY LiteralNames DEF Row, AffectedPackages, Parsed

(* cleanFixedVersion returns text.                                         *)
LEMMA CleanFixedVersionIsText ==
    ASSUME NEW v \in Strings
    PROVE  CleanFixedVersion(v) \in Strings
BY EmptyString DEF CleanFixedVersion

(* The rows of the tracker are of text.                                    *)
LEMMA DebianRowsAreTyped ==
    ASSUME NEW d, d.source = "debian", HoldsText(d),
           NEW row \in ParseDebianTracker(d.body).affected
    PROVE  Parsed(row)
<1>1. PICK e \in d.body : \E c \in DOMAIN e.releases :
         row = Row("debian", "debian", <<>>, c, e.cve, e.name,
                   CleanFixedVersion(e.releases[c].fixed), NoList, "")
  BY DEF ParseDebianTracker
<1>2. PICK c \in DOMAIN e.releases :
         row = Row("debian", "debian", <<>>, c, e.cve, e.name,
                   CleanFixedVersion(e.releases[c].fixed), NoList, "")
  BY <1>1
<1>3. /\ e.cve \in Names /\ e.name \in Names /\ c \in Names
      /\ e.releases[c].fixed \in Strings
  BY <1>1 DEF HoldsText
<1>4. <<>> \in Seq(Strings)
  OBVIOUS
<1> QED BY <1>2, <1>3, <1>4, LiteralNames, CleanFixedVersionIsText, RowsAreTyped

(* The rows of secdb are of text.                                          *)
LEMMA AlpineRowsAreTyped ==
    ASSUME NEW d, d.source = "alpine", HoldsText(d), Cves \subseteq Names,
           NEW row \in ParseAlpineSecDB(d.body, d.release, d.repository).affected
    PROVE  Parsed(row)
<1> DEFINE fixes(p) == {p.name} \X (DOMAIN p.secfixes) \X Cves
           named == {q \in d.body : q.name # ""}
<1>1. PICK f \in UNION {fixes(p) : p \in named} :
         row = Row("alpine", "alpine", d.release, "", f[3], f[1],
                   CleanFixedVersion(f[2]), NoList, d.repository)
  BY DEF ParseAlpineSecDB
<1>2. PICK p \in d.body : f \in fixes(p)
  <2> HIDE DEF fixes
  <2> QED OBVIOUS
<1>3. f[1] = p.name /\ f[2] \in DOMAIN p.secfixes /\ f[3] \in Cves
  BY <1>2
<1>4. /\ d.release \in Seq(Strings) /\ d.repository \in Names
      /\ f[1] \in Names /\ f[2] \in Strings /\ f[3] \in Names
  BY <1>2, <1>3 DEF HoldsText
<1> QED BY <1>1, <1>4, LiteralNames, CleanFixedVersionIsText, RowsAreTyped

(* What the first or the last place of a sequence holds is one of its      *)
(* elements.                                                               *)
LEMMA SelectionsAreElements ==
    ASSUME NEW S, NEW s \in Seq(S), NEW I \in SUBSET (1 .. Len(s)), I # {}
    PROVE  /\ Min(I) \in I /\ s[Min(I)] \in S
           /\ Max(I) \in I /\ s[Max(I)] \in S
<1>1. Len(s) \in Nat /\ I \subseteq Nat
  OBVIOUS
<1>2. Min(I) \in I /\ Max(I) \in I
  BY <1>1, MinIsLeast, MaxIsGreatest
<1>3. Min(I) \in 1 .. Len(s) /\ Max(I) \in 1 .. Len(s)
  BY <1>2
<1> QED BY <1>2, <1>3

(* The rows of an OSV document are of text.                                *)
LEMMA UbuntuRowsAreTyped ==
    ASSUME NEW d, d.source = "ubuntu", HoldsText(d), Cves \subseteq Names,
           NEW row \in ParseUbuntuOSVDocument(d.body).affected
    PROVE  Parsed(row)
<1> DEFINE cve == CVEOfDocument(d.body)
<1>1. PICK a \in d.body.affected :
         row = Row("ubuntu", "ubuntu", ReleaseOf(a.ecosystem), a.codename, cve,
                   a.name, CleanFixedVersion(LastFixed(a.events)), a.versions, "")
  BY DEF ParseUbuntuOSVDocument
<1>2. /\ d.body.id \in Names
      /\ d.body.upstream \in Seq(Names) /\ d.body.aliases \in Seq(Names)
      /\ a.name \in Names /\ a.codename \in Names
      /\ a.ecosystem \in Seq(Seq(Strings)) /\ a.events \in Seq(Strings)
      /\ a.versions \in (SUBSET Strings) \union {NoList}
  BY <1>1 DEF HoldsText
<1>3. ASSUME NEW ids \in Seq(Names) PROVE FirstCVE(ids) \in Names
  <2> DEFINE I == {i \in 1 .. Len(ids) : ids[i] \in Cves}
  <2>1. FirstCVE(ids) = IF I = {} THEN NoCve ELSE IF Min(I) = 0 THEN NoCve ELSE ids[Min(I)]
    BY DEF FirstCVE, SelectInSeq
  <2>2. I \in SUBSET (1 .. Len(ids))
    OBVIOUS
  <2>3. I # {} => ids[Min(I)] \in Names
    <3> HIDE DEF I
    <3> QED BY <2>2, SelectionsAreElements
  <2> HIDE DEF I
  <2> QED BY <2>1, <2>3, NamesAssumption DEF NoCve
<1>4. cve \in Names
  BY <1>2, <1>3 DEF CVEOfDocument
<1>5. ReleaseOf(a.ecosystem) \in Seq(Strings)
  <2> DEFINE e == a.ecosystem
             I == {i \in 1 .. Len(e) : IsRelease(e[i])}
  <2>1. ReleaseOf(e) = IF I = {} THEN <<>> ELSE IF Min(I) = 0 THEN <<>> ELSE e[Min(I)]
    BY DEF ReleaseOf, SelectInSeq
  <2>2. I \in SUBSET (1 .. Len(e)) /\ e \in Seq(Seq(Strings))
    BY <1>2
  <2>3. I # {} => e[Min(I)] \in Seq(Strings)
    <3> HIDE DEF I, e
    <3> QED BY <2>2, SelectionsAreElements
  <2> HIDE DEF I
  <2> QED BY <2>1, <2>3
<1>6. LastFixed(a.events) \in Strings
  <2> DEFINE e == a.events
             I == {i \in 1 .. Len(e) : e[i] # <<>>}
  <2>1. LastFixed(e) = IF I = {} THEN <<>> ELSE IF Max(I) = 0 THEN <<>> ELSE e[Max(I)]
    BY DEF LastFixed, SelectLastInSeq
  <2>2. I \in SUBSET (1 .. Len(e)) /\ e \in Seq(Strings)
    BY <1>2
  <2>3. I # {} => e[Max(I)] \in Strings
    <3> HIDE DEF I, e
    <3> QED BY <2>2, SelectionsAreElements
  <2> HIDE DEF I
  <2> QED BY <2>1, <2>3, EmptyString
<1> HIDE DEF cve
<1> QED BY <1>1, <1>2, <1>4, <1>5, <1>6, LiteralNames, CleanFixedVersionIsText, RowsAreTyped

(* The release found in a build is text.                                   *)
LEMMA ReleaseTagsAreText ==
    ASSUME NEW v \in Strings, RedHatVersionFromFixedEVR(v) # <<>>
    PROVE  RedHatVersionFromFixedEVR(v) \in Seq(Strings)
<1> DEFINE T == ReleaseTags(v)
           i == Min(T) + 2
<1>1. T # {} /\ RedHatVersionFromFixedEVR(v) = <<SubSeq(v, i, i + DigitsFrom(v, i) - 1)>>
  BY DEF RedHatVersionFromFixedEVR
<1>2. T \in SUBSET (1 .. Len(v) - 2) /\ Len(v) \in Nat
  BY BytesOfStrings DEF ReleaseTags
<1>3. Min(T) \in 1 .. Len(v) - 2
  <2>1. T \in SUBSET Nat
    <3> HIDE DEF T
    <3> QED BY <1>2
  <2> HIDE DEF T
  <2> QED BY <1>1, <1>2, <2>1, MinIsLeast
<1>4. i \in 3 .. Len(v)
  <2> HIDE DEF T
  <2> QED BY <1>2, <1>3
<1> HIDE DEF i, T
<1>5. Drop(v, i - 1) \in Strings /\ Len(Drop(v, i - 1)) = Len(v) - i + 1
  BY <1>2, <1>4 DEF Drop, Strings
<1>6. DigitsFrom(v, i) \in 0 .. Len(v) - i + 1
  BY <1>5, SpanFacts DEF DigitsFrom
<1>7. SubSeq(v, i, i + DigitsFrom(v, i) - 1) \in Strings
  <2>1. PICK n \in 0 .. Len(v) - i + 1 : n = DigitsFrom(v, i)
    BY <1>6
  <2>2. SubSeq(v, i, i + n - 1) \in Seq(Bytes)
    BY <1>2, <1>4 DEF Strings
  <2> QED BY <2>1, <2>2 DEF Strings
<1> QED BY <1>1, <1>7

(* A version and a release joined are text.                                *)
LEMMA JoinedPartsAreText ==
    ASSUME NEW v \in Strings, NEW r \in Strings
    PROVE  v \o <<Hyphen>> \o r \in Strings
<1>1. Hyphen \in Bytes
  BY DEF Hyphen, Bytes
<1>2. <<Hyphen>> \in Seq(Bytes)
  BY <1>1
<1>3. v \o <<Hyphen>> \in Seq(Bytes)
  BY <1>2 DEF Strings
<1> QED BY <1>3 DEF Strings

(* The identifiers of an advisory, without empty ones.                     *)
CvesOf(a) == a.cves \ {NoCve}

(* The rows of a list of CSAF documents are of text.                       *)
LEMMA RedHatRowsAreTyped ==
    ASSUME NEW d, d.source = "redhat", HoldsText(d),
           NEW row \in ParseRedHatCSAFList(d.body).affected
    PROVE  Parsed(row)
<1> DEFINE split(p) == SplitRedHatFixedPackage(p)
           fixes(a) == {p \in a.packages :
                            /\ split(p).name # ""
                            /\ RedHatVersionFromFixedEVR(split(p).fixed) # <<>>} \X CvesOf(a)
<1>1. PICK f \in UNION {fixes(a) : a \in d.body} :
         row = Row("redhat", "rhel", RedHatVersionFromFixedEVR(split(f[1]).fixed), "",
                   f[2], split(f[1]).name, split(f[1]).fixed, NoList, "")
  BY DEF ParseRedHatCSAFList, CvesOf
<1>2. PICK a \in d.body : f \in fixes(a)
  <2> HIDE DEF fixes
  <2> QED OBVIOUS
<1>3. PICK p \in a.packages, cve \in CvesOf(a) :
         /\ row = Row("redhat", "rhel", RedHatVersionFromFixedEVR(split(p).fixed),
                       "", cve, split(p).name, split(p).fixed, NoList, "")
         /\ RedHatVersionFromFixedEVR(split(p).fixed) # <<>>
  <2> HIDE DEF split
  <2> QED BY <1>1, <1>2
<1>4. cve \in Names /\ p.name \in Names /\ p.version \in Strings /\ p.release \in Strings
  BY <1>2, <1>3 DEF HoldsText, CvesOf
<1>5. p.version \o <<Hyphen>> \o p.release \in Strings
  BY <1>4, JoinedPartsAreText
<1>6. split(p).name \in Names /\ split(p).fixed \in Strings
  BY <1>4, <1>5, EmptyString, NamesAssumption DEF SplitRedHatFixedPackage
<1>7. RedHatVersionFromFixedEVR(split(p).fixed) \in Seq(Strings)
  BY <1>3, <1>6, ReleaseTagsAreText
<1> HIDE DEF split
<1> QED BY <1>3, <1>4, <1>6, <1>7, LiteralNames, RowsAreTyped

(* Every parser returns typed rows that name no source package.            *)
LEMMA ParsersReturnRows ==
    ASSUME NEW d \in Documents, NEW row \in Parse(d).affected
    PROVE  Parsed(row)
<1>1. HoldsText(d) /\ Cves \subseteq Names
  BY DocumentsAssumption, NamesAssumption
<1>2. CASE d.source = "debian"
  BY <1>1, <1>2, DebianRowsAreTyped DEF Parse
<1>3. CASE d.source = "alpine"
  BY <1>1, <1>3, AlpineRowsAreTyped DEF Parse
<1>4. CASE d.source = "ubuntu"
  BY <1>1, <1>4, UbuntuRowsAreTyped DEF Parse
<1>5. CASE d.source = "redhat"
  BY <1>1, <1>5, RedHatRowsAreTyped DEF Parse
<1> QED BY <1>1, <1>2, <1>3, <1>4, <1>5 DEF HoldsText

-----------------------------------------------------------------------------
(* The invariant: what is stored, and what stands of it.                   *)

(* A row stands in a table, with all its versions or more.                 *)
Kept(r, table) == \E k \in table : Key(k) = Key(r) /\ r.versions \subseteq k.versions
(* What must stand of the last whole sync of each id does.                 *)
Stands ==
    \A id \in Ids : \A r \in complete[id] : r.sourceName = "" /\ Storable(r) /\ Kept(r, rows)
(* The rows of the sync that runs are stored but for the pending ones,     *)
(* and those that another row of the document restates.                    *)
Stored ==
    fetched # Quiet =>
       /\ complete[fetched.id] = {}
       /\ \A r \in Parse(fetched).affected \ pending :
             /\ Storable(r)
             /\ (\A s \in Parse(fetched).affected : ~Restates(s, r)) => Kept(r, rows)
(* The inductive invariant.                                                *)
IInv == TypeOK /\ Stands /\ Stored

(* A merged row is typed, and its list of versions is the new one, if      *)
(* any.                                                                    *)
LEMMA MergedRows ==
    ASSUME NEW old \in AffectedPackages, NEW row \in AffectedPackages,
           Storable(old), Storable(row)
    PROVE  /\ Merged(old, row) \in AffectedPackages /\ Storable(Merged(old, row))
           /\ Key(Merged(old, row)) = Key(old)
           /\ row.versions # {} => Merged(old, row).versions = row.versions
           /\ row.versions = {} => Merged(old, row).versions = old.versions
BY DEF Merged, AffectedPackages, Storable, Key

(* A statement leaves typed rows, every row it found, merged or as it      *)
(* was, and the row it was given.                                          *)
LEMMA UpsertedRows ==
    ASSUME NEW table \in SUBSET AffectedPackages, \A k \in table : Storable(k),
           NEW row \in AffectedPackages, Storable(row)
    PROVE  /\ Upserted(table, row) \subseteq AffectedPackages
           /\ \A k \in Upserted(table, row) : Storable(k)
           /\ \A k \in table : \E n \in Upserted(table, row) :
                 IF Key(k) = Key(row) THEN n = Merged(k, row) ELSE n = k
           /\ \E n \in Upserted(table, row) : Key(n) = Key(row) /\ row.versions \subseteq n.versions
<1> DEFINE same == {old \in table : Key(old) = Key(row)}
<1>1. Upserted(table, row) = (table \ same) \union
            (IF same = {} THEN {row} ELSE {Merged(old, row) : old \in same})
  BY DEF Upserted
<1>2. \A old \in same : /\ Merged(old, row) \in AffectedPackages /\ Storable(Merged(old, row))
                        /\ Key(Merged(old, row)) = Key(row)
                        /\ row.versions \subseteq Merged(old, row).versions
  BY MergedRows DEF Storable
<1> QED BY <1>1, <1>2

(* It takes no row away that it does not restate.                          *)
LEMMA UpsertKeeps ==
    ASSUME NEW table \in SUBSET AffectedPackages, \A k \in table : Storable(k),
           NEW row \in AffectedPackages, Storable(row),
           NEW r, Kept(r, table), ~Restates(row, r)
    PROVE  Kept(r, Upserted(table, row))
<1>1. PICK k \in table : Key(k) = Key(r) /\ r.versions \subseteq k.versions
  BY DEF Kept
<1>2. PICK n \in Upserted(table, row) : IF Key(k) = Key(row) THEN n = Merged(k, row) ELSE n = k
  BY UpsertedRows
<1>3. CASE Key(k) = Key(row)
  BY <1>1, <1>2, <1>3, MergedRows DEF Kept, Restates
<1>4. CASE Key(k) # Key(row)
  BY <1>1, <1>2, <1>4 DEF Kept
<1> QED BY <1>3, <1>4

(* affectedCandidates finds a row that names the package or its source.    *)
LEMMA CandidatesOfOne ==
    ASSUME NEW p, NEW table, NEW r \in table,
           \/ r.name # "" /\ (r.name = p.name \/ r.name = p.sourceName)
           \/ r.sourceName # "" /\ (r.sourceName = p.name \/ r.sourceName = p.sourceName)
    PROVE  r \in AffectedCandidates({p}, table)
<1> DEFINE names == (UNION {{q.name, q.sourceName} : q \in {p}}) \ {""}
<1>1. AffectedCandidates({p}, table) = {s \in table : s.name \in names \/ s.sourceName \in names}
  BY DEF AffectedCandidates
<1>2. \A n : n # "" /\ (n = p.name \/ n = p.sourceName) => n \in names
  <2> DEFINE of(q) == {q.name, q.sourceName}
  <2>1. UNION {of(q) : q \in {p}} = of(p)
    <3> HIDE DEF of
    <3> QED OBVIOUS
  <2> QED BY <2>1
<1> HIDE DEF names
<1> QED BY <1>1, <1>2

(* A row that flags a package does so wherever it stands.                  *)
LEMMA KeptRowsFlag ==
    ASSUME NEW p, NEW table, NEW r \in AffectedPackages, r.sourceName = "", Storable(r),
           Kept(r, table), MatchPackage(p, r),
           \A k \in table : k \in AffectedPackages /\ Storable(k)
    PROVE  r.cve \in Flagged(p, table)
<1>1. PICK k \in table : Key(k) = Key(r) /\ r.versions \subseteq k.versions
  BY DEF Kept
<1>2. /\ k.cve = r.cve /\ k.distro = r.distro /\ k.release = r.release
      /\ k.codename = r.codename /\ k.name = r.name /\ k.fixed = r.fixed
  BY <1>1 DEF Key
<1>3. r.name # "" /\ (p.sourceName = r.name \/ p.name = r.name)
  BY DEF MatchPackage, Concerns, PackageNameMatches
<1>4. Concerns(p, k)
  BY <1>2, <1>3 DEF MatchPackage, Concerns, PackageNameMatches, DistroMatches,
                    DistroVersionMatches, RHELRowForRPM
<1>5. SourceVersionForMatch(p, k) = SourceVersionForMatch(p, r)
  BY <1>2 DEF SourceVersionForMatch
<1>6. MatchPackage(p, k)
  BY <1>1, <1>2, <1>4, <1>5 DEF MatchPackage
<1>7. k \in AffectedCandidates({p}, table)
  BY <1>2, <1>3, CandidatesOfOne
<1> QED BY <1>2, <1>6, <1>7 DEF Flagged

(* The query of affectedCandidates leaves out no row that MatchPackage     *)
(* would match, whatever is stored.                                        *)
THEOREM CandidatesAreComplete == Spec => []CandidatesComplete
<1>1. CandidatesComplete
  <2> SUFFICES ASSUME NEW row \in rows, MatchPackage(package, row)
               PROVE  row \in AffectedCandidates({package}, rows)
    BY DEF CandidatesComplete
  <2>1. Concerns(package, row)
    BY DEF MatchPackage
  <2> QED BY <2>1, CandidatesOfOne DEF Concerns, PackageNameMatches
<1> QED BY <1>1, PTL

(* What the table holds at first is typed, and nothing must stand.         *)
LEMMA InitInvariant == Init => IInv
<1> SUFFICES ASSUME Init PROVE IInv
  OBVIOUS
<1>1. TypeOK
  BY ImportedAssumption DEF Init, TypeOK
<1>2. Stands /\ Stored
  BY DEF Init, Stands, Stored
<1> QED BY <1>1, <1>2 DEF IInv

(* Every step keeps the invariant.                                         *)
LEMMA NextInvariant == IInv /\ [Next]_vars => IInv'
<1> SUFFICES ASSUME IInv, [Next]_vars PROVE IInv'
  OBVIOUS
<1> USE DEF IInv
<1>1. ASSUME NEW d \in Documents, Fetch(d) PROVE IInv'
  <2>1. TypeOK'
    BY <1>1, QuietAssumption DEF Fetch, TypeOK, Ids
  <2>2. Stands'
    BY <1>1 DEF Fetch, TypeOK, Ids, Stands
  <2>3. Stored'
    BY <1>1 DEF Fetch, TypeOK, Ids, Stored
  <2> QED BY <2>1, <2>2, <2>3
<1>2. ASSUME NEW row \in pending, UpsertRow(row) PROVE IInv'
  <2>1. /\ fetched \in Documents /\ fetched # Quiet /\ row \in Parse(fetched).affected
        /\ pending \subseteq Parse(fetched).affected /\ fetched.id \in Ids
    BY DEF TypeOK, Ids
  <2>2. Parsed(row) /\ Storable(row)
    BY <1>2, <2>1, ParsersReturnRows DEF UpsertRow
  <2>3. rows' \in SUBSET AffectedPackages /\ \A k \in rows' : Storable(k)
    BY <1>2, <2>2, UpsertedRows DEF UpsertRow, TypeOK, Parsed
  <2>4. \A id \in Ids : complete'[id] \subseteq complete[id]
    BY <1>2 DEF UpsertRow, Undisputed
  <2>5. complete' \in [Ids -> SUBSET AffectedPackages]
    BY <1>2 DEF UpsertRow, Undisputed, TypeOK
  <2>6. TypeOK'
    BY <1>2, <2>1, <2>3, <2>5 DEF UpsertRow, TypeOK
  <2>7. Stands'
    <3> SUFFICES ASSUME NEW id \in Ids, NEW r \in complete'[id]
                 PROVE  r.sourceName = "" /\ Storable(r) /\ Kept(r, rows')
      BY DEF Stands
    <3>1. r \in complete[id] /\ ~Restates(row, r)
      BY <1>2 DEF UpsertRow, Undisputed
    <3> QED BY <1>2, <2>2, <3>1, UpsertKeeps DEF UpsertRow, TypeOK, Stands, Parsed
  <2>8. Stored'
    <3>1. fetched' = fetched /\ pending' = pending \ {row} /\ complete'[fetched.id] = {}
      BY <1>2, <2>1, <2>4 DEF UpsertRow, Stored
    <3>2. ASSUME NEW r \in Parse(fetched).affected \ pending',
                 \A s \in Parse(fetched).affected : ~Restates(s, r)
          PROVE  Kept(r, rows')
      <4>1. CASE r = row
        BY <1>2, <2>2, <4>1, UpsertedRows DEF UpsertRow, TypeOK, Kept, Parsed
      <4>2. CASE r # row
        <5>1. Kept(r, rows) /\ ~Restates(row, r)
          BY <2>1, <3>1, <3>2, <4>2 DEF Stored
        <5> QED BY <1>2, <2>2, <5>1, UpsertKeeps DEF UpsertRow, TypeOK, Parsed
      <4> QED BY <4>1, <4>2
    <3>3. \A r \in Parse(fetched).affected \ pending' : Storable(r)
      BY <2>1, <2>2, <3>1 DEF Stored
    <3> QED BY <2>1, <3>1, <3>2, <3>3 DEF Stored
  <2> QED BY <2>6, <2>7, <2>8
<1>3. CASE SyncFails
  BY <1>3 DEF SyncFails, TypeOK, Stands, Stored
<1>4. CASE SyncDone
  <2> DEFINE said == Parse(fetched).affected
  <2>1. fetched \in Documents /\ fetched # Quiet /\ fetched.id \in Ids
    BY <1>4 DEF SyncDone, TypeOK, Ids
  <2>2. complete' = [complete EXCEPT ![fetched.id] = Undisputed(said, said)]
    BY <1>4 DEF SyncDone
  <2>3. \A r \in said : Parsed(r)
    BY <2>1, ParsersReturnRows
  <2>4. \A r \in said : Storable(r) /\ ((\A s \in said : ~Restates(s, r)) => Kept(r, rows))
    BY <1>4, <2>1 DEF SyncDone, Stored
  <2> HIDE DEF said
  <2>5. Undisputed(said, said) \subseteq AffectedPackages
    BY <2>3 DEF Undisputed, Parsed
  <2>6. TypeOK'
    BY <1>4, <2>1, <2>2, <2>5 DEF SyncDone, TypeOK
  <2>7. Stands'
    BY <1>4, <2>1, <2>2, <2>3, <2>4 DEF SyncDone, Stands, Undisputed, Parsed, TypeOK
  <2>8. Stored'
    BY <1>4 DEF SyncDone, Stored
  <2> QED BY <2>6, <2>7, <2>8
<1>5. ASSUME NEW p \in Packages, Install(p) PROVE IInv'
  BY <1>5 DEF Install, TypeOK, Stands, Stored
<1>6. CASE UNCHANGED vars
  BY <1>6 DEF vars, TypeOK, Stands, Stored
<1> QED BY <1>1, <1>2, <1>3, <1>4, <1>5, <1>6 DEF Next

(* So it holds always.                                                     *)
THEOREM Invariance == Spec => []IInv
BY InitInvariant, NextInvariant, PTL DEF Spec

(* Rows of text with lists of versions are stored, never a nil slice, and  *)
(* a sync is for one document.                                             *)
THEOREM RowsAreTypedAlways == Spec => []TypeOK
BY Invariance, PTL DEF IInv

(* What stands is flagged.                                                 *)
LEMMA VerdictsStand == IInv => StoredVerdictStands
<1> SUFFICES ASSUME IInv, NEW id \in Ids, NEW c \in Flagged(package, complete[id])
             PROVE  c \in Flagged(package, rows)
  BY DEF StoredVerdictStands
<1>1. PICK r \in complete[id] : r.cve = c /\ MatchPackage(package, r)
  BY DEF Flagged, AffectedCandidates
<1>2. r \in AffectedPackages /\ r.sourceName = "" /\ Storable(r) /\ Kept(r, rows)
  BY DEF IInv, TypeOK, Stands
<1> QED BY <1>1, <1>2, KeptRowsFlag DEF IInv, TypeOK

(* What the last whole sync of a document said of a package is flagged,    *)
(* whatever else is stored, in any order of syncs, failures and imports.   *)
THEOREM StoredVerdictsStand == Spec => []StoredVerdictStands
BY Invariance, VerdictsStand, PTL

-----------------------------------------------------------------------------
(* Updates.                                                                *)

(* What is not above a version below a fix is below the fix.               *)
LEMMA NotAboveIsBelow ==
    ASSUME NEW source, NEW v \in Strings, NEW w \in Strings, NEW f \in Strings,
           Unsigned(v), Unsigned(w), Unsigned(f),
           KeyCompare(source, v, w) <= 0, CompareDistroVersion(source, w, f) < 0
    PROVE  CompareDistroVersion(source, v, f) < 0
<1>1. /\ KeyCompare(source, v, w) \in Signs
      /\ KeyCompare(source, w, f) \in Signs
      /\ KeyCompare(source, v, f) \in Signs
      /\ KeyCompare(source, f, v) = 0 - KeyCompare(source, v, f)
      /\ NoCircle(KeyCompare(source, v, w), KeyCompare(source, w, f),
                  KeyCompare(source, f, v))
  BY KeysAreOrdered DEF KeysOrdered, InOrder
<1>2. /\ CompareDistroVersion(source, w, f) = KeyCompare(source, w, f)
      /\ CompareDistroVersion(source, v, f) = KeyCompare(source, v, f)
  BY VersionsCompareKeys, UnsignedEpochsFit
<1> QED BY <1>1, <1>2 DEF Signs, NoCircle

(* The version that MatchPackage looks at does not go down when none of    *)
(* the whole versions does.                                                *)
LEMMA MatchedVersionIsNotLower ==
    ASSUME NEW p \in InstalledPackages, NEW q, NotLower(p, q), NEW row
    PROVE  /\ KeyCompare(p.source, SourceVersionForMatch(p, row),
                                   SourceVersionForMatch(q, row)) <= 0
           /\ SourceVersionForMatch(p, row) # <<>>
<1>1. q = [p EXCEPT !.version = q.version, !.sourceVersion = q.sourceVersion]
  BY DEF NotLower
<1>2. q.source = p.source /\ q.sourceName = p.sourceName /\ p.version # <<>>
  BY <1>1 DEF NotLower, InstalledPackages
<1>3. CASE p.source = "rpm"
  <2>1. \A v \in Whole(p), w \in Whole(q) : KeyCompare(p.source, v, w) <= 0
    BY <1>3 DEF NotLower, Whole
  <2>2. /\ SourceVersionForMatch(p, row) \in Whole(p)
        /\ SourceVersionForMatch(q, row) \in Whole(q)
    BY <1>2, <1>3 DEF SourceVersionForMatch, BestRPMVersionForMatch, Whole
  <2>3. SourceVersionForMatch(p, row) # <<>>
    BY <1>2, <1>3 DEF SourceVersionForMatch, BestRPMVersionForMatch
  <2> QED BY <2>1, <2>2, <2>3
<1>4. CASE p.source # "rpm"
  BY <1>2, <1>4 DEF NotLower, SourceVersionForMatch
<1> QED BY <1>3, <1>4

(* An update does not change which rows concern a package.                 *)
LEMMA UpdatedPackageConcerns ==
    ASSUME NEW p \in InstalledPackages, NEW q, NotLower(p, q), NEW row, Concerns(q, row)
    PROVE  Concerns(p, row)
<1>1. q = [p EXCEPT !.version = q.version, !.sourceVersion = q.sourceVersion]
  BY DEF NotLower
<1>2. /\ q.source = p.source /\ q.name = p.name /\ q.sourceName = p.sourceName
      /\ q.distro = p.distro /\ q.like = p.like /\ q.release = p.release
      /\ q.codename = p.codename
  BY <1>1 DEF InstalledPackages
<1> QED BY <1>2 DEF Concerns, DistroMatches, RHELRowForRPM, IsRHELCompatibleDistro,
                    DistroVersionMatches, PackageNameMatches

(* It is one of the two versions that are reported.                        *)
LEMMA MatchedVersionIsReported ==
    ASSUME NEW p, NEW row
    PROVE  SourceVersionForMatch(p, row) \in {p.version, p.sourceVersion}
BY DEF SourceVersionForMatch, BestRPMVersionForMatch

(* An update exposes to nothing but what lists the new version, or has a   *)
(* fix with a negative epoch.                                              *)
LEMMA UpdateExposesListedOnly ==
    ASSUME NEW p \in Packages, NEW q \in Packages, NotLower(p, q),
           NEW table \in SUBSET AffectedPackages
    PROVE  Flagged(q, table) \subseteq Flagged(p, table) \union Listed(q, table)
                                         \union Signed(table)
<1> SUFFICES ASSUME NEW row \in table, MatchPackage(q, row),
                    row.cve \notin Listed(q, table), row.cve \notin Signed(table)
             PROVE  row.cve \in Flagged(p, table)
  BY DEF Flagged, AffectedCandidates
<1> DEFINE v == SourceVersionForMatch(p, row)
           w == SourceVersionForMatch(q, row)
<1>1. v \in Strings /\ w \in Strings /\ row.fixed \in Strings
  BY PackagesAssumption, MatchedVersionIsReported DEF AffectedPackages, InstalledPackages
<1>2. q.source = p.source
  <2>1. q = [p EXCEPT !.version = q.version, !.sourceVersion = q.sourceVersion]
    BY DEF NotLower
  <2> QED BY <2>1, PackagesAssumption DEF InstalledPackages
<1>3. w \notin row.versions
  <2>1. w = q.version \/ w = q.sourceVersion
    BY MatchedVersionIsReported
  <2> HIDE DEF w
  <2> QED BY <2>1 DEF Listed
<1>4. /\ Concerns(q, row)
      /\ row.fixed # <<>> /\ CompareDistroVersion(q.source, w, row.fixed) < 0
  BY <1>3 DEF MatchPackage
<1>5. KeyCompare(p.source, v, w) <= 0 /\ v # <<>>
  BY MatchedVersionIsNotLower, PackagesAssumption
<1>9. Unsigned(v) /\ Unsigned(w) /\ Unsigned(row.fixed)
  <2>1. v \in {p.version, p.sourceVersion} /\ w \in {q.version, q.sourceVersion}
    BY MatchedVersionIsReported
  <2>2. \A x \in {p.version, p.sourceVersion, q.version, q.sourceVersion} : Unsigned(x)
    BY DEF NotLower
  <2>3. Unsigned(row.fixed)
    BY DEF Signed
  <2> HIDE DEF v, w
  <2> QED BY <2>1, <2>2, <2>3
<1> HIDE DEF v, w
<1>6. CompareDistroVersion(p.source, v, row.fixed) < 0
  BY <1>1, <1>2, <1>4, <1>5, <1>9, NotAboveIsBelow
<1>7. MatchPackage(p, row)
  BY <1>4, <1>5, <1>6, UpdatedPackageConcerns, PackagesAssumption DEF MatchPackage, v
<1>8. row \in AffectedCandidates({p}, table)
  BY <1>7, CandidatesOfOne DEF MatchPackage, Concerns, PackageNameMatches
<1> QED BY <1>7, <1>8 DEF Flagged

(* A package that goes up in version gains no finding from the order, nor  *)
(* from MatchPackage's choice between an rpm's two versions, as long as no *)
(* epoch is negative.                                                      *)
THEOREM UpdatesNeverReexpose == Spec => UpdateNeverReexposes
<1> DEFINE A == rows' = rows /\ NotLower(package, package') =>
         Flagged(package', rows) \subseteq Flagged(package, rows) \union Listed(package', rows)
                                              \union Signed(rows)
<1>1. TypeOK /\ TypeOK' /\ [Next]_vars => A
  BY UpdateExposesListedOnly DEF TypeOK
<1>2. TypeOK /\ TypeOK' /\ [Next]_vars => [A]_vars
  BY <1>1
<1> QED BY <1>2, RowsAreTypedAlways, PTL DEF Spec, UpdateNeverReexposes

-----------------------------------------------------------------------------
(* Verdicts: what a document says, and what its rows flag.                 *)

(* The row is for the distribution and the release of the package.         *)
Located(p, row) ==
    /\ row.distro # "" => DistroMatches(p, row)
    /\ row.release # <<>> /\ p.release # <<>> => DistroVersionMatches(p, row)
    /\ row.codename # "" /\ p.codename # "" => p.codename = row.codename

(* A package whose versions are whole, or lack a part of the installed one, *)
(* without negative epochs.                                                *)
Reported(p) ==
    /\ p \in InstalledPackages /\ p.version # <<>>
    /\ Unsigned(p.version) /\ Unsigned(p.sourceVersion)
    /\ p.source = "rpm" => Whole(p) = {p.version}

(* cleanFixedVersion keeps fixes, and nothing else.                        *)
LEMMA FixesAreClean ==
    ASSUME NEW v
    PROVE  /\ IsFix(v) => CleanFixedVersion(v) = v /\ v # <<>>
           /\ ~IsFix(v) => CleanFixedVersion(v) = <<>>
BY DEF IsFix, CleanFixedVersion

(* Reading a row changes no more than a nil slice.                         *)
LEMMA RowsAsRead ==
    ASSUME NEW r \in AffectedPackages
    PROVE  /\ AsRead(r) \in AffectedPackages
           /\ AsRead(r).cve = r.cve /\ AsRead(r).distro = r.distro
           /\ AsRead(r).release = r.release /\ AsRead(r).codename = r.codename
           /\ AsRead(r).name = r.name /\ AsRead(r).sourceName = r.sourceName
           /\ AsRead(r).fixed = r.fixed
           /\ AsRead(r).versions = IF r.versions = NoList THEN {} ELSE r.versions
BY DEF AsRead, AffectedPackages

(* MatchPackage looks at the version that an advisory is about.            *)
LEMMA MatchedVersionIsAdvised ==
    ASSUME NEW p, Reported(p), NEW row
    PROVE  /\ SourceVersionForMatch(p, row) = AdvisedVersion(p, row.name)
           /\ AdvisedVersion(p, row.name) \in Strings
           /\ AdvisedVersion(p, row.name) # <<>>
           /\ Unsigned(AdvisedVersion(p, row.name))
<1>1. /\ p.version \in Strings /\ p.sourceVersion \in Strings /\ p.version # <<>>
      /\ Unsigned(p.version) /\ Unsigned(p.sourceVersion)
  BY DEF Reported, InstalledPackages
<1>2. CASE p.source = "rpm"
  <2>1. BestRPMVersionForMatch(p.version, p.sourceVersion) \in Whole(p)
    BY DEF BestRPMVersionForMatch, Whole
  <2>2. BestRPMVersionForMatch(p.version, p.sourceVersion) = p.version
    BY <1>2, <2>1 DEF Reported
  <2> QED BY <1>1, <1>2, <2>2 DEF SourceVersionForMatch, AdvisedVersion
<1>3. CASE p.source # "rpm"
  BY <1>1, <1>3 DEF SourceVersionForMatch, AdvisedVersion
<1> QED BY <1>2, <1>3

(* A row that names no source package matches as what it says applies.     *)
LEMMA RowsMatchAsSaid ==
    ASSUME NEW p, Reported(p), NEW r \in AffectedPackages, r.sourceName = "",
           NEW f \in Strings, r.fixed = CleanFixedVersion(f), IsFix(f) => Unsigned(f), NEW W,
           \A v : (W # NoList /\ v \in W) <=> v \in AsRead(r).versions
    PROVE  MatchPackage(p, AsRead(r)) <=>
              Located(p, r) /\ Applies(Says(r.cve, r.name, f, W), p)
<1> PICK row : row = AsRead(r)
  OBVIOUS
<1> PICK v : v = AdvisedVersion(p, r.name)
  OBVIOUS
<1> PICK t : t = Says(r.cve, r.name, f, W)
  OBVIOUS
<1>1. SourceVersionForMatch(p, row) = v /\ v \in Strings /\ v # <<>> /\ Unsigned(v)
  <2>1. row.name = r.name
    BY RowsAsRead
  <2> QED BY <2>1, MatchedVersionIsAdvised
<1>2. Concerns(p, row) <=> /\ p.source \in {"dpkg", "rpm", "apk"} /\ Located(p, r)
                          /\ r.name # "" /\ r.name \in {p.name, p.sourceName}
  BY RowsAsRead DEF Concerns, Located, PackageNameMatches, DistroMatches, RHELRowForRPM,
                    DistroVersionMatches
<1>3. t.name = r.name /\ t.fixed = f /\ t.versions = W
  BY DEF Says
<1>4. v \in row.versions <=> W # NoList /\ v \in W
  OBVIOUS
<1>5. row.fixed # <<>> /\ CompareDistroVersion(p.source, v, row.fixed) < 0 <=>
         IsFix(f) /\ KeyCompare(p.source, v, f) < 0
  <2>1. row.fixed = CleanFixedVersion(f)
    BY RowsAsRead
  <2>2. IsFix(f) => CompareDistroVersion(p.source, v, f) = KeyCompare(p.source, v, f)
    BY <1>1, VersionsCompareKeys, UnsignedEpochsFit
  <2> QED BY <2>1, <2>2, FixesAreClean
<1>6. MatchPackage(p, row) <=> /\ Concerns(p, row) /\ v # <<>>
                              /\ \/ v \in row.versions
                                 \/ /\ row.fixed # <<>>
                                    /\ CompareDistroVersion(p.source, v, row.fixed) < 0
  BY <1>1 DEF MatchPackage
<1>7. Applies(t, p) <=> /\ p.source \in {"dpkg", "rpm", "apk"}
                       /\ r.name # "" /\ r.name \in {p.name, p.sourceName}
                       /\ \/ W # NoList /\ v \in W
                          \/ IsFix(f) /\ KeyCompare(p.source, v, f) < 0
  BY <1>3 DEF Applies
<1> QED BY <1>1, <1>2, <1>4, <1>5, <1>6, <1>7

(* What a table flags, row by row.                                         *)
LEMMA FlaggedByRows ==
    ASSUME NEW p, NEW S
    PROVE  Flagged(p, {AsRead(r) : r \in S}) =
              {AsRead(r).cve : r \in {q \in S : MatchPackage(p, AsRead(q))}}
<1> DEFINE table == {AsRead(r) : r \in S}
<1>1. ASSUME NEW row \in table, MatchPackage(p, row)
      PROVE  row \in AffectedCandidates({p}, table)
  <2> HIDE DEF table
  <2> QED BY <1>1, CandidatesOfOne DEF MatchPackage, Concerns, PackageNameMatches
<1>2. AffectedCandidates({p}, table) \subseteq table
  BY DEF AffectedCandidates
<1>3. Flagged(p, table) = {row.cve : row \in {q \in table : MatchPackage(p, q)}}
  <2> HIDE DEF table
  <2> QED BY <1>1, <1>2 DEF Flagged
<1> QED BY <1>3

(* It is enough that what matches is said, and what is said and applies    *)
(* matches.                                                                *)
LEMMA VerdictsAgree ==
    ASSUME NEW d \in Documents, NEW p,
           \A r \in Parse(d).affected :
              MatchPackage(p, AsRead(r)) => \E t \in Said(d, p) : t.cve = r.cve /\ Applies(t, p),
           \A t \in Said(d, p) :
              Applies(t, p) => \E r \in Parse(d).affected :
                                  r.cve = t.cve /\ MatchPackage(p, AsRead(r))
    PROVE  Flagged(p, {AsRead(r) : r \in Parse(d).affected}) = Advised(d, p)
<1>1. \A r \in Parse(d).affected : AsRead(r).cve = r.cve
  BY ParsersReturnRows, RowsAsRead DEF Parsed
<1> DEFINE S == Parse(d).affected
<1>2. Flagged(p, {AsRead(r) : r \in S}) =
         {AsRead(r).cve : r \in {q \in S : MatchPackage(p, AsRead(q))}}
  BY FlaggedByRows
<1> QED BY <1>1, <1>2 DEF Advised

(* A row with a fix and no versions matches as the fix applies.            *)
LEMMA FixesOnly ==
    ASSUME NEW p, Reported(p), NEW r, Parsed(r), r.versions = NoList,
           NEW f \in Strings, r.fixed = CleanFixedVersion(f), IsFix(f) => Unsigned(f)
    PROVE  MatchPackage(p, AsRead(r)) <=>
              Located(p, r) /\ Applies(Says(r.cve, r.name, f, {}), p)
<1>1. AsRead(r).versions = {}
  BY RowsAsRead DEF Parsed
<1>2. \A v : ({} # NoList /\ v \in {}) <=> v \in AsRead(r).versions
  BY <1>1
<1> QED BY <1>2, RowsMatchAsSaid DEF Parsed

(* The rows of a plain document of the Debian tracker flag what it says.   *)
LEMMA DebianVerdicts ==
    ASSUME NEW d \in Documents, d.source = "debian", NEW p, Reported(p), DebianPlain(d.body, p)
    PROVE  Flagged(p, {AsRead(r) : r \in Parse(d).affected}) = Advised(d, p)
<1> DEFINE of(e, c) == Row("debian", "debian", <<>>, c, e.cve, e.name,
                           CleanFixedVersion(e.releases[c].fixed), NoList, "")
           says(e, c) == Says(e.cve, e.name, e.releases[c].fixed, {})
           affects(e, c) == /\ c \in DOMAIN e.releases
                            /\ DebianReleaseCanAffect(e.releases[c].status, e.releases[c].fixed)
<1>1. HoldsText(d)
  BY DocumentsAssumption
<1>2. \A r : r \in Parse(d).affected <=> \E e \in d.body : \E c : affects(e, c) /\ r = of(e, c)
  <2> DEFINE of2(e) == {of(e, c) : c \in {b \in DOMAIN e.releases :
                 DebianReleaseCanAffect(e.releases[b].status, e.releases[b].fixed)}}
  <2>1. Parse(d).affected = UNION {of2(e) : e \in d.body}
    BY DEF Parse, ParseDebianTracker
  <2>2. \A e, r : r \in of2(e) <=> \E c : affects(e, c) /\ r = of(e, c)
    <3> HIDE DEF of
    <3> QED OBVIOUS
  <2> HIDE DEF of2, affects, of
  <2> QED BY <2>1, <2>2
<1>3. \A t : t \in Said(d, p) <=>
         \E e \in d.body : /\ p.distro = "debian" /\ p.codename \in DOMAIN e.releases
                           /\ e.releases[p.codename].status \notin {"not-affected", "undetermined"}
                           /\ t = says(e, p.codename)
  BY DEF Said, DebianSays
<1>4. ASSUME NEW e \in d.body, NEW c, affects(e, c)
      PROVE  MatchPackage(p, AsRead(of(e, c))) <=>
                p.distro = "debian" /\ p.codename = c /\ Applies(says(e, c), p)
  <2>1. of(e, c) \in Parse(d).affected
    BY <1>2, <1>4
  <2>2. PICK r \in Parse(d).affected : r = of(e, c)
    BY <2>1
  <2>3. Parsed(r)
    BY ParsersReturnRows
  <2>4. PICK f \in Strings : f = e.releases[c].fixed
    BY <1>1, <1>4 DEF HoldsText
  <2>5. /\ r.distro = "debian" /\ r.release = <<>> /\ r.codename = c
        /\ r.cve = e.cve /\ r.name = e.name /\ r.fixed = CleanFixedVersion(f)
        /\ r.versions = NoList
    BY <2>2, <2>4 DEF Row
  <2>6. c # "" /\ p.codename # "" /\ Unsigned(f)
    BY <1>4, <2>4 DEF DebianPlain
  <2>7. Located(p, r) <=> p.distro = "debian" /\ p.codename = c
    BY <2>5, <2>6 DEF Located, DistroMatches, RHELRowForRPM
  <2>8. MatchPackage(p, AsRead(r)) <=> Located(p, r) /\ Applies(Says(e.cve, e.name, f, {}), p)
    BY <2>3, <2>5, <2>6, FixesOnly
  <2> QED BY <2>2, <2>4, <2>7, <2>8
<1>5. \A e, c : of(e, c).cve = e.cve /\ says(e, c).cve = e.cve
  BY DEF Row, Says
<1>6. \A e, c : DebianReleaseCanAffect(e.releases[c].status, e.releases[c].fixed) <=>
         /\ e.releases[c].status \notin {"not-affected", "undetermined"}
         /\ e.releases[c].fixed # <<>> /\ e.releases[c].fixed[1] # Less
  BY DEF DebianReleaseCanAffect
<1>7. \A e, c : Applies(says(e, c), p) => IsFix(e.releases[c].fixed)
  BY DEF Applies, Says
<1> HIDE DEF of, says
<1>8. ASSUME NEW r \in Parse(d).affected, MatchPackage(p, AsRead(r))
      PROVE  \E t \in Said(d, p) : t.cve = r.cve /\ Applies(t, p)
  <2>1. PICK e \in d.body : \E c : affects(e, c) /\ r = of(e, c)
    BY <1>2
  <2>2. PICK c : affects(e, c) /\ r = of(e, c)
    BY <2>1
  <2>3. p.distro = "debian" /\ p.codename = c /\ Applies(says(e, c), p)
    BY <1>4, <1>8, <2>2
  <2>4. says(e, c) \in Said(d, p)
    BY <1>3, <1>6, <2>2, <2>3
  <2> QED BY <1>5, <2>2, <2>3, <2>4
<1>9. ASSUME NEW t \in Said(d, p), Applies(t, p)
      PROVE  \E r \in Parse(d).affected : r.cve = t.cve /\ MatchPackage(p, AsRead(r))
  <2>1. PICK e \in d.body : /\ p.distro = "debian" /\ p.codename \in DOMAIN e.releases
                           /\ e.releases[p.codename].status \notin {"not-affected", "undetermined"}
                           /\ t = says(e, p.codename)
    BY <1>3
  <2>2. IsFix(e.releases[p.codename].fixed)
    BY <1>7, <1>9, <2>1
  <2>3. affects(e, p.codename)
    <3>1. e.releases[p.codename].fixed # <<>> /\ e.releases[p.codename].fixed[1] # Less
      BY <2>2 DEF IsFix
    <3> QED BY <1>6, <2>1, <3>1
  <2>4. of(e, p.codename) \in Parse(d).affected
    BY <1>2, <2>3
  <2>5. MatchPackage(p, AsRead(of(e, p.codename)))
    BY <1>4, <1>9, <2>1, <2>3
  <2> QED BY <1>5, <2>1, <2>4, <2>5
<1> QED BY <1>8, <1>9, VerdictsAgree

(* The rows of secdb: the fixes of packages that have names.               *)
AlpineFix(q, w, c) ==
    w \in DOMAIN q.secfixes /\ c \in Cves \intersect q.secfixes[w]
AlpineRow(release, repository, q, w, c) ==
    Row("alpine", "alpine", release, "", c, q.name, CleanFixedVersion(w), NoList, repository)
MakesAlpineRow(r, release, repository, q, w, c) ==
    /\ q.name # "" /\ AlpineFix(q, w, c) /\ CleanFixedVersion(w) # <<>>
    /\ r = AlpineRow(release, repository, q, w, c)

(* ParseAlpineSecDB makes a row of each of them, and no other.             *)
LEMMA AlpineRows ==
    ASSUME NEW packages, NEW release, NEW repository, NEW r
    PROVE  r \in ParseAlpineSecDB(packages, release, repository).affected <=>
              \E q \in packages : \E w, c : MakesAlpineRow(r, release, repository, q, w, c)
<1> DEFINE of(f) == Row("alpine", "alpine", release, "", f[3], f[1],
                        CleanFixedVersion(f[2]), NoList, repository)
           from(q) == {q.name} \X (DOMAIN q.secfixes) \X Cves
           named == {q \in packages : q.name # ""}
           fixes == UNION {from(q) : q \in named}
           used == {f \in fixes : /\ CleanFixedVersion(f[2]) # <<>>
                                  /\ \E q \in packages : /\ q.name = f[1]
                                                         /\ f[2] \in DOMAIN q.secfixes
                                                         /\ f[3] \in q.secfixes[f[2]]}
<1>1. ParseAlpineSecDB(packages, release, repository).affected = {of(f) : f \in used}
  BY DEF ParseAlpineSecDB
<1>2. \A f : f \in fixes <=> \E q \in packages : q.name # "" /\ f \in from(q)
  <2> HIDE DEF from
  <2> QED OBVIOUS
<1> HIDE DEF fixes
<1>3. ASSUME r \in ParseAlpineSecDB(packages, release, repository).affected
      PROVE  \E q \in packages : \E w, c : MakesAlpineRow(r, release, repository, q, w, c)
  <2>1. PICK f \in fixes : /\ r = of(f) /\ CleanFixedVersion(f[2]) # <<>>
                           /\ \E q \in packages : /\ q.name = f[1]
                                                  /\ f[2] \in DOMAIN q.secfixes
                                                  /\ f[3] \in q.secfixes[f[2]]
    <3> HIDE DEF of
    <3> QED BY <1>1, <1>3
  <2>2. PICK o \in packages : o.name # "" /\ f \in from(o)
    BY <1>2
  <2>3. f[1] = o.name /\ f[3] \in Cves
    BY <2>2
  <2>4. PICK q \in packages : q.name = f[1] /\ f[2] \in DOMAIN q.secfixes /\ f[3] \in q.secfixes[f[2]]
    BY <2>1
  <2>5. MakesAlpineRow(r, release, repository, q, f[2], f[3])
    BY <2>1, <2>2, <2>3, <2>4 DEF MakesAlpineRow, AlpineFix, AlpineRow
  <2> QED BY <2>5
<1>4. ASSUME NEW q \in packages, NEW w, NEW c, MakesAlpineRow(r, release, repository, q, w, c)
      PROVE  r \in ParseAlpineSecDB(packages, release, repository).affected
  <2>1. PICK f : f = <<q.name, w, c>>
    OBVIOUS
  <2>2. f \in from(q) /\ f[1] = q.name /\ f[2] = w /\ f[3] = c
    BY <1>4, <2>1 DEF MakesAlpineRow, AlpineFix
  <2>3. f \in used
    <3> HIDE DEF from
    <3> QED BY <1>2, <1>4, <2>2 DEF MakesAlpineRow, AlpineFix
  <2>4. r = of(f)
    BY <1>4, <2>2 DEF MakesAlpineRow, AlpineRow
  <2> HIDE DEF of, used
  <2> QED BY <1>1, <2>3, <2>4
<1> QED BY <1>3, <1>4

(* The rows of secdb flag what it says.                                    *)
LEMMA AlpineVerdicts ==
    ASSUME NEW d \in Documents, d.source = "alpine", NEW p, Reported(p),
           AlpinePlain(d.body, d.release, p)
    PROVE  Flagged(p, {AsRead(r) : r \in Parse(d).affected}) = Advised(d, p)
<1> DEFINE of(q, w, c) == AlpineRow(d.release, d.repository, q, w, c)
           says(q, w, c) == Says(c, q.name, w, {})
<1>1. HoldsText(d)
  BY DocumentsAssumption
<1>2. \A r : r \in Parse(d).affected <=>
         \E q \in d.body : \E w, c : MakesAlpineRow(r, d.release, d.repository, q, w, c)
  <2>1. Parse(d) = ParseAlpineSecDB(d.body, d.release, d.repository)
    BY DEF Parse
  <2> QED BY <2>1, AlpineRows
<1>3. \A t : t \in Said(d, p) <=>
         /\ p.distro = "alpine" /\ p.release = d.release
         /\ \E q \in d.body : \E w, c : AlpineFix(q, w, c) /\ t = says(q, w, c)
  <2> DEFINE of2(c, q) == {says(q, w, c) : w \in {v \in DOMAIN q.secfixes : c \in q.secfixes[v]}}
             on == {q \in d.body : p.distro = "alpine" /\ p.release = d.release}
  <2>1. Said(d, p) = UNION {of2(c, q) : c \in Cves, q \in on}
    BY DEF Said, AlpineSays
  <2>2. \A t, q : \A c \in Cves : t \in of2(c, q) <=> \E w : AlpineFix(q, w, c) /\ t = says(q, w, c)
    <3> HIDE DEF says
    <3> QED BY DEF AlpineFix
  <2>3. \A q, w, c : AlpineFix(q, w, c) => c \in Cves
    BY DEF AlpineFix
  <2>4. \A t : t \in Said(d, p) <=> \E c \in Cves : \E q \in on : t \in of2(c, q)
    <3> HIDE DEF of2, on
    <3> QED BY <2>1
  <2> HIDE DEF of2, says
  <2> QED BY <2>2, <2>3, <2>4
<1>4. ASSUME NEW q \in d.body, NEW w, NEW c, q.name # "", AlpineFix(q, w, c), CleanFixedVersion(w) # <<>>
      PROVE  MatchPackage(p, AsRead(of(q, w, c))) <=>
                p.distro = "alpine" /\ p.release = d.release /\ Applies(says(q, w, c), p)
  <2>1. of(q, w, c) \in Parse(d).affected
    BY <1>2, <1>4 DEF MakesAlpineRow
  <2>2. PICK r \in Parse(d).affected : r = of(q, w, c)
    BY <2>1
  <2>3. Parsed(r)
    BY ParsersReturnRows
  <2>4. w \in Strings
    BY <1>1, <1>4 DEF HoldsText, AlpineFix
  <2>5. /\ r.distro = "alpine" /\ r.release = d.release /\ r.codename = ""
        /\ r.cve = c /\ r.name = q.name /\ r.fixed = CleanFixedVersion(w)
        /\ r.versions = NoList
    BY <2>2 DEF AlpineRow, Row
  <2>6. Located(p, r) <=> p.distro = "alpine" /\ p.release = d.release
    BY <2>5 DEF AlpinePlain, Located, DistroMatches, DistroVersionMatches, RHELRowForRPM
  <2>7. MatchPackage(p, AsRead(r)) <=> Located(p, r) /\ Applies(Says(c, q.name, w, {}), p)
    <3>1. Unsigned(w)
      BY <1>4 DEF AlpinePlain, AlpineFix
    <3> QED BY <2>3, <2>4, <2>5, <3>1, FixesOnly
  <2> QED BY <2>2, <2>6, <2>7
<1>5. \A q, w, c : of(q, w, c).cve = c /\ says(q, w, c).cve = c
  BY DEF AlpineRow, Row, Says
<1>6. \A q, w, c : Applies(says(q, w, c), p) => IsFix(w) /\ q.name # ""
  BY DEF Applies, Says
<1> HIDE DEF says
<1>7. ASSUME NEW r \in Parse(d).affected, MatchPackage(p, AsRead(r))
      PROVE  \E t \in Said(d, p) : t.cve = r.cve /\ Applies(t, p)
  <2>1. PICK q \in d.body : \E w, c : MakesAlpineRow(r, d.release, d.repository, q, w, c)
    BY <1>2
  <2>2. PICK w, c : MakesAlpineRow(r, d.release, d.repository, q, w, c)
    BY <2>1
  <2>3. /\ q.name # "" /\ AlpineFix(q, w, c) /\ CleanFixedVersion(w) # <<>>
        /\ r = of(q, w, c)
    BY <2>2 DEF MakesAlpineRow
  <2>4. p.distro = "alpine" /\ p.release = d.release /\ Applies(says(q, w, c), p)
    BY <1>4, <1>7, <2>3
  <2>5. says(q, w, c) \in Said(d, p)
    BY <1>3, <2>4, <2>3
  <2>6. says(q, w, c).cve = r.cve
    BY <2>3 DEF says, Says, AlpineRow, Row
  <2> QED BY <2>4, <2>5, <2>6
<1>8. ASSUME NEW t \in Said(d, p), Applies(t, p)
      PROVE  \E r \in Parse(d).affected : r.cve = t.cve /\ MatchPackage(p, AsRead(r))
  <2>1. PICK q \in d.body : \E w, c : AlpineFix(q, w, c) /\ t = says(q, w, c)
    BY <1>3
  <2>2. PICK w, c : AlpineFix(q, w, c) /\ t = says(q, w, c)
    BY <2>1
  <2>3. IsFix(w) /\ q.name # "" /\ p.distro = "alpine" /\ p.release = d.release
    BY <1>3, <1>6, <1>8, <2>2
  <2>4. CleanFixedVersion(w) # <<>>
    BY <2>3, FixesAreClean
  <2>5. of(q, w, c) \in Parse(d).affected
    BY <1>2, <2>2, <2>3, <2>4 DEF MakesAlpineRow
  <2>6. MatchPackage(p, AsRead(of(q, w, c)))
    BY <1>4, <1>8, <2>2, <2>3, <2>4
  <2>7. of(q, w, c).cve = t.cve
    BY <2>2 DEF says, Says, AlpineRow, Row
  <2> QED BY <2>5, <2>6, <2>7
<1> QED BY <1>7, <1>8, VerdictsAgree

(* What is below a version that is not above a fix is below the fix.       *)
LEMMA BelowIsBelow ==
    ASSUME NEW source, NEW v \in Strings, NEW w \in Strings, NEW f \in Strings,
           KeyCompare(source, v, w) < 0, KeyCompare(source, w, f) <= 0
    PROVE  KeyCompare(source, v, f) < 0
<1>1. /\ KeyCompare(source, v, w) \in Signs
      /\ KeyCompare(source, w, f) \in Signs
      /\ KeyCompare(source, v, f) \in Signs
      /\ KeyCompare(source, f, v) = 0 - KeyCompare(source, v, f)
      /\ NoCircle(KeyCompare(source, v, w), KeyCompare(source, w, f),
                  KeyCompare(source, f, v))
  BY KeysAreOrdered DEF KeysOrdered, InOrder
<1> QED BY <1>1 DEF Signs, NoCircle

(* The first CVE of a list, if there is one.                               *)
LEMMA FirstCVEs ==
    ASSUME NEW ids \in Seq(Names)
    PROVE  IF FirstCVE(ids) = NoCve THEN Cves \intersect Range(ids) = {}
           ELSE FirstCVE(ids) \in Cves \intersect Range(ids)
<1> DEFINE I == {i \in 1 .. Len(ids) : ids[i] \in Cves}
<1>1. FirstCVE(ids) = IF I = {} THEN NoCve ELSE IF Min(I) = 0 THEN NoCve ELSE ids[Min(I)]
  BY DEF FirstCVE, SelectInSeq
<1>2. I \in SUBSET (1 .. Len(ids))
  OBVIOUS
<1>3. Range(ids) = {ids[i] : i \in 1 .. Len(ids)}
  BY DEF Range
<1>4. I # {} => Min(I) \in I
  <2> HIDE DEF I
  <2> QED BY <1>2, SelectionsAreElements
<1>5. NoCve \notin Cves
  BY CvesAssumption DEF NoCve
<1>6. CASE I = {}
  BY <1>1, <1>3, <1>6
<1>7. CASE I # {}
  <2>1. PICK i \in I : i = Min(I)
    BY <1>4, <1>7
  <2>2. i \in 1 .. Len(ids) /\ i # 0 /\ ids[i] \in Cves
    OBVIOUS
  <2>3. FirstCVE(ids) = ids[i]
    BY <1>1, <1>7, <2>1, <2>2
  <2> QED BY <1>3, <1>5, <2>2, <2>3
<1> QED BY <1>6, <1>7

(* The identifiers in a document.                                          *)
Named(doc) == Range(doc.upstream) \union Range(doc.aliases) \union {doc.id}

(* In a plain document the one CVE is found.                               *)
LEMMA CVEOfPlainDocument ==
    ASSUME NEW doc, NEW p, UbuntuPlain(doc, p),
           doc.upstream \in Seq(Names), doc.aliases \in Seq(Names), NEW c
    PROVE  c \in Cves \intersect Named(doc) <=> CVEOfDocument(doc) # NoCve /\ c = CVEOfDocument(doc)
<1>1. /\ doc.id \in Cves \union {""}
      /\ \A a, b \in Cves \intersect Named(doc) : a = b
  BY DEF UbuntuPlain, Named
<1>2. NoCve \notin Cves /\ NoCve = ""
  BY CvesAssumption DEF NoCve
<1>3. CASE FirstCVE(doc.upstream) # NoCve
  <2>1. FirstCVE(doc.upstream) \in Cves \intersect Named(doc)
    BY <1>3, FirstCVEs DEF Named
  <2> QED BY <1>1, <1>3, <2>1 DEF CVEOfDocument
<1>4. CASE FirstCVE(doc.upstream) = NoCve /\ FirstCVE(doc.aliases) # NoCve
  <2>1. FirstCVE(doc.aliases) \in Cves \intersect Named(doc)
    BY <1>4, FirstCVEs DEF Named
  <2> QED BY <1>1, <1>4, <2>1 DEF CVEOfDocument
<1>5. CASE FirstCVE(doc.upstream) = NoCve /\ FirstCVE(doc.aliases) = NoCve
  <2>1. Cves \intersect Range(doc.upstream) = {} /\ Cves \intersect Range(doc.aliases) = {}
    BY <1>5, FirstCVEs
  <2>2. Cves \intersect Named(doc) = Cves \intersect {doc.id}
    BY <2>1 DEF Named
  <2> QED BY <1>1, <1>2, <1>5, <2>2 DEF CVEOfDocument
<1> QED BY <1>3, <1>4, <1>5

(* For a package with one release, it is found.                            *)
LEMMA ReleaseOfPlainPackage ==
    ASSUME NEW ecosystem \in Seq(Seq(Strings)), OneRelease(ecosystem)
    PROVE  /\ IsRelease(ReleaseOf(ecosystem))
           /\ \A part \in Range(ecosystem) : IsRelease(part) <=> part = ReleaseOf(ecosystem)
           /\ ReleaseOf(ecosystem) \in Range(ecosystem)
<1>1. PICK r \in Range(ecosystem) : \A part \in Range(ecosystem) : IsRelease(part) <=> part = r
  BY DEF OneRelease
<1> DEFINE e == ecosystem
           I == {i \in 1 .. Len(e) : IsRelease(e[i])}
<1>2. ReleaseOf(e) = IF I = {} THEN <<>> ELSE IF Min(I) = 0 THEN <<>> ELSE e[Min(I)]
  BY DEF ReleaseOf, SelectInSeq
<1>3. I \in SUBSET (1 .. Len(e)) /\ e \in Seq(Seq(Strings))
  OBVIOUS
<1>4. Range(e) = {e[i] : i \in 1 .. Len(e)}
  BY DEF Range
<1>5. I # {}
  BY <1>1, <1>4
<1>6. Min(I) \in I
  <2> HIDE DEF I, e
  <2> QED BY <1>3, <1>5, SelectionsAreElements
<1>7. PICK i \in I : i = Min(I)
  BY <1>6
<1>8. i \in 1 .. Len(e) /\ i # 0 /\ IsRelease(e[i]) /\ e[i] \in Range(e)
  BY <1>4
<1>9. e[i] = r
  BY <1>1, <1>8
<1> QED BY <1>1, <1>2, <1>5, <1>7, <1>8, <1>9

(* Of ascending fixes the last one is the highest.                         *)
LEMMA LastFixIsHighest ==
    ASSUME NEW source, NEW events \in Seq(Strings), Ascends(source, events)
    PROVE  /\ LastFixed(events) \in Strings
           /\ LastFixed(events) \in Range(events) \union {<<>>}
           /\ \A v \in Range(events) \union {<<>>} : IsFix(v) =>
                 /\ IsFix(LastFixed(events))
                 /\ v = LastFixed(events) \/ KeyCompare(source, v, LastFixed(events)) <= 0
<1> DEFINE I == {i \in 1 .. Len(events) : events[i] # <<>>}
<1>1. LastFixed(events) = IF I = {} THEN <<>> ELSE IF Max(I) = 0 THEN <<>> ELSE events[Max(I)]
  BY DEF LastFixed, SelectLastInSeq
<1>2. I \in SUBSET (1 .. Len(events)) /\ Len(events) \in Nat
  OBVIOUS
<1>3. Range(events) = {events[i] : i \in 1 .. Len(events)} /\ DOMAIN events = 1 .. Len(events)
  BY DEF Range
<1>4. ~IsFix(<<>>)
  BY DEF IsFix
<1>5. CASE I = {}
  <2>1. \A v \in Range(events) : v = <<>>
    BY <1>3, <1>5
  <2>2. LastFixed(events) = <<>>
    BY <1>1, <1>5
  <2> QED BY <1>4, <2>1, <2>2, EmptyString
<1>6. CASE I # {}
  <2>1. Max(I) \in I /\ \A k \in I : Max(I) >= k
    <3> HIDE DEF I
    <3> QED BY <1>2, <1>6, MaxIsGreatest
  <2>2. PICK j \in I : j = Max(I) /\ \A k \in I : k <= j
    BY <2>1
  <2>3. j \in 1 .. Len(events) /\ j # 0 /\ events[j] # <<>> /\ events[j] \in Strings
    OBVIOUS
  <2>4. LastFixed(events) = events[j]
    BY <1>1, <1>6, <2>2, <2>3
  <2>5. ASSUME NEW v \in Range(events), IsFix(v)
        PROVE  IsFix(events[j]) /\ (v = events[j] \/ KeyCompare(source, v, events[j]) <= 0)
    <3>1. PICK i \in 1 .. Len(events) : v = events[i]
      BY <1>3
    <3>2. i \in I
      BY <1>4, <2>5, <3>1
    <3>3. i < j \/ i = j
      BY <2>2, <3>2
    <3> QED BY <1>3, <2>3, <2>5, <3>1, <3>3 DEF Ascends
  <2> QED BY <1>3, <1>4, <2>3, <2>4, <2>5
<1> QED BY <1>5, <1>6

(* When one of them applies, the last one does.                            *)
LEMMA LastFixApplies ==
    ASSUME NEW p, Reported(p), NEW events \in Seq(Strings), Ascends(p.source, events),
           NEW c, NEW name, NEW W, NEW f \in Range(events) \union {<<>>},
           Applies(Says(c, name, f, W), p)
    PROVE  Applies(Says(c, name, LastFixed(events), W), p)
<1> PICK v : v = AdvisedVersion(p, name)
  OBVIOUS
<1> PICK g : g = LastFixed(events)
  OBVIOUS
<1>1. v \in Strings /\ g \in Strings
  <2>1. AdvisedVersion(p, [name |-> name].name) \in Strings
    BY MatchedVersionIsAdvised
  <2> QED BY <2>1, LastFixIsHighest
<1>2. f \in Strings
  BY EmptyString DEF Range
<1>3. IsFix(f) => IsFix(g) /\ (f = g \/ KeyCompare(p.source, f, g) <= 0)
  BY LastFixIsHighest
<1>4. \A h : Applies(Says(c, name, h, W), p) <=>
               /\ p.source \in {"dpkg", "rpm", "apk"}
               /\ name # "" /\ name \in {p.name, p.sourceName}
               /\ \/ W # NoList /\ v \in W
                  \/ IsFix(h) /\ KeyCompare(p.source, v, h) < 0
  BY DEF Applies, Says
<1>5. IsFix(f) /\ KeyCompare(p.source, v, f) < 0 => IsFix(g) /\ KeyCompare(p.source, v, g) < 0
  BY <1>1, <1>2, <1>3, BelowIsBelow
<1> QED BY <1>4, <1>5

(* The rows of a plain OSV document flag what it says.                     *)
LEMMA UbuntuVerdicts ==
    ASSUME NEW d \in Documents, d.source = "ubuntu", NEW p, Reported(p), UbuntuPlain(d.body, p)
    PROVE  Flagged(p, {AsRead(r) : r \in Parse(d).affected}) = Advised(d, p)
<1> DEFINE doc == d.body
           cve == CVEOfDocument(doc)
           of(a) == Row("ubuntu", "ubuntu", ReleaseOf(a.ecosystem), a.codename, cve, a.name,
                        CleanFixedVersion(LastFixed(a.events)), a.versions, "")
           says(c, a, f) == Says(c, a.name, f, a.versions)
           fixes(a) == Range(a.events) \union {<<>>}
<1>1. /\ doc.upstream \in Seq(Names) /\ doc.aliases \in Seq(Names)
      /\ \A a \in doc.affected : /\ a.ecosystem \in Seq(Seq(Strings)) /\ a.events \in Seq(Strings)
                                 /\ a.versions \in (SUBSET Strings) \union {NoList}
  BY DocumentsAssumption DEF HoldsText
<1>2. \A r : r \in Parse(d).affected <=>
         cve # NoCve /\ \E a \in doc.affected : a.name # "" /\ r = of(a)
  <2>1. Parse(d) = ParseUbuntuOSVDocument(doc)
    BY DEF Parse
  <2>2. CASE cve = NoCve
    BY <2>1, <2>2 DEF ParseUbuntuOSVDocument
  <2>3. CASE cve # NoCve
    <3>1. Parse(d).affected = {of(a) : a \in {b \in doc.affected : b.name # ""}}
      <4>1. PICK S : S = {of(a) : a \in {b \in doc.affected : b.name # ""}}
        OBVIOUS
      <4>2. ParseUbuntuOSVDocument(doc) = [records |-> {cve}, affected |-> S]
        BY <2>3, <4>1 DEF ParseUbuntuOSVDocument
      <4>3. Parse(d).affected = S
        BY <2>1, <4>2
      <4> QED BY <4>1, <4>3
    <3> HIDE DEF of
    <3> QED BY <2>3, <3>1
  <2> QED BY <2>2, <2>3
<1>3. \A t : t \in Said(d, p) <=>
         /\ p.distro = "ubuntu"
         /\ \E c \in Cves \intersect Named(doc) : \E a \in doc.affected :
               p.release \in Range(a.ecosystem) /\ \E f \in fixes(a) : t = says(c, a, f)
  <2> DEFINE of2(c, a) == {says(c, a, f) : f \in fixes(a)}
             on == {a \in doc.affected : p.distro = "ubuntu" /\ p.release \in Range(a.ecosystem)}
             cves == Cves \intersect Named(doc)
  <2>1. Said(d, p) = UNION {of2(c, a) : c \in cves, a \in on}
    BY DEF Said, UbuntuSays, Named
  <2>2. \A t : t \in Said(d, p) <=> \E c \in cves : \E a \in on : t \in of2(c, a)
    <3> HIDE DEF of2, on, cves
    <3> QED BY <2>1
  <2> HIDE DEF says, fixes, cves
  <2> QED BY <2>2 DEF cves
<1>4. \A c : c \in Cves \intersect Named(doc) <=> cve # NoCve /\ c = cve
  BY <1>1, CVEOfPlainDocument
<1>5. ASSUME NEW a \in doc.affected, a.name # "", cve # NoCve
      PROVE  MatchPackage(p, AsRead(of(a))) <=>
                /\ p.distro = "ubuntu" /\ p.release \in Range(a.ecosystem)
                /\ Applies(says(cve, a, LastFixed(a.events)), p)
  <2>1. of(a) \in Parse(d).affected
    <3> HIDE DEF of
    <3> QED BY <1>2, <1>5
  <2>2. PICK r \in Parse(d).affected : r = of(a)
    BY <2>1
  <2>3. Parsed(r)
    BY ParsersReturnRows
  <2>4. PICK f \in Strings : f = LastFixed(a.events)
    <3>1. Ascends(p.source, a.events)
      BY <1>5 DEF UbuntuPlain
    <3> QED BY <1>1, <3>1, LastFixIsHighest
  <2>5. PICK release : release = ReleaseOf(a.ecosystem)
    OBVIOUS
  <2>6. release # <<>> /\ p.release # <<>>
        /\ (p.release \in Range(a.ecosystem) <=> p.release = release)
    <3>1. OneRelease(a.ecosystem)
      BY <1>5 DEF UbuntuPlain
    <3>2. /\ IsRelease(release) /\ release \in Range(a.ecosystem)
          /\ \A part \in Range(a.ecosystem) : IsRelease(part) <=> part = release
      BY <1>1, <2>5, <3>1, ReleaseOfPlainPackage
    <3>3. IsRelease(p.release)
      BY DEF UbuntuPlain
    <3>4. ~IsRelease(<<>>)
      BY DEF IsRelease
    <3> QED BY <3>2, <3>3, <3>4
  <2>7. /\ r.distro = "ubuntu" /\ r.release = release /\ r.codename = a.codename
        /\ r.cve = cve /\ r.name = a.name /\ r.fixed = CleanFixedVersion(f)
        /\ r.versions = a.versions
    <3> HIDE DEF cve
    <3> QED BY <2>2, <2>4, <2>5 DEF Row
  <2>8. p.release \in Range(a.ecosystem) /\ a.codename # "" /\ p.codename # "" =>
           p.codename = a.codename
    BY <1>5 DEF UbuntuPlain
  <2>9. Located(p, r) <=> p.distro = "ubuntu" /\ p.release \in Range(a.ecosystem)
    BY <2>6, <2>7, <2>8 DEF Located, DistroMatches, DistroVersionMatches, RHELRowForRPM
  <2>10. \A v : (a.versions # NoList /\ v \in a.versions) <=> v \in AsRead(r).versions
    BY <2>3, <2>7, RowsAsRead DEF Parsed
  <2>11. MatchPackage(p, AsRead(r)) <=> Located(p, r) /\ Applies(Says(cve, a.name, f, a.versions), p)
    <3>1. Ascends(p.source, a.events) /\ \A v \in Range(a.events) : Unsigned(v)
      BY <1>5 DEF UbuntuPlain
    <3>2. f \in Range(a.events) \union {<<>>}
      BY <1>1, <2>4, <3>1, LastFixIsHighest
    <3>3. IsFix(f) => Unsigned(f)
      BY <3>1, <3>2 DEF IsFix
    <3> HIDE DEF cve
    <3> QED BY <2>3, <2>7, <2>10, <3>3, RowsMatchAsSaid DEF Parsed
  <2> QED BY <2>2, <2>4, <2>9, <2>11
<1>6. /\ \A a : of(a).cve = cve
      /\ \A c, a, f : says(c, a, f).cve = c /\ (Applies(says(c, a, f), p) => a.name # "")
  BY DEF Row, Says, Applies
<1>7. ASSUME NEW a \in doc.affected, a.name # "" PROVE LastFixed(a.events) \in fixes(a)
  <2>1. Ascends(p.source, a.events)
    BY <1>7 DEF UbuntuPlain
  <2> QED BY <1>1, <2>1, LastFixIsHighest
<1>8. ASSUME NEW a \in doc.affected, a.name # "", NEW f \in fixes(a), Applies(says(cve, a, f), p)
      PROVE  Applies(says(cve, a, LastFixed(a.events)), p)
  <2>1. Ascends(p.source, a.events) /\ a.events \in Seq(Strings)
    BY <1>1, <1>8 DEF UbuntuPlain
  <2> HIDE DEF cve
  <2> QED BY <1>8, <2>1, LastFixApplies
<1> HIDE DEF of, says, fixes, cve
<1>9. ASSUME NEW r \in Parse(d).affected, MatchPackage(p, AsRead(r))
      PROVE  \E t \in Said(d, p) : t.cve = r.cve /\ Applies(t, p)
  <2>1. PICK a \in doc.affected : cve # NoCve /\ a.name # "" /\ r = of(a)
    BY <1>2
  <2>2. /\ p.distro = "ubuntu" /\ p.release \in Range(a.ecosystem)
        /\ Applies(says(cve, a, LastFixed(a.events)), p)
    BY <1>5, <1>9, <2>1
  <2>3. cve \in Cves \intersect Named(doc) /\ LastFixed(a.events) \in fixes(a)
    BY <1>4, <1>7, <2>1
  <2>4. says(cve, a, LastFixed(a.events)) \in Said(d, p)
    BY <1>3, <2>2, <2>3
  <2>5. says(cve, a, LastFixed(a.events)).cve = r.cve
    <3>1. of(a).cve = cve /\ says(cve, a, LastFixed(a.events)).cve = cve
      BY <1>6
    <3> QED BY <2>1, <3>1
  <2> QED BY <2>2, <2>4, <2>5
<1>10. ASSUME NEW t \in Said(d, p), Applies(t, p)
      PROVE  \E r \in Parse(d).affected : r.cve = t.cve /\ MatchPackage(p, AsRead(r))
  <2>1. PICK c \in Cves \intersect Named(doc) : \E a \in doc.affected :
           p.release \in Range(a.ecosystem) /\ \E f \in fixes(a) : t = says(c, a, f)
    BY <1>3
  <2>2. PICK a \in doc.affected :
           p.release \in Range(a.ecosystem) /\ \E f \in fixes(a) : t = says(c, a, f)
    BY <2>1
  <2>3. PICK f \in fixes(a) : t = says(c, a, f)
    BY <2>2
  <2>4. cve # NoCve /\ c = cve /\ p.distro = "ubuntu" /\ a.name # ""
    BY <1>3, <1>4, <1>6, <1>10, <2>3
  <2>5. Applies(says(cve, a, LastFixed(a.events)), p)
    BY <1>8, <1>10, <2>3, <2>4
  <2>6. MatchPackage(p, AsRead(of(a))) /\ of(a) \in Parse(d).affected
    BY <1>2, <1>5, <2>2, <2>4, <2>5
  <2>7. of(a).cve = t.cve
    <3>1. of(a).cve = cve /\ says(c, a, f).cve = c
      BY <1>6
    <3> QED BY <2>3, <2>4, <3>1
  <2> QED BY <2>6, <2>7
<1> QED BY <1>9, <1>10, VerdictsAgree

(* A tag between two places of a build.                                    *)
TagAt(v, i, j) ==
    /\ v[i] = 101 /\ v[i + 1] = 108 /\ \A k \in i + 2 .. j : v[k] \in Digits
    /\ i = 1 \/ v[i - 1] \in Separator
    /\ j = Len(v) \/ v[j + 1] \in Separator

(* The tags are those at some places.                                      *)
LEMMA TagsAreAtPlaces ==
    ASSUME NEW v, NEW n
    PROVE  n \in Tags(v) <=> \E i, j \in 1 .. Len(v) :
              i + 2 <= j /\ TagAt(v, i, j) /\ n = SubSeq(v, i + 2, j)
<1> DEFINE places == (1 .. Len(v)) \X (1 .. Len(v))
           at(f) == f[1] + 2 <= f[2] /\ TagAt(v, f[1], f[2])
           of(e) == SubSeq(v, e[1] + 2, e[2])
<1>1. Tags(v) = {of(e) : e \in {f \in places : at(f)}}
  BY DEF Tags, TagAt
<1>2. ASSUME n \in Tags(v)
      PROVE  \E i, j \in 1 .. Len(v) : i + 2 <= j /\ TagAt(v, i, j) /\ n = SubSeq(v, i + 2, j)
  <2>1. PICK e \in places : at(e) /\ n = of(e)
    <3> HIDE DEF places, at, of
    <3> QED BY <1>1, <1>2
  <2> QED BY <2>1
<1>3. ASSUME NEW i \in 1 .. Len(v), NEW j \in 1 .. Len(v),
             i + 2 <= j, TagAt(v, i, j), n = SubSeq(v, i + 2, j)
      PROVE  n \in Tags(v)
  <2>1. PICK e \in places : e = <<i, j>>
    OBVIOUS
  <2>2. at(e) /\ n = of(e)
    BY <1>3, <2>1
  <2> HIDE DEF places, at, of
  <2> QED BY <1>1, <2>2
<1> QED BY <1>2, <1>3

(* The digits that follow a place.                                         *)
LEMMA DigitsOfTag ==
    ASSUME NEW v \in Strings, NEW i \in 1 .. Len(v) - 2
    PROVE  /\ DigitsFrom(v, i + 2) \in 0 .. Len(v) - i - 1
           /\ \A k \in i + 2 .. i + 1 + DigitsFrom(v, i + 2) : v[k] \in Digits
           /\ DigitsFrom(v, i + 2) < Len(v) - i - 1 => v[i + 2 + DigitsFrom(v, i + 2)] \notin Digits
<1>1. Len(v) \in Nat /\ v \in Seq(Bytes)
  BY DEF Strings
<1>2. PICK s : s = Drop(v, i + 1)
  OBVIOUS
<1>3. s \in Strings /\ Len(s) = Len(v) - i - 1 /\ \A k \in 1 .. Len(s) : s[k] = v[i + 1 + k]
  BY <1>1, <1>2 DEF Drop, Strings
<1>4. PICK D : D = Span(s, Digits)
  OBVIOUS
<1>5. DigitsFrom(v, i + 2) = D
  <2>1. (i + 2) - 1 = i + 1
    OBVIOUS
  <2> QED BY <1>2, <1>4, <2>1 DEF DigitsFrom
<1>6. /\ D \in 0 .. Len(s)
      /\ \A k \in 1 .. D : s[k] \in Digits
      /\ D < Len(s) => s[D + 1] \notin Digits
  BY <1>3, <1>4, SpanFacts
<1>7. \A k \in i + 2 .. i + 1 + D : v[k] \in Digits
  <2> TAKE k \in i + 2 .. i + 1 + D
  <2>1. k - i - 1 \in 1 .. D /\ k - i - 1 \in 1 .. Len(s) /\ k = i + 1 + (k - i - 1)
    BY <1>1, <1>3, <1>6
  <2> QED BY <1>3, <1>6, <2>1
<1>8. D < Len(s) => v[i + 2 + D] \notin Digits
  <2>1. D < Len(s) => D + 1 \in 1 .. Len(s) /\ i + 1 + (D + 1) = i + 2 + D
    BY <1>1, <1>3, <1>6
  <2>2. D < Len(s) => s[D + 1] = v[i + 1 + (D + 1)]
    BY <1>3, <2>1
  <2> QED BY <1>6, <2>1, <2>2
<1> QED BY <1>1, <1>3, <1>5, <1>6, <1>7, <1>8

(* rpmELVersionPattern finds tags, and finds each of them.                 *)
LEMMA ReleaseTagsAreTags ==
    ASSUME NEW v \in Strings, NEW i
    PROVE  /\ i \in ReleaseTags(v) => /\ i \in 1 .. Len(v) - 2 /\ DigitsFrom(v, i + 2) \in Nat
                                      /\ SubSeq(v, i + 2, i + 1 + DigitsFrom(v, i + 2)) \in Tags(v)
           /\ \A j \in 1 .. Len(v) :
                 i \in 1 .. Len(v) /\ i + 2 <= j /\ TagAt(v, i, j) => i \in ReleaseTags(v)
<1>1. Len(v) \in Nat
  BY BytesOfStrings
<1>2. PICK D : D = DigitsFrom(v, i + 2)
  OBVIOUS
<1>3. i \in ReleaseTags(v) <=>
         /\ i \in 1 .. Len(v) - 2
         /\ v[i] = 101 /\ v[i + 1] = 108 /\ v[i + 2] \in Digits
         /\ i > 1 => v[i - 1] \in Separator
         /\ i + 2 + D <= Len(v) => v[i + 2 + D] \in Separator
  BY <1>2 DEF ReleaseTags
<1>4. Separator \intersect Digits = {}
  BY DEF Separator, Digits, Hyphen
<1>5. i \in 1 .. Len(v) - 2 =>
         /\ D \in 0 .. Len(v) - i - 1
         /\ \A k \in i + 2 .. i + 1 + D : v[k] \in Digits
         /\ D < Len(v) - i - 1 => v[i + 2 + D] \notin Digits
  BY <1>2, DigitsOfTag
<1>6. ASSUME i \in ReleaseTags(v)
      PROVE  i \in 1 .. Len(v) - 2 /\ D \in Nat /\ SubSeq(v, i + 2, i + 1 + D) \in Tags(v)
  <2>1. i \in 1 .. Len(v) - 2 /\ D \in 0 .. Len(v) - i - 1
    BY <1>3, <1>5, <1>6
  <2>2. D # 0
    BY <1>1, <1>3, <1>5, <1>6, <2>1
  <2>3. PICK j \in 1 .. Len(v) : j = i + 1 + D /\ i + 2 <= j /\ j + 1 = i + 2 + D
    BY <1>1, <2>1, <2>2
  <2>4. j = Len(v) \/ v[j + 1] \in Separator
    BY <1>1, <1>3, <1>6, <2>1, <2>3
  <2>5. i = 1 \/ v[i - 1] \in Separator
    BY <1>3, <1>6, <2>1
  <2>6. TagAt(v, i, j) /\ i \in 1 .. Len(v)
    BY <1>1, <1>3, <1>5, <1>6, <2>1, <2>3, <2>4, <2>5 DEF TagAt
  <2>7. SubSeq(v, i + 2, j) \in Tags(v)
    <3> PICK n : n = SubSeq(v, i + 2, j)
      OBVIOUS
    <3>1. \E a, b \in 1 .. Len(v) : a + 2 <= b /\ TagAt(v, a, b) /\ n = SubSeq(v, a + 2, b)
      BY <2>3, <2>6
    <3> QED BY <3>1, TagsAreAtPlaces
  <2> QED BY <2>1, <2>3, <2>7
<1>7. ASSUME NEW j \in 1 .. Len(v), i \in 1 .. Len(v), i + 2 <= j, TagAt(v, i, j)
      PROVE  i \in ReleaseTags(v)
  <2>1. i \in 1 .. Len(v) - 2 /\ i + 2 \in i + 2 .. j
    BY <1>1, <1>7
  <2>2. D \in 0 .. Len(v) - i - 1
    BY <1>5, <2>1
  <2>3. \A k \in i + 2 .. j : v[k] \in Digits
    BY <1>7 DEF TagAt
  <2>4. D <= j - i - 1
    <3> SUFFICES ASSUME D > j - i - 1 PROVE FALSE
      BY <1>1, <1>7, <2>2
    <3>1. j + 1 \in i + 2 .. i + 1 + D /\ j < Len(v)
      BY <1>1, <1>7, <2>1, <2>2
    <3>2. v[j + 1] \in Digits
      BY <1>5, <2>1, <3>1
    <3>3. v[j + 1] \in Separator
      BY <1>1, <1>7, <3>1 DEF TagAt
    <3> QED BY <1>4, <3>2, <3>3
  <2>5. D >= j - i - 1
    <3> SUFFICES ASSUME D < j - i - 1 PROVE FALSE
      BY <1>1, <1>7, <2>2
    <3>1. i + 2 + D \in i + 2 .. j /\ D < Len(v) - i - 1
      BY <1>1, <1>7, <2>1, <2>2
    <3> QED BY <1>5, <2>1, <2>3, <3>1
  <2>6. i + 2 + D = j + 1
    BY <1>1, <1>7, <2>2, <2>4, <2>5
  <2>7. i + 2 + D <= Len(v) => v[i + 2 + D] \in Separator
    BY <1>1, <1>7, <2>6 DEF TagAt
  <2>8. /\ v[i] = 101 /\ v[i + 1] = 108 /\ v[i + 2] \in Digits
        /\ i > 1 => v[i - 1] \in Separator
    BY <1>7, <2>1, <2>3 DEF TagAt
  <2> QED BY <1>3, <2>1, <2>7, <2>8
<1> QED BY <1>2, <1>6, <1>7

(* Where a build has one tag or none, redHatVersionFromFixedEVR finds it.  *)
LEMMA ReleaseOfBuild ==
    ASSUME NEW v \in Strings, NEW el, Tags(v) = IF el = <<>> THEN {} ELSE {el}
    PROVE  RedHatVersionFromFixedEVR(v) = IF el = <<>> THEN <<>> ELSE <<el>>
<1>1. CASE ReleaseTags(v) = {}
  <2>1. Tags(v) = {}
    <3> SUFFICES ASSUME NEW n \in Tags(v) PROVE FALSE
      OBVIOUS
    <3>1. PICK i \in 1 .. Len(v), j \in 1 .. Len(v) : i + 2 <= j /\ TagAt(v, i, j)
      BY TagsAreAtPlaces
    <3> QED BY <1>1, <3>1, ReleaseTagsAreTags
  <2> QED BY <1>1, <2>1 DEF RedHatVersionFromFixedEVR
<1>2. CASE ReleaseTags(v) # {}
  <2>1. ReleaseTags(v) \in SUBSET Nat
    <3>1. \A i \in ReleaseTags(v) : i \in 1 .. Len(v) - 2
      BY ReleaseTagsAreTags
    <3>2. Len(v) \in Nat
      BY BytesOfStrings
    <3> QED BY <3>1, <3>2
  <2>2. PICK i \in ReleaseTags(v) : i = Min(ReleaseTags(v))
    BY <1>2, <2>1, MinIsLeast
  <2>3. PICK D \in Nat : D = DigitsFrom(v, i + 2)
    BY ReleaseTagsAreTags
  <2>4. SubSeq(v, i + 2, i + 1 + D) \in Tags(v)
    BY <2>3, ReleaseTagsAreTags
  <2>5. (i + 2) + D - 1 = i + 1 + D
    BY <2>1
  <2>6. RedHatVersionFromFixedEVR(v) = <<SubSeq(v, i + 2, i + 1 + D)>>
    BY <1>2, <2>2, <2>3, <2>5 DEF RedHatVersionFromFixedEVR
  <2> QED BY <2>4, <2>6
<1> QED BY <1>1, <1>2

(* The rows of a list of CSAF documents: builds with a name and a tag.     *)
Build(b) == b.version \o <<Hyphen>> \o b.release
RedHatRow(b, c) ==
    Row("redhat", "rhel", <<b.el>>, "", c, b.name, Build(b), NoList, "")
MakesRedHatRow(r, b, c) == b.name # "" /\ b.el # <<>> /\ r = RedHatRow(b, c)
UsableBuild(b) ==
    /\ SplitRedHatFixedPackage(b).name # ""
    /\ RedHatVersionFromFixedEVR(SplitRedHatFixedPackage(b).fixed) # <<>>

(* A build begins as its version does.                                     *)
LEMMA JoinedPartsBegin ==
    ASSUME NEW v \in Strings, NEW w \in Strings, v # <<>>
    PROVE  /\ v \o <<Hyphen>> \o w # <<>> /\ v \o <<Hyphen>> \o w # <<48>>
           /\ (v \o <<Hyphen>> \o w)[1] = v[1]
<1>1. Hyphen \in Bytes /\ v \in Seq(Bytes) /\ w \in Seq(Bytes)
  BY DEF Hyphen, Bytes, Strings
<1>2. PICK h : h = Hyphen
  OBVIOUS
<1> HIDE DEF Bytes
<1>3. <<h>> \in Seq(Bytes) /\ Len(<<h>>) = 1
  BY <1>1, <1>2
<1>4. Len(v) \in Nat /\ Len(w) \in Nat /\ Len(v) >= 1
  BY <1>1
<1>5. PICK u : u = v \o <<h>>
  OBVIOUS
<1>6. u \in Seq(Bytes) /\ Len(u) = Len(v) + 1 /\ u[1] = v[1]
  BY <1>1, <1>3, <1>4, <1>5
<1>7. Len(u) \in Nat /\ Len(u) >= 2
  BY <1>4, <1>6
<1>8. u \o w \in Seq(Bytes) /\ Len(u \o w) = Len(u) + Len(w) /\ (u \o w)[1] = u[1]
  BY <1>1, <1>6, <1>7
<1>9. Len(u \o w) >= 2
  BY <1>4, <1>7, <1>8
<1>10. Len(<<>>) = 0 /\ Len(<<48>>) = 1
  OBVIOUS
<1>11. v \o <<Hyphen>> \o w = u \o w
  BY <1>2, <1>5
<1> QED BY <1>6, <1>8, <1>9, <1>10, <1>11

(* In a plain list the usable builds are those, and they are fixes.        *)
LEMMA BuildsOfPlainLists ==
    ASSUME NEW d \in Documents, d.source = "redhat", NEW p, RedHatPlain(d.body, p),
           NEW a \in d.body, NEW b \in a.packages
    PROVE  /\ UsableBuild(b) <=> b.name # "" /\ b.el # <<>>
           /\ UsableBuild(b) => /\ SplitRedHatFixedPackage(b) = [name |-> b.name, fixed |-> Build(b)]
                                /\ RedHatVersionFromFixedEVR(Build(b)) = <<b.el>>
                                /\ Build(b) \in Strings /\ IsFix(Build(b))
<1>1. b.version \in Strings /\ b.release \in Strings
  BY DocumentsAssumption DEF HoldsText
<1>2. Build(b) \in Strings
  BY <1>1, JoinedPartsAreText DEF Build
<1>3. /\ Tags(Build(b)) = IF b.el = <<>> THEN {} ELSE {b.el}
      /\ b.el # <<>> => <<>> \notin {b.version, b.release} /\ b.version[1] # Less
  BY DEF RedHatPlain, Build
<1>4. RedHatVersionFromFixedEVR(Build(b)) = IF b.el = <<>> THEN <<>> ELSE <<b.el>>
  BY <1>2, <1>3, ReleaseOfBuild
<1>5. SplitRedHatFixedPackage(b) =
         IF b.name = "" \/ b.version = <<>> \/ b.release = <<>>
         THEN [name |-> "", fixed |-> <<>>] ELSE [name |-> b.name, fixed |-> Build(b)]
  BY DEF SplitRedHatFixedPackage, Build
<1>6. b.el # <<>> => IsFix(Build(b))
  <2> SUFFICES ASSUME b.el # <<>> PROVE IsFix(Build(b))
    OBVIOUS
  <2>1. b.version # <<>> /\ b.version[1] # Less
    BY <1>3
  <2>2. Build(b) # <<>> /\ Build(b) # <<48>> /\ Build(b)[1] = b.version[1]
    BY <1>1, <2>1, JoinedPartsBegin DEF Build
  <2> QED BY <2>1, <2>2 DEF IsFix
<1>7. /\ SplitRedHatFixedPackage(b).name # "" =>
            /\ b.name # "" /\ SplitRedHatFixedPackage(b) = [name |-> b.name, fixed |-> Build(b)]
            /\ SplitRedHatFixedPackage(b).fixed = Build(b)
      /\ b.name # "" /\ b.version # <<>> /\ b.release # <<>> =>
            SplitRedHatFixedPackage(b).name # ""
  <2> PICK g : g = Build(b)
    OBVIOUS
  <2> PICK n : n = b.name
    OBVIOUS
  <2>1. CASE b.name = "" \/ b.version = <<>> \/ b.release = <<>>
    <3>1. SplitRedHatFixedPackage(b) = [name |-> "", fixed |-> <<>>]
      BY <1>5, <2>1
    <3>2. PICK e : e = <<>>
      OBVIOUS
    <3>3. PICK empty : empty = ""
      OBVIOUS
    <3>4. SplitRedHatFixedPackage(b) = [name |-> empty, fixed |-> e]
      BY <3>1, <3>2, <3>3
    <3>5. SplitRedHatFixedPackage(b).name = empty
      BY <3>4
    <3>6. SplitRedHatFixedPackage(b).name = ""
      BY <3>3, <3>5
    <3> QED BY <2>1, <3>6
  <2>2. CASE b.name # "" /\ b.version # <<>> /\ b.release # <<>>
    <3>1. SplitRedHatFixedPackage(b) = [name |-> b.name, fixed |-> Build(b)]
      BY <1>5, <2>2
    <3>2. SplitRedHatFixedPackage(b).name = b.name /\ SplitRedHatFixedPackage(b).fixed = Build(b)
      BY <3>1
    <3> QED BY <2>2, <3>1, <3>2
  <2> QED BY <2>1, <2>2
<1>8. CASE b.el = <<>>
  <2>1. RedHatVersionFromFixedEVR(Build(b)) = <<>>
    BY <1>4, <1>8
  <2> QED BY <1>8, <1>7, <2>1 DEF UsableBuild
<1>9. CASE b.el # <<>>
  <2>1. <<b.el>> # <<>>
    OBVIOUS
  <2>2. RedHatVersionFromFixedEVR(Build(b)) = <<b.el>>
    BY <1>4, <1>9
  <2>3. b.version # <<>> /\ b.release # <<>>
    BY <1>3, <1>9
  <2> QED BY <1>2, <1>6, <1>9, <1>7, <2>1, <2>2, <2>3 DEF UsableBuild
<1> QED BY <1>8, <1>9

(* ParseRedHatCSAFList makes a row of each of them, and no other.          *)
LEMMA RedHatRows ==
    ASSUME NEW d \in Documents, d.source = "redhat", NEW p, RedHatPlain(d.body, p), NEW r
    PROVE  r \in Parse(d).affected <=>
              \E a \in d.body : \E b \in a.packages, c \in CvesOf(a) : MakesRedHatRow(r, b, c)
<1> DEFINE split(b) == SplitRedHatFixedPackage(b)
           usable(b) == /\ split(b).name # ""
                        /\ RedHatVersionFromFixedEVR(split(b).fixed) # <<>>
           fixes(a) == {b \in a.packages : usable(b)} \X CvesOf(a)
           of(f) == Row("redhat", "rhel", RedHatVersionFromFixedEVR(split(f[1]).fixed), "",
                        f[2], split(f[1]).name, split(f[1]).fixed, NoList, "")
           all == UNION {fixes(a) : a \in d.body}
<1>1. Parse(d).affected = {of(f) : f \in all}
  BY DEF Parse, ParseRedHatCSAFList, CvesOf
<1>2. \A f : f \in all <=> \E a \in d.body : f \in fixes(a)
  <2> HIDE DEF fixes
  <2> QED OBVIOUS
<1>3. \A b : usable(b) <=> UsableBuild(b)
  BY DEF UsableBuild
<1>4. ASSUME NEW a \in d.body, NEW b \in a.packages, NEW c, UsableBuild(b)
      PROVE  of(<<b, c>>) = RedHatRow(b, c)
  <2>1. /\ split(b) = [name |-> b.name, fixed |-> Build(b)]
        /\ RedHatVersionFromFixedEVR(Build(b)) = <<b.el>>
    BY <1>4, BuildsOfPlainLists
  <2>2. split(b).name = b.name /\ split(b).fixed = Build(b)
    <3> HIDE DEF split
    <3> QED BY <2>1
  <2>3. of(<<b, c>>) = Row("redhat", "rhel", RedHatVersionFromFixedEVR(split(b).fixed), "",
                           c, split(b).name, split(b).fixed, NoList, "")
    <3> HIDE DEF split
    <3> QED OBVIOUS
  <2> HIDE DEF of, split
  <2> QED BY <2>1, <2>2, <2>3 DEF RedHatRow
<1> HIDE DEF all
<1>5. ASSUME r \in Parse(d).affected
      PROVE  \E a \in d.body : \E b \in a.packages, c \in CvesOf(a) : MakesRedHatRow(r, b, c)
  <2>1. PICK f \in all : r = of(f)
    <3> HIDE DEF of
    <3> QED BY <1>1, <1>5
  <2>2. PICK a \in d.body : f \in fixes(a)
    BY <1>2
  <2>3. PICK b \in a.packages, c \in CvesOf(a) : f = <<b, c>> /\ usable(b)
    <3> HIDE DEF usable
    <3> QED BY <2>2
  <2>4. UsableBuild(b)
    BY <1>3, <2>3
  <2>5. r = RedHatRow(b, c)
    <3> HIDE DEF of, usable
    <3> QED BY <1>4, <2>1, <2>3, <2>4
  <2>6. b.name # "" /\ b.el # <<>>
    BY <2>4, BuildsOfPlainLists
  <2> QED BY <2>5, <2>6 DEF MakesRedHatRow
<1>6. ASSUME NEW a \in d.body, NEW b \in a.packages, NEW c \in CvesOf(a), MakesRedHatRow(r, b, c)
      PROVE  r \in Parse(d).affected
  <2>1. UsableBuild(b) /\ r = RedHatRow(b, c)
    BY <1>6, BuildsOfPlainLists DEF MakesRedHatRow
  <2>2. PICK f : f = <<b, c>>
    OBVIOUS
  <2>3. f \in all
    <3>1. usable(b)
      BY <1>3, <2>1
    <3>2. f \in fixes(a)
      <4> HIDE DEF usable
      <4> QED BY <2>2, <3>1
    <3> HIDE DEF fixes
    <3> QED BY <1>2, <3>2
  <2>4. r = of(f)
    <3> HIDE DEF of
    <3> QED BY <1>4, <2>1, <2>2
  <2> HIDE DEF of
  <2> QED BY <1>1, <2>3, <2>4
<1> QED BY <1>5, <1>6

(* A major release stands for the releases that begin with it.             *)
LEMMA MajorRelease ==
    ASSUME NEW t \in Seq(Strings), t # <<>>, NEW x \in Strings
    PROVE  t = <<x>> \/ (Len(<<x>>) = 1 /\ IsStrictPrefix(<<x>>, t)) <=> t[1] = x
<1>1. <<x>> \in Seq(Strings) /\ Len(<<x>>) = 1 /\ <<x>>[1] = x
  OBVIOUS
<1>2. Len(t) \in Nat /\ Len(t) >= 1
  OBVIOUS
<1>3. /\ SubSeq(t, 1, 1) \in Seq(Strings) /\ Len(SubSeq(t, 1, 1)) = 1
      /\ SubSeq(t, 1, 1)[1] = t[1]
  BY <1>2
<1>4. PICK s : s = <<x>>
  OBVIOUS
<1>5. s \in Seq(Strings) /\ Len(s) = 1 /\ s[1] = x
  BY <1>1, <1>4
<1>6. SubSeq(s, 1, 1) = s
  <2>1. /\ SubSeq(s, 1, 1) \in Seq(Strings) /\ Len(SubSeq(s, 1, 1)) = 1
        /\ SubSeq(s, 1, 1)[1] = s[1]
    BY <1>5
  <2> QED BY <1>5, <2>1
<1>7. s = SubSeq(t, 1, 1) <=> t[1] = x
  BY <1>3, <1>5
<1>8. IsPrefix(s, t) <=> t[1] = x
  <2>1. Len(s) <= Len(t)
    BY <1>2, <1>5
  <2>2. IsPrefix(s, t) <=> SubSeq(s, 1, 1) = SubSeq(t, 1, 1)
    BY <1>5, <2>1 DEF IsPrefix
  <2> QED BY <1>6, <1>7, <2>2
<1>9. t = s => t[1] = x
  BY <1>5
<1> QED BY <1>4, <1>5, <1>8, <1>9 DEF IsStrictPrefix

(* The rows of a plain list of CSAF documents flag what it says.           *)
LEMMA RedHatVerdicts ==
    ASSUME NEW d \in Documents, d.source = "redhat", NEW p, Reported(p), RedHatPlain(d.body, p)
    PROVE  Flagged(p, {AsRead(r) : r \in Parse(d).affected}) = Advised(d, p)
<1> DEFINE says(b, c) == Says(c, b.name, Build(b), {})
           for(b) == p.source = "rpm" /\ IsRHELCompatibleDistro(p) /\ b.el = p.release[1]
<1>1. \A r : r \in Parse(d).affected <=>
         \E a \in d.body : \E b \in a.packages, c \in CvesOf(a) : MakesRedHatRow(r, b, c)
  BY RedHatRows
<1>2. \A t : t \in Said(d, p) <=>
         \E a \in d.body : \E b \in a.packages, c \in CvesOf(a) : for(b) /\ t = says(b, c)
  <2> DEFINE builds(a) == {b \in a.packages : IsRHELCompatibleDistro(p) /\ b.el = p.release[1]}
             of(a) == {says(b, c) : c \in CvesOf(a), b \in builds(a)}
  <2>1. RedHatSays(d.body, p) = UNION {of(a) : a \in d.body}
    BY DEF RedHatSays, Build, CvesOf
  <2>2. Said(d, p) = IF p.source = "rpm" THEN RedHatSays(d.body, p) ELSE {}
    BY DEF Said
  <2>3. \A t : t \in RedHatSays(d.body, p) <=> \E a \in d.body : t \in of(a)
    <3> HIDE DEF of
    <3> QED BY <2>1
  <2>4. \A a, t : t \in of(a) <=> \E b \in a.packages, c \in CvesOf(a) :
                     IsRHELCompatibleDistro(p) /\ b.el = p.release[1] /\ t = says(b, c)
    <3> HIDE DEF says
    <3> QED OBVIOUS
  <2> HIDE DEF of, says
  <2> QED BY <2>2, <2>3, <2>4
<1>3. ASSUME NEW a \in d.body, NEW b \in a.packages, NEW c \in CvesOf(a), b.name # "", b.el # <<>>
      PROVE  MatchPackage(p, AsRead(RedHatRow(b, c))) <=> for(b) /\ Applies(says(b, c), p)
  <2>1. RedHatRow(b, c) \in Parse(d).affected
    BY <1>1, <1>3 DEF MakesRedHatRow
  <2>2. PICK r \in Parse(d).affected : r = RedHatRow(b, c)
    BY <2>1
  <2>3. Parsed(r)
    BY ParsersReturnRows
  <2>4. Build(b) \in Strings /\ CleanFixedVersion(Build(b)) = Build(b)
    BY <1>3, BuildsOfPlainLists, FixesAreClean
  <2>5. /\ r.distro = "rhel" /\ r.release = <<b.el>> /\ r.codename = ""
        /\ r.cve = c /\ r.name = b.name /\ r.fixed = Build(b)
        /\ r.versions = NoList
    BY <2>2 DEF RedHatRow, Row
  <2>6. b.el \in Strings
    <3>1. r.release \in Seq(Strings)
      BY <2>3 DEF Parsed, AffectedPackages
    <3>2. PICK s \in Seq(Strings) : s = <<b.el>>
      BY <2>5, <3>1
    <3>3. 1 \in 1 .. Len(s) /\ s[1] = b.el
      BY <3>2
    <3> QED BY <3>3
  <2>7. p.release \in Seq(Strings) /\ p.release # <<>> /\ (p.distro = "rhel" => p.source = "rpm")
    BY DEF Reported, InstalledPackages, RedHatPlain
  <2>8. DistroMatches(p, r) <=> p.source = "rpm" /\ IsRHELCompatibleDistro(p)
    BY <2>5, <2>7 DEF DistroMatches, RHELRowForRPM, IsRHELCompatibleDistro, RHELCompatible
  <2>9. RHELRowForRPM(p, r) <=> p.source = "rpm" /\ IsRHELCompatibleDistro(p)
    BY <2>5 DEF RHELRowForRPM
  <2>10. DistroMatches(p, r) => (DistroVersionMatches(p, r) <=> b.el = p.release[1])
    BY <2>5, <2>6, <2>7, <2>8, <2>9, MajorRelease DEF DistroVersionMatches
  <2>11. Located(p, r) <=> for(b)
    <3>1. <<b.el>> # <<>>
      OBVIOUS
    <3> QED BY <2>5, <2>7, <2>8, <2>10, <3>1 DEF Located
  <2>12. MatchPackage(p, AsRead(r)) <=> Located(p, r) /\ Applies(Says(c, b.name, Build(b), {}), p)
    <3>1. Unsigned(Build(b))
      BY DEF RedHatPlain, Build
    <3> QED BY <2>3, <2>4, <2>5, <3>1, FixesOnly
  <2> QED BY <2>2, <2>11, <2>12
<1>4. \A b, c : RedHatRow(b, c).cve = c /\ says(b, c).cve = c
  BY DEF RedHatRow, Row, Says
<1>5. \A b, c : Applies(says(b, c), p) => b.name # ""
  BY DEF Applies, Says
<1>6. \A b : for(b) => b.el # <<>>
  BY DEF RedHatPlain
<1> HIDE DEF says, for
<1>7. ASSUME NEW r \in Parse(d).affected, MatchPackage(p, AsRead(r))
      PROVE  \E t \in Said(d, p) : t.cve = r.cve /\ Applies(t, p)
  <2>1. PICK a \in d.body : \E b \in a.packages, c \in CvesOf(a) : MakesRedHatRow(r, b, c)
    BY <1>1
  <2>2. PICK b \in a.packages, c \in CvesOf(a) : MakesRedHatRow(r, b, c)
    BY <2>1
  <2>3. b.name # "" /\ b.el # <<>> /\ r = RedHatRow(b, c)
    BY <2>2 DEF MakesRedHatRow
  <2>4. for(b) /\ Applies(says(b, c), p)
    BY <1>3, <1>7, <2>3
  <2>5. says(b, c) \in Said(d, p)
    BY <1>2, <2>4
  <2>6. says(b, c).cve = r.cve
    <3>1. RedHatRow(b, c).cve = c /\ says(b, c).cve = c
      BY <1>4
    <3> QED BY <2>3, <3>1
  <2> QED BY <2>4, <2>5, <2>6
<1>8. ASSUME NEW t \in Said(d, p), Applies(t, p)
      PROVE  \E r \in Parse(d).affected : r.cve = t.cve /\ MatchPackage(p, AsRead(r))
  <2>1. PICK a \in d.body : \E b \in a.packages, c \in CvesOf(a) : for(b) /\ t = says(b, c)
    BY <1>2
  <2>2. PICK b \in a.packages, c \in CvesOf(a) : for(b) /\ t = says(b, c)
    BY <2>1
  <2>3. b.name # "" /\ b.el # <<>>
    BY <1>5, <1>6, <1>8, <2>2
  <2>4. MatchPackage(p, AsRead(RedHatRow(b, c)))
    BY <1>3, <1>8, <2>2, <2>3
  <2>5. RedHatRow(b, c) \in Parse(d).affected
    BY <1>1, <2>3 DEF MakesRedHatRow
  <2>6. RedHatRow(b, c).cve = t.cve
    <3>1. RedHatRow(b, c).cve = c /\ says(b, c).cve = c
      BY <1>4
    <3> QED BY <2>2, <3>1
  <2> QED BY <2>4, <2>5, <2>6
<1> QED BY <1>7, <1>8, VerdictsAgree

(* The rows of a document of the form the parsers count on flag every      *)
(* package for exactly the CVEs the document says it has: for all          *)
(* documents, packages and versions, and for each of the four parsers.     *)
THEOREM VerdictsFollowDocuments == Spec => []VerdictFollowsDocument
<1>1. TypeOK => VerdictFollowsDocument
  <2> SUFFICES ASSUME TypeOK, fetched # Quiet, Plain(fetched, package)
               PROVE  Flagged(package, {AsRead(row) : row \in Parse(fetched).affected})
                         = Advised(fetched, package)
    BY DEF VerdictFollowsDocument
  <2>1. fetched \in Documents /\ package \in InstalledPackages
    BY PackagesAssumption DEF TypeOK
  <2>2. Reported(package)
    BY <2>1 DEF Reported, Plain
  <2>3. CASE fetched.source = "debian"
    BY <2>1, <2>2, <2>3, DebianVerdicts DEF Plain
  <2>4. CASE fetched.source = "alpine"
    BY <2>1, <2>2, <2>4, AlpineVerdicts DEF Plain
  <2>5. CASE fetched.source = "ubuntu"
    BY <2>1, <2>2, <2>5, UbuntuVerdicts DEF Plain
  <2>6. CASE fetched.source = "redhat"
    BY <2>1, <2>2, <2>6, RedHatVerdicts DEF Plain
  <2> QED BY <2>3, <2>4, <2>5, <2>6 DEF Plain
<1> QED BY <1>1, RowsAreTypedAlways, PTL
=============================================================================
