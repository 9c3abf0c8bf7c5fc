----------------------------- MODULE VersionOrder -----------------------------
(***************************************************************************)
(* CompareDistroVersion (internal/vuln/version.go): the version orders of  *)
(* dpkg, rpm and apk.  A version is the sequence of its bytes, ASCII, since*)
(* the classes and the order of the bytes are what the code looks at.      *)
(* Results are -1, 0 or 1, as normalizeCompare leaves them.                *)
(***************************************************************************)
EXTENDS Integers, SequencesExt

CONSTANT MaxInt      \* math.MaxInt, 2^63 - 1
ASSUME IntAssumption == MaxInt \in Nat /\ MaxInt >= 2

Plus == 43
Hyphen == 45
Colon == 58
Tilde == 126
Bytes == 0 .. 127
Digits == 48 .. 57
NonDigits == Bytes \ Digits
Letters == 65 .. 90 \union 97 .. 122
Strings == Seq(Bytes)

Sign(n) == IF n < 0 THEN -1 ELSE IF n > 0 THEN 1 ELSE 0

(* The difference of two ints is an int: what does not fit wraps around.   *)
InInt(n) == -MaxInt - 1 <= n /\ n <= MaxInt
Minus(m, n) ==
    LET d == m - n
    IN  IF d > MaxInt THEN d - 2 * (MaxInt + 1)
        ELSE IF d < -MaxInt - 1 THEN d + 2 * (MaxInt + 1) ELSE d

(* The first comparison that decides.                                      *)
Then(c, d) == IF c # 0 THEN c ELSE d

Take(s, n) == SubSeq(s, 1, n)
Drop(s, n) == SubSeq(s, n + 1, Len(s))

(* The length of the longest prefix of s with all its bytes in class.      *)
Span(s, class) == LET i == SelectInSeq(s, LAMBDA c : c \notin class)
                  IN  IF i = 0 THEN Len(s) ELSE i - 1
Prefix(s, class) == Take(s, Span(s, class))
After(s, class) == Drop(s, Span(s, class))

(* The first place at which two strings differ decides.                    *)
LexCompare(Order(_, _), a, b) ==
    LET differ == {i \in 1 .. Len(a) + Len(b) : Order(a, i) # Order(b, i)}
    IN  IF differ = {} THEN 0
        ELSE Sign(Order(a, Min(differ)) - Order(b, Min(differ)))

(* strings.Compare: what has ended is before what goes on.                 *)
ByteOrder(s, i) == IF i > Len(s) THEN -1 ELSE s[i]
BytesCompare(a, b) == LexCompare(ByteOrder, a, b)

(* compareNumericStrings: without leading zeros, the longer is the larger. *)
NumericCompare(a, b) ==
    LET x == After(a, {48})
        y == After(b, {48})
    IN  Then(Sign(Len(x) - Len(y)), BytesCompare(x, y))

Value[s \in Strings] == IF s = <<>> THEN 0 ELSE 10 * Value[Front(s)] + Last(s) - 48

(* strconv.Atoi accepts a sign and refuses what is no int: it is no epoch  *)
(* then but a part of the version.                                         *)
IsNumber(s) ==
    LET t == Drop(s, IF s # <<>> /\ s[1] \in {Plus, Hyphen} THEN 1 ELSE 0)
    IN  t # <<>> /\ Span(t, Digits) = Len(t)
Number(s) == CASE s[1] = Hyphen -> -Value[Tail(s)]
               [] s[1] = Plus -> Value[Tail(s)]
               [] OTHER -> Value[s]

(* splitEpoch, and the first half of splitDebianVersion.                   *)
SplitEpoch(v) ==
    LET i == SelectInSeq(v, LAMBDA c : c = Colon)
    IN  IF i > 0 /\ IsNumber(Take(v, i - 1)) /\ InInt(Number(Take(v, i - 1)))
        THEN [epoch |-> Number(Take(v, i - 1)), rest |-> Drop(v, i)]
        ELSE [epoch |-> 0, rest |-> v]

-----------------------------------------------------------------------------
(* dpkg.                                                                   *)

SplitRevision(v) ==
    LET i == SelectLastInSeq(v, LAMBDA c : c = Hyphen)
    IN  IF i = 0 THEN [upstream |-> v, revision |-> <<>>]
        ELSE [upstream |-> Take(v, i - 1), revision |-> Drop(v, i)]

(* A bug for comparison: the tilde is a character as any other.            *)
DebianOrderWithoutTilde(s, i) ==
    IF i > Len(s) THEN 0 ELSE IF s[i] \in Letters THEN s[i] ELSE s[i] + 256

(* debianOrderChar of what is left of s from its i-th byte on.             *)
DebianOrder(s, i) ==
    IF i > Len(s) THEN 0
    ELSE IF s[i] = Tilde THEN -1
    ELSE IF s[i] \in Letters THEN s[i] ELSE s[i] + 256

(* What debianPartCompare compares in one round, and what it leaves.       *)
DebianRound(a, b) ==
    Then(LexCompare(DebianOrder, Prefix(a, NonDigits), Prefix(b, NonDigits)),
         NumericCompare(Prefix(After(a, NonDigits), Digits),
                        Prefix(After(b, NonDigits), Digits)))
DebianRest(s) == After(After(s, NonDigits), Digits)

DebianPartCompare[p \in Strings \X Strings] ==
    IF p = <<<<>>, <<>>>> THEN 0
    ELSE Then(DebianRound(p[1], p[2]),
              DebianPartCompare[<<DebianRest(p[1]), DebianRest(p[2])>>])

DebianCompare(a, b) ==
    LET ae == SplitEpoch(a)   ar == SplitRevision(ae.rest)
        be == SplitEpoch(b)   br == SplitRevision(be.rest)
    IN  Then(Sign(Minus(ae.epoch, be.epoch)),
        Then(DebianPartCompare[<<ar.upstream, br.upstream>>],
             DebianPartCompare[<<ar.revision, br.revision>>]))

-----------------------------------------------------------------------------
(* rpm.                                                                    *)

RPMSeparators == Bytes \ (Digits \union Letters \union {Tilde})
RPMAlpha == Letters \union {Tilde}

(* rpmvercmp: separators only end parts; a numeric part is later than one  *)
(* of letters; what is left over makes its version the later one.          *)
Strip(s) == After(s, RPMSeparators)
RPMClass(s) == IF s[1] \in Digits THEN Digits ELSE RPMAlpha
RPMRound(x, y) ==
    IF x = <<>> \/ y = <<>> THEN Sign(Len(x) - Len(y))
    ELSE IF RPMClass(x) # RPMClass(y) THEN IF RPMClass(x) = Digits THEN 1 ELSE -1
    ELSE IF RPMClass(x) = Digits
         THEN NumericCompare(Prefix(x, Digits), Prefix(y, Digits))
         ELSE BytesCompare(Prefix(x, RPMAlpha), Prefix(y, RPMAlpha))
RPMRest(x) == After(x, RPMClass(x))

RPMPartCompare[p \in Strings \X Strings] ==
    LET x == Strip(p[1])
        y == Strip(p[2])
    IN  IF x = <<>> \/ y = <<>> THEN RPMRound(x, y)
        ELSE Then(RPMRound(x, y), RPMPartCompare[<<RPMRest(x), RPMRest(y)>>])

RPMCompare(a, b) ==
    LET ae == SplitEpoch(a)
        be == SplitEpoch(b)
    IN  Then(Sign(Minus(ae.epoch, be.epoch)), RPMPartCompare[<<ae.rest, be.rest>>])

-----------------------------------------------------------------------------
(* apk, and every source the code has no order for.                        *)

NaturalClass(s) == IF s[1] \in Digits THEN Digits ELSE NonDigits
NaturalPart(s) == Prefix(s, NaturalClass(s))
NaturalRound(a, b) ==
    IF a = <<>> \/ b = <<>> THEN Sign(Len(a) - Len(b))
    ELSE IF a[1] \in Digits /\ b[1] \in Digits
         THEN NumericCompare(NaturalPart(a), NaturalPart(b))
         ELSE BytesCompare(NaturalPart(a), NaturalPart(b))
NaturalRest(s) == After(s, NaturalClass(s))

NaturalCompare[p \in Strings \X Strings] ==
    IF p[1] = <<>> \/ p[2] = <<>> THEN NaturalRound(p[1], p[2])
    ELSE Then(NaturalRound(p[1], p[2]),
              NaturalCompare[<<NaturalRest(p[1]), NaturalRest(p[2])>>])

DebianSources == {"dpkg", "apt", "ubuntu", "debian"}
RPMSources == {"rpm", "dnf", "yum", "redhat", "rhel", "fedora", "centos"}
CompareDistroVersion(source, a, b) ==
    IF source \in DebianSources THEN DebianCompare(a, b)
    ELSE IF source \in RPMSources THEN RPMCompare(a, b)
    ELSE NaturalCompare[<<a, b>>]
=============================================================================
