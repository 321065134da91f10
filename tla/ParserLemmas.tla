---------------------------- MODULE ParserLemmas ----------------------------
(***************************************************************************)
(* What has been read of a request, by positions in the client's stream:   *)
(* what a byte adds to it in each state of the two tables of HttpParse,     *)
(* and what it says of the request the reference finds there.  Then the    *)
(* reference for paths: what the next escape adds to the decoded path, how *)
(* a path falls into segments, and which of them a ".." takes back.        *)
(***************************************************************************)
EXTENDS ExchangeProofs, FiniteSetTheorems
-----------------------------------------------------------------------------
(* What the parsers have read, by positions in the client's stream.         *)

AllOf(t, i, j, S)  == \A k \in i..j : t[k] \in S
NoneOf(t, i, j, S) == \A k \in i..j : t[k] \notin S

\* The parts of a request line of t, behind position b: the word starts at a and
\* ends before m, the URI starts at u and ends before v, HTTP starts at h, the dot
\* of the version is at d, its last digit before z, and the line ends at e.
WordAt(t, b, a)   == b < a /\ AllOf(t, b + 1, a - 1, {CR, LF}) /\ t[a] \in Upper
WordTo(t, a, m)   == a < m /\ AllOf(t, a, m - 1, Upper) /\ t[m] = SP
UriAt(t, m, u)    == m < u /\ AllOf(t, m, u - 1, {SP}) /\ t[u] = "/"
UriTo(t, u, v)    == u < v /\ NoneOf(t, u, v - 1, {SP}) /\ t[v] = SP
SpacesTo(t, v, h) == v < h /\ AllOf(t, v, h - 1, {SP})
HttpAt(t, h, k)   == /\ t[h] = "H" /\ (k > 0 => t[h + 1] = "T") /\ (k > 1 => t[h + 2] = "T")
                     /\ (k > 2 => t[h + 3] = "P") /\ (k > 3 => t[h + 4] = "/")
MajorTo(t, h, d)  == h + 5 < d /\ t[h + 5] \in Digit \ {"0"} /\ AllOf(t, h + 5, d - 1, Digit)
MinorTo(t, d, z)  == d + 1 < z /\ AllOf(t, d + 1, z - 1, Digit)
LineTo(t, z, e)   == /\ z <= e /\ t[e] = LF
                     /\ \/ AllOf(t, z, e - 1, {SP})
                        \/ z < e /\ AllOf(t, z, e - 2, {SP}) /\ t[e - 1] = CR

MethodUri(t, b, a, m, u, v) == WordAt(t, b, a) /\ WordTo(t, a, m) /\ UriAt(t, m, u) /\ UriTo(t, u, v)
DotAt(t, v, h, d) == SpacesTo(t, v, h) /\ HttpAt(t, h, 4) /\ MajorTo(t, h, d) /\ t[d] = "."

\* What the numbers w of the version tell apart.
MajorIs(t, w, h, d) == w.major >= 1 /\ (w.major = 1 <=> d = h + 6 /\ t[h + 5] = "1")
MinorIs(t, w, d, n) == w.minor >= 1 <=> \E i \in (d + 1)..n : t[i] \in Digit \ {"0"}

\* The request-line parser is in state st behind position n of t.
LineAt(t, b, st, n, a, m, u, v, w) ==
    /\ st = "start" => AllOf(t, b + 1, n, {CR, LF})
    /\ st = "method" => b < a /\ a <= n /\ AllOf(t, b + 1, a - 1, {CR, LF}) /\ AllOf(t, a, n, Upper)
    /\ st = "spaces_before_uri" => WordAt(t, b, a) /\ WordTo(t, a, m) /\ m <= n /\ AllOf(t, m, n, {SP})
    /\ st = "after_slash_in_uri" =>
         WordAt(t, b, a) /\ WordTo(t, a, m) /\ UriAt(t, m, u) /\ u <= n /\ NoneOf(t, u, n, {SP})
    /\ st \notin {"start", "method", "spaces_before_uri", "after_slash_in_uri"} =>
         MethodUri(t, b, a, m, u, v) /\ v <= n
    /\ st = "http" => AllOf(t, v, n, {SP})
    /\ st = "http_H" => SpacesTo(t, v, n) /\ HttpAt(t, n, 0)
    /\ st = "http_HT" => SpacesTo(t, v, n - 1) /\ HttpAt(t, n - 1, 1)
    /\ st = "http_HTT" => SpacesTo(t, v, n - 2) /\ HttpAt(t, n - 2, 2)
    /\ st = "http_HTTP" => SpacesTo(t, v, n - 3) /\ HttpAt(t, n - 3, 3)
    /\ st = "first_major_digit" => SpacesTo(t, v, n - 4) /\ HttpAt(t, n - 4, 4)
    /\ st = "major_digit" => \E h \in v..n :
         SpacesTo(t, v, h) /\ HttpAt(t, h, 4) /\ MajorTo(t, h, n + 1) /\ MajorIs(t, w, h, n + 1)
    /\ st = "first_minor_digit" => \E h \in v..n : DotAt(t, v, h, n) /\ MajorIs(t, w, h, n)
    /\ st = "minor_digit" => \E h, d \in v..n :
         DotAt(t, v, h, d) /\ MajorIs(t, w, h, d) /\ MinorTo(t, d, n + 1) /\ MinorIs(t, w, d, n)
    /\ st = "spaces_after_digit" => \E h, d, z \in v..n :
         DotAt(t, v, h, d) /\ MajorIs(t, w, h, d) /\ MinorTo(t, d, z) /\ MinorIs(t, w, d, n) /\ AllOf(t, z, n, {SP})
    /\ st = "almost_done" => \E h, d, z \in v..n :
         /\ DotAt(t, v, h, d) /\ MajorIs(t, w, h, d) /\ MinorTo(t, d, z) /\ MinorIs(t, w, d, n)
         /\ AllOf(t, z, n - 1, {SP}) /\ t[n] = CR

\* The whole line, up to its line feed at e.
LineRead(t, b, a, m, u, v, w, e) ==
    /\ MethodUri(t, b, a, m, u, v)
    /\ \E h, d, z \in v..e :
         DotAt(t, v, h, d) /\ MajorIs(t, w, h, d) /\ MinorTo(t, d, z) /\ MinorIs(t, w, d, e) /\ LineTo(t, z, e)

\* The parts of a header line of t that starts at p: the key ends before ke, the
\* colon is at c, the value starts at vs and the line ends at ve, CR LF.  A first
\* line does not start with LF.
KeyAt(t, from, p)     == t[p] # CR /\ (p = from => t[p] # LF)
KeyTo(t, p, ke)       == p < ke /\ NoneOf(t, p + 1, ke - 1, {SP, ":"}) /\ t[ke] \in {SP, ":"}
ColonAt(t, ke, c)     == ke <= c /\ AllOf(t, ke, c - 1, {SP}) /\ t[c] = ":"
ValueAt(t, c, vs)     == c < vs /\ AllOf(t, c + 1, vs - 1, {SP}) /\ t[vs] # SP
ValueTo(t, vs, ve)    == vs < ve /\ NoneOf(t, vs + 1, ve - 1, {CR, LF}) /\ t[ve] = CR
HeaderRead(t, from, p, ke, vs, ve) ==
    /\ KeyAt(t, from, p) /\ KeyTo(t, p, ke)
    /\ \E c \in ke..vs : ColonAt(t, ke, c) /\ ValueAt(t, c, vs)
    /\ ValueTo(t, vs, ve) /\ t[ve + 1] = LF

\* The header parser is in state st behind position n of t, in the line that
\* starts at p.
HeaderAt(t, from, st, n, p, ks, ke, vs, ve) ==
    /\ st \in {"start", "crlf"} => n = p - 1
    /\ st = "start" => p = from
    /\ st = "crlf" => p # from
    /\ st = "crlfcr" => n = p /\ t[p] = CR
    /\ st \in {"key", "spaces_before_colon", "spaces_after_colon", "value", "cr"} =>
         KeyAt(t, from, p) /\ ks = p /\ p <= n
    /\ st = "key" => NoneOf(t, p + 1, n, {SP, ":"})
    /\ st \in {"spaces_before_colon", "spaces_after_colon", "value", "cr"} => KeyTo(t, p, ke) /\ ke <= n
    /\ st = "spaces_before_colon" => AllOf(t, ke, n, {SP})
    /\ st = "spaces_after_colon" => \E c \in ke..n : ColonAt(t, ke, c) /\ AllOf(t, c + 1, n, {SP})
    /\ st \in {"value", "cr"} => vs <= n /\ \E c \in ke..vs : ColonAt(t, ke, c) /\ ValueAt(t, c, vs)
    /\ st = "value" => NoneOf(t, vs + 1, n, {CR, LF})
    /\ st = "cr" => ve = n /\ ValueTo(t, vs, ve)

\* The pointers of a header, from b on.
Header == [ks : Nat, ke : Nat, vs : Nat, ve : Nat]

\* The headers of the list l, newest first, follow one another from position from
\* on, each where the one before ends, and all behind b and before n; and where
\* the line behind header k of the list starts.
NextAt(b, from, l, k) == IF k > Len(l) THEN from ELSE b + l[k].ve + 2
Chain(t, b, from, l, n) ==
    \A k \in 1..Len(l) :
        /\ b + l[k].ks = NextAt(b, from, l, k + 1)
        /\ HeaderRead(t, from, b + l[k].ks, b + l[k].ke, b + l[k].vs, b + l[k].ve)
        /\ b + l[k].ve < n
-----------------------------------------------------------------------------
(* Bytes and positions.                                                     *)

\* The bytes the rules tell apart.
LEMMA Bytes ==
    /\ CR \in Byte /\ LF \in Byte /\ SP \in Byte
    /\ CR # LF /\ CR # SP /\ LF # SP
    /\ \A x \in Upper : x # CR /\ x # LF /\ x # SP /\ x # "/"
    /\ \A x \in Digit : x # CR /\ x # LF /\ x # SP /\ x # "."
    /\ "/" # CR /\ "/" # LF /\ "/" # SP
    /\ "." # CR /\ "." # LF /\ "." # SP
    /\ ":" # CR /\ ":" # LF /\ ":" # SP
    /\ "H" # CR /\ "H" # LF /\ "H" # SP /\ "T" # CR /\ "T" # LF /\ "P" # CR /\ "P" # LF
  BY DEF CR, LF, SP, Byte, Upper, Digit, Other

\* FirstIn and FirstNotIn find the position that nothing before it takes.
LEMMA FirstInIs ==
    ASSUME NEW t \in Seq(Byte), NEW p \in Nat, NEW q \in Nat, NEW S,
           p <= q, q <= Len(t), NoneOf(t, p, q - 1, S), t[q] \in S
    PROVE  FirstIn(t, p, S) = q
  <1> DEFINE T == {i \in p..Len(t) : t[i] \in S} \cup {Len(t) + 1}
  <1>1. Len(t) \in Nat
    BY LenProperties
  <1>2. T \in SUBSET Nat /\ T # {}
    BY <1>1
  <1>3. q \in T
    BY <1>1
  <1>4. \A x \in T : q <= x
    <2> SUFFICES ASSUME NEW x \in T, x < q PROVE FALSE
      BY <1>2
    <2>1. x \in p..(q - 1) /\ t[x] \in S
      BY <1>1, <1>2
    <2> QED
      BY <2>1 DEF NoneOf
  <1>5. q = Min(T)
    BY <1>2, <1>3, <1>4, MinIsMin
  <1> QED
    BY <1>5 DEF FirstIn

\* So does FirstNotIn.
LEMMA FirstNotInIs ==
    ASSUME NEW t \in Seq(Byte), NEW p \in Nat, NEW q \in Nat, NEW S,
           p <= q, q <= Len(t), AllOf(t, p, q - 1, S), t[q] \notin S
    PROVE  FirstNotIn(t, p, S) = q
  <1> DEFINE T == {i \in p..Len(t) : t[i] \notin S} \cup {Len(t) + 1}
  <1>1. Len(t) \in Nat
    BY LenProperties
  <1>2. T \in SUBSET Nat /\ T # {}
    BY <1>1
  <1>3. q \in T
    BY <1>1
  <1>4. \A x \in T : q <= x
    <2> SUFFICES ASSUME NEW x \in T, x < q PROVE FALSE
      BY <1>2
    <2>1. x \in p..(q - 1) /\ t[x] \notin S
      BY <1>1, <1>2
    <2> QED
      BY <2>1 DEF AllOf
  <1>5. q = Min(T)
    BY <1>2, <1>3, <1>4, MinIsMin
  <1> QED
    BY <1>5 DEF FirstNotIn

\* What they find.
LEMMA FirstInFinds ==
    ASSUME NEW t \in Seq(Byte), NEW p \in Nat, NEW S
    PROVE  /\ FirstIn(t, p, S) \in Nat /\ FirstIn(t, p, S) <= Len(t) + 1
           /\ p <= Len(t) + 1 => p <= FirstIn(t, p, S)
           /\ FirstIn(t, p, S) <= Len(t) => p <= FirstIn(t, p, S) /\ t[FirstIn(t, p, S)] \in S
           /\ NoneOf(t, p, FirstIn(t, p, S) - 1, S)
  <1> DEFINE T == {i \in p..Len(t) : t[i] \in S} \cup {Len(t) + 1}
             q == FirstIn(t, p, S)
  <1>1. Len(t) \in Nat
    BY LenProperties
  <1>2. T \in SUBSET Nat /\ T # {} /\ Len(t) + 1 \in T
    BY <1>1
  <1>3. q = Min(T)
    BY DEF FirstIn
  <1>4. q \in T /\ \A x \in T : q <= x
    <2> HIDE DEF T, q
    <2>1. Min(T) \in T /\ \A x \in T : Min(T) <= x
      BY <1>2, MinIsMin
    <2> QED
      BY <1>3, <2>1
  <1> HIDE DEF q
  <1>5. q \in Nat /\ q <= Len(t) + 1
    BY <1>2, <1>4
  <1>6. p <= Len(t) + 1 => p <= q
    BY <1>1, <1>4
  <1>7. q <= Len(t) => p <= q /\ t[q] \in S
    BY <1>1, <1>4
  <1>8. NoneOf(t, p, q - 1, S)
    <2> SUFFICES ASSUME NEW i \in p..(q - 1), t[i] \in S PROVE FALSE
      BY DEF NoneOf
    <2>1. i \in Nat /\ i < q /\ i <= Len(t) /\ i \in p..Len(t)
      BY <1>1, <1>5
    <2> QED
      BY <1>4, <1>5, <2>1
  <1> QED
    BY <1>5, <1>6, <1>7, <1>8 DEF q

\* So is FirstNotIn.
LEMMA FirstNotInFinds ==
    ASSUME NEW t \in Seq(Byte), NEW p \in Nat, NEW S
    PROVE  /\ FirstNotIn(t, p, S) \in Nat /\ FirstNotIn(t, p, S) <= Len(t) + 1
           /\ p <= Len(t) + 1 => p <= FirstNotIn(t, p, S)
           /\ FirstNotIn(t, p, S) <= Len(t) => p <= FirstNotIn(t, p, S) /\ t[FirstNotIn(t, p, S)] \notin S
           /\ AllOf(t, p, FirstNotIn(t, p, S) - 1, S)
  <1> DEFINE T == {i \in p..Len(t) : t[i] \notin S} \cup {Len(t) + 1}
             q == FirstNotIn(t, p, S)
  <1>1. Len(t) \in Nat
    BY LenProperties
  <1>2. T \in SUBSET Nat /\ T # {} /\ Len(t) + 1 \in T
    BY <1>1
  <1>3. q = Min(T)
    BY DEF FirstNotIn
  <1>4. q \in T /\ \A x \in T : q <= x
    <2> HIDE DEF T, q
    <2>1. Min(T) \in T /\ \A x \in T : Min(T) <= x
      BY <1>2, MinIsMin
    <2> QED
      BY <1>3, <2>1
  <1> HIDE DEF q
  <1>5. q \in Nat /\ q <= Len(t) + 1
    BY <1>2, <1>4
  <1>6. p <= Len(t) + 1 => p <= q
    BY <1>1, <1>4
  <1>7. q <= Len(t) => p <= q /\ t[q] \notin S
    BY <1>1, <1>4
  <1>8. AllOf(t, p, q - 1, S)
    <2> SUFFICES ASSUME NEW i \in p..(q - 1), t[i] \notin S PROVE FALSE
      BY DEF AllOf
    <2>1. i \in Nat /\ i < q /\ i <= Len(t) /\ i \in p..Len(t)
      BY <1>1, <1>5
    <2> QED
      BY <1>4, <1>5, <2>1
  <1> QED
    BY <1>5, <1>6, <1>7, <1>8 DEF q

\* A part of a sequence of bytes.
LEMMA Part ==
    ASSUME NEW t \in Seq(Byte), NEW i \in Nat, NEW j \in Nat, 1 <= i, i <= j + 1, j <= Len(t)
    PROVE  /\ SubSeq(t, i, j) \in Seq(Byte) /\ Len(SubSeq(t, i, j)) = j - i + 1
           /\ \A k \in 1..(j - i + 1) : SubSeq(t, i, j)[k] = t[i + k - 1]
  <1>1. \A k \in i..j : k \in 1..Len(t)
    BY LenProperties
  <1>2. i \in Int /\ j \in Int /\ \A k \in i..j : t[k] \in Byte
    BY <1>1, ElementOfSeq
  <1>3. /\ SubSeq(t, i, j) \in Seq(Byte) /\ Len(SubSeq(t, i, j)) = IF i <= j THEN j - i + 1 ELSE 0
        /\ \A k \in 1..(j - i + 1) : SubSeq(t, i, j)[k] = t[i + k - 1]
    BY <1>2, SubSeqProperties
  <1> DEFINE x == SubSeq(t, i, j)
  <1> HIDE DEF x
  <1>4. Len(x) = IF i <= j THEN j - i + 1 ELSE 0
    BY <1>3 DEF x
  <1>5. Len(x) = j - i + 1
    BY <1>4
  <1> QED
    BY <1>3, <1>5 DEF x
-----------------------------------------------------------------------------
(* The request line of the reference.                                       *)

\* A complete line of t behind position b.
Shape(t, b, a, m, u, v, h, d, z, e) ==
    /\ MethodUri(t, b, a, m, u, v) /\ DotAt(t, v, h, d) /\ MinorTo(t, d, z) /\ LineTo(t, z, e)
    /\ e <= Len(t)

\* A request the reference finds has such a line.
LEMMA ShapeOfRequest ==
    ASSUME NEW t \in Seq(Byte), NEW b \in Nat, b <= Len(t), Request(t, b).ok
    PROVE  \E a, m, u, v, h, d, z, e \in Nat :
             /\ Shape(t, b, a, m, u, v, h, d, z, e)
             /\ HeaderBlock(t, e + 1).ok /\ Request(t, b).end = HeaderBlock(t, e + 1).end
  <1> DEFINE a == FirstNotIn(t, b + 1, {CR, LF})
             m == FirstIn(t, a, {SP})
             u == FirstNotIn(t, m, {SP})
             v == FirstIn(t, u, {SP})
             h == FirstNotIn(t, v, {SP})
             d == FirstIn(t, h + 5, {"."})
             e == FirstIn(t, d + 1, {LF})
             z == FirstNotIn(t, d + 1, Digit)
             w == FirstNotIn(t, z, {SP})
             n == Len(t)
             line == /\ e <= Len(t) /\ a < m
                     /\ \A i \in a..(m - 1) : t[i] \in Upper
                     /\ t[u] = "/"
                     /\ SubSeq(t, h, h + 4) = <<"H", "T", "T", "P", "/">>
                     /\ VersionText(t, h + 5, d, e)
             hs == HeaderBlock(t, e + 1)
  <1>1. Request(t, b) = IF line /\ hs.ok
         THEN [ok |-> TRUE, end |-> hs.end, headers |-> hs.headers,
               method |-> SubSeq(t, a, m - 1), uri |-> SubSeq(t, u, v - 1),
               v11 |-> \/ SubSeq(t, h + 5, d - 1) # <<"1">>
                       \/ \E i \in (d + 1)..(e - 1) : t[i] \in Digit \ {"0"}]
         ELSE [ok |-> FALSE]
    BY DEF Request
  <1>2. line /\ hs.ok /\ Request(t, b).end = hs.end
    <2> HIDE DEF line, hs
    <2>1. CASE line /\ hs.ok
      BY <1>1, <2>1
    <2>2. CASE ~(line /\ hs.ok)
      BY <1>1, <2>2
    <2> QED
      BY <2>1, <2>2
  <1>3. n \in Nat /\ b <= n
    BY LenProperties
  <1>4. a \in Nat /\ a <= n + 1 /\ b < a /\ AllOf(t, b + 1, a - 1, {CR, LF})
    BY <1>3, FirstNotInFinds
  <1>5. m \in Nat /\ m <= n + 1 /\ (m <= n => t[m] = SP)
    <2> HIDE DEF a
    <2> QED
      BY <1>3, <1>4, FirstInFinds
  <1>6. u \in Nat /\ u <= n + 1 /\ m <= u /\ (u <= n => t[u] # SP) /\ AllOf(t, m, u - 1, {SP})
    <2> HIDE DEF m
    <2> QED
      BY <1>3, <1>5, FirstNotInFinds
  <1>7. v \in Nat /\ v <= n + 1 /\ u <= v /\ (v <= n => t[v] = SP) /\ NoneOf(t, u, v - 1, {SP})
    <2> HIDE DEF u
    <2> QED
      BY <1>3, <1>6, FirstInFinds
  <1>8. h \in Nat /\ h <= n + 1 /\ v <= h /\ (h <= n => t[h] # SP) /\ AllOf(t, v, h - 1, {SP})
    <2> HIDE DEF v
    <2> QED
      BY <1>3, <1>7, FirstNotInFinds
  <1>9. d \in Nat /\ d <= n + 1 /\ (d <= n => h + 5 <= d /\ t[d] = ".")
    <2> HIDE DEF h
    <2>1. h + 5 \in Nat
      BY <1>8
    <2> QED
      BY <1>3, <2>1, FirstInFinds
  <1>10. e \in Nat /\ (e <= n => d < e /\ t[e] = LF)
    <2> HIDE DEF d
    <2>1. d + 1 \in Nat
      BY <1>9
    <2> QED
      BY <1>3, <1>9, <2>1, FirstInFinds, SMTT(40)
  <1>11. z \in Nat /\ z <= n + 1 /\ AllOf(t, d + 1, z - 1, Digit)
    <2> HIDE DEF d
    <2>1. d + 1 \in Nat
      BY <1>9
    <2> QED
      BY <1>3, <1>9, <2>1, FirstNotInFinds
  <1>12. w \in Nat /\ w <= n + 1 /\ z <= w /\ AllOf(t, z, w - 1, {SP})
    <2> HIDE DEF z
    <2> QED
      BY <1>3, <1>11, FirstNotInFinds
  <1>13. /\ e <= n /\ a < m /\ (\A i \in a..(m - 1) : t[i] \in Upper) /\ t[u] = "/"
         /\ SubSeq(t, h, h + 4) = <<"H", "T", "T", "P", "/">>
    BY <1>2
  <1>14. /\ h + 5 < d /\ t[h + 5] \in Digit \ {"0"} /\ (\A i \in (h + 5)..(d - 1) : t[i] \in Digit)
         /\ d + 1 < z /\ (w = e \/ (w + 1 = e /\ t[w] = CR))
    <2>1. VersionText(t, h + 5, d, e)
      BY <1>2
    <2> QED
      BY <2>1 DEF VersionText
  <1> HIDE DEF a, m, u, v, h, d, e, z, w, n, line, hs
  <1>15. d < e /\ d <= n /\ h + 5 <= d /\ t[d] = "." /\ t[e] = LF
    BY <1>3, <1>9, <1>10, <1>13
  <1>16. h <= n /\ v <= n /\ u <= n /\ m <= n /\ t[v] = SP /\ t[m] = SP /\ t[h] # SP /\ t[u] # SP
    BY <1>3, <1>4, <1>5, <1>6, <1>7, <1>8, <1>9, <1>15, SMTT(40)
  <1>17. v < h /\ u < v /\ m < u
    <2>1. v # h /\ u # v /\ m # u
      BY <1>16
    <2> QED
      BY <1>5, <1>6, <1>7, <1>8, <2>1
  <1>18. HttpAt(t, h, 4)
    <2>1. h + 4 <= n /\ \A i \in h..(h + 4) : i \in 1..Len(t)
      BY <1>3, <1>4, <1>5, <1>6, <1>7, <1>8, <1>9, <1>15, <1>17, SMTT(40) DEF n
    <2>2. \A i \in h..(h + 4) : t[i] \in Byte
      BY <2>1, ElementOfSeq
    <2> DEFINE k == h + 4
    <2>3. k \in Int /\ h \in Int /\ \A i \in h..k : t[i] \in Byte
      BY <1>8, <2>2
    <2> HIDE DEF k
    <2>4. \A i \in 1..(k - h + 1) : SubSeq(t, h, k)[i] = t[h + i - 1]
      BY <2>3, SubSeqProperties, SMTT(40)
    <2>5. SubSeq(t, h, k) = <<"H", "T", "T", "P", "/">>
      BY <1>13 DEF k
    <2>6. /\ k - h + 1 = 5 /\ h + 1 - 1 = h /\ h + 2 - 1 = h + 1 /\ h + 3 - 1 = h + 2
          /\ h + 4 - 1 = h + 3 /\ h + 5 - 1 = h + 4
      BY <1>8 DEF k
    <2>7. \A i \in 1..5 : <<"H", "T", "T", "P", "/">>[i] = t[h + i - 1]
      BY <2>4, <2>5, <2>6
    <2>8. t[h] = "H" /\ t[h + 1] = "T" /\ t[h + 2] = "T" /\ t[h + 3] = "P" /\ t[h + 4] = "/"
      BY <2>6, <2>7, SMTT(40)
    <2> QED
      BY <2>8 DEF HttpAt
  <1>19. WordAt(t, b, a) /\ WordTo(t, a, m)
    <2>1. a \in a..(m - 1)
      BY <1>4, <1>5, <1>13
    <2> QED
      BY <1>4, <1>13, <1>16, <2>1 DEF WordAt, WordTo, AllOf
  <1>20. UriAt(t, m, u) /\ UriTo(t, u, v) /\ SpacesTo(t, v, h)
    BY <1>6, <1>7, <1>8, <1>13, <1>16, <1>17 DEF UriAt, UriTo, SpacesTo
  <1>21. DotAt(t, v, h, d) /\ MinorTo(t, d, z)
    BY <1>11, <1>14, <1>15, <1>18, <1>20 DEF DotAt, MajorTo, MinorTo, AllOf
  <1>22. LineTo(t, z, e)
    <2>1. CASE w = e
      BY <1>12, <1>15, <2>1 DEF LineTo
    <2>2. CASE w + 1 = e /\ t[w] = CR
      <3>1. w = e - 1 /\ w - 1 = e - 2 /\ z < e
        BY <1>10, <1>11, <1>12, <2>2
      <3>2. AllOf(t, z, e - 2, {SP}) /\ t[e - 1] = CR
        BY <1>12, <2>2, <3>1
      <3>3. z <= e
        BY <1>10, <1>11, <3>1
      <3> QED
        BY <1>15, <3>1, <3>2, <3>3 DEF LineTo
    <2> QED
      BY <1>14, <2>1, <2>2
  <1>23. Shape(t, b, a, m, u, v, h, d, z, e)
    BY <1>13, <1>19, <1>20, <1>21, <1>22 DEF Shape, MethodUri, n
  <1> QED
    BY <1>2, <1>4, <1>5, <1>6, <1>7, <1>8, <1>9, <1>10, <1>11, <1>23 DEF hs

\* And a line of this shape is the one the reference finds.
FoundAs(t, b, a, m, u, v, h, d, e) ==
    /\ Request(t, b).ok
    /\ Request(t, b).end = HeaderBlock(t, e + 1).end
    /\ Request(t, b).headers = HeaderBlock(t, e + 1).headers
    /\ Request(t, b).method = SubSeq(t, a, m - 1)
    /\ Request(t, b).uri = SubSeq(t, u, v - 1)
    /\ Request(t, b).v11 = (\/ SubSeq(t, h + 5, d - 1) # <<"1">>
                            \/ \E i \in (d + 1)..(e - 1) : t[i] \in Digit \ {"0"})

\* Such a line, with header lines behind it, is a request.
LEMMA RequestOfShape ==
    ASSUME NEW t \in Seq(Byte), NEW b \in Nat, NEW a \in Nat, NEW m \in Nat, NEW u \in Nat, NEW v \in Nat,
           NEW h \in Nat, NEW d \in Nat, NEW z \in Nat, NEW e \in Nat,
           Shape(t, b, a, m, u, v, h, d, z, e), HeaderBlock(t, e + 1).ok
    PROVE  FoundAs(t, b, a, m, u, v, h, d, e)
  <1> DEFINE n == Len(t)
             w == IF AllOf(t, z, e - 1, {SP}) THEN e ELSE e - 1
  <1>1. /\ n \in Nat /\ e <= n
        /\ b < a /\ AllOf(t, b + 1, a - 1, {CR, LF}) /\ t[a] \in Upper
        /\ a < m /\ AllOf(t, a, m - 1, Upper) /\ t[m] = SP
        /\ m < u /\ AllOf(t, m, u - 1, {SP}) /\ t[u] = "/"
        /\ u < v /\ NoneOf(t, u, v - 1, {SP}) /\ t[v] = SP
        /\ v < h /\ AllOf(t, v, h - 1, {SP})
    BY LenProperties DEF Shape, MethodUri, WordAt, WordTo, UriAt, UriTo, DotAt, SpacesTo
  <1>2. t[h] = "H" /\ t[h + 1] = "T" /\ t[h + 2] = "T" /\ t[h + 3] = "P" /\ t[h + 4] = "/"
    <2>1. HttpAt(t, h, 4)
      BY DEF Shape, DotAt
    <2> QED
      BY <2>1 DEF HttpAt
  <1>3. /\ h + 5 < d /\ t[h + 5] \in Digit \ {"0"} /\ AllOf(t, h + 5, d - 1, Digit) /\ t[d] = "."
        /\ d + 1 < z /\ AllOf(t, d + 1, z - 1, Digit)
        /\ z <= e /\ t[e] = LF
        /\ \/ AllOf(t, z, e - 1, {SP})
           \/ z < e /\ AllOf(t, z, e - 2, {SP}) /\ t[e - 1] = CR
    BY DEF Shape, DotAt, MajorTo, MinorTo, LineTo
  <1>4. w \in Nat /\ z <= w /\ w <= e /\ AllOf(t, z, w - 1, {SP}) /\ (w = e \/ (w + 1 = e /\ t[w] = CR))
    <2>1. CASE AllOf(t, z, e - 1, {SP})
      BY <1>3, <2>1
    <2>2. CASE ~AllOf(t, z, e - 1, {SP})
      <3>1. w = e - 1 /\ e - 1 - 1 = e - 2
        BY <2>2
      <3>2. z < e /\ AllOf(t, z, e - 2, {SP}) /\ t[e - 1] = CR
        BY <1>3, <2>2
      <3> HIDE DEF w
      <3> QED
        BY <3>1, <3>2
    <2> QED
      BY <2>1, <2>2
  <1> HIDE DEF w
  <1>5. /\ b < a /\ a < m /\ m < u /\ u < v /\ v < h /\ h + 5 < d /\ d + 1 < z /\ z <= w /\ w <= e
        /\ e <= Len(t) /\ Len(t) \in Nat /\ w \in Nat
    BY <1>1, <1>3, <1>4
  <1>10. FirstNotIn(t, b + 1, {CR, LF}) = a
    <2>4. b + 1 \in Nat /\ b + 1 <= a /\ a <= Len(t)
      BY <1>5
    <2>5. AllOf(t, b + 1, a - 1, {CR, LF}) /\ t[a] \notin {CR, LF}
      BY <1>1, Bytes
    <2> QED
      BY <2>4, <2>5, FirstNotInIs
  <1>11. FirstIn(t, a, {SP}) = m
    <2>1. NoneOf(t, a, m - 1, {SP})
      BY <1>1, Bytes DEF AllOf, NoneOf
    <2>4. a \in Nat /\ a <= m /\ m <= Len(t)
      BY <1>5
    <2>5. NoneOf(t, a, m - 1, {SP}) /\ t[m] \in {SP}
      BY <1>1, <2>1
    <2> QED
      BY <2>4, <2>5, FirstInIs
  <1>12. FirstNotIn(t, m, {SP}) = u
    <2>4. m \in Nat /\ m <= u /\ u <= Len(t)
      BY <1>5
    <2>5. AllOf(t, m, u - 1, {SP}) /\ t[u] \notin {SP}
      BY <1>1, Bytes
    <2> QED
      BY <2>4, <2>5, FirstNotInIs
  <1>13. FirstIn(t, u, {SP}) = v
    <2>4. u \in Nat /\ u <= v /\ v <= Len(t)
      BY <1>5
    <2>5. NoneOf(t, u, v - 1, {SP}) /\ t[v] \in {SP}
      BY <1>1
    <2> QED
      BY <2>4, <2>5, FirstInIs
  <1>14. FirstNotIn(t, v, {SP}) = h
    <2>4. v \in Nat /\ v <= h /\ h <= Len(t)
      BY <1>5
    <2>5. AllOf(t, v, h - 1, {SP}) /\ t[h] \notin {SP}
      BY <1>1, <1>2, Bytes
    <2> QED
      BY <2>4, <2>5, FirstNotInIs
  <1>15. FirstIn(t, h + 5, {"."}) = d
    <2>1. NoneOf(t, h + 5, d - 1, {"."})
      BY <1>3, Bytes DEF AllOf, NoneOf
    <2>4. h + 5 \in Nat /\ h + 5 <= d /\ d <= Len(t)
      BY <1>5
    <2>5. NoneOf(t, h + 5, d - 1, {"."}) /\ t[d] \in {"."}
      BY <1>3, <2>1
    <2> QED
      BY <2>4, <2>5, FirstInIs
  <1>16. t[z] \notin Digit /\ t[w] # SP
    <2>1. CASE z = w
      BY <1>3, <1>4, <2>1, Bytes
    <2>2. CASE z # w
      <3>1. z \in z..(w - 1)
        BY <1>4, <2>2
      <3>2. t[z] = SP
        BY <1>4, <3>1 DEF AllOf
      <3> QED
        BY <1>3, <1>4, <3>2, Bytes
    <2> QED
      BY <2>1, <2>2
  <1>17. FirstNotIn(t, d + 1, Digit) = z
    <2>4. d + 1 \in Nat /\ d + 1 <= z /\ z <= Len(t)
      BY <1>5
    <2>5. AllOf(t, d + 1, z - 1, Digit) /\ t[z] \notin Digit
      BY <1>3, <1>16
    <2> QED
      BY <2>4, <2>5, FirstNotInIs
  <1>18. FirstNotIn(t, z, {SP}) = w
    <2>4. z \in Nat /\ w \in Nat /\ z <= w /\ w <= Len(t)
      BY <1>5
    <2>5. AllOf(t, z, w - 1, {SP}) /\ t[w] \notin {SP}
      BY <1>4, <1>16
    <2> QED
      BY <2>4, <2>5, FirstNotInIs
  <1>19. NoneOf(t, d + 1, e - 1, {LF}) /\ NoneOf(t, z, e - 1, Digit)
    <2>1. ASSUME NEW i \in (d + 1)..(e - 1)
          PROVE  t[i] # LF /\ (z <= i => t[i] \notin Digit)
      <3>1. CASE i <= z - 1
        <4>1. t[i] \in Digit /\ ~(z <= i)
          BY <1>3, <3>1 DEF AllOf
        <4> QED
          BY <4>1, Bytes
      <3>2. CASE z - 1 < i /\ i <= w - 1
        <4>1. t[i] = SP
          BY <1>4, <3>2 DEF AllOf
        <4> QED
          BY <4>1, Bytes
      <3>3. CASE w <= i
        <4>1. i = w /\ t[i] = CR
          BY <1>4, <3>3, SMTT(40)
        <4> QED
          BY <4>1, Bytes
      <3> QED
        BY <1>4, <3>1, <3>2, <3>3
    <2>2. NoneOf(t, d + 1, e - 1, {LF})
      BY <2>1 DEF NoneOf
    <2>3. \A i \in z..(e - 1) : i \in (d + 1)..(e - 1) /\ z <= i
      BY <1>3
    <2>4. NoneOf(t, z, e - 1, Digit)
      BY <2>1, <2>3, Zenon DEF NoneOf
    <2> QED
      BY <2>2, <2>4
  <1>20. FirstIn(t, d + 1, {LF}) = e
    <2>4. d + 1 \in Nat /\ d + 1 <= e /\ e <= Len(t)
      BY <1>5
    <2>5. NoneOf(t, d + 1, e - 1, {LF}) /\ t[e] \in {LF}
      BY <1>3, <1>19
    <2> QED
      BY <2>4, <2>5, FirstInIs
  <1>21. VersionText(t, h + 5, d, e)
    BY <1>3, <1>4, <1>17, <1>18 DEF VersionText, AllOf
  <1>22. SubSeq(t, h, h + 4) = <<"H", "T", "T", "P", "/">>
    <2> DEFINE k == h + 4
               x == SubSeq(t, h, k)
               y == <<"H", "T", "T", "P", "/">>
    <2>1. k \in Nat /\ 1 <= h /\ h <= k + 1 /\ k <= Len(t) /\ k - h + 1 = 5
      BY <1>5
    <2>2. /\ h + 1 - 1 = h /\ h + 2 - 1 = h + 1 /\ h + 3 - 1 = h + 2 /\ h + 4 - 1 = h + 3
          /\ h + 5 - 1 = h + 4
      OBVIOUS
    <2> HIDE DEF k
    <2>3. /\ x \in Seq(Byte) /\ Len(x) = k - h + 1
          /\ \A i \in 1..(k - h + 1) : x[i] = t[h + i - 1]
      BY <2>1, Part, ZenonT(60)
    <2> HIDE DEF x
    <2>4. Len(x) = 5 /\ \A i \in 1..5 : x[i] = t[h + i - 1]
      BY <2>1, <2>3
    <2>5. /\ x[1] = t[h + 1 - 1] /\ x[2] = t[h + 2 - 1] /\ x[3] = t[h + 3 - 1]
          /\ x[4] = t[h + 4 - 1] /\ x[5] = t[h + 5 - 1]
      <3>1. 1 \in 1..5 /\ 2 \in 1..5 /\ 3 \in 1..5 /\ 4 \in 1..5 /\ 5 \in 1..5
        OBVIOUS
      <3> QED
        BY <2>4, <3>1, Zenon
    <2>6. x[1] = "H" /\ x[2] = "T" /\ x[3] = "T" /\ x[4] = "P" /\ x[5] = "/"
      BY <1>2, <2>2, <2>5, ZenonT(60)
    <2>7. y \in Seq(Byte) /\ Len(y) = 5
      <3>1. "H" \in Byte /\ "T" \in Byte /\ "P" \in Byte /\ "/" \in Byte
        BY DEF Byte, Upper, Other
      <3> QED
        BY <3>1
    <2>8. \A i \in 1..5 : x[i] = y[i]
      BY <2>6, SMTT(40)
    <2> HIDE DEF y
    <2>9. x = y
      <3>1. Len(x) = Len(y) /\ \A i \in 1..Len(x) : x[i] = y[i]
        BY <2>4, <2>7, <2>8
      <3> QED
        BY <2>3, <2>7, <3>1, SeqEqual
    <2> QED
      BY <2>9 DEF x, y, k
  <1> DEFINE hs == HeaderBlock(t, e + 1)
             v11 == \/ SubSeq(t, h + 5, d - 1) # <<"1">>
                    \/ \E i \in (d + 1)..(e - 1) : t[i] \in Digit \ {"0"}
             line == /\ e <= Len(t) /\ a < m
                     /\ \A i \in a..(m - 1) : t[i] \in Upper
                     /\ t[u] = "/"
                     /\ SubSeq(t, h, h + 4) = <<"H", "T", "T", "P", "/">>
                     /\ VersionText(t, h + 5, d, e)
  <1>23. line
    BY <1>1, <1>21, <1>22 DEF AllOf
  <1>24. Request(t, b) = IF line /\ hs.ok
           THEN [ok |-> TRUE, end |-> hs.end, headers |-> hs.headers,
                 method |-> SubSeq(t, a, m - 1), uri |-> SubSeq(t, u, v - 1), v11 |-> v11]
           ELSE [ok |-> FALSE]
    BY <1>10, <1>11, <1>12, <1>13, <1>14, <1>15, <1>20, ZenonT(60) DEF Request
  <1> HIDE DEF line, hs, v11
  <1>25. Request(t, b) = [ok |-> TRUE, end |-> hs.end, headers |-> hs.headers,
                          method |-> SubSeq(t, a, m - 1), uri |-> SubSeq(t, u, v - 1), v11 |-> v11]
    BY <1>23, <1>24 DEF hs
  <1> QED
    BY <1>25, SMTT(40) DEF hs, v11, FoundAs
-----------------------------------------------------------------------------
(* The header lines of the reference.                                       *)

\* A header line the reference finds has its parts in order.
LEMMA ShapeOfHeader ==
    ASSUME NEW t \in Seq(Byte), NEW p \in Nat, 1 <= p, p <= Len(t), HeaderLine(t, p).ok
    PROVE  \E ke, c, vs, ve \in Nat :
             /\ KeyTo(t, p, ke) /\ ColonAt(t, ke, c) /\ ValueAt(t, c, vs) /\ ValueTo(t, vs, ve)
             /\ t[ve + 1] = LF /\ ve < Len(t) /\ HeaderLine(t, p).next = ve + 2
  <1> DEFINE ke == FirstIn(t, p + 1, {SP, ":"})
             c  == FirstNotIn(t, ke, {SP})
             vs == FirstNotIn(t, c + 1, {SP})
             ve == FirstIn(t, vs + 1, {CR, LF})
             n  == Len(t)
  <1>1. /\ ve < Len(t) /\ t[c] = ":" /\ t[ve] = CR /\ t[ve + 1] = LF
        /\ HeaderLine(t, p).next = ve + 2
    BY DEF HeaderLine
  <1>2. n \in Nat
    BY LenProperties
  <1>3. ke \in Nat /\ ke <= n + 1 /\ p < ke /\ (ke <= n => t[ke] \in {SP, ":"}) /\ NoneOf(t, p + 1, ke - 1, {SP, ":"})
    BY <1>2, FirstInFinds
  <1>4. c \in Nat /\ c <= n + 1 /\ ke <= c /\ AllOf(t, ke, c - 1, {SP})
    <2> HIDE DEF ke
    <2> QED
      BY <1>2, <1>3, FirstNotInFinds
  <1>5. vs \in Nat /\ vs <= n + 1 /\ (vs <= n => c < vs /\ t[vs] # SP) /\ AllOf(t, c + 1, vs - 1, {SP})
    <2> HIDE DEF c
    <2>1. c + 1 \in Nat
      BY <1>4
    <2> QED
      BY <1>2, <1>4, <2>1, FirstNotInFinds
  <1>6. ve \in Nat /\ (ve <= n => vs < ve) /\ NoneOf(t, vs + 1, ve - 1, {CR, LF})
    <2> HIDE DEF vs
    <2>1. vs + 1 \in Nat
      BY <1>5
    <2> QED
      BY <1>2, <1>5, <2>1, FirstInFinds, SMTT(40)
  <1> HIDE DEF ke, c, vs, ve
  <1>7. ve <= n /\ vs < ve /\ vs <= n /\ c < vs /\ c <= n /\ ke <= n
    <2>1. ve \in Nat /\ vs \in Nat /\ c \in Nat /\ ke \in Nat /\ n \in Nat /\ ve < n /\ ke <= c
      BY <1>1, <1>2, <1>3, <1>4, <1>5, <1>6
    <2>2. (ve <= n => vs < ve) /\ (vs <= n => c < vs)
      BY <1>5, <1>6
    <2> HIDE DEF n
    <2> QED
      BY <2>1, <2>2
  <1>8. KeyTo(t, p, ke) /\ ColonAt(t, ke, c) /\ ValueAt(t, c, vs) /\ ValueTo(t, vs, ve)
    BY <1>1, <1>3, <1>4, <1>5, <1>6, <1>7 DEF KeyTo, ColonAt, ValueAt, ValueTo
  <1> QED
    BY <1>1, <1>3, <1>4, <1>5, <1>6, <1>8

\* And a line with these parts is the one the reference finds.
LEMMA HeaderOfShape ==
    ASSUME NEW t \in Seq(Byte), NEW from, NEW p \in Nat, NEW ke \in Nat, NEW vs \in Nat, NEW ve \in Nat,
           1 <= p, ve < Len(t), HeaderRead(t, from, p, ke, vs, ve)
    PROVE  /\ HeaderLine(t, p).ok /\ HeaderLine(t, p).next = ve + 2
           /\ HeaderLine(t, p).key = SubSeq(t, p, ke - 1) /\ HeaderLine(t, p).val = SubSeq(t, vs, ve - 1)
           /\ p < ke /\ ke < vs /\ vs < ve
  <1>1. PICK c \in ke..vs : ColonAt(t, ke, c) /\ ValueAt(t, c, vs)
    BY DEF HeaderRead
  <1>2. /\ p < ke /\ NoneOf(t, p + 1, ke - 1, {SP, ":"}) /\ t[ke] \in {SP, ":"}
        /\ ke <= c /\ AllOf(t, ke, c - 1, {SP}) /\ t[c] = ":"
        /\ c < vs /\ AllOf(t, c + 1, vs - 1, {SP}) /\ t[vs] # SP
        /\ vs < ve /\ NoneOf(t, vs + 1, ve - 1, {CR, LF}) /\ t[ve] = CR /\ t[ve + 1] = LF
    BY <1>1 DEF HeaderRead, KeyTo, ColonAt, ValueAt, ValueTo
  <1>3. Len(t) \in Nat /\ c \in Nat /\ p < ke /\ ke <= c /\ c < vs /\ vs < ve /\ ve < Len(t)
    BY <1>2, LenProperties
  <1>4. FirstIn(t, p + 1, {SP, ":"}) = ke
    <2>1. p + 1 \in Nat /\ p + 1 <= ke /\ ke <= Len(t)
      BY <1>3
    <2> QED
      BY <1>2, <2>1, FirstInIs
  <1>5. FirstNotIn(t, ke, {SP}) = c
    <2>1. ke <= c /\ c <= Len(t) /\ t[c] \notin {SP}
      BY <1>2, <1>3, Bytes
    <2> QED
      BY <1>2, <1>3, <2>1, FirstNotInIs
  <1>6. FirstNotIn(t, c + 1, {SP}) = vs
    <2>1. c + 1 \in Nat /\ c + 1 <= vs /\ vs <= Len(t) /\ t[vs] \notin {SP}
      BY <1>2, <1>3, SMTT(40)
    <2> QED
      BY <1>2, <2>1, FirstNotInIs
  <1>7. FirstIn(t, vs + 1, {CR, LF}) = ve
    <2>1. vs + 1 \in Nat /\ vs + 1 <= ve /\ ve <= Len(t) /\ t[ve] \in {CR, LF}
      BY <1>2, <1>3, SMTT(40)
    <2> QED
      BY <1>2, <2>1, FirstInIs
  <1>8. HeaderLine(t, p) = [ok  |-> ve < Len(t) /\ t[c] = ":" /\ t[ve] = CR /\ t[ve + 1] = LF,
                            key |-> SubSeq(t, p, ke - 1), val |-> SubSeq(t, vs, ve - 1), next |-> ve + 2]
    BY <1>4, <1>5, <1>6, <1>7, Zenon DEF HeaderLine
  <1>9. ke < vs
    BY <1>3
  <1>10. HeaderLine(t, p).ok = (ve < Len(t) /\ t[c] = ":" /\ t[ve] = CR /\ t[ve + 1] = LF)
    BY <1>8
  <1>11. HeaderLine(t, p).ok
    BY <1>2, <1>3, <1>10
  <1>12. /\ HeaderLine(t, p).next = ve + 2
         /\ HeaderLine(t, p).key = SubSeq(t, p, ke - 1) /\ HeaderLine(t, p).val = SubSeq(t, vs, ve - 1)
    BY <1>8
  <1> QED
    BY <1>2, <1>9, <1>11, <1>12

\* The step of HeaderBlock.
BlockAt(s, from, block, p) ==
    IF p < Len(s) /\ s[p] = CR /\ s[p + 1] = LF
      THEN [ok |-> TRUE, headers |-> <<>>, end |-> p + 1]
    ELSE IF p > Len(s) \/ s[p] = CR \/ (p = from /\ s[p] = LF) \/ ~HeaderLine(s, p).ok
      THEN [ok |-> FALSE, headers |-> <<>>, end |-> p]
    ELSE LET h    == HeaderLine(s, p)
             rest == block[h.next]
         IN [rest EXCEPT !.headers = <<[key |-> h.key, val |-> h.val]>> \o @]

Block(s, from) == CHOOSE block : block = [p \in 1..(Len(s) + 1) |-> BlockAt(s, from, block, p)]

\* The empty line is at p; or a header line is.
Empty(t, p)          == p < Len(t) /\ t[p] = CR /\ t[p + 1] = LF
HasLine(t, from, p)  == p <= Len(t) /\ t[p] # CR /\ (p = from => t[p] # LF) /\ HeaderLine(t, p).ok

\* The next line starts behind this one.
LEMMA NextLineBehind ==
    ASSUME NEW t \in Seq(Byte), NEW p \in Nat, 1 <= p, p <= Len(t), HeaderLine(t, p).ok
    PROVE  /\ HeaderLine(t, p).next \in Nat
           /\ p + 1 < HeaderLine(t, p).next /\ HeaderLine(t, p).next <= Len(t) + 1
  <1>1. PICK ke, c, vs, ve \in Nat :
             /\ KeyTo(t, p, ke) /\ ColonAt(t, ke, c) /\ ValueAt(t, c, vs) /\ ValueTo(t, vs, ve)
             /\ ve < Len(t) /\ HeaderLine(t, p).next = ve + 2
    BY ShapeOfHeader
  <1>2. p < ke /\ ke <= c /\ c < vs /\ vs < ve /\ ve < Len(t) /\ Len(t) \in Nat
    BY <1>1, LenProperties DEF KeyTo, ColonAt, ValueAt, ValueTo
  <1> QED
    BY <1>1, <1>2

\* The step only looks behind p.
LEMMA BlockLocal ==
    ASSUME NEW t \in Seq(Byte), NEW from, NEW p \in 1..(Len(t) + 1), NEW f, NEW g,
           \A q \in (p + 1)..(Len(t) + 1) : f[q] = g[q]
    PROVE  BlockAt(t, from, f, p) = BlockAt(t, from, g, p)
  <1>1. Len(t) \in Nat /\ p \in Nat /\ 1 <= p
    BY LenProperties
  <1>2. CASE Empty(t, p) \/ ~HasLine(t, from, p)
    <2>1. CASE Empty(t, p)
      BY <2>1 DEF BlockAt, Empty
    <2>2. CASE ~Empty(t, p) /\ ~HasLine(t, from, p)
      <3>1. p > Len(t) \/ t[p] = CR \/ (p = from /\ t[p] = LF) \/ ~HeaderLine(t, p).ok
        BY <1>1, <2>2 DEF HasLine
      <3> QED
        BY <2>2, <3>1, Zenon DEF BlockAt, Empty
    <2> QED
      BY <1>2, <2>1, <2>2
  <1>3. CASE ~Empty(t, p) /\ HasLine(t, from, p)
    <2>1. p <= Len(t) /\ HeaderLine(t, p).ok
      BY <1>3 DEF HasLine
    <2>2. HeaderLine(t, p).next \in (p + 1)..(Len(t) + 1)
      BY <1>1, <2>1, NextLineBehind
    <2>3. f[HeaderLine(t, p).next] = g[HeaderLine(t, p).next]
      BY <2>2
    <2> QED
      BY <2>3, Zenon DEF BlockAt
  <1> QED
    BY <1>2, <1>3

\* Its recursion is well founded.
LEMMA BlockDefined ==
    ASSUME NEW t \in Seq(Byte), NEW from
    PROVE  \A p \in 1..(Len(t) + 1) : Block(t, from)[p] = BlockAt(t, from, Block(t, from), p)
  <1> DEFINE N == Len(t) + 1
             Step(f, p) == BlockAt(t, from, f, p)
             Behind(k) == \E f : \A p \in k..N : f[p] = Step(f, p)
             T == {j \in 0..(N - 1) : ~Behind(N - j)}
  <1>1. N \in Nat /\ N >= 1
    BY LenProperties
  <1>2. SUFFICES T = {}
    <2>1. N - 1 \in 0..(N - 1) /\ N - (N - 1) = 1
      <3> HIDE DEF N
      <3> QED
        BY <1>1
    <2>2. Behind(1)
      <3> HIDE DEF Behind, N
      <3>1. N - 1 \notin T
        BY <1>2
      <3>2. Behind(N - (N - 1))
        BY <2>1, <3>1
      <3> QED
        BY <2>1, <3>2
    <2>3. PICK f : \A p \in 1..N : f[p] = Step(f, p)
      BY <2>2
    <2> DEFINE g == [p \in 1..N |-> f[p]]
    <2>4. \A p \in 1..N : Step(f, p) = Step(g, p)
      <3> SUFFICES ASSUME NEW p \in 1..N PROVE Step(f, p) = Step(g, p)
        OBVIOUS
      <3>1. \A q \in (p + 1)..N : f[q] = g[q]
        BY <1>1
      <3> HIDE DEF g
      <3> QED
        BY <3>1, BlockLocal
    <2>5. g = [p \in 1..N |-> Step(g, p)]
      <3>1. \A p \in 1..N : f[p] = Step(g, p)
        BY <2>3, <2>4
      <3> HIDE DEF Step
      <3> QED
        BY <3>1
    <2>6. Block(t, from) = [p \in 1..N |-> Step(Block(t, from), p)]
      <3> HIDE DEF g
      <3> QED
        BY <2>5 DEF Block
    <2> HIDE DEF Step
    <2> QED
      BY <2>6 DEF Step
  <1>3. SUFFICES ASSUME T # {} PROVE FALSE
    OBVIOUS
  <1>4. PICK j \in T : \A i \in T : ~(<<i, j>> \in OpToRel(<, Nat))
    <2>1. T \in SUBSET Nat
      BY <1>1
    <2> QED
      BY <1>3, <2>1, NatLessThanWellFounded, WFMin, ZenonT(60)
  <1>5. j \in 0..(N - 1) /\ ~Behind(N - j)
    OBVIOUS
  <1> DEFINE k == N - j
  <1>6. k \in 1..N /\ k \in Nat
    BY <1>1, <1>5
  <1>7. Behind(k + 1)
    <2>1. CASE j = 0
      <3>1. \A p : ~(p \in (k + 1)..N)
        BY <1>1, <2>1
      <3> QED
        BY <3>1
    <2>2. CASE j # 0
      <3>1. j - 1 \in 0..(N - 1) /\ <<j - 1, j>> \in OpToRel(<, Nat) /\ N - (j - 1) = k + 1
        BY <1>1, <1>5, <2>2 DEF OpToRel
      <3>2. j - 1 \notin T
        BY <1>4, <3>1
      <3> HIDE DEF Behind, k
      <3>3. Behind(N - (j - 1))
        BY <3>1, <3>2
      <3> QED
        BY <3>1, <3>3
    <2> QED
      BY <2>1, <2>2
  <1>8. PICK f : \A p \in (k + 1)..N : f[p] = Step(f, p)
    BY <1>7
  <1> DEFINE g == [p \in k..N |-> IF p = k THEN Step(f, k) ELSE f[p]]
  <1>9. \A p \in k..N : Step(f, p) = Step(g, p)
    <2> SUFFICES ASSUME NEW p \in k..N PROVE Step(f, p) = Step(g, p)
      OBVIOUS
    <2>1. \A q \in (p + 1)..N : f[q] = g[q]
      <3> HIDE DEF k, N, Step
      <3> QED
        BY <1>1, <1>6
    <2>2. p \in 1..N
      <3> HIDE DEF k, N
      <3> QED
        BY <1>1, <1>6
    <2> HIDE DEF g
    <2> QED
      BY <2>1, <2>2, BlockLocal
  <1>10. \A p \in k..N : g[p] = Step(f, p)
    <2> HIDE DEF k, N, Step
    <2> QED
      BY <1>1, <1>6, <1>8
  <1>11. Behind(k)
    <2> HIDE DEF g, k, N, Step
    <2> QED
      BY <1>9, <1>10
  <1> QED
    BY <1>5, <1>11

\* HeaderBlock is this function at its start.
LEMMA HeaderBlockIs ==
    ASSUME NEW t, NEW from
    PROVE  HeaderBlock(t, from) = Block(t, from)[from]
  BY DEF HeaderBlock, Block, BlockAt

\* The empty line ends the block.
LEMMA BlockEmpty ==
    ASSUME NEW t \in Seq(Byte), NEW from, NEW p \in 1..(Len(t) + 1), Empty(t, p)
    PROVE  Block(t, from)[p] = [ok |-> TRUE, headers |-> <<>>, end |-> p + 1]
  BY BlockDefined DEF BlockAt, Empty

\* Where there is no header line either, the block is none.
LEMMA BlockNone ==
    ASSUME NEW t \in Seq(Byte), NEW from, NEW p \in 1..(Len(t) + 1), ~Empty(t, p), ~HasLine(t, from, p)
    PROVE  Block(t, from)[p] = [ok |-> FALSE, headers |-> <<>>, end |-> p]
  <1>1. p > Len(t) \/ t[p] = CR \/ (p = from /\ t[p] = LF) \/ ~HeaderLine(t, p).ok
    BY LenProperties DEF HasLine
  <1>2. BlockAt(t, from, Block(t, from), p) = [ok |-> FALSE, headers |-> <<>>, end |-> p]
    BY <1>1, Zenon DEF BlockAt, Empty
  <1> QED
    BY <1>2, BlockDefined

\* A header line goes before the rest of the block.
LEMMA BlockMore ==
    ASSUME NEW t \in Seq(Byte), NEW from, NEW p \in 1..(Len(t) + 1), ~Empty(t, p), HasLine(t, from, p),
           NEW x, x = HeaderLine(t, p).next, NEW y, y = <<[key |-> HeaderLine(t, p).key, val |-> HeaderLine(t, p).val]>>
    PROVE  /\ DOMAIN Block(t, from)[p] = DOMAIN Block(t, from)[x]
           /\ \A a \in DOMAIN Block(t, from)[x] :
                Block(t, from)[p][a] = IF a = "headers" THEN y \o Block(t, from)[x].headers ELSE Block(t, from)[x][a]
  <1> DEFINE B == Block(t, from)
             h == HeaderLine(t, p)
  <1>1. ~(p > Len(t) \/ t[p] = CR \/ (p = from /\ t[p] = LF) \/ ~HeaderLine(t, p).ok)
    BY LenProperties DEF HasLine
  <1>2. BlockAt(t, from, B, p) = [B[h.next] EXCEPT !.headers = <<[key |-> h.key, val |-> h.val]>> \o B[h.next].headers]
    BY <1>1, Zenon DEF BlockAt, Empty
  <1>3. B[p] = BlockAt(t, from, B, p)
    BY BlockDefined
  <1>4. B[p] = [B[x] EXCEPT !.headers = y \o B[x].headers]
    BY <1>2, <1>3, Zenon
  <1> HIDE DEF B, h
  <1> QED
    BY <1>4 DEF B

\* The fields of a block; one that is complete ends behind its start.
LEMMA BlockFields ==
    ASSUME NEW t \in Seq(Byte), NEW from
    PROVE  \A p \in 1..(Len(t) + 1) :
             /\ DOMAIN Block(t, from)[p] = {"ok", "headers", "end"}
             /\ Block(t, from)[p].ok \in BOOLEAN
             /\ Block(t, from)[p].ok => /\ Block(t, from)[p].end \in Nat
                                        /\ p < Block(t, from)[p].end /\ Block(t, from)[p].end <= Len(t)
  <1> DEFINE N == Len(t) + 1
             B == Block(t, from)
             Good(p) == /\ DOMAIN B[p] = {"ok", "headers", "end"} /\ B[p].ok \in BOOLEAN
                        /\ B[p].ok => B[p].end \in Nat /\ p < B[p].end /\ B[p].end <= Len(t)
             T == {j \in 0..(N - 1) : ~Good(N - j)}
  <1>1. N \in Nat /\ N >= 1 /\ Len(t) \in Nat
    BY LenProperties
  <1>2. SUFFICES T = {}
    <2> SUFFICES ASSUME NEW p \in 1..N PROVE Good(p)
      OBVIOUS
    <2> HIDE DEF Good, N
    <2>1. N - p \in 0..(N - 1) /\ N - (N - p) = p
      BY <1>1
    <2>2. N - p \notin T
      BY <1>2
    <2>3. Good(N - (N - p))
      BY <2>1, <2>2
    <2> QED
      BY <2>1, <2>3
  <1>3. SUFFICES ASSUME T # {} PROVE FALSE
    OBVIOUS
  <1>4. PICK j \in T : \A i \in T : ~(<<i, j>> \in OpToRel(<, Nat))
    <2>1. T \in SUBSET Nat
      BY <1>1
    <2> HIDE DEF T
    <2> QED
      BY <1>3, <2>1, NatLessThanWellFounded, WFMin
  <1> HIDE DEF Good, N
  <1>5. j \in 0..(N - 1) /\ ~Good(N - j)
    OBVIOUS
  <1> DEFINE p == N - j
  <1>6. p \in 1..N /\ p \in Nat /\ ~Good(p)
    BY <1>1, <1>5
  <1>7. ASSUME NEW q \in (p + 1)..N PROVE Good(q)
    <2>1. N - q \in 0..(N - 1) /\ <<N - q, j>> \in OpToRel(<, Nat) /\ N - (N - q) = q
      BY <1>1, <1>5 DEF OpToRel
    <2>2. N - q \notin T
      BY <1>4, <2>1
    <2>3. Good(N - (N - q))
      BY <2>1, <2>2
    <2> QED
      BY <2>1, <2>3
  <1> HIDE DEF p, T
  <1>8. CASE Empty(t, p)
    <2>1. B[p] = [ok |-> TRUE, headers |-> <<>>, end |-> p + 1]
      BY <1>6, <1>8, BlockEmpty DEF N
    <2>2. p + 1 \in Nat /\ p < p + 1 /\ p + 1 <= Len(t)
      BY <1>1, <1>6, <1>8 DEF Empty
    <2> HIDE DEF B
    <2>3. Good(p)
      BY <2>1, <2>2 DEF Good
    <2> QED
      BY <1>6, <2>3
  <1>9. CASE ~Empty(t, p) /\ ~HasLine(t, from, p)
    <2>1. B[p] = [ok |-> FALSE, headers |-> <<>>, end |-> p]
      BY <1>6, <1>9, BlockNone DEF N
    <2> HIDE DEF B
    <2>2. Good(p)
      BY <2>1 DEF Good
    <2> QED
      BY <1>6, <2>2
  <1>10. CASE ~Empty(t, p) /\ HasLine(t, from, p)
    <2> DEFINE x == HeaderLine(t, p).next
               g == <<[key |-> HeaderLine(t, p).key, val |-> HeaderLine(t, p).val]>>
               y == g \o B[x].headers
    <2>1. p <= Len(t) /\ HeaderLine(t, p).ok /\ 1 <= p
      BY <1>6, <1>10 DEF HasLine
    <2>2. x \in Nat /\ p + 1 < x /\ x <= N
      BY <1>6, <2>1, NextLineBehind DEF N
    <2>3. DOMAIN B[p] = DOMAIN B[x] /\ \A a \in DOMAIN B[x] : B[p][a] = IF a = "headers" THEN y ELSE B[x][a]
      <3>1. p \in 1..(Len(t) + 1) /\ x = HeaderLine(t, p).next
        BY <1>6 DEF N
      <3>2. g = <<[key |-> HeaderLine(t, p).key, val |-> HeaderLine(t, p).val]>>
        OBVIOUS
      <3> HIDE DEF x, g
      <3> QED
        BY <1>10, <3>1, <3>2, BlockMore
    <2> HIDE DEF x, y, B
    <2>4. x \in (p + 1)..N
      BY <1>1, <1>6, <2>2
    <2>5. Good(x)
      BY <1>7, <2>4
    <2>6. DOMAIN B[p] = {"ok", "headers", "end"} /\ B[p].ok = B[x].ok /\ B[p].end = B[x].end
      BY <2>3, <2>5 DEF Good
    <2>7. Good(p)
      BY <1>6, <2>2, <2>5, <2>6 DEF Good
    <2> QED
      BY <1>6, <2>7
  <1> QED
    BY <1>8, <1>9, <1>10

\* What a header line adds to the rest.
Adds(t, from, p, ke, vs, ve) ==
    /\ ve + 2 \in 1..(Len(t) + 1) /\ p \in 1..(Len(t) + 1)
    /\ Block(t, from)[p].ok = Block(t, from)[ve + 2].ok
    /\ Block(t, from)[p].end = Block(t, from)[ve + 2].end
    /\ Block(t, from)[p].headers =
         <<[key |-> SubSeq(t, p, ke - 1), val |-> SubSeq(t, vs, ve - 1)]>> \o Block(t, from)[ve + 2].headers

\* The block from a header line on: the header, then the block behind it.
LEMMA BlockLine ==
    ASSUME NEW t \in Seq(Byte), NEW from, NEW p \in Nat, NEW ke \in Nat, NEW vs \in Nat, NEW ve \in Nat,
           1 <= p, ve < Len(t), HeaderRead(t, from, p, ke, vs, ve)
    PROVE  Adds(t, from, p, ke, vs, ve)
  <1> DEFINE B == Block(t, from)
             x == ve + 2
             g == <<[key |-> SubSeq(t, p, ke - 1), val |-> SubSeq(t, vs, ve - 1)]>>
             y == g \o B[x].headers
  <1>1. /\ HeaderLine(t, p).ok /\ HeaderLine(t, p).next = ve + 2
        /\ HeaderLine(t, p).key = SubSeq(t, p, ke - 1) /\ HeaderLine(t, p).val = SubSeq(t, vs, ve - 1)
        /\ p < ke /\ ke < vs /\ vs < ve
    BY HeaderOfShape
  <1>2. Len(t) \in Nat /\ p <= Len(t) /\ x \in 1..(Len(t) + 1) /\ p \in 1..(Len(t) + 1)
    BY <1>1, LenProperties
  <1>3. t[p] # CR /\ (p = from => t[p] # LF)
    BY DEF HeaderRead, KeyAt
  <1>4. ~Empty(t, p) /\ HasLine(t, from, p)
    BY <1>1, <1>2, <1>3 DEF Empty, HasLine
  <1>5. DOMAIN B[p] = DOMAIN B[x] /\ \A a \in DOMAIN B[x] : B[p][a] = IF a = "headers" THEN y ELSE B[x][a]
    <2>1. x = HeaderLine(t, p).next
      BY <1>1
    <2>2. g = <<[key |-> HeaderLine(t, p).key, val |-> HeaderLine(t, p).val]>>
      BY <1>1
    <2> HIDE DEF x, g
    <2> QED
      BY <1>2, <1>4, <2>1, <2>2, BlockMore, SMTT(40)
  <1>6. DOMAIN B[x] = {"ok", "headers", "end"}
    BY <1>2, BlockFields
  <1> HIDE DEF B, y, x
  <1>7. B[p].ok = B[x].ok /\ B[p].end = B[x].end /\ B[p].headers = y
    BY <1>5, <1>6
  <1> QED
    BY <1>2, <1>7 DEF B, x, y, Adds
-----------------------------------------------------------------------------
(* Runs of bytes.                                                           *)

\* A run that goes on.
LEMMA RunMore ==
    ASSUME NEW t, NEW i \in Int, NEW n \in Int, NEW S
    PROVE  /\ AllOf(t, i, n, S) /\ t[n + 1] \in S => AllOf(t, i, n + 1, S)
           /\ NoneOf(t, i, n, S) /\ t[n + 1] \notin S => NoneOf(t, i, n + 1, S)
           /\ n < i => AllOf(t, i, n, S) /\ NoneOf(t, i, n, S)
  BY DEF AllOf, NoneOf

\* A run of one byte.
LEMMA RunOne ==
    ASSUME NEW t, NEW n \in Int, NEW S
    PROVE  /\ t[n] \in S => AllOf(t, n, n, S)
           /\ t[n] \notin S => NoneOf(t, n, n, S)
           /\ AllOf(t, n, n - 1, S) /\ AllOf(t, n + 1, n, S)
  BY DEF AllOf, NoneOf

\* The same for spaces.
LEMMA SpacesMore ==
    ASSUME NEW t, NEW i \in Int, NEW n \in Int, NEW k \in Int, k = n + 1, AllOf(t, i, n, {SP}), t[k] = SP
    PROVE  AllOf(t, i, k, {SP})
  <1> DEFINE S == {SP}
  <1>1. t[k] \in S
    OBVIOUS
  <1>2. AllOf(t, i, n, S)
    OBVIOUS
  <1> HIDE DEF S
  <1>3. AllOf(t, i, k, S)
    BY <1>1, <1>2 DEF AllOf
  <1> QED
    BY <1>3 DEF S

\* The first of them.
LEMMA SpacesOne ==
    ASSUME NEW t, NEW k \in Int
    PROVE  (t[k] = SP => AllOf(t, k, k, {SP})) /\ (t[k] # SP => NoneOf(t, k, k, {SP}))
  <1> DEFINE S == {SP}
  <1>1. t[k] \in S <=> t[k] = SP
    OBVIOUS
  <1> HIDE DEF S
  <1>2. (t[k] = SP => AllOf(t, k, k, S)) /\ (t[k] # SP => NoneOf(t, k, k, S))
    BY <1>1 DEF AllOf, NoneOf
  <1> QED
    BY <1>2 DEF S

\* A run has not come to the byte that ends it.
LEMMA NotYet ==
    ASSUME NEW t, NEW i \in Int, NEW n \in Int, NEW k \in Int, NEW S, i <= k
    PROVE  /\ AllOf(t, i, n, S) /\ t[k] \notin S => n < k
           /\ NoneOf(t, i, n, S) /\ t[k] \in S => n < k
  BY DEF AllOf, NoneOf

\* A byte of a run.
LEMMA InRun ==
    ASSUME NEW t, NEW i \in Int, NEW j \in Int, NEW k \in Int, NEW S, i <= k, k < j
    PROVE  /\ AllOf(t, i, j - 1, S) => t[k] \in S
           /\ NoneOf(t, i, j - 1, S) => t[k] \notin S
  BY DEF AllOf, NoneOf

\* Two runs from one place on end at one place.
LEMMA SameStop ==
    ASSUME NEW t, NEW i \in Int, NEW j \in Int, NEW k \in Int, NEW S, i <= j, i <= k
    PROVE  /\ AllOf(t, i, j - 1, S) /\ t[j] \notin S /\ AllOf(t, i, k - 1, S) /\ t[k] \notin S => j = k
           /\ NoneOf(t, i, j - 1, S) /\ t[j] \in S /\ NoneOf(t, i, k - 1, S) /\ t[k] \in S => j = k
  <1>1. /\ AllOf(t, i, j - 1, S) /\ t[k] \notin S => j - 1 < k
        /\ NoneOf(t, i, j - 1, S) /\ t[k] \in S => j - 1 < k
    BY DEF AllOf, NoneOf
  <1>2. /\ AllOf(t, i, k - 1, S) /\ t[j] \notin S => k - 1 < j
        /\ NoneOf(t, i, k - 1, S) /\ t[j] \in S => k - 1 < j
    BY DEF AllOf, NoneOf
  <1> QED
    BY <1>1, <1>2
-----------------------------------------------------------------------------
(* The tables.                                                              *)

\* A byte a state has an edge for.
Accepts(rules, st, x) == \E rule \in rules : rule[1] = st /\ x \in rule[2]

\* The edges of LineRules, state by state.
LEMMA LineEdges ==
    ASSUME NEW rule \in LineRules
    PROVE
      /\ rule[1] = "start" => 
           \/ rule[2] = {CR, LF} /\ rule[3] = "start"
           \/ rule[2] = Upper /\ rule[3] = "method"
      /\ rule[1] = "method" => 
           \/ rule[2] = Upper /\ rule[3] = "method"
           \/ rule[2] = {SP} /\ rule[3] = "spaces_before_uri"
      /\ rule[1] = "spaces_before_uri" => 
           \/ rule[2] = {SP} /\ rule[3] = "spaces_before_uri"
           \/ rule[2] = {"/"} /\ rule[3] = "after_slash_in_uri"
      /\ rule[1] = "after_slash_in_uri" => 
           \/ rule[2] = Byte \ {SP} /\ rule[3] = "after_slash_in_uri"
           \/ rule[2] = {SP} /\ rule[3] = "http"
      /\ rule[1] = "http" => 
           \/ rule[2] = {SP} /\ rule[3] = "http"
           \/ rule[2] = {"H"} /\ rule[3] = "http_H"
      /\ rule[1] = "http_H" => rule[2] = {"T"} /\ rule[3] = "http_HT"
      /\ rule[1] = "http_HT" => rule[2] = {"T"} /\ rule[3] = "http_HTT"
      /\ rule[1] = "http_HTT" => rule[2] = {"P"} /\ rule[3] = "http_HTTP"
      /\ rule[1] = "http_HTTP" => rule[2] = {"/"} /\ rule[3] = "first_major_digit"
      /\ rule[1] = "first_major_digit" => rule[2] = Digit \ {"0"} /\ rule[3] = "major_digit"
      /\ rule[1] = "major_digit" => 
           \/ rule[2] = Digit /\ rule[3] = "major_digit"
           \/ rule[2] = {"."} /\ rule[3] = "first_minor_digit"
      /\ rule[1] = "first_minor_digit" => rule[2] = Digit /\ rule[3] = "minor_digit"
      /\ rule[1] = "minor_digit" => 
           \/ rule[2] = Digit /\ rule[3] = "minor_digit"
           \/ rule[2] = {SP} /\ rule[3] = "spaces_after_digit"
           \/ rule[2] = {CR} /\ rule[3] = "almost_done"
           \/ rule[2] = {LF} /\ rule[3] = "done"
      /\ rule[1] = "spaces_after_digit" => 
           \/ rule[2] = {SP} /\ rule[3] = "spaces_after_digit"
           \/ rule[2] = {CR} /\ rule[3] = "almost_done"
           \/ rule[2] = {LF} /\ rule[3] = "done"
      /\ rule[1] = "almost_done" => rule[2] = {LF} /\ rule[3] = "done"
  BY DEF LineRules

\* The bytes each state of LineRules has an edge for.
LEMMA LineAccepts ==
    ASSUME NEW x
    PROVE
      /\ x \in {CR, LF} => Accepts(LineRules, "start", x)
      /\ x \in Upper => Accepts(LineRules, "start", x)
      /\ x \in Upper => Accepts(LineRules, "method", x)
      /\ x \in {SP} => Accepts(LineRules, "method", x)
      /\ x \in {SP} => Accepts(LineRules, "spaces_before_uri", x)
      /\ x \in {"/"} => Accepts(LineRules, "spaces_before_uri", x)
      /\ x \in (Byte \ {SP}) => Accepts(LineRules, "after_slash_in_uri", x)
      /\ x \in {SP} => Accepts(LineRules, "after_slash_in_uri", x)
      /\ x \in {SP} => Accepts(LineRules, "http", x)
      /\ x \in {"H"} => Accepts(LineRules, "http", x)
      /\ x \in {"T"} => Accepts(LineRules, "http_H", x)
      /\ x \in {"T"} => Accepts(LineRules, "http_HT", x)
      /\ x \in {"P"} => Accepts(LineRules, "http_HTT", x)
      /\ x \in {"/"} => Accepts(LineRules, "http_HTTP", x)
      /\ x \in (Digit \ {"0"}) => Accepts(LineRules, "first_major_digit", x)
      /\ x \in Digit => Accepts(LineRules, "major_digit", x)
      /\ x \in {"."} => Accepts(LineRules, "major_digit", x)
      /\ x \in Digit => Accepts(LineRules, "first_minor_digit", x)
      /\ x \in Digit => Accepts(LineRules, "minor_digit", x)
      /\ x \in {SP} => Accepts(LineRules, "minor_digit", x)
      /\ x \in {CR} => Accepts(LineRules, "minor_digit", x)
      /\ x \in {LF} => Accepts(LineRules, "minor_digit", x)
      /\ x \in {SP} => Accepts(LineRules, "spaces_after_digit", x)
      /\ x \in {CR} => Accepts(LineRules, "spaces_after_digit", x)
      /\ x \in {LF} => Accepts(LineRules, "spaces_after_digit", x)
      /\ x \in {LF} => Accepts(LineRules, "almost_done", x)
  BY DEF LineRules, Accepts

\* The states of the line parser.
LEMMA LineStatesAre ==
    LineStates =
    {"start", "method", "spaces_before_uri", "after_slash_in_uri", "http",
     "http_H", "http_HT", "http_HTT", "http_HTTP", "first_major_digit",
     "major_digit", "first_minor_digit", "minor_digit", "spaces_after_digit",
     "almost_done"}
  <1> DEFINE S == {"start", "method", "spaces_before_uri", "after_slash_in_uri", "http",
                   "http_H", "http_HT", "http_HTT", "http_HTTP", "first_major_digit",
                   "major_digit", "first_minor_digit", "minor_digit", "spaces_after_digit",
                   "almost_done"}
  <1>1. \A rule \in LineRules : rule[1] \in S
    BY DEF LineRules
  <1>2. \A s \in S : \E rule \in LineRules : rule[1] = s
    BY DEF LineRules
  <1>3. LineStates = S
    BY <1>1, <1>2 DEF LineStates
  <1> QED
    BY <1>3

\* The edges of HeaderRules, state by state.
LEMMA HeaderEdges ==
    ASSUME NEW rule \in HeaderRules
    PROVE
      /\ rule[1] = "start" => 
           \/ rule[2] = {CR} /\ rule[3] = "crlfcr"
           \/ rule[2] = Byte \ {CR, LF} /\ rule[3] = "key"
      /\ rule[1] = "key" => 
           \/ rule[2] = {SP} /\ rule[3] = "spaces_before_colon"
           \/ rule[2] = {":"} /\ rule[3] = "spaces_after_colon"
           \/ rule[2] = Byte \ {SP, ":"} /\ rule[3] = "key"
      /\ rule[1] = "spaces_before_colon" => 
           \/ rule[2] = {SP} /\ rule[3] = "spaces_before_colon"
           \/ rule[2] = {":"} /\ rule[3] = "spaces_after_colon"
      /\ rule[1] = "spaces_after_colon" => 
           \/ rule[2] = {SP} /\ rule[3] = "spaces_after_colon"
           \/ rule[2] = Byte \ {SP} /\ rule[3] = "value"
      /\ rule[1] = "value" => 
           \/ rule[2] = {CR} /\ rule[3] = "cr"
           \/ rule[2] = Byte \ {CR, LF} /\ rule[3] = "value"
      /\ rule[1] = "cr" => rule[2] = {LF} /\ rule[3] = "crlf"
      /\ rule[1] = "crlf" => 
           \/ rule[2] = {CR} /\ rule[3] = "crlfcr"
           \/ rule[2] = Byte \ {CR} /\ rule[3] = "key"
      /\ rule[1] = "crlfcr" => rule[2] = {LF} /\ rule[3] = "done"
  BY DEF HeaderRules

\* The bytes each state of HeaderRules has an edge for.
LEMMA HeaderAccepts ==
    ASSUME NEW x
    PROVE
      /\ x \in {CR} => Accepts(HeaderRules, "start", x)
      /\ x \in (Byte \ {CR, LF}) => Accepts(HeaderRules, "start", x)
      /\ x \in {SP} => Accepts(HeaderRules, "key", x)
      /\ x \in {":"} => Accepts(HeaderRules, "key", x)
      /\ x \in (Byte \ {SP, ":"}) => Accepts(HeaderRules, "key", x)
      /\ x \in {SP} => Accepts(HeaderRules, "spaces_before_colon", x)
      /\ x \in {":"} => Accepts(HeaderRules, "spaces_before_colon", x)
      /\ x \in {SP} => Accepts(HeaderRules, "spaces_after_colon", x)
      /\ x \in (Byte \ {SP}) => Accepts(HeaderRules, "spaces_after_colon", x)
      /\ x \in {CR} => Accepts(HeaderRules, "value", x)
      /\ x \in (Byte \ {CR, LF}) => Accepts(HeaderRules, "value", x)
      /\ x \in {LF} => Accepts(HeaderRules, "cr", x)
      /\ x \in {CR} => Accepts(HeaderRules, "crlf", x)
      /\ x \in (Byte \ {CR}) => Accepts(HeaderRules, "crlf", x)
      /\ x \in {LF} => Accepts(HeaderRules, "crlfcr", x)
  BY DEF HeaderRules, Accepts

\* The states of the header parser.
LEMMA HeaderStatesAre ==
    HeaderStates =
    {"start", "key", "spaces_before_colon", "spaces_after_colon", "value", "cr",
     "crlf", "crlfcr"}
  <1> DEFINE S == {"start", "key", "spaces_before_colon", "spaces_after_colon", "value", "cr",
                   "crlf", "crlfcr"}
  <1>1. \A rule \in HeaderRules : rule[1] \in S
    BY DEF HeaderRules
  <1>2. \A s \in S : \E rule \in HeaderRules : rule[1] = s
    BY DEF HeaderRules
  <1>3. HeaderStates = S
    BY <1>1, <1>2, SMTT(40) DEF HeaderStates
  <1> QED
    BY <1>3
-----------------------------------------------------------------------------
(* A byte of the request line: from what is read before it to what is read with it. *)

\* What LineAt says, state by state.
LEMMA LineAtIs ==
    ASSUME NEW t, NEW b, NEW n, NEW a, NEW m, NEW u, NEW v, NEW w
    PROVE
      /\ LineAt(t, b, "start", n, a, m, u, v, w) <=> AllOf(t, b + 1, n, {CR, LF})
      /\ LineAt(t, b, "method", n, a, m, u, v, w) <=>
           b < a /\ a <= n /\ AllOf(t, b + 1, a - 1, {CR, LF}) /\ AllOf(t, a, n, Upper)
      /\ LineAt(t, b, "spaces_before_uri", n, a, m, u, v, w) <=>
           WordAt(t, b, a) /\ WordTo(t, a, m) /\ m <= n /\ AllOf(t, m, n, {SP})
      /\ LineAt(t, b, "after_slash_in_uri", n, a, m, u, v, w) <=>
           WordAt(t, b, a) /\ WordTo(t, a, m) /\ UriAt(t, m, u) /\ u <= n /\ NoneOf(t, u, n, {SP})
      /\ LineAt(t, b, "http", n, a, m, u, v, w) <=>
           /\ MethodUri(t, b, a, m, u, v) /\ v <= n
           /\ AllOf(t, v, n, {SP})
      /\ LineAt(t, b, "http_H", n, a, m, u, v, w) <=>
           /\ MethodUri(t, b, a, m, u, v) /\ v <= n
           /\ SpacesTo(t, v, n) /\ HttpAt(t, n, 0)
      /\ LineAt(t, b, "http_HT", n, a, m, u, v, w) <=>
           /\ MethodUri(t, b, a, m, u, v) /\ v <= n
           /\ SpacesTo(t, v, n - 1) /\ HttpAt(t, n - 1, 1)
      /\ LineAt(t, b, "http_HTT", n, a, m, u, v, w) <=>
           /\ MethodUri(t, b, a, m, u, v) /\ v <= n
           /\ SpacesTo(t, v, n - 2) /\ HttpAt(t, n - 2, 2)
      /\ LineAt(t, b, "http_HTTP", n, a, m, u, v, w) <=>
           /\ MethodUri(t, b, a, m, u, v) /\ v <= n
           /\ SpacesTo(t, v, n - 3) /\ HttpAt(t, n - 3, 3)
      /\ LineAt(t, b, "first_major_digit", n, a, m, u, v, w) <=>
           /\ MethodUri(t, b, a, m, u, v) /\ v <= n
           /\ SpacesTo(t, v, n - 4) /\ HttpAt(t, n - 4, 4)
      /\ LineAt(t, b, "major_digit", n, a, m, u, v, w) <=>
           /\ MethodUri(t, b, a, m, u, v) /\ v <= n
           /\ \E h \in v..n : SpacesTo(t, v, h) /\ HttpAt(t, h, 4) /\ MajorTo(t, h, n + 1) /\ MajorIs(t, w, h, n + 1)
      /\ LineAt(t, b, "first_minor_digit", n, a, m, u, v, w) <=>
           /\ MethodUri(t, b, a, m, u, v) /\ v <= n
           /\ \E h \in v..n : DotAt(t, v, h, n) /\ MajorIs(t, w, h, n)
      /\ LineAt(t, b, "minor_digit", n, a, m, u, v, w) <=>
           /\ MethodUri(t, b, a, m, u, v) /\ v <= n
           /\ \E h, d \in v..n : DotAt(t, v, h, d) /\ MajorIs(t, w, h, d) /\ MinorTo(t, d, n + 1) /\ MinorIs(t, w, d, n)
      /\ LineAt(t, b, "spaces_after_digit", n, a, m, u, v, w) <=>
           /\ MethodUri(t, b, a, m, u, v) /\ v <= n
           /\ \E h, d, z \in v..n :
                DotAt(t, v, h, d) /\ MajorIs(t, w, h, d) /\ MinorTo(t, d, z) /\ MinorIs(t, w, d, n) /\ AllOf(t, z, n, {SP})
      /\ LineAt(t, b, "almost_done", n, a, m, u, v, w) <=>
           /\ MethodUri(t, b, a, m, u, v) /\ v <= n
           /\ \E h, d, z \in v..n :
                /\ DotAt(t, v, h, d) /\ MajorIs(t, w, h, d) /\ MinorTo(t, d, z) /\ MinorIs(t, w, d, n)
                /\ AllOf(t, z, n - 1, {SP}) /\ t[n] = CR
  BY DEF LineAt

\* Before the method.
LEMMA StepStart ==
    ASSUME NEW t \in Seq(Byte), NEW b \in Nat, NEW n \in Nat, NEW a \in Nat, NEW m \in Nat, NEW u \in Nat, NEW v \in Nat,
           NEW w \in [major : Nat, minor : Nat], b <= n, n < Len(t), NEW x, x = t[n + 1],
           LineAt(t, b, "start", n, a, m, u, v, w)
    PROVE  /\ x \in {CR, LF} => LineAt(t, b, "start", n + 1, n + 1, m, u, v, w)
           /\ x \in Upper => LineAt(t, b, "method", n + 1, n + 1, m, u, v, w)
  <1>1. AllOf(t, b + 1, n, {CR, LF})
    BY LineAtIs
  <1>2. x \in {CR, LF} => AllOf(t, b + 1, n + 1, {CR, LF})
    BY <1>1, SMTT(40) DEF AllOf
  <1>3. x \in Upper => AllOf(t, n + 1, n + 1, Upper) /\ AllOf(t, b + 1, (n + 1) - 1, {CR, LF}) /\ b < n + 1 /\ n + 1 <= n + 1
    BY <1>1 DEF AllOf
  <1> QED
    BY <1>2, <1>3, LineAtIs

\* The method.
LEMMA StepMethod ==
    ASSUME NEW t \in Seq(Byte), NEW b \in Nat, NEW n \in Nat, NEW a \in Nat, NEW m \in Nat, NEW u \in Nat, NEW v \in Nat,
           NEW w \in [major : Nat, minor : Nat], b <= n, n < Len(t), NEW x, x = t[n + 1],
           LineAt(t, b, "method", n, a, m, u, v, w)
    PROVE  /\ x \in Upper => LineAt(t, b, "method", n + 1, a, m, u, v, w)
           /\ x = SP => LineAt(t, b, "spaces_before_uri", n + 1, a, n + 1, u, v, w)
  <1>1. b < a /\ a <= n /\ AllOf(t, b + 1, a - 1, {CR, LF}) /\ AllOf(t, a, n, Upper)
    BY LineAtIs
  <1>2. x \in Upper => AllOf(t, a, n + 1, Upper) /\ a <= n + 1
    BY <1>1, SMTT(40) DEF AllOf
  <1>3. WordAt(t, b, a)
    BY <1>1 DEF WordAt, AllOf
  <1>4. x = SP => WordTo(t, a, n + 1) /\ n + 1 <= n + 1
    BY <1>1 DEF WordTo, AllOf
  <1>5. x = SP => AllOf(t, n + 1, n + 1, {SP})
    <2>1. n + 1 \in Int
      OBVIOUS
    <2> QED
      BY <2>1, SpacesOne, Zenon
  <1> QED
    BY <1>1, <1>2, <1>3, <1>4, <1>5, LineAtIs

\* The spaces before the URI.
LEMMA StepBeforeUri ==
    ASSUME NEW t \in Seq(Byte), NEW b \in Nat, NEW n \in Nat, NEW a \in Nat, NEW m \in Nat, NEW u \in Nat, NEW v \in Nat,
           NEW w \in [major : Nat, minor : Nat], b <= n, n < Len(t), NEW x, x = t[n + 1],
           LineAt(t, b, "spaces_before_uri", n, a, m, u, v, w)
    PROVE  /\ x = SP => LineAt(t, b, "spaces_before_uri", n + 1, a, m, u, v, w)
           /\ x = "/" => LineAt(t, b, "after_slash_in_uri", n + 1, a, m, n + 1, v, w)
  <1>1. WordAt(t, b, a) /\ WordTo(t, a, m) /\ m <= n /\ AllOf(t, m, n, {SP})
    BY LineAtIs
  <1>4. m <= n + 1
    BY <1>1
  <1>2. x = SP => AllOf(t, m, n + 1, {SP})
    <2>1. m \in Int /\ v \in Int /\ n \in Int /\ n + 1 \in Int
      OBVIOUS
    <2> QED
      BY <1>1, <2>1, SpacesMore, Zenon
  <1>3. x = "/" => UriAt(t, m, n + 1) /\ n + 1 <= n + 1 /\ NoneOf(t, n + 1, n + 1, {SP})
    <2>1. (n + 1) - 1 = n /\ m < n + 1
      BY <1>1
    <2>2. AllOf(t, m, (n + 1) - 1, {SP})
      BY <1>1, <2>1
    <2>3. x = "/" => NoneOf(t, n + 1, n + 1, {SP})
      <3>1. n + 1 \in Int /\ "/" # SP
        BY Bytes
      <3> QED
        BY <3>1, SpacesOne, Zenon
    <2> QED
      BY <2>1, <2>2, <2>3 DEF UriAt
  <1> QED
    BY <1>1, <1>2, <1>3, <1>4, LineAtIs

\* The URI.
LEMMA StepUri ==
    ASSUME NEW t \in Seq(Byte), NEW b \in Nat, NEW n \in Nat, NEW a \in Nat, NEW m \in Nat, NEW u \in Nat, NEW v \in Nat,
           NEW w \in [major : Nat, minor : Nat], b <= n, n < Len(t), NEW x, x = t[n + 1],
           LineAt(t, b, "after_slash_in_uri", n, a, m, u, v, w)
    PROVE  /\ x # SP => LineAt(t, b, "after_slash_in_uri", n + 1, a, m, u, v, w)
           /\ x = SP => LineAt(t, b, "http", n + 1, a, m, u, n + 1, w)
  <1>1. WordAt(t, b, a) /\ WordTo(t, a, m) /\ UriAt(t, m, u) /\ u <= n /\ NoneOf(t, u, n, {SP})
    BY LineAtIs
  <1>2. x # SP => NoneOf(t, u, n + 1, {SP}) /\ u <= n + 1
    BY <1>1 DEF NoneOf
  <1>3. x = SP => UriTo(t, u, n + 1) /\ n + 1 <= n + 1 /\ AllOf(t, n + 1, n + 1, {SP})
    <2>1. (n + 1) - 1 = n /\ u < n + 1
      BY <1>1
    <2>2. NoneOf(t, u, (n + 1) - 1, {SP})
      BY <1>1, <2>1
    <2>3. x = SP => AllOf(t, n + 1, n + 1, {SP})
      <3>1. n + 1 \in Int
        OBVIOUS
      <3> QED
        BY <3>1, SpacesOne, Zenon
    <2> QED
      BY <2>1, <2>2, <2>3 DEF UriTo
  <1>4. x = SP => MethodUri(t, b, a, m, u, n + 1)
    BY <1>1, <1>3 DEF MethodUri
  <1> QED
    BY <1>1, <1>2, <1>3, <1>4, LineAtIs

\* The spaces before HTTP.
LEMMA StepHttp ==
    ASSUME NEW t \in Seq(Byte), NEW b \in Nat, NEW n \in Nat, NEW a \in Nat, NEW m \in Nat, NEW u \in Nat, NEW v \in Nat,
           NEW w \in [major : Nat, minor : Nat], b <= n, n < Len(t), NEW x, x = t[n + 1],
           LineAt(t, b, "http", n, a, m, u, v, w)
    PROVE  /\ x = SP => LineAt(t, b, "http", n + 1, a, m, u, v, w)
           /\ x = "H" => LineAt(t, b, "http_H", n + 1, a, m, u, v, w)
  <1>1. MethodUri(t, b, a, m, u, v) /\ v <= n /\ AllOf(t, v, n, {SP})
    BY LineAtIs
  <1>2. x = SP => AllOf(t, v, n + 1, {SP})
    <2>1. m \in Int /\ v \in Int /\ n \in Int /\ n + 1 \in Int
      OBVIOUS
    <2> QED
      BY <1>1, <2>1, SpacesMore, Zenon
  <1>3. x = "H" => SpacesTo(t, v, n + 1) /\ HttpAt(t, n + 1, 0)
    BY <1>1 DEF SpacesTo, HttpAt, AllOf
  <1>4. v <= n + 1
    BY <1>1
  <1> QED
    BY <1>1, <1>2, <1>3, <1>4, LineAtIs

\* HTTP, letter by letter.
LEMMA StepH ==
    ASSUME NEW t \in Seq(Byte), NEW b \in Nat, NEW n \in Nat, NEW a \in Nat, NEW m \in Nat, NEW u \in Nat, NEW v \in Nat,
           NEW w \in [major : Nat, minor : Nat], b <= n, n < Len(t), NEW x, x = t[n + 1],
           LineAt(t, b, "http_H", n, a, m, u, v, w)
    PROVE  x = "T" => LineAt(t, b, "http_HT", n + 1, a, m, u, v, w)
  <1> DEFINE h == n
  <1>1. MethodUri(t, b, a, m, u, v) /\ v <= n /\ SpacesTo(t, v, h) /\ HttpAt(t, h, 0)
    BY LineAtIs
  <1>2. v < h /\ h \in Nat
    BY <1>1 DEF SpacesTo
  <1>3. (n + 1) - 1 = h /\ h + 1 = n + 1 /\ v <= n + 1
    BY <1>1
  <1> HIDE DEF h
  <1>4. x = "T" => HttpAt(t, h, 1)
    <2>1. t[h + 1] = x
      BY <1>3
    <2> QED
      BY <1>1, <2>1 DEF HttpAt
  <1>5. x = "T" => SpacesTo(t, v, (n + 1) - 1) /\ HttpAt(t, (n + 1) - 1, 1)
    BY <1>1, <1>3, <1>4
  <1> QED
    BY <1>1, <1>3, <1>5, LineAtIs

\* HTTP, letter by letter.
LEMMA StepHT ==
    ASSUME NEW t \in Seq(Byte), NEW b \in Nat, NEW n \in Nat, NEW a \in Nat, NEW m \in Nat, NEW u \in Nat, NEW v \in Nat,
           NEW w \in [major : Nat, minor : Nat], b <= n, n < Len(t), NEW x, x = t[n + 1],
           LineAt(t, b, "http_HT", n, a, m, u, v, w)
    PROVE  x = "T" => LineAt(t, b, "http_HTT", n + 1, a, m, u, v, w)
  <1> DEFINE h == n - 1
  <1>1. MethodUri(t, b, a, m, u, v) /\ v <= n /\ SpacesTo(t, v, h) /\ HttpAt(t, h, 1)
    BY LineAtIs
  <1>2. v < h /\ h \in Nat
    BY <1>1 DEF SpacesTo
  <1>3. (n + 1) - 2 = h /\ h + 2 = n + 1 /\ v <= n + 1
    BY <1>1
  <1> HIDE DEF h
  <1>4. x = "T" => HttpAt(t, h, 2)
    <2>1. t[h + 2] = x
      BY <1>3
    <2> QED
      BY <1>1, <2>1 DEF HttpAt
  <1>5. x = "T" => SpacesTo(t, v, (n + 1) - 2) /\ HttpAt(t, (n + 1) - 2, 2)
    BY <1>1, <1>3, <1>4
  <1> QED
    BY <1>1, <1>3, <1>5, LineAtIs

\* HTTP, letter by letter.
LEMMA StepHTT ==
    ASSUME NEW t \in Seq(Byte), NEW b \in Nat, NEW n \in Nat, NEW a \in Nat, NEW m \in Nat, NEW u \in Nat, NEW v \in Nat,
           NEW w \in [major : Nat, minor : Nat], b <= n, n < Len(t), NEW x, x = t[n + 1],
           LineAt(t, b, "http_HTT", n, a, m, u, v, w)
    PROVE  x = "P" => LineAt(t, b, "http_HTTP", n + 1, a, m, u, v, w)
  <1> DEFINE h == n - 2
  <1>1. MethodUri(t, b, a, m, u, v) /\ v <= n /\ SpacesTo(t, v, h) /\ HttpAt(t, h, 2)
    BY LineAtIs
  <1>2. v < h /\ h \in Nat
    BY <1>1 DEF SpacesTo
  <1>3. (n + 1) - 3 = h /\ h + 3 = n + 1 /\ v <= n + 1
    BY <1>1
  <1> HIDE DEF h
  <1>4. x = "P" => HttpAt(t, h, 3)
    <2>1. t[h + 3] = x
      BY <1>3
    <2> QED
      BY <1>1, <2>1 DEF HttpAt
  <1>5. x = "P" => SpacesTo(t, v, (n + 1) - 3) /\ HttpAt(t, (n + 1) - 3, 3)
    BY <1>1, <1>3, <1>4
  <1> QED
    BY <1>1, <1>3, <1>5, LineAtIs

\* HTTP, letter by letter.
LEMMA StepHTTP ==
    ASSUME NEW t \in Seq(Byte), NEW b \in Nat, NEW n \in Nat, NEW a \in Nat, NEW m \in Nat, NEW u \in Nat, NEW v \in Nat,
           NEW w \in [major : Nat, minor : Nat], b <= n, n < Len(t), NEW x, x = t[n + 1],
           LineAt(t, b, "http_HTTP", n, a, m, u, v, w)
    PROVE  x = "/" => LineAt(t, b, "first_major_digit", n + 1, a, m, u, v, w)
  <1> DEFINE h == n - 3
  <1>1. MethodUri(t, b, a, m, u, v) /\ v <= n /\ SpacesTo(t, v, h) /\ HttpAt(t, h, 3)
    BY LineAtIs
  <1>2. v < h /\ h \in Nat
    BY <1>1 DEF SpacesTo
  <1>3. (n + 1) - 4 = h /\ h + 4 = n + 1 /\ v <= n + 1
    BY <1>1
  <1> HIDE DEF h
  <1>4. x = "/" => HttpAt(t, h, 4)
    <2>1. t[h + 4] = x
      BY <1>3
    <2> QED
      BY <1>1, <2>1 DEF HttpAt
  <1>5. x = "/" => SpacesTo(t, v, (n + 1) - 4) /\ HttpAt(t, (n + 1) - 4, 4)
    BY <1>1, <1>3, <1>4
  <1> QED
    BY <1>1, <1>3, <1>5, LineAtIs

\* The value of a digit.
LEMMA DigitVals ==
    ASSUME NEW d \in Digit
    PROVE  DigitVal[d] \in Nat /\ (DigitVal[d] >= 1 <=> d # "0") /\ (DigitVal[d] = 1 <=> d = "1")
  <1>1. /\ DigitVal["0"] = 0 /\ DigitVal["1"] = 1 /\ DigitVal["2"] = 2 /\ DigitVal["3"] = 3 /\ DigitVal["4"] = 4
        /\ DigitVal["5"] = 5 /\ DigitVal["6"] = 6 /\ DigitVal["7"] = 7 /\ DigitVal["8"] = 8 /\ DigitVal["9"] = 9
    BY DEF DigitVal, Digit
  <1>2. \/ d = "0" \/ d = "1"
        \/ d # "0" /\ d # "1" /\ DigitVal[d] \in {2, 3, 4, 5, 6, 7, 8, 9}
    BY <1>1 DEF Digit
  <1> QED
    BY <1>1, <1>2

\* The first digit of the version.
LEMMA StepFirstMajor ==
    ASSUME NEW t \in Seq(Byte), NEW b \in Nat, NEW n \in Nat, NEW a \in Nat, NEW m \in Nat, NEW u \in Nat, NEW v \in Nat,
           NEW w \in [major : Nat, minor : Nat], b <= n, n < Len(t), NEW x, x = t[n + 1],
           LineAt(t, b, "first_major_digit", n, a, m, u, v, w)
    PROVE  x \in Digit \ {"0"} => LineAt(t, b, "major_digit", n + 1, a, m, u, v, [w EXCEPT !.major = DigitVal[x]])
  <1> SUFFICES ASSUME x \in Digit \ {"0"}
               PROVE  LineAt(t, b, "major_digit", n + 1, a, m, u, v, [w EXCEPT !.major = DigitVal[x]])
    OBVIOUS
  <1> DEFINE h == n - 4
             w2 == [w EXCEPT !.major = DigitVal[x]]
  <1>1. MethodUri(t, b, a, m, u, v) /\ v <= n /\ SpacesTo(t, v, h) /\ HttpAt(t, h, 4)
    BY LineAtIs
  <1>2. v < h /\ h \in Nat /\ h + 5 = n + 1 /\ h \in v..(n + 1) /\ v <= n + 1
    BY <1>1 DEF SpacesTo
  <1>3. w2.major = DigitVal[x]
    OBVIOUS
  <1> HIDE DEF h, w2
  <1>4. MajorTo(t, h, (n + 1) + 1)
    BY <1>2, SMTT(40) DEF MajorTo, AllOf
  <1>5. DigitVal[x] >= 1 /\ (DigitVal[x] = 1 <=> x = "1")
    BY DigitVals
  <1>6. MajorIs(t, w2, h, (n + 1) + 1)
    <2>1. (n + 1) + 1 = h + 6 /\ t[h + 5] = x
      BY <1>2, SMTT(40)
    <2> QED
      BY <1>3, <1>5, <2>1 DEF MajorIs
  <1>7. LineAt(t, b, "major_digit", n + 1, a, m, u, v, w2)
    BY <1>1, <1>2, <1>4, <1>6, LineAtIs
  <1> QED
    BY <1>7 DEF w2

\* The digits before the dot.
LEMMA StepMajor ==
    ASSUME NEW t \in Seq(Byte), NEW b \in Nat, NEW n \in Nat, NEW a \in Nat, NEW m \in Nat, NEW u \in Nat, NEW v \in Nat,
           NEW w \in [major : Nat, minor : Nat], b <= n, n < Len(t), NEW x, x = t[n + 1],
           LineAt(t, b, "major_digit", n, a, m, u, v, w)
    PROVE  /\ x \in Digit => LineAt(t, b, "major_digit", n + 1, a, m, u, v, [w EXCEPT !.major = 10 * @ + DigitVal[x]])
           /\ x = "." => LineAt(t, b, "first_minor_digit", n + 1, a, m, u, v, w)
  <1>1. MethodUri(t, b, a, m, u, v) /\ v <= n
    BY LineAtIs
  <1>2. PICK h \in v..n : SpacesTo(t, v, h) /\ HttpAt(t, h, 4) /\ MajorTo(t, h, n + 1) /\ MajorIs(t, w, h, n + 1)
    BY LineAtIs, SMTT(40)
  <1>3. h \in Nat /\ h \in v..(n + 1) /\ v <= n + 1 /\ h + 5 < n + 1
    BY <1>1, <1>2 DEF MajorTo
  <1>4. ASSUME x \in Digit
        PROVE  LineAt(t, b, "major_digit", n + 1, a, m, u, v, [w EXCEPT !.major = 10 * @ + DigitVal[x]])
    <2> DEFINE w2 == [w EXCEPT !.major = 10 * @ + DigitVal[x]]
    <2>1. w2.major = 10 * w.major + DigitVal[x] /\ w.major \in Nat
      OBVIOUS
    <2>2. DigitVal[x] \in Nat
      BY <1>4, DigitVals
    <2>3. w.major >= 1
      BY <1>2 DEF MajorIs
    <2> HIDE DEF w2
    <2>4. w2.major >= 1 /\ w2.major # 1
      BY <2>1, <2>2, <2>3, SMTT(40)
    <2>5. MajorTo(t, h, (n + 1) + 1)
      BY <1>2, <1>3, <1>4, SMTT(40) DEF MajorTo, AllOf
    <2>6. (n + 1) + 1 # h + 6
      BY <1>3
    <2>7. MajorIs(t, w2, h, (n + 1) + 1)
      BY <2>4, <2>6 DEF MajorIs
    <2>8. LineAt(t, b, "major_digit", n + 1, a, m, u, v, w2)
      BY <1>1, <1>2, <1>3, <2>5, <2>7, LineAtIs
    <2> QED
      BY <2>8 DEF w2
  <1>5. ASSUME x = "."
        PROVE  LineAt(t, b, "first_minor_digit", n + 1, a, m, u, v, w)
    <2>1. DotAt(t, v, h, n + 1)
      BY <1>2, <1>5 DEF DotAt
    <2> QED
      BY <1>1, <1>2, <1>3, <2>1, LineAtIs
  <1> QED
    BY <1>4, <1>5

\* The first digit behind the dot.
LEMMA StepFirstMinor ==
    ASSUME NEW t \in Seq(Byte), NEW b \in Nat, NEW n \in Nat, NEW a \in Nat, NEW m \in Nat, NEW u \in Nat, NEW v \in Nat,
           NEW w \in [major : Nat, minor : Nat], b <= n, n < Len(t), NEW x, x = t[n + 1],
           LineAt(t, b, "first_minor_digit", n, a, m, u, v, w)
    PROVE  x \in Digit => LineAt(t, b, "minor_digit", n + 1, a, m, u, v, [w EXCEPT !.minor = DigitVal[x]])
  <1> SUFFICES ASSUME x \in Digit
               PROVE  LineAt(t, b, "minor_digit", n + 1, a, m, u, v, [w EXCEPT !.minor = DigitVal[x]])
    OBVIOUS
  <1> DEFINE w2 == [w EXCEPT !.minor = DigitVal[x]]
  <1>1. MethodUri(t, b, a, m, u, v) /\ v <= n
    BY LineAtIs
  <1>2. PICK h \in v..n : DotAt(t, v, h, n) /\ MajorIs(t, w, h, n)
    BY LineAtIs
  <1>3. h \in v..(n + 1) /\ n \in v..(n + 1) /\ v <= n + 1
    BY <1>1
  <1>4. w2.minor = DigitVal[x] /\ w2.major = w.major
    OBVIOUS
  <1> HIDE DEF w2
  <1>5. MinorTo(t, n, (n + 1) + 1)
    BY DEF MinorTo, AllOf
  <1>6. DigitVal[x] >= 1 <=> x # "0"
    BY DigitVals
  <1>7. (\E i \in (n + 1)..(n + 1) : t[i] \in Digit \ {"0"}) <=> x # "0"
    BY SMTT(40)
  <1>8. MinorIs(t, w2, n, n + 1) /\ MajorIs(t, w2, h, n)
    BY <1>2, <1>4, <1>6, <1>7 DEF MinorIs, MajorIs
  <1>9. LineAt(t, b, "minor_digit", n + 1, a, m, u, v, w2)
    BY <1>1, <1>2, <1>3, <1>5, <1>8, LineAtIs
  <1> QED
    BY <1>9 DEF w2

\* A byte that is no digit leaves the value of the minor version.
LEMMA MinorStays ==
    ASSUME NEW t, NEW w, NEW d \in Int, NEW n \in Int, MinorIs(t, w, d, n), t[n + 1] \notin Digit
    PROVE  MinorIs(t, w, d, n + 1)
  <1>1. (\E i \in (d + 1)..n : t[i] \in Digit \ {"0"}) <=> (\E i \in (d + 1)..(n + 1) : t[i] \in Digit \ {"0"})
    OBVIOUS
  <1> QED
    BY <1>1, Zenon DEF MinorIs

\* The digits behind the dot.
LEMMA StepMinor ==
    ASSUME NEW t \in Seq(Byte), NEW b \in Nat, NEW n \in Nat, NEW a \in Nat, NEW m \in Nat, NEW u \in Nat, NEW v \in Nat,
           NEW w \in [major : Nat, minor : Nat], b <= n, n < Len(t), NEW x, x = t[n + 1],
           LineAt(t, b, "minor_digit", n, a, m, u, v, w)
    PROVE  /\ x \in Digit => LineAt(t, b, "minor_digit", n + 1, a, m, u, v, [w EXCEPT !.minor = 10 * @ + DigitVal[x]])
           /\ x = SP => LineAt(t, b, "spaces_after_digit", n + 1, a, m, u, v, w)
           /\ x = CR => LineAt(t, b, "almost_done", n + 1, a, m, u, v, w)
           /\ x = LF => LineRead(t, b, a, m, u, v, w, n + 1)
  <1>1. MethodUri(t, b, a, m, u, v) /\ v <= n
    BY LineAtIs
  <1>2. PICK h \in v..n, d \in v..n :
          DotAt(t, v, h, d) /\ MajorIs(t, w, h, d) /\ MinorTo(t, d, n + 1) /\ MinorIs(t, w, d, n)
    BY LineAtIs, SMTT(40)
  <1>3. /\ h \in v..(n + 1) /\ d \in v..(n + 1) /\ n + 1 \in v..(n + 1) /\ v <= n + 1
        /\ d \in Nat /\ d + 1 < n + 1
    BY <1>1, <1>2 DEF MinorTo
  <1>4. ASSUME x \in Digit
        PROVE  LineAt(t, b, "minor_digit", n + 1, a, m, u, v, [w EXCEPT !.minor = 10 * @ + DigitVal[x]])
    <2> DEFINE w2 == [w EXCEPT !.minor = 10 * @ + DigitVal[x]]
    <2>1. w2.minor = 10 * w.minor + DigitVal[x] /\ w.minor \in Nat /\ w2.major = w.major
      OBVIOUS
    <2>2. DigitVal[x] \in Nat /\ (DigitVal[x] >= 1 <=> x # "0")
      BY <1>4, DigitVals
    <2> HIDE DEF w2
    <2>3. w2.minor >= 1 <=> (w.minor >= 1 \/ x # "0")
      <3> DEFINE y == DigitVal[x]
      <3> HIDE DEF y
      <3>1. y \in Nat /\ w2.minor = 10 * w.minor + y /\ (y >= 1 <=> x # "0")
        BY <2>1, <2>2 DEF y
      <3> QED
        BY <2>1, <3>1, SMTT(40)
    <2>4. (\E i \in (d + 1)..(n + 1) : t[i] \in Digit \ {"0"})
            <=> ((\E i \in (d + 1)..n : t[i] \in Digit \ {"0"}) \/ x # "0")
      BY <1>3, <1>4, SMTT(40)
    <2>5. MinorIs(t, w2, d, n + 1)
      BY <1>2, <2>3, <2>4, Zenon DEF MinorIs
    <2>6. MajorIs(t, w2, h, d)
      BY <1>2, <2>1 DEF MajorIs
    <2>7. MinorTo(t, d, (n + 1) + 1)
      BY <1>2, <1>3, <1>4, SMTT(40) DEF MinorTo, AllOf
    <2>8. LineAt(t, b, "minor_digit", n + 1, a, m, u, v, w2)
      BY <1>1, <1>2, <1>3, <2>5, <2>6, <2>7, LineAtIs
    <2> QED
      BY <2>8 DEF w2
  <1>5. x \in {SP, CR, LF} => MinorIs(t, w, d, n + 1)
    BY <1>2, <1>3, MinorStays, Bytes, SMTT(40)
  <1>6. x = SP => LineAt(t, b, "spaces_after_digit", n + 1, a, m, u, v, w)
    <2>1. x = SP => AllOf(t, n + 1, n + 1, {SP})
      <3>1. n + 1 \in Int
        OBVIOUS
      <3> QED
        BY <3>1, SpacesOne, Zenon
    <2> QED
      BY <1>1, <1>2, <1>3, <1>5, <2>1, LineAtIs
  <1>7. x = CR => LineAt(t, b, "almost_done", n + 1, a, m, u, v, w)
    <2>1. AllOf(t, n + 1, (n + 1) - 1, {SP})
      BY DEF AllOf
    <2> QED
      BY <1>1, <1>2, <1>3, <1>5, <2>1, LineAtIs
  <1>8. x = LF => LineRead(t, b, a, m, u, v, w, n + 1)
    <2>1. x = LF => LineTo(t, n + 1, n + 1)
      BY DEF LineTo, AllOf
    <2> QED
      BY <1>1, <1>2, <1>3, <1>5, <2>1 DEF LineRead
  <1> QED
    BY <1>4, <1>6, <1>7, <1>8

\* The spaces behind the version.
LEMMA StepAfterDigit ==
    ASSUME NEW t \in Seq(Byte), NEW b \in Nat, NEW n \in Nat, NEW a \in Nat, NEW m \in Nat, NEW u \in Nat, NEW v \in Nat,
           NEW w \in [major : Nat, minor : Nat], b <= n, n < Len(t), NEW x, x = t[n + 1],
           LineAt(t, b, "spaces_after_digit", n, a, m, u, v, w)
    PROVE  /\ x = SP => LineAt(t, b, "spaces_after_digit", n + 1, a, m, u, v, w)
           /\ x = CR => LineAt(t, b, "almost_done", n + 1, a, m, u, v, w)
           /\ x = LF => LineRead(t, b, a, m, u, v, w, n + 1)
  <1>1. MethodUri(t, b, a, m, u, v) /\ v <= n
    BY LineAtIs
  <1>2. PICK h \in v..n, d \in v..n, z \in v..n :
          DotAt(t, v, h, d) /\ MajorIs(t, w, h, d) /\ MinorTo(t, d, z) /\ MinorIs(t, w, d, n) /\ AllOf(t, z, n, {SP})
    <2>1. \E h, d, z \in v..n :
                DotAt(t, v, h, d) /\ MajorIs(t, w, h, d) /\ MinorTo(t, d, z) /\ MinorIs(t, w, d, n) /\ AllOf(t, z, n, {SP})
      BY Zenon DEF LineAt
    <2> QED
      BY <2>1, Zenon
  <1>3. /\ h \in v..(n + 1) /\ d \in v..(n + 1) /\ z \in v..(n + 1) /\ v <= n + 1
        /\ d \in Nat /\ z \in Nat /\ z <= n + 1
    BY <1>1, <1>2
  <1>4. x \in {SP, CR, LF} => MinorIs(t, w, d, n + 1)
    BY <1>2, <1>3, MinorStays, Bytes, SMTT(40)
  <1>5. x = SP => LineAt(t, b, "spaces_after_digit", n + 1, a, m, u, v, w)
    <2>1. x = SP => AllOf(t, z, n + 1, {SP})
      <3>1. z \in Int /\ n \in Int /\ n + 1 \in Int
        BY <1>3
      <3> QED
        BY <1>2, <3>1, SpacesMore, Zenon
    <2> QED
      BY <1>1, <1>2, <1>3, <1>4, <2>1, LineAtIs
  <1>6. x = CR => LineAt(t, b, "almost_done", n + 1, a, m, u, v, w)
    <2>1. AllOf(t, z, (n + 1) - 1, {SP})
      BY <1>2, <1>3 DEF AllOf
    <2> QED
      BY <1>1, <1>2, <1>3, <1>4, <2>1, LineAtIs
  <1>7. x = LF => LineRead(t, b, a, m, u, v, w, n + 1)
    <2>1. x = LF => LineTo(t, z, n + 1)
      BY <1>2, <1>3 DEF LineTo, AllOf
    <2> QED
      BY <1>1, <1>2, <1>3, <1>4, <2>1 DEF LineRead
  <1> QED
    BY <1>5, <1>6, <1>7

\* The line feed behind CR.
LEMMA StepAlmostDone ==
    ASSUME NEW t \in Seq(Byte), NEW b \in Nat, NEW n \in Nat, NEW a \in Nat, NEW m \in Nat, NEW u \in Nat, NEW v \in Nat,
           NEW w \in [major : Nat, minor : Nat], b <= n, n < Len(t), NEW x, x = t[n + 1],
           LineAt(t, b, "almost_done", n, a, m, u, v, w)
    PROVE  x = LF => LineRead(t, b, a, m, u, v, w, n + 1)
  <1> SUFFICES ASSUME x = LF PROVE LineRead(t, b, a, m, u, v, w, n + 1)
    OBVIOUS
  <1>1. MethodUri(t, b, a, m, u, v) /\ v <= n
    BY LineAtIs
  <1>2. PICK h \in v..n, d \in v..n, z \in v..n :
          /\ DotAt(t, v, h, d) /\ MajorIs(t, w, h, d) /\ MinorTo(t, d, z) /\ MinorIs(t, w, d, n)
          /\ AllOf(t, z, n - 1, {SP}) /\ t[n] = CR
    BY LineAtIs
  <1>3. /\ h \in v..(n + 1) /\ d \in v..(n + 1) /\ z \in v..(n + 1) /\ v <= n + 1
        /\ d \in Nat /\ z \in Nat /\ z < n + 1
    BY <1>1, <1>2
  <1>4. MinorIs(t, w, d, n + 1)
    <2>1. t[n + 1] \notin Digit
      BY Bytes
    <2>2. d \in Int /\ n \in Int /\ MinorIs(t, w, d, n)
      BY <1>2, <1>3
    <2> QED
      BY <2>1, <2>2, MinorStays
  <1>5. LineTo(t, z, n + 1)
    <2>1. (n + 1) - 2 = n - 1 /\ (n + 1) - 1 = n
      OBVIOUS
    <2>2. AllOf(t, z, (n + 1) - 2, {SP}) /\ t[(n + 1) - 1] = CR
      BY <1>2, <2>1
    <2> QED
      BY <1>3, <2>2 DEF LineTo
  <1> QED
    BY <1>1, <1>2, <1>3, <1>4, <1>5 DEF LineRead
-----------------------------------------------------------------------------
(* The parser of the line does not stop in a request of the reference.      *)

\* The parts of a line are where they are found first.
LEMMA SameWord ==
    ASSUME NEW t, NEW b \in Nat, NEW a \in Nat, NEW A \in Nat, WordAt(t, b, a), WordAt(t, b, A)
    PROVE  a = A
  <1>1. b + 1 \in Int /\ a \in Int /\ A \in Int /\ b + 1 <= a /\ b + 1 <= A
    BY DEF WordAt
  <1>2. AllOf(t, b + 1, a - 1, {CR, LF}) /\ AllOf(t, b + 1, A - 1, {CR, LF})
    BY Zenon DEF WordAt
  <1>3. t[a] \notin {CR, LF} /\ t[A] \notin {CR, LF}
    BY Bytes DEF WordAt
  <1> QED
    BY <1>1, <1>2, <1>3, SameStop, Zenon

\* The word ends at one place.
LEMMA SameWordEnd ==
    ASSUME NEW t, NEW a \in Nat, NEW m \in Nat, NEW M \in Nat, WordTo(t, a, m), WordTo(t, a, M)
    PROVE  m = M
  <1>1. a \in Int /\ m \in Int /\ M \in Int /\ a <= m /\ a <= M
    BY DEF WordTo
  <1>2. AllOf(t, a, m - 1, Upper) /\ AllOf(t, a, M - 1, Upper)
    BY Zenon DEF WordTo
  <1>3. t[m] \notin Upper /\ t[M] \notin Upper
    BY Bytes DEF WordTo
  <1> QED
    BY <1>1, <1>2, <1>3, SameStop, Zenon

\* The URI starts at one place.
LEMMA SameUri ==
    ASSUME NEW t, NEW m \in Nat, NEW u \in Nat, NEW U \in Nat, UriAt(t, m, u), UriAt(t, m, U)
    PROVE  u = U
  <1>1. m \in Int /\ u \in Int /\ U \in Int /\ m <= u /\ m <= U
    BY DEF UriAt
  <1>2. AllOf(t, m, u - 1, {SP}) /\ AllOf(t, m, U - 1, {SP})
    BY Zenon DEF UriAt
  <1>3. t[u] \notin {SP} /\ t[U] \notin {SP}
    BY Bytes DEF UriAt
  <1> QED
    BY <1>1, <1>2, <1>3, SameStop, Zenon

\* It ends at one place.
LEMMA SameUriEnd ==
    ASSUME NEW t, NEW u \in Nat, NEW v \in Nat, NEW V \in Nat, UriTo(t, u, v), UriTo(t, u, V)
    PROVE  v = V
  <1>1. u \in Int /\ v \in Int /\ V \in Int /\ u <= v /\ u <= V
    BY DEF UriTo
  <1>2. NoneOf(t, u, v - 1, {SP}) /\ NoneOf(t, u, V - 1, {SP})
    BY Zenon DEF UriTo
  <1>3. t[v] \in {SP} /\ t[V] \in {SP}
    BY DEF UriTo
  <1> QED
    BY <1>1, <1>2, <1>3, SameStop, Zenon

\* HTTP starts at one place.
LEMMA SameHttp ==
    ASSUME NEW t, NEW v \in Nat, NEW h \in Nat, NEW H \in Nat,
           SpacesTo(t, v, h), t[h] = "H", SpacesTo(t, v, H), t[H] = "H"
    PROVE  h = H
  <1>1. v \in Int /\ h \in Int /\ H \in Int /\ v <= h /\ v <= H
    BY DEF SpacesTo
  <1>2. AllOf(t, v, h - 1, {SP}) /\ AllOf(t, v, H - 1, {SP})
    BY Zenon DEF SpacesTo
  <1>3. t[h] \notin {SP} /\ t[H] \notin {SP}
    BY Bytes
  <1> QED
    BY <1>1, <1>2, <1>3, SameStop, Zenon

\* The dot is at one place.
LEMMA SameDot ==
    ASSUME NEW t, NEW v \in Nat, NEW h \in Nat, NEW H \in Nat, NEW d \in Nat, NEW D \in Nat,
           DotAt(t, v, h, d), DotAt(t, v, H, D)
    PROVE  h = H /\ d = D
  <1>1. h = H
    <2>1. SpacesTo(t, v, h) /\ SpacesTo(t, v, H) /\ t[h] = "H" /\ t[H] = "H"
      BY DEF DotAt, HttpAt
    <2> QED
      BY <2>1, SameHttp
  <1>2. h + 5 \in Int /\ d \in Int /\ D \in Int /\ h + 5 <= d /\ h + 5 <= D
    BY <1>1 DEF DotAt, MajorTo
  <1>3. AllOf(t, h + 5, d - 1, Digit) /\ AllOf(t, h + 5, D - 1, Digit)
    BY <1>1, Zenon DEF DotAt, MajorTo
  <1>4. t[d] \notin Digit /\ t[D] \notin Digit
    BY Bytes DEF DotAt
  <1>5. d = D
    BY <1>2, <1>3, <1>4, SameStop, ZenonT(60)
  <1> QED
    BY <1>1, <1>5

\* The version ends at one place.
LEMMA SameMinorEnd ==
    ASSUME NEW t, NEW d \in Nat, NEW z \in Nat, NEW Z \in Nat,
           MinorTo(t, d, z), t[z] \notin Digit, MinorTo(t, d, Z), t[Z] \notin Digit
    PROVE  z = Z
  <1>1. d + 1 \in Int /\ z \in Int /\ Z \in Int /\ d + 1 <= z /\ d + 1 <= Z
    BY DEF MinorTo
  <1>2. AllOf(t, d + 1, z - 1, Digit) /\ AllOf(t, d + 1, Z - 1, Digit)
    BY Zenon DEF MinorTo
  <1> QED
    BY <1>1, <1>2, SameStop, Zenon

\* Word and URI are at one place.
LEMMA SameMethodUri ==
    ASSUME NEW t, NEW b \in Nat, NEW a \in Nat, NEW m \in Nat, NEW u \in Nat, NEW v \in Nat,
           NEW A \in Nat, NEW M \in Nat, NEW U \in Nat, NEW V \in Nat,
           MethodUri(t, b, a, m, u, v), MethodUri(t, b, A, M, U, V)
    PROVE  a = A /\ m = M /\ u = U /\ v = V
  <1>1. a = A
    BY SameWord DEF MethodUri
  <1>2. m = M
    BY <1>1, SameWordEnd DEF MethodUri
  <1>3. u = U
    BY <1>2, SameUri DEF MethodUri
  <1>4. v = V
    BY <1>3, SameUriEnd DEF MethodUri
  <1> QED
    BY <1>1, <1>2, <1>3, <1>4

\* What can be behind the version.
LEMMA LineToBytes ==
    ASSUME NEW t, NEW z \in Nat, NEW e \in Nat, NEW k \in Nat, LineTo(t, z, e), z <= k, k <= e
    PROVE  /\ t[k] \in {SP, CR, LF} /\ t[k] \notin Digit
           /\ t[k] = CR => k + 1 = e
           /\ t[k] = LF => k = e
  <1>1. t[e] = LF
    BY DEF LineTo
  <1>2. CASE AllOf(t, z, e - 1, {SP})
    <2>1. k < e => t[k] \in {SP}
      <3>1. z \in Int /\ k \in Int /\ e \in Int
        OBVIOUS
      <3> QED
        BY <1>2, <3>1, InRun, Zenon
    <2> QED
      BY <1>1, <2>1, Bytes
  <1>3. CASE z < e /\ AllOf(t, z, e - 2, {SP}) /\ t[e - 1] = CR
    <2>1. e - 1 \in Int /\ (e - 1) - 1 = e - 2
      OBVIOUS
    <2>2. AllOf(t, z, (e - 1) - 1, {SP})
      BY <1>3, <2>1
    <2>3. k < e - 1 => t[k] \in {SP}
      <3>1. z \in Int /\ k \in Int
        OBVIOUS
      <3> QED
        BY <2>1, <2>2, <3>1, InRun, ZenonT(60)
    <2>4. k = e \/ k = e - 1 \/ k < e - 1
      OBVIOUS
    <2>5. k = e - 1 => k + 1 = e
      OBVIOUS
    <2>6. k < e - 1 => t[k] = SP
      BY <2>3
    <2> QED
      BY <1>1, <1>3, <2>4, <2>5, <2>6, Bytes
  <1> QED
    BY <1>2, <1>3 DEF LineTo

\* The order of the parts, and what is at them.
Parts(t, b, A, M, U, V, H, D, Z, E) ==
    /\ b < A /\ A < M /\ M < U /\ U < V /\ V < H /\ H + 5 < D /\ D + 1 < Z /\ Z <= E /\ E <= Len(t)
    /\ t[A] \in Upper /\ t[M] = SP /\ t[U] = "/" /\ t[V] = SP /\ t[D] = "." /\ t[Z] \notin Digit
    /\ t[H] = "H" /\ t[H + 1] = "T" /\ t[H + 2] = "T" /\ t[H + 3] = "P" /\ t[H + 4] = "/"
    /\ t[H + 5] \in Digit \ {"0"} /\ t[E] = LF /\ t[D + 1] \in Digit

\* A complete line has them.
LEMMA ShapeOrder ==
    ASSUME NEW t \in Seq(Byte), NEW b \in Nat, NEW A \in Nat, NEW M \in Nat, NEW U \in Nat, NEW V \in Nat,
           NEW H \in Nat, NEW D \in Nat, NEW Z \in Nat, NEW E \in Nat, Shape(t, b, A, M, U, V, H, D, Z, E)
    PROVE  Parts(t, b, A, M, U, V, H, D, Z, E)
  <1>1. /\ b < A /\ A < M /\ M < U /\ U < V /\ E <= Len(t)
        /\ t[A] \in Upper /\ t[M] = SP /\ t[U] = "/" /\ t[V] = SP
    BY DEF Shape, MethodUri, WordAt, WordTo, UriAt, UriTo
  <1>2. /\ V < H /\ H + 5 < D /\ t[D] = "." /\ t[H + 5] \in Digit \ {"0"}
        /\ t[H] = "H" /\ t[H + 1] = "T" /\ t[H + 2] = "T" /\ t[H + 3] = "P" /\ t[H + 4] = "/"
    BY DEF Shape, DotAt, SpacesTo, HttpAt, MajorTo
  <1>3. D + 1 < Z /\ Z <= E /\ t[E] = LF /\ AllOf(t, D + 1, Z - 1, Digit) /\ LineTo(t, Z, E)
    BY DEF Shape, MinorTo, LineTo
  <1>4. t[D + 1] \in Digit
    <2>1. D + 1 \in Int /\ Z \in Int /\ D + 1 <= D + 1
      OBVIOUS
    <2> QED
      BY <1>3, <2>1, InRun, Zenon
  <1>5. t[Z] \notin Digit
    BY <1>3, LineToBytes, SMTT(40)
  <1> QED
    BY <1>1, <1>2, <1>3, <1>4, <1>5 DEF Parts

\* In the line feeds before a request.
LEMMA GoesStart ==
    ASSUME NEW t \in Seq(Byte), NEW b \in Nat, NEW n \in Nat, NEW a \in Nat, NEW m \in Nat, NEW u \in Nat, NEW v \in Nat,
           NEW w, b <= n, n <= Len(t), NEW A \in Nat, NEW M \in Nat, NEW U \in Nat, NEW V \in Nat,
           NEW H \in Nat, NEW D \in Nat, NEW Z \in Nat, NEW E \in Nat, Shape(t, b, A, M, U, V, H, D, Z, E),
           NEW k \in Nat, k = n + 1,
           LineAt(t, b, "start", n, a, m, u, v, w)
    PROVE  n < E /\ Accepts(LineRules, "start", t[k])
  <1>00. Parts(t, b, A, M, U, V, H, D, Z, E)
    BY ShapeOrder
  <1>1. b < A /\ A < M /\ M < U /\ U < V /\ V < H /\ H + 5 < D /\ D + 1 < Z /\ Z <= E /\ E <= Len(t)
    BY <1>00 DEF Parts
  <1>0. /\ t[A] \in Upper /\ t[M] = SP /\ t[U] = "/" /\ t[V] = SP /\ t[D] = "." /\ t[Z] \notin Digit
        /\ t[H] = "H" /\ t[H + 1] = "T" /\ t[H + 2] = "T" /\ t[H + 3] = "P" /\ t[H + 4] = "/"
        /\ t[H + 5] \in Digit \ {"0"} /\ t[E] = LF /\ t[D + 1] \in Digit
    BY <1>00 DEF Parts
  <1>6. b + 1 <= k
    OBVIOUS
  <1>7. /\ b + 1 \in Int /\ n \in Int /\ A \in Int /\ b + 1 <= A /\ t[A] \notin {CR, LF}
        /\ AllOf(t, b + 1, n, {CR, LF}) /\ AllOf(t, b + 1, A - 1, {CR, LF})
    <2>1. AllOf(t, b + 1, n, {CR, LF})
      BY LineAtIs
    <2>2. AllOf(t, b + 1, A - 1, {CR, LF}) /\ t[A] \in Upper
      BY Zenon DEF Shape, MethodUri, WordAt
    <2>3. t[A] \notin {CR, LF}
      BY <2>2, Bytes
    <2> QED
      BY <1>1, <2>1, <2>2, <2>3
  <1>8. n < A
    BY <1>7, NotYet, Zenon
  <1>9. k < A => t[k] \in {CR, LF}
    <2>1. k \in Int /\ b + 1 <= k
      BY <1>6
    <2> QED
      BY <1>7, <2>1, InRun, Zenon
  <1>10. n < E /\ (k < A \/ k = A)
    BY <1>1, <1>8
  <1>11. k = A => t[k] \in Upper
    BY <1>0
  <1> QED
    BY <1>9, <1>10, <1>11, LineAccepts

\* In the method.
LEMMA GoesMethod ==
    ASSUME NEW t \in Seq(Byte), NEW b \in Nat, NEW n \in Nat, NEW a \in Nat, NEW m \in Nat, NEW u \in Nat, NEW v \in Nat,
           NEW w, b <= n, n <= Len(t), NEW A \in Nat, NEW M \in Nat, NEW U \in Nat, NEW V \in Nat,
           NEW H \in Nat, NEW D \in Nat, NEW Z \in Nat, NEW E \in Nat, Shape(t, b, A, M, U, V, H, D, Z, E),
           NEW k \in Nat, k = n + 1,
           LineAt(t, b, "method", n, a, m, u, v, w)
    PROVE  n < E /\ Accepts(LineRules, "method", t[k])
  <1>00. Parts(t, b, A, M, U, V, H, D, Z, E)
    BY ShapeOrder
  <1>1. b < A /\ A < M /\ M < U /\ U < V /\ V < H /\ H + 5 < D /\ D + 1 < Z /\ Z <= E /\ E <= Len(t)
    BY <1>00 DEF Parts
  <1>0. /\ t[A] \in Upper /\ t[M] = SP /\ t[U] = "/" /\ t[V] = SP /\ t[D] = "." /\ t[Z] \notin Digit
        /\ t[H] = "H" /\ t[H + 1] = "T" /\ t[H + 2] = "T" /\ t[H + 3] = "P" /\ t[H + 4] = "/"
        /\ t[H + 5] \in Digit \ {"0"} /\ t[E] = LF /\ t[D + 1] \in Digit
    BY <1>00 DEF Parts
  <1>2. b < a /\ a <= n /\ AllOf(t, b + 1, a - 1, {CR, LF}) /\ AllOf(t, a, n, Upper)
    BY LineAtIs
  <1>3. WordAt(t, b, a)
    BY <1>2 DEF WordAt, AllOf
  <1>4. WordAt(t, b, A) /\ WordTo(t, A, M)
    BY DEF Shape, MethodUri
  <1>5. a = A
    BY <1>3, <1>4, SameWord
  <1>6. A <= k
    BY <1>2, <1>5
  <1>7. /\ A \in Int /\ n \in Int /\ M \in Int /\ A <= M /\ t[M] \notin Upper
        /\ AllOf(t, A, n, Upper) /\ AllOf(t, A, M - 1, Upper)
    BY <1>1, <1>2, <1>4, <1>5, Bytes, SMTT(40) DEF WordTo
  <1>8. n < M
    BY <1>7, NotYet, Zenon
  <1>9. k < M => t[k] \in Upper
    <2>1. k \in Int /\ A <= k
      BY <1>6
    <2> QED
      BY <1>7, <2>1, InRun, Zenon
  <1>10. n < E /\ (k < M \/ k = M)
    BY <1>1, <1>8, SMTT(40)
  <1>11. k = M => t[k] = SP
    BY <1>0
  <1> QED
    BY <1>9, <1>10, <1>11, LineAccepts

\* In the spaces before the URI.
LEMMA GoesBeforeUri ==
    ASSUME NEW t \in Seq(Byte), NEW b \in Nat, NEW n \in Nat, NEW a \in Nat, NEW m \in Nat, NEW u \in Nat, NEW v \in Nat,
           NEW w, b <= n, n <= Len(t), NEW A \in Nat, NEW M \in Nat, NEW U \in Nat, NEW V \in Nat,
           NEW H \in Nat, NEW D \in Nat, NEW Z \in Nat, NEW E \in Nat, Shape(t, b, A, M, U, V, H, D, Z, E),
           NEW k \in Nat, k = n + 1,
           LineAt(t, b, "spaces_before_uri", n, a, m, u, v, w)
    PROVE  n < E /\ Accepts(LineRules, "spaces_before_uri", t[k])
  <1>00. Parts(t, b, A, M, U, V, H, D, Z, E)
    BY ShapeOrder
  <1>1. b < A /\ A < M /\ M < U /\ U < V /\ V < H /\ H + 5 < D /\ D + 1 < Z /\ Z <= E /\ E <= Len(t)
    BY <1>00 DEF Parts
  <1>0. /\ t[A] \in Upper /\ t[M] = SP /\ t[U] = "/" /\ t[V] = SP /\ t[D] = "." /\ t[Z] \notin Digit
        /\ t[H] = "H" /\ t[H + 1] = "T" /\ t[H + 2] = "T" /\ t[H + 3] = "P" /\ t[H + 4] = "/"
        /\ t[H + 5] \in Digit \ {"0"} /\ t[E] = LF /\ t[D + 1] \in Digit
    BY <1>00 DEF Parts
  <1>2. WordAt(t, b, a) /\ WordTo(t, a, m) /\ m <= n /\ AllOf(t, m, n, {SP})
    BY LineAtIs
  <1>4. WordAt(t, b, A) /\ WordTo(t, A, M) /\ UriAt(t, M, U)
    BY DEF Shape, MethodUri
  <1>3. a = A
    BY <1>2, <1>4, SameWord
  <1>5. m = M
    BY <1>2, <1>3, <1>4, SameWordEnd
  <1>6. M <= k
    BY <1>2, <1>5
  <1>7. /\ M \in Int /\ n \in Int /\ U \in Int /\ M <= U /\ t[U] \notin {SP}
        /\ AllOf(t, M, n, {SP}) /\ AllOf(t, M, U - 1, {SP})
    <2>1. M \in Int /\ n \in Int /\ U \in Int /\ M <= U
      BY <1>1
    <2>2. t[U] \notin {SP}
      BY <1>4, Bytes DEF UriAt
    <2>3. AllOf(t, M, U - 1, {SP})
      BY <1>4, Zenon DEF UriAt
    <2>4. AllOf(t, M, n, {SP})
      BY <1>2, <1>5, Zenon
    <2> QED
      BY <2>1, <2>2, <2>3, <2>4, Zenon
  <1>8. n < U
    BY <1>7, NotYet, Zenon
  <1>9. k < U => t[k] \in {SP}
    <2>1. k \in Int /\ M <= k
      BY <1>6
    <2> QED
      BY <1>7, <2>1, InRun, Zenon
  <1>10. n < E /\ (k < U \/ k = U)
    BY <1>1, <1>8, SMTT(40)
  <1>11. k = U => t[k] = "/"
    BY <1>0
  <1> QED
    BY <1>9, <1>10, <1>11, LineAccepts

\* In the URI.
LEMMA GoesUri ==
    ASSUME NEW t \in Seq(Byte), NEW b \in Nat, NEW n \in Nat, NEW a \in Nat, NEW m \in Nat, NEW u \in Nat, NEW v \in Nat,
           NEW w, b <= n, n <= Len(t), NEW A \in Nat, NEW M \in Nat, NEW U \in Nat, NEW V \in Nat,
           NEW H \in Nat, NEW D \in Nat, NEW Z \in Nat, NEW E \in Nat, Shape(t, b, A, M, U, V, H, D, Z, E),
           NEW k \in Nat, k = n + 1,
           LineAt(t, b, "after_slash_in_uri", n, a, m, u, v, w)
    PROVE  n < E /\ Accepts(LineRules, "after_slash_in_uri", t[k])
  <1>00. Parts(t, b, A, M, U, V, H, D, Z, E)
    BY ShapeOrder
  <1>1. b < A /\ A < M /\ M < U /\ U < V /\ V < H /\ H + 5 < D /\ D + 1 < Z /\ Z <= E /\ E <= Len(t)
    BY <1>00 DEF Parts
  <1>0. /\ t[A] \in Upper /\ t[M] = SP /\ t[U] = "/" /\ t[V] = SP /\ t[D] = "." /\ t[Z] \notin Digit
        /\ t[H] = "H" /\ t[H + 1] = "T" /\ t[H + 2] = "T" /\ t[H + 3] = "P" /\ t[H + 4] = "/"
        /\ t[H + 5] \in Digit \ {"0"} /\ t[E] = LF /\ t[D + 1] \in Digit
    BY <1>00 DEF Parts
  <1>2. WordAt(t, b, a) /\ WordTo(t, a, m) /\ UriAt(t, m, u) /\ u <= n /\ NoneOf(t, u, n, {SP})
    BY LineAtIs
  <1>4. WordAt(t, b, A) /\ WordTo(t, A, M) /\ UriAt(t, M, U) /\ UriTo(t, U, V)
    BY DEF Shape, MethodUri
  <1>3. a = A
    BY <1>2, <1>4, SameWord
  <1>13. m = M
    BY <1>2, <1>3, <1>4, SameWordEnd
  <1>5. u = U
    BY <1>2, <1>4, <1>13, SameUri
  <1>6. U <= k
    BY <1>2, <1>5
  <1>7. /\ U \in Int /\ n \in Int /\ V \in Int /\ U <= V /\ t[V] \in {SP}
        /\ NoneOf(t, U, n, {SP}) /\ NoneOf(t, U, V - 1, {SP})
    <2>1. U \in Int /\ n \in Int /\ V \in Int /\ U <= V
      BY <1>1
    <2>2. t[V] \in {SP}
      BY <1>4 DEF UriTo
    <2>3. NoneOf(t, U, V - 1, {SP})
      BY <1>4, Zenon DEF UriTo
    <2>4. NoneOf(t, U, n, {SP})
      BY <1>2, <1>5, Zenon
    <2> QED
      BY <2>1, <2>2, <2>3, <2>4, Zenon
  <1>8. n < V
    BY <1>7, NotYet, Zenon
  <1>9. k < V => t[k] \notin {SP}
    <2>1. k \in Int /\ U <= k
      BY <1>6
    <2> QED
      BY <1>7, <2>1, InRun, Zenon
  <1>10. n < E /\ (k < V \/ k = V) /\ k \in 1..Len(t)
    BY <1>1, <1>8, LenProperties, SMTT(40)
  <1>11. k = V => t[k] = SP
    BY <1>0
  <1>12. t[k] \in Byte
    BY <1>10, ElementOfSeq
  <1> QED
    BY <1>9, <1>10, <1>11, <1>12, LineAccepts

\* In the spaces before HTTP.
LEMMA GoesHttp ==
    ASSUME NEW t \in Seq(Byte), NEW b \in Nat, NEW n \in Nat, NEW a \in Nat, NEW m \in Nat, NEW u \in Nat, NEW v \in Nat,
           NEW w, b <= n, n <= Len(t), NEW A \in Nat, NEW M \in Nat, NEW U \in Nat, NEW V \in Nat,
           NEW H \in Nat, NEW D \in Nat, NEW Z \in Nat, NEW E \in Nat, Shape(t, b, A, M, U, V, H, D, Z, E),
           NEW k \in Nat, k = n + 1,
           LineAt(t, b, "http", n, a, m, u, v, w)
    PROVE  n < E /\ Accepts(LineRules, "http", t[k])
  <1>00. Parts(t, b, A, M, U, V, H, D, Z, E)
    BY ShapeOrder
  <1>1. b < A /\ A < M /\ M < U /\ U < V /\ V < H /\ H + 5 < D /\ D + 1 < Z /\ Z <= E /\ E <= Len(t)
    BY <1>00 DEF Parts
  <1>0. /\ t[A] \in Upper /\ t[M] = SP /\ t[U] = "/" /\ t[V] = SP /\ t[D] = "." /\ t[Z] \notin Digit
        /\ t[H] = "H" /\ t[H + 1] = "T" /\ t[H + 2] = "T" /\ t[H + 3] = "P" /\ t[H + 4] = "/"
        /\ t[H + 5] \in Digit \ {"0"} /\ t[E] = LF /\ t[D + 1] \in Digit
    BY <1>00 DEF Parts
  <1>2. MethodUri(t, b, a, m, u, v) /\ v <= n
    BY LineAtIs, SMTT(40)
  <1>3. MethodUri(t, b, A, M, U, V) /\ DotAt(t, V, H, D)
    BY DEF Shape
  <1>4. v = V
    BY <1>2, <1>3, SameMethodUri
  <1>5. AllOf(t, v, n, {SP})
    BY LineAtIs
  <1>6. V <= k
    BY <1>2, <1>4
  <1>7. /\ V \in Int /\ n \in Int /\ H \in Int /\ V <= H /\ t[H] \notin {SP}
        /\ AllOf(t, V, n, {SP}) /\ AllOf(t, V, H - 1, {SP})
    <2>1. V \in Int /\ n \in Int /\ H \in Int /\ V <= H
      BY <1>1
    <2>2. t[H] \notin {SP}
      BY <1>3, Bytes DEF DotAt, HttpAt
    <2>3. AllOf(t, V, H - 1, {SP})
      BY <1>3, Zenon DEF DotAt, SpacesTo
    <2>4. AllOf(t, V, n, {SP})
      BY <1>4, <1>5, Zenon
    <2> QED
      BY <2>1, <2>2, <2>3, <2>4, Zenon
  <1>8. n < H
    BY <1>7, NotYet, Zenon
  <1>9. k < H => t[k] \in {SP}
    <2>1. k \in Int /\ V <= k
      BY <1>6
    <2> QED
      BY <1>7, <2>1, InRun, Zenon
  <1>10. n < E /\ (k < H \/ k = H)
    BY <1>1, <1>8, SMTT(40)
  <1>11. k = H => t[k] = "H"
    BY <1>0
  <1> QED
    BY <1>9, <1>10, <1>11, LineAccepts

\* In HTTP.
LEMMA GoesH ==
    ASSUME NEW t \in Seq(Byte), NEW b \in Nat, NEW n \in Nat, NEW a \in Nat, NEW m \in Nat, NEW u \in Nat, NEW v \in Nat,
           NEW w, b <= n, n <= Len(t), NEW A \in Nat, NEW M \in Nat, NEW U \in Nat, NEW V \in Nat,
           NEW H \in Nat, NEW D \in Nat, NEW Z \in Nat, NEW E \in Nat, Shape(t, b, A, M, U, V, H, D, Z, E),
           NEW k \in Nat, k = n + 1,
           LineAt(t, b, "http_H", n, a, m, u, v, w)
    PROVE  n < E /\ Accepts(LineRules, "http_H", t[k])
  <1>00. Parts(t, b, A, M, U, V, H, D, Z, E)
    BY ShapeOrder
  <1>1. b < A /\ A < M /\ M < U /\ U < V /\ V < H /\ H + 5 < D /\ D + 1 < Z /\ Z <= E /\ E <= Len(t)
    BY <1>00 DEF Parts
  <1>0. /\ t[A] \in Upper /\ t[M] = SP /\ t[U] = "/" /\ t[V] = SP /\ t[D] = "." /\ t[Z] \notin Digit
        /\ t[H] = "H" /\ t[H + 1] = "T" /\ t[H + 2] = "T" /\ t[H + 3] = "P" /\ t[H + 4] = "/"
        /\ t[H + 5] \in Digit \ {"0"} /\ t[E] = LF /\ t[D + 1] \in Digit
    BY <1>00 DEF Parts
  <1>2. MethodUri(t, b, a, m, u, v) /\ v <= n
    BY LineAtIs, SMTT(40)
  <1>3. MethodUri(t, b, A, M, U, V) /\ DotAt(t, V, H, D)
    BY DEF Shape
  <1>4. v = V
    BY <1>2, <1>3, SameMethodUri
  <1> DEFINE h == n
  <1>5. SpacesTo(t, v, h) /\ HttpAt(t, h, 0)
    BY LineAtIs
  <1>6. h \in Nat /\ k = h + 1
    BY <1>5 DEF SpacesTo
  <1> HIDE DEF h
  <1>7. h = H
    <2>1. t[h] = "H" /\ t[H] = "H" /\ SpacesTo(t, V, H) /\ SpacesTo(t, V, h)
      BY <1>3, <1>4, <1>5 DEF HttpAt, DotAt
    <2> QED
      BY <1>6, <2>1, SameHttp
  <1>8. t[k] \in {"T"}
    BY <1>6, <1>7, <1>0
  <1>9. n < E
    BY <1>1, <1>6, <1>7
  <1> QED
    BY <1>8, <1>9, LineAccepts

\* In HTTP.
LEMMA GoesHT ==
    ASSUME NEW t \in Seq(Byte), NEW b \in Nat, NEW n \in Nat, NEW a \in Nat, NEW m \in Nat, NEW u \in Nat, NEW v \in Nat,
           NEW w, b <= n, n <= Len(t), NEW A \in Nat, NEW M \in Nat, NEW U \in Nat, NEW V \in Nat,
           NEW H \in Nat, NEW D \in Nat, NEW Z \in Nat, NEW E \in Nat, Shape(t, b, A, M, U, V, H, D, Z, E),
           NEW k \in Nat, k = n + 1,
           LineAt(t, b, "http_HT", n, a, m, u, v, w)
    PROVE  n < E /\ Accepts(LineRules, "http_HT", t[k])
  <1>00. Parts(t, b, A, M, U, V, H, D, Z, E)
    BY ShapeOrder
  <1>1. b < A /\ A < M /\ M < U /\ U < V /\ V < H /\ H + 5 < D /\ D + 1 < Z /\ Z <= E /\ E <= Len(t)
    BY <1>00 DEF Parts
  <1>0. /\ t[A] \in Upper /\ t[M] = SP /\ t[U] = "/" /\ t[V] = SP /\ t[D] = "." /\ t[Z] \notin Digit
        /\ t[H] = "H" /\ t[H + 1] = "T" /\ t[H + 2] = "T" /\ t[H + 3] = "P" /\ t[H + 4] = "/"
        /\ t[H + 5] \in Digit \ {"0"} /\ t[E] = LF /\ t[D + 1] \in Digit
    BY <1>00 DEF Parts
  <1>2. MethodUri(t, b, a, m, u, v) /\ v <= n
    BY LineAtIs, SMTT(40)
  <1>3. MethodUri(t, b, A, M, U, V) /\ DotAt(t, V, H, D)
    BY DEF Shape
  <1>4. v = V
    BY <1>2, <1>3, SameMethodUri
  <1> DEFINE h == n - 1
  <1>5. SpacesTo(t, v, h) /\ HttpAt(t, h, 1)
    BY LineAtIs, ZenonT(60)
  <1>6. h \in Nat /\ k = h + 2
    BY <1>5 DEF SpacesTo
  <1> HIDE DEF h
  <1>7. h = H
    <2>1. t[h] = "H" /\ t[H] = "H" /\ SpacesTo(t, V, H) /\ SpacesTo(t, V, h)
      BY <1>3, <1>4, <1>5 DEF HttpAt, DotAt
    <2> QED
      BY <1>6, <2>1, SameHttp
  <1>8. t[k] \in {"T"}
    BY <1>6, <1>7, <1>0
  <1>9. n < E
    BY <1>1, <1>6, <1>7
  <1> QED
    BY <1>8, <1>9, LineAccepts

\* In HTTP.
LEMMA GoesHTT ==
    ASSUME NEW t \in Seq(Byte), NEW b \in Nat, NEW n \in Nat, NEW a \in Nat, NEW m \in Nat, NEW u \in Nat, NEW v \in Nat,
           NEW w, b <= n, n <= Len(t), NEW A \in Nat, NEW M \in Nat, NEW U \in Nat, NEW V \in Nat,
           NEW H \in Nat, NEW D \in Nat, NEW Z \in Nat, NEW E \in Nat, Shape(t, b, A, M, U, V, H, D, Z, E),
           NEW k \in Nat, k = n + 1,
           LineAt(t, b, "http_HTT", n, a, m, u, v, w)
    PROVE  n < E /\ Accepts(LineRules, "http_HTT", t[k])
  <1>00. Parts(t, b, A, M, U, V, H, D, Z, E)
    BY ShapeOrder
  <1>1. b < A /\ A < M /\ M < U /\ U < V /\ V < H /\ H + 5 < D /\ D + 1 < Z /\ Z <= E /\ E <= Len(t)
    BY <1>00 DEF Parts
  <1>0. /\ t[A] \in Upper /\ t[M] = SP /\ t[U] = "/" /\ t[V] = SP /\ t[D] = "." /\ t[Z] \notin Digit
        /\ t[H] = "H" /\ t[H + 1] = "T" /\ t[H + 2] = "T" /\ t[H + 3] = "P" /\ t[H + 4] = "/"
        /\ t[H + 5] \in Digit \ {"0"} /\ t[E] = LF /\ t[D + 1] \in Digit
    BY <1>00 DEF Parts
  <1>2. MethodUri(t, b, a, m, u, v) /\ v <= n
    BY LineAtIs, SMTT(40)
  <1>3. MethodUri(t, b, A, M, U, V) /\ DotAt(t, V, H, D)
    BY DEF Shape
  <1>4. v = V
    BY <1>2, <1>3, SameMethodUri
  <1> DEFINE h == n - 2
  <1>5. SpacesTo(t, v, h) /\ HttpAt(t, h, 2)
    BY LineAtIs
  <1>6. h \in Nat /\ k = h + 3
    BY <1>5 DEF SpacesTo
  <1> HIDE DEF h
  <1>7. h = H
    <2>1. t[h] = "H" /\ t[H] = "H" /\ SpacesTo(t, V, H) /\ SpacesTo(t, V, h)
      BY <1>3, <1>4, <1>5 DEF HttpAt, DotAt
    <2> QED
      BY <1>6, <2>1, SameHttp
  <1>8. t[k] \in {"P"}
    BY <1>6, <1>7, <1>0
  <1>9. n < E
    BY <1>1, <1>6, <1>7
  <1> QED
    BY <1>8, <1>9, LineAccepts

\* In HTTP.
LEMMA GoesHTTP ==
    ASSUME NEW t \in Seq(Byte), NEW b \in Nat, NEW n \in Nat, NEW a \in Nat, NEW m \in Nat, NEW u \in Nat, NEW v \in Nat,
           NEW w, b <= n, n <= Len(t), NEW A \in Nat, NEW M \in Nat, NEW U \in Nat, NEW V \in Nat,
           NEW H \in Nat, NEW D \in Nat, NEW Z \in Nat, NEW E \in Nat, Shape(t, b, A, M, U, V, H, D, Z, E),
           NEW k \in Nat, k = n + 1,
           LineAt(t, b, "http_HTTP", n, a, m, u, v, w)
    PROVE  n < E /\ Accepts(LineRules, "http_HTTP", t[k])
  <1>00. Parts(t, b, A, M, U, V, H, D, Z, E)
    BY ShapeOrder
  <1>1. b < A /\ A < M /\ M < U /\ U < V /\ V < H /\ H + 5 < D /\ D + 1 < Z /\ Z <= E /\ E <= Len(t)
    BY <1>00 DEF Parts
  <1>0. /\ t[A] \in Upper /\ t[M] = SP /\ t[U] = "/" /\ t[V] = SP /\ t[D] = "." /\ t[Z] \notin Digit
        /\ t[H] = "H" /\ t[H + 1] = "T" /\ t[H + 2] = "T" /\ t[H + 3] = "P" /\ t[H + 4] = "/"
        /\ t[H + 5] \in Digit \ {"0"} /\ t[E] = LF /\ t[D + 1] \in Digit
    BY <1>00 DEF Parts
  <1>2. MethodUri(t, b, a, m, u, v) /\ v <= n
    BY LineAtIs, SMTT(40)
  <1>3. MethodUri(t, b, A, M, U, V) /\ DotAt(t, V, H, D)
    BY DEF Shape
  <1>4. v = V
    BY <1>2, <1>3, SameMethodUri
  <1> DEFINE h == n - 3
  <1>5. SpacesTo(t, v, h) /\ HttpAt(t, h, 3)
    BY LineAtIs
  <1>6. h \in Nat /\ k = h + 4
    BY <1>5 DEF SpacesTo
  <1> HIDE DEF h
  <1>7. h = H
    <2>1. t[h] = "H" /\ t[H] = "H" /\ SpacesTo(t, V, H) /\ SpacesTo(t, V, h)
      BY <1>3, <1>4, <1>5 DEF HttpAt, DotAt
    <2> QED
      BY <1>6, <2>1, SameHttp
  <1>8. t[k] \in {"/"}
    BY <1>6, <1>7, <1>0
  <1>9. n < E
    BY <1>1, <1>6, <1>7
  <1> QED
    BY <1>8, <1>9, LineAccepts

\* At the first digit of the version.
LEMMA GoesFirstMajor ==
    ASSUME NEW t \in Seq(Byte), NEW b \in Nat, NEW n \in Nat, NEW a \in Nat, NEW m \in Nat, NEW u \in Nat, NEW v \in Nat,
           NEW w, b <= n, n <= Len(t), NEW A \in Nat, NEW M \in Nat, NEW U \in Nat, NEW V \in Nat,
           NEW H \in Nat, NEW D \in Nat, NEW Z \in Nat, NEW E \in Nat, Shape(t, b, A, M, U, V, H, D, Z, E),
           NEW k \in Nat, k = n + 1,
           LineAt(t, b, "first_major_digit", n, a, m, u, v, w)
    PROVE  n < E /\ Accepts(LineRules, "first_major_digit", t[k])
  <1>00. Parts(t, b, A, M, U, V, H, D, Z, E)
    BY ShapeOrder
  <1>1. b < A /\ A < M /\ M < U /\ U < V /\ V < H /\ H + 5 < D /\ D + 1 < Z /\ Z <= E /\ E <= Len(t)
    BY <1>00 DEF Parts
  <1>0. /\ t[A] \in Upper /\ t[M] = SP /\ t[U] = "/" /\ t[V] = SP /\ t[D] = "." /\ t[Z] \notin Digit
        /\ t[H] = "H" /\ t[H + 1] = "T" /\ t[H + 2] = "T" /\ t[H + 3] = "P" /\ t[H + 4] = "/"
        /\ t[H + 5] \in Digit \ {"0"} /\ t[E] = LF /\ t[D + 1] \in Digit
    BY <1>00 DEF Parts
  <1>2. MethodUri(t, b, a, m, u, v) /\ v <= n
    BY LineAtIs, SMTT(40)
  <1>3. MethodUri(t, b, A, M, U, V) /\ DotAt(t, V, H, D)
    BY DEF Shape
  <1>4. v = V
    BY <1>2, <1>3, SameMethodUri
  <1> DEFINE h == n - 4
  <1>5. SpacesTo(t, v, h) /\ HttpAt(t, h, 4)
    BY LineAtIs
  <1>6. h \in Nat /\ k = h + 5
    BY <1>5 DEF SpacesTo
  <1> HIDE DEF h
  <1>7. h = H
    <2>1. t[h] = "H" /\ t[H] = "H" /\ SpacesTo(t, V, H) /\ SpacesTo(t, V, h)
      BY <1>3, <1>4, <1>5 DEF HttpAt, DotAt
    <2> QED
      BY <1>6, <2>1, SameHttp
  <1>8. t[k] \in Digit \ {"0"}
    BY <1>6, <1>7, <1>0
  <1>9. n < E
    BY <1>1, <1>6, <1>7
  <1> QED
    BY <1>8, <1>9, LineAccepts

\* In the digits before the dot.
LEMMA GoesMajor ==
    ASSUME NEW t \in Seq(Byte), NEW b \in Nat, NEW n \in Nat, NEW a \in Nat, NEW m \in Nat, NEW u \in Nat, NEW v \in Nat,
           NEW w, b <= n, n <= Len(t), NEW A \in Nat, NEW M \in Nat, NEW U \in Nat, NEW V \in Nat,
           NEW H \in Nat, NEW D \in Nat, NEW Z \in Nat, NEW E \in Nat, Shape(t, b, A, M, U, V, H, D, Z, E),
           NEW k \in Nat, k = n + 1,
           LineAt(t, b, "major_digit", n, a, m, u, v, w)
    PROVE  n < E /\ Accepts(LineRules, "major_digit", t[k])
  <1>00. Parts(t, b, A, M, U, V, H, D, Z, E)
    BY ShapeOrder
  <1>1. b < A /\ A < M /\ M < U /\ U < V /\ V < H /\ H + 5 < D /\ D + 1 < Z /\ Z <= E /\ E <= Len(t)
    BY <1>00 DEF Parts
  <1>0. /\ t[A] \in Upper /\ t[M] = SP /\ t[U] = "/" /\ t[V] = SP /\ t[D] = "." /\ t[Z] \notin Digit
        /\ t[H] = "H" /\ t[H + 1] = "T" /\ t[H + 2] = "T" /\ t[H + 3] = "P" /\ t[H + 4] = "/"
        /\ t[H + 5] \in Digit \ {"0"} /\ t[E] = LF /\ t[D + 1] \in Digit
    BY <1>00 DEF Parts
  <1>2. MethodUri(t, b, a, m, u, v) /\ v <= n
    BY LineAtIs, SMTT(40)
  <1>3. MethodUri(t, b, A, M, U, V) /\ DotAt(t, V, H, D)
    BY DEF Shape
  <1>4. v = V
    BY <1>2, <1>3, SameMethodUri
  <1>5. PICK h \in v..n : SpacesTo(t, v, h) /\ HttpAt(t, h, 4) /\ MajorTo(t, h, n + 1)
    BY LineAtIs, SMTT(40)
  <1>12. h = H
    <2>1. t[h] = "H" /\ t[H] = "H" /\ SpacesTo(t, V, H) /\ SpacesTo(t, V, h) /\ h \in Nat
      BY <1>3, <1>4, <1>5 DEF HttpAt, DotAt
    <2> QED
      BY <2>1, SameHttp
  <1>6. H + 5 <= k
    BY <1>5, <1>12 DEF MajorTo
  <1>7. /\ H + 5 \in Int /\ n \in Int /\ D \in Int /\ H + 5 <= D /\ t[D] \notin Digit
        /\ AllOf(t, H + 5, n, Digit) /\ AllOf(t, H + 5, D - 1, Digit)
    <2>1. H + 5 \in Int /\ n \in Int /\ D \in Int /\ H + 5 <= D /\ (n + 1) - 1 = n
      BY <1>1
    <2>2. t[D] \notin Digit
      BY <1>3, Bytes DEF DotAt
    <2>3. AllOf(t, H + 5, D - 1, Digit)
      BY <1>3, Zenon DEF DotAt, MajorTo
    <2>4. AllOf(t, H + 5, (n + 1) - 1, Digit)
      BY <1>5, <1>12, Zenon DEF MajorTo
    <2> QED
      BY <2>1, <2>2, <2>3, <2>4, Zenon
  <1>8. n < D
    BY <1>7, NotYet, Zenon
  <1>9. k < D => t[k] \in Digit
    <2>1. k \in Int /\ H + 5 <= k
      BY <1>6
    <2> QED
      BY <1>7, <2>1, InRun, Zenon
  <1>10. n < E /\ (k < D \/ k = D)
    BY <1>1, <1>8, SMTT(40)
  <1>11. k = D => t[k] = "."
    BY <1>0
  <1> QED
    BY <1>9, <1>10, <1>11, LineAccepts

\* At the first digit behind the dot.
LEMMA GoesFirstMinor ==
    ASSUME NEW t \in Seq(Byte), NEW b \in Nat, NEW n \in Nat, NEW a \in Nat, NEW m \in Nat, NEW u \in Nat, NEW v \in Nat,
           NEW w, b <= n, n <= Len(t), NEW A \in Nat, NEW M \in Nat, NEW U \in Nat, NEW V \in Nat,
           NEW H \in Nat, NEW D \in Nat, NEW Z \in Nat, NEW E \in Nat, Shape(t, b, A, M, U, V, H, D, Z, E),
           NEW k \in Nat, k = n + 1,
           LineAt(t, b, "first_minor_digit", n, a, m, u, v, w)
    PROVE  n < E /\ Accepts(LineRules, "first_minor_digit", t[k])
  <1>00. Parts(t, b, A, M, U, V, H, D, Z, E)
    BY ShapeOrder
  <1>1. b < A /\ A < M /\ M < U /\ U < V /\ V < H /\ H + 5 < D /\ D + 1 < Z /\ Z <= E /\ E <= Len(t)
    BY <1>00 DEF Parts
  <1>0. /\ t[A] \in Upper /\ t[M] = SP /\ t[U] = "/" /\ t[V] = SP /\ t[D] = "." /\ t[Z] \notin Digit
        /\ t[H] = "H" /\ t[H + 1] = "T" /\ t[H + 2] = "T" /\ t[H + 3] = "P" /\ t[H + 4] = "/"
        /\ t[H + 5] \in Digit \ {"0"} /\ t[E] = LF /\ t[D + 1] \in Digit
    BY <1>00 DEF Parts
  <1>2. MethodUri(t, b, a, m, u, v) /\ v <= n
    BY LineAtIs, SMTT(40)
  <1>3. MethodUri(t, b, A, M, U, V) /\ DotAt(t, V, H, D)
    BY DEF Shape
  <1>4. v = V
    BY <1>2, <1>3, SameMethodUri
  <1>5. PICK h \in v..n : DotAt(t, v, h, n)
    BY LineAtIs, SMTT(40)
  <1>6. n = D
    <2>1. h \in Nat
      OBVIOUS
    <2> QED
      BY <1>3, <1>4, <1>5, <2>1, SameDot
  <1>7. n < E /\ t[k] \in Digit
    BY <1>1, <1>6, <1>0
  <1> QED
    BY <1>7, LineAccepts

\* In the digits behind the dot.
LEMMA GoesMinor ==
    ASSUME NEW t \in Seq(Byte), NEW b \in Nat, NEW n \in Nat, NEW a \in Nat, NEW m \in Nat, NEW u \in Nat, NEW v \in Nat,
           NEW w, b <= n, n <= Len(t), NEW A \in Nat, NEW M \in Nat, NEW U \in Nat, NEW V \in Nat,
           NEW H \in Nat, NEW D \in Nat, NEW Z \in Nat, NEW E \in Nat, Shape(t, b, A, M, U, V, H, D, Z, E),
           NEW k \in Nat, k = n + 1,
           LineAt(t, b, "minor_digit", n, a, m, u, v, w)
    PROVE  n < E /\ Accepts(LineRules, "minor_digit", t[k])
  <1>00. Parts(t, b, A, M, U, V, H, D, Z, E)
    BY ShapeOrder
  <1>1. b < A /\ A < M /\ M < U /\ U < V /\ V < H /\ H + 5 < D /\ D + 1 < Z /\ Z <= E /\ E <= Len(t)
    BY <1>00 DEF Parts
  <1>0. /\ t[A] \in Upper /\ t[M] = SP /\ t[U] = "/" /\ t[V] = SP /\ t[D] = "." /\ t[Z] \notin Digit
        /\ t[H] = "H" /\ t[H + 1] = "T" /\ t[H + 2] = "T" /\ t[H + 3] = "P" /\ t[H + 4] = "/"
        /\ t[H + 5] \in Digit \ {"0"} /\ t[E] = LF /\ t[D + 1] \in Digit
    BY <1>00 DEF Parts
  <1>2. MethodUri(t, b, a, m, u, v) /\ v <= n
    BY LineAtIs, SMTT(40)
  <1>3. MethodUri(t, b, A, M, U, V) /\ DotAt(t, V, H, D)
    BY DEF Shape
  <1>4. v = V
    BY <1>2, <1>3, SameMethodUri
  <1>5. PICK h \in v..n, d \in v..n : DotAt(t, v, h, d) /\ MinorTo(t, d, n + 1)
    BY LineAtIs, SMTT(40)
  <1>12. d = D
    <2>1. h \in Nat /\ d \in Nat
      OBVIOUS
    <2> QED
      BY <1>3, <1>4, <1>5, <2>1, SameDot
  <1>6. D + 1 <= k
    BY <1>5, <1>12 DEF MinorTo
  <1>7. /\ D + 1 \in Int /\ n \in Int /\ Z \in Int /\ D + 1 <= Z /\ t[Z] \notin Digit
        /\ AllOf(t, D + 1, n, Digit) /\ AllOf(t, D + 1, Z - 1, Digit)
    <2>1. D + 1 \in Int /\ n \in Int /\ Z \in Int /\ D + 1 <= Z /\ (n + 1) - 1 = n
      BY <1>1
    <2>2. t[Z] \notin Digit
      BY <1>0
    <2>3. AllOf(t, D + 1, Z - 1, Digit)
      BY Zenon DEF Shape, MinorTo
    <2>4. AllOf(t, D + 1, (n + 1) - 1, Digit)
      BY <1>5, <1>12, Zenon DEF MinorTo
    <2> QED
      BY <2>1, <2>2, <2>3, <2>4, Zenon
  <1>8. n < Z
    BY <1>7, NotYet, Zenon
  <1>9. k < Z => t[k] \in Digit
    <2>1. k \in Int /\ D + 1 <= k
      BY <1>6
    <2> QED
      BY <1>7, <2>1, InRun, Zenon
  <1>10. n < E /\ (k < Z \/ k = Z)
    BY <1>1, <1>8, SMTT(40)
  <1>11. k = Z => t[k] \in {SP, CR, LF}
    BY <1>1, LineToBytes, SMTT(40) DEF Shape
  <1>13. t[k] \in Digit \/ t[k] = SP \/ t[k] = CR \/ t[k] = LF
    BY <1>9, <1>10, <1>11
  <1> QED
    BY <1>10, <1>13, LineAccepts

\* In the spaces behind the version.
LEMMA GoesAfterDigit ==
    ASSUME NEW t \in Seq(Byte), NEW b \in Nat, NEW n \in Nat, NEW a \in Nat, NEW m \in Nat, NEW u \in Nat, NEW v \in Nat,
           NEW w, b <= n, n <= Len(t), NEW A \in Nat, NEW M \in Nat, NEW U \in Nat, NEW V \in Nat,
           NEW H \in Nat, NEW D \in Nat, NEW Z \in Nat, NEW E \in Nat, Shape(t, b, A, M, U, V, H, D, Z, E),
           NEW k \in Nat, k = n + 1,
           LineAt(t, b, "spaces_after_digit", n, a, m, u, v, w)
    PROVE  n < E /\ Accepts(LineRules, "spaces_after_digit", t[k])
  <1>00. Parts(t, b, A, M, U, V, H, D, Z, E)
    BY ShapeOrder
  <1>1. b < A /\ A < M /\ M < U /\ U < V /\ V < H /\ H + 5 < D /\ D + 1 < Z /\ Z <= E /\ E <= Len(t)
    BY <1>00 DEF Parts
  <1>0. /\ t[A] \in Upper /\ t[M] = SP /\ t[U] = "/" /\ t[V] = SP /\ t[D] = "." /\ t[Z] \notin Digit
        /\ t[H] = "H" /\ t[H + 1] = "T" /\ t[H + 2] = "T" /\ t[H + 3] = "P" /\ t[H + 4] = "/"
        /\ t[H + 5] \in Digit \ {"0"} /\ t[E] = LF /\ t[D + 1] \in Digit
    BY <1>00 DEF Parts
  <1>2. MethodUri(t, b, a, m, u, v) /\ v <= n
    BY LineAtIs, SMTT(40)
  <1>3. MethodUri(t, b, A, M, U, V) /\ DotAt(t, V, H, D)
    BY DEF Shape
  <1>4. v = V
    BY <1>2, <1>3, SameMethodUri
  <1>5. PICK h \in v..n, d \in v..n, z \in v..n : DotAt(t, v, h, d) /\ MinorTo(t, d, z) /\ AllOf(t, z, n, {SP})
    BY Zenon DEF LineAt
  <1>12. d = D /\ z \in Nat /\ z <= n
    <2>1. h \in Nat /\ d \in Nat /\ z \in Nat /\ z <= n
      OBVIOUS
    <2> QED
      BY <1>3, <1>4, <1>5, <2>1, SameDot
  <1>13. t[z] = SP
    BY <1>5, <1>12 DEF AllOf
  <1>14. z = Z
    <2>1. MinorTo(t, D, z) /\ MinorTo(t, D, Z) /\ t[z] \notin Digit /\ t[Z] \notin Digit
      BY <1>5, <1>12, <1>13, Bytes, <1>0 DEF Shape
    <2> QED
      BY <1>12, <2>1, SameMinorEnd
  <1>8. n < E
    <2>1. Z \in Int /\ n \in Int /\ E \in Int /\ Z <= E
      BY <1>1
    <2>2. t[E] \notin {SP}
      BY <1>0, Bytes
    <2>3. AllOf(t, Z, n, {SP})
      BY <1>5, <1>14, Zenon
    <2> QED
      BY <2>1, <2>2, <2>3, NotYet, Zenon
  <1>9. Z <= k /\ k <= E
    BY <1>8, <1>12, <1>14
  <1>10. t[k] \in {SP, CR, LF}
    BY <1>9, LineToBytes DEF Shape
  <1>11. t[k] = SP \/ t[k] = CR \/ t[k] = LF
    BY <1>10
  <1> QED
    BY <1>8, <1>11, LineAccepts

\* Behind the CR of the line.
LEMMA GoesAlmostDone ==
    ASSUME NEW t \in Seq(Byte), NEW b \in Nat, NEW n \in Nat, NEW a \in Nat, NEW m \in Nat, NEW u \in Nat, NEW v \in Nat,
           NEW w, b <= n, n <= Len(t), NEW A \in Nat, NEW M \in Nat, NEW U \in Nat, NEW V \in Nat,
           NEW H \in Nat, NEW D \in Nat, NEW Z \in Nat, NEW E \in Nat, Shape(t, b, A, M, U, V, H, D, Z, E),
           NEW k \in Nat, k = n + 1,
           LineAt(t, b, "almost_done", n, a, m, u, v, w)
    PROVE  n < E /\ Accepts(LineRules, "almost_done", t[k])
  <1>00. Parts(t, b, A, M, U, V, H, D, Z, E)
    BY ShapeOrder
  <1>1. b < A /\ A < M /\ M < U /\ U < V /\ V < H /\ H + 5 < D /\ D + 1 < Z /\ Z <= E /\ E <= Len(t)
    BY <1>00 DEF Parts
  <1>0. /\ t[A] \in Upper /\ t[M] = SP /\ t[U] = "/" /\ t[V] = SP /\ t[D] = "." /\ t[Z] \notin Digit
        /\ t[H] = "H" /\ t[H + 1] = "T" /\ t[H + 2] = "T" /\ t[H + 3] = "P" /\ t[H + 4] = "/"
        /\ t[H + 5] \in Digit \ {"0"} /\ t[E] = LF /\ t[D + 1] \in Digit
    BY <1>00 DEF Parts
  <1>2. MethodUri(t, b, a, m, u, v) /\ v <= n
    BY LineAtIs, SMTT(40)
  <1>3. MethodUri(t, b, A, M, U, V) /\ DotAt(t, V, H, D)
    BY DEF Shape
  <1>4. v = V
    BY <1>2, <1>3, SameMethodUri
  <1>5. PICK h \in v..n, d \in v..n, z \in v..n :
          DotAt(t, v, h, d) /\ MinorTo(t, d, z) /\ AllOf(t, z, n - 1, {SP}) /\ t[n] = CR
    BY Zenon DEF LineAt
  <1>12. d = D /\ z \in Nat /\ z <= n
    <2>1. h \in Nat /\ d \in Nat /\ z \in Nat /\ z <= n
      OBVIOUS
    <2> QED
      BY <1>3, <1>4, <1>5, <2>1, SameDot
  <1>13. t[z] = SP \/ t[z] = CR
    BY <1>5, <1>12, SMTT(40) DEF AllOf
  <1>14. z = Z
    <2>1. MinorTo(t, D, z) /\ MinorTo(t, D, Z) /\ t[z] \notin Digit /\ t[Z] \notin Digit
      BY <1>5, <1>12, <1>13, Bytes, <1>0 DEF Shape
    <2> QED
      BY <1>12, <2>1, SameMinorEnd
  <1>15. n - 1 < E
    <2>1. Z \in Int /\ n - 1 \in Int /\ E \in Int /\ Z <= E
      BY <1>1
    <2>2. t[E] \notin {SP}
      BY <1>0, Bytes
    <2>3. AllOf(t, Z, n - 1, {SP})
      BY <1>5, <1>14, Zenon
    <2> QED
      BY <2>1, <2>2, <2>3, NotYet, Zenon
  <1>8. n < E
    <2>1. n # E
      BY <1>5, <1>0, Bytes
    <2> QED
      BY <1>15, <2>1
  <1>9. k = E
    <2>1. Z <= n /\ n <= E /\ LineTo(t, Z, E) /\ t[n] = CR
      BY <1>5, <1>8, <1>12, <1>14 DEF Shape
    <2>2. n + 1 = E
      BY <2>1, LineToBytes, SMTT(40)
    <2> QED
      BY <2>2
  <1>10. t[k] = LF
    BY <1>9, <1>0
  <1> QED
    BY <1>8, <1>10, LineAccepts

\* The parser of the line that has come to position n of a request goes on there.
LEMMA LineGoes ==
    ASSUME NEW t \in Seq(Byte), NEW b \in Nat, NEW n \in Nat, NEW a \in Nat, NEW m \in Nat, NEW u \in Nat, NEW v \in Nat,
           NEW w, b <= n, n <= Len(t), NEW st \in LineStates, LineAt(t, b, st, n, a, m, u, v, w), Request(t, b).ok,
           NEW k, k = n + 1
    PROVE  n < Len(t) /\ n < Request(t, b).end /\ Accepts(LineRules, st, t[k])
  <1>1. b <= Len(t) /\ Len(t) \in Nat /\ k \in Nat
    BY LenProperties
  <1>2. PICK A \in Nat, M \in Nat, U \in Nat, V \in Nat, H \in Nat, D \in Nat, Z \in Nat, E \in Nat :
          /\ Shape(t, b, A, M, U, V, H, D, Z, E)
          /\ HeaderBlock(t, E + 1).ok /\ Request(t, b).end = HeaderBlock(t, E + 1).end
    BY <1>1, ShapeOfRequest
  <1>3. n < E /\ Accepts(LineRules, st, t[k])
    <2>1. st \in {"start", "method", "spaces_before_uri", "after_slash_in_uri", "http", "http_H", "http_HT", "http_HTT",
                  "http_HTTP", "first_major_digit", "major_digit", "first_minor_digit", "minor_digit",
                  "spaces_after_digit", "almost_done"}
      BY LineStatesAre
    <2>2. CASE st = "start"
      BY <1>1, <1>2, <2>2, GoesStart, ZenonT(60)
    <2>3. CASE st = "method"
      BY <1>1, <1>2, <2>3, GoesMethod, ZenonT(60)
    <2>4. CASE st = "spaces_before_uri"
      BY <1>1, <1>2, <2>4, GoesBeforeUri, ZenonT(60)
    <2>5. CASE st = "after_slash_in_uri"
      BY <1>1, <1>2, <2>5, GoesUri, ZenonT(60)
    <2>6. CASE st = "http"
      BY <1>1, <1>2, <2>6, GoesHttp, ZenonT(60)
    <2>7. CASE st = "http_H"
      BY <1>1, <1>2, <2>7, GoesH, ZenonT(60)
    <2>8. CASE st = "http_HT"
      BY <1>1, <1>2, <2>8, GoesHT, ZenonT(60)
    <2>9. CASE st = "http_HTT"
      BY <1>1, <1>2, <2>9, GoesHTT, ZenonT(60)
    <2>10. CASE st = "http_HTTP"
      BY <1>1, <1>2, <2>10, GoesHTTP, ZenonT(60)
    <2>11. CASE st = "first_major_digit"
      BY <1>1, <1>2, <2>11, GoesFirstMajor, ZenonT(60)
    <2>12. CASE st = "major_digit"
      BY <1>1, <1>2, <2>12, GoesMajor, ZenonT(60)
    <2>13. CASE st = "first_minor_digit"
      BY <1>1, <1>2, <2>13, GoesFirstMinor, ZenonT(60)
    <2>14. CASE st = "minor_digit"
      BY <1>1, <1>2, <2>14, GoesMinor, ZenonT(60)
    <2>15. CASE st = "spaces_after_digit"
      BY <1>1, <1>2, <2>15, GoesAfterDigit, ZenonT(60)
    <2>16. CASE st = "almost_done"
      BY <1>1, <1>2, <2>16, GoesAlmostDone, ZenonT(60)
    <2> QED
      BY <2>1, <2>2, <2>3, <2>4, <2>5, <2>6, <2>7, <2>8, <2>9, <2>10, <2>11, <2>12, <2>13, <2>14, <2>15, <2>16
  <1>4. E <= Len(t)
    BY <1>2 DEF Shape
  <1>5. E + 1 \in 1..(Len(t) + 1)
    BY <1>1, <1>4
  <1>6. HeaderBlock(t, E + 1) = Block(t, E + 1)[E + 1]
    BY HeaderBlockIs
  <1>7. HeaderBlock(t, E + 1).end \in Nat /\ E + 1 < HeaderBlock(t, E + 1).end
    BY <1>2, <1>5, <1>6, BlockFields, SMTT(40)
  <1>8. Request(t, b).end \in Nat /\ E + 1 < Request(t, b).end
    BY <1>2, <1>7, Zenon
  <1>9. n < Len(t) /\ n < Request(t, b).end
    <2>1. n < E
      BY <1>3
    <2> QED
      BY <2>1, <1>1, <1>4, <1>8, SMTT(40)
  <1> QED
    BY <1>3, <1>9
-----------------------------------------------------------------------------
(* A byte of the header lines.                                              *)

\* What HeaderAt says, state by state.
LEMMA HeaderAtIs ==
    ASSUME NEW t, NEW from, NEW n, NEW p, NEW ks, NEW ke, NEW vs, NEW ve
    PROVE
      /\ HeaderAt(t, from, "start", n, p, ks, ke, vs, ve) <=> n = p - 1 /\ p = from
      /\ HeaderAt(t, from, "crlf", n, p, ks, ke, vs, ve) <=> n = p - 1 /\ p # from
      /\ HeaderAt(t, from, "crlfcr", n, p, ks, ke, vs, ve) <=> n = p /\ t[p] = CR
      /\ HeaderAt(t, from, "key", n, p, ks, ke, vs, ve) <=>
           KeyAt(t, from, p) /\ ks = p /\ p <= n /\ NoneOf(t, p + 1, n, {SP, ":"})
      /\ HeaderAt(t, from, "spaces_before_colon", n, p, ks, ke, vs, ve) <=>
           KeyAt(t, from, p) /\ ks = p /\ p <= n /\ KeyTo(t, p, ke) /\ ke <= n /\ AllOf(t, ke, n, {SP})
      /\ HeaderAt(t, from, "spaces_after_colon", n, p, ks, ke, vs, ve) <=>
           /\ KeyAt(t, from, p) /\ ks = p /\ p <= n /\ KeyTo(t, p, ke) /\ ke <= n
           /\ \E c \in ke..n : ColonAt(t, ke, c) /\ AllOf(t, c + 1, n, {SP})
      /\ HeaderAt(t, from, "value", n, p, ks, ke, vs, ve) <=>
           /\ KeyAt(t, from, p) /\ ks = p /\ p <= n /\ KeyTo(t, p, ke) /\ ke <= n
           /\ vs <= n /\ \E c \in ke..vs : ColonAt(t, ke, c) /\ ValueAt(t, c, vs)
           /\ NoneOf(t, vs + 1, n, {CR, LF})
      /\ HeaderAt(t, from, "cr", n, p, ks, ke, vs, ve) <=>
           /\ KeyAt(t, from, p) /\ ks = p /\ p <= n /\ KeyTo(t, p, ke) /\ ke <= n
           /\ vs <= n /\ \E c \in ke..vs : ColonAt(t, ke, c) /\ ValueAt(t, c, vs)
           /\ ve = n /\ ValueTo(t, vs, ve)
  BY Zenon DEF HeaderAt

\* Where a header line starts.
LEMMA HeaderStart ==
    ASSUME NEW t \in Seq(Byte), NEW from \in Nat, NEW n \in Nat, NEW p \in Nat, NEW ks \in Nat, NEW ke \in Nat, NEW vs \in Nat,
           NEW ve \in Nat, NEW k \in Nat, k = n + 1, n < Len(t),
           HeaderAt(t, from, "start", n, p, ks, ke, vs, ve)
    PROVE  /\ t[k] = CR => HeaderAt(t, from, "crlfcr", k, p, ks, ke, vs, ve)
           /\ t[k] # CR /\ t[k] # LF => HeaderAt(t, from, "key", k, p, k, ke, vs, ve)
  <1>1. n = p - 1 /\ p = from
    BY HeaderAtIs
  <1>2. k = p
    BY <1>1
  <1>3. NoneOf(t, p + 1, k, {SP, ":"})
    BY <1>2 DEF NoneOf
  <1>4. t[k] # CR /\ t[k] # LF => KeyAt(t, from, p)
    BY <1>1, <1>2 DEF KeyAt
  <1>5. p <= k
    BY <1>2
  <1> QED
    BY <1>2, <1>3, <1>4, <1>5, Zenon DEF HeaderAt

\* Where a header line starts.
LEMMA HeaderNext ==
    ASSUME NEW t \in Seq(Byte), NEW from \in Nat, NEW n \in Nat, NEW p \in Nat, NEW ks \in Nat, NEW ke \in Nat, NEW vs \in Nat,
           NEW ve \in Nat, NEW k \in Nat, k = n + 1, n < Len(t),
           HeaderAt(t, from, "crlf", n, p, ks, ke, vs, ve)
    PROVE  /\ t[k] = CR => HeaderAt(t, from, "crlfcr", k, p, ks, ke, vs, ve)
           /\ t[k] # CR => HeaderAt(t, from, "key", k, p, k, ke, vs, ve)
  <1>1. n = p - 1 /\ p # from
    BY HeaderAtIs
  <1>2. k = p
    BY <1>1
  <1>3. NoneOf(t, p + 1, k, {SP, ":"})
    BY <1>2 DEF NoneOf
  <1>4. t[k] # CR => KeyAt(t, from, p)
    BY <1>1, <1>2 DEF KeyAt
  <1>5. p <= k
    BY <1>2
  <1> QED
    BY <1>2, <1>3, <1>4, <1>5, Zenon DEF HeaderAt

\* In the key.
LEMMA HeaderKey ==
    ASSUME NEW t \in Seq(Byte), NEW from \in Nat, NEW n \in Nat, NEW p \in Nat, NEW ks \in Nat, NEW ke \in Nat, NEW vs \in Nat,
           NEW ve \in Nat, NEW k \in Nat, k = n + 1, n < Len(t),
           HeaderAt(t, from, "key", n, p, ks, ke, vs, ve)
    PROVE  /\ t[k] \notin {SP, ":"} => HeaderAt(t, from, "key", k, p, ks, ke, vs, ve)
           /\ t[k] = SP => HeaderAt(t, from, "spaces_before_colon", k, p, ks, k, vs, ve)
           /\ t[k] = ":" => HeaderAt(t, from, "spaces_after_colon", k, p, ks, k, vs, ve)
  <1>1. KeyAt(t, from, p) /\ ks = p /\ p <= n /\ NoneOf(t, p + 1, n, {SP, ":"})
    BY HeaderAtIs
  <1>2. p < k /\ p <= k /\ k <= k /\ k - 1 = n /\ k \in k..k
    BY <1>1
  <1>3. t[k] \notin {SP, ":"} => NoneOf(t, p + 1, k, {SP, ":"})
    BY <1>1 DEF NoneOf
  <1>4. t[k] \in {SP, ":"} => KeyTo(t, p, k)
    <2>1. NoneOf(t, p + 1, k - 1, {SP, ":"})
      BY <1>1, <1>2, Zenon
    <2> QED
      BY <1>2, <2>1 DEF KeyTo
  <1>5. t[k] = SP => AllOf(t, k, k, {SP})
    <2>1. k \in Int
      OBVIOUS
    <2> QED
      BY <2>1, SpacesOne, Zenon
  <1>6. t[k] = ":" => ColonAt(t, k, k) /\ AllOf(t, k + 1, k, {SP})
    BY DEF ColonAt, AllOf
  <1>7. t[k] \notin {SP, ":"} => HeaderAt(t, from, "key", k, p, ks, ke, vs, ve)
    BY <1>1, <1>2, <1>3, Zenon DEF HeaderAt
  <1>8. t[k] = SP => HeaderAt(t, from, "spaces_before_colon", k, p, ks, k, vs, ve)
    <2>1. t[k] = SP => t[k] \in {SP, ":"}
      OBVIOUS
    <2> QED
      BY <1>1, <1>2, <1>4, <1>5, <2>1, Zenon DEF HeaderAt
  <1>9. t[k] = ":" => HeaderAt(t, from, "spaces_after_colon", k, p, ks, k, vs, ve)
    <2>1. t[k] = ":" => t[k] \in {SP, ":"}
      OBVIOUS
    <2> QED
      BY <1>1, <1>2, <1>4, <1>6, <2>1, Zenon DEF HeaderAt
  <1> QED
    BY <1>7, <1>8, <1>9

\* In the spaces before the colon.
LEMMA HeaderBeforeColon ==
    ASSUME NEW t \in Seq(Byte), NEW from \in Nat, NEW n \in Nat, NEW p \in Nat, NEW ks \in Nat, NEW ke \in Nat, NEW vs \in Nat,
           NEW ve \in Nat, NEW k \in Nat, k = n + 1, n < Len(t),
           HeaderAt(t, from, "spaces_before_colon", n, p, ks, ke, vs, ve)
    PROVE  /\ t[k] = SP => HeaderAt(t, from, "spaces_before_colon", k, p, ks, ke, vs, ve)
           /\ t[k] = ":" => HeaderAt(t, from, "spaces_after_colon", k, p, ks, ke, vs, ve)
  <1>1. KeyAt(t, from, p) /\ ks = p /\ p <= n /\ KeyTo(t, p, ke) /\ ke <= n /\ AllOf(t, ke, n, {SP})
    BY Zenon DEF HeaderAt
  <1>2. p <= k /\ ke <= k /\ k - 1 = n /\ k \in ke..k /\ n \in Int /\ k \in Int /\ ke \in Int
    BY <1>1
  <1>3. t[k] = SP => AllOf(t, ke, k, {SP})
    BY <1>1, <1>2, SpacesMore, Zenon
  <1>4. t[k] = ":" => ColonAt(t, ke, k) /\ AllOf(t, k + 1, k, {SP})
    <2>1. AllOf(t, ke, k - 1, {SP})
      BY <1>1, <1>2, Zenon
    <2>2. AllOf(t, k + 1, k, {SP})
      BY DEF AllOf
    <2> QED
      BY <1>2, <2>1, <2>2, Zenon DEF ColonAt
  <1>5. t[k] = SP => HeaderAt(t, from, "spaces_before_colon", k, p, ks, ke, vs, ve)
    BY <1>1, <1>2, <1>3, Zenon DEF HeaderAt
  <1>6. t[k] = ":" => HeaderAt(t, from, "spaces_after_colon", k, p, ks, ke, vs, ve)
    BY <1>1, <1>2, <1>4, Zenon DEF HeaderAt
  <1> QED
    BY <1>5, <1>6

\* In the spaces behind the colon.
LEMMA HeaderAfterColon ==
    ASSUME NEW t \in Seq(Byte), NEW from \in Nat, NEW n \in Nat, NEW p \in Nat, NEW ks \in Nat, NEW ke \in Nat, NEW vs \in Nat,
           NEW ve \in Nat, NEW k \in Nat, k = n + 1, n < Len(t),
           HeaderAt(t, from, "spaces_after_colon", n, p, ks, ke, vs, ve)
    PROVE  /\ t[k] = SP => HeaderAt(t, from, "spaces_after_colon", k, p, ks, ke, vs, ve)
           /\ t[k] # SP => HeaderAt(t, from, "value", k, p, ks, ke, k, ve)
  <1>1. KeyAt(t, from, p) /\ ks = p /\ p <= n /\ KeyTo(t, p, ke) /\ ke <= n
    BY Zenon DEF HeaderAt
  <1>2. PICK c \in ke..n : ColonAt(t, ke, c) /\ AllOf(t, c + 1, n, {SP})
    BY Zenon DEF HeaderAt
  <1>3. /\ p <= k /\ ke <= k /\ k - 1 = n /\ c \in ke..k /\ c < k /\ k <= k
        /\ n \in Int /\ k \in Int /\ c + 1 \in Int
    BY <1>1
  <1>4. t[k] = SP => AllOf(t, c + 1, k, {SP})
    BY <1>2, <1>3, SpacesMore, Zenon
  <1>5. t[k] # SP => ValueAt(t, c, k)
    <2>1. AllOf(t, c + 1, k - 1, {SP})
      BY <1>2, <1>3, Zenon
    <2> QED
      BY <1>3, <2>1, Zenon DEF ValueAt
  <1>6. NoneOf(t, k + 1, k, {CR, LF})
    BY DEF NoneOf
  <1>7. t[k] = SP => HeaderAt(t, from, "spaces_after_colon", k, p, ks, ke, vs, ve)
    BY <1>1, <1>2, <1>3, <1>4, Zenon DEF HeaderAt
  <1>8. t[k] # SP => HeaderAt(t, from, "value", k, p, ks, ke, k, ve)
    BY <1>1, <1>2, <1>3, <1>5, <1>6, ZenonT(60) DEF HeaderAt
  <1> QED
    BY <1>7, <1>8

\* In the value.
LEMMA HeaderValue ==
    ASSUME NEW t \in Seq(Byte), NEW from \in Nat, NEW n \in Nat, NEW p \in Nat, NEW ks \in Nat, NEW ke \in Nat, NEW vs \in Nat,
           NEW ve \in Nat, NEW k \in Nat, k = n + 1, n < Len(t),
           HeaderAt(t, from, "value", n, p, ks, ke, vs, ve)
    PROVE  /\ t[k] = CR => HeaderAt(t, from, "cr", k, p, ks, ke, vs, k)
           /\ t[k] \notin {CR, LF} => HeaderAt(t, from, "value", k, p, ks, ke, vs, ve)
  <1>1. KeyAt(t, from, p) /\ ks = p /\ p <= n /\ KeyTo(t, p, ke) /\ ke <= n
    BY Zenon DEF HeaderAt
  <1>2. vs <= n /\ (\E c \in ke..vs : ColonAt(t, ke, c) /\ ValueAt(t, c, vs)) /\ NoneOf(t, vs + 1, n, {CR, LF})
    BY Zenon DEF HeaderAt
  <1>3. p <= k /\ ke <= k /\ k - 1 = n /\ vs <= k /\ vs < k
    BY <1>1, <1>2
  <1>4. t[k] \notin {CR, LF} => NoneOf(t, vs + 1, k, {CR, LF})
    BY <1>2, SMTT(40) DEF NoneOf
  <1>5. t[k] = CR => ValueTo(t, vs, k)
    <2>1. NoneOf(t, vs + 1, k - 1, {CR, LF})
      BY <1>2, <1>3, Zenon
    <2> QED
      BY <1>3, <2>1, Zenon DEF ValueTo
  <1>6. t[k] = CR => HeaderAt(t, from, "cr", k, p, ks, ke, vs, k)
    BY <1>1, <1>2, <1>3, <1>5, Zenon DEF HeaderAt
  <1>7. t[k] \notin {CR, LF} => HeaderAt(t, from, "value", k, p, ks, ke, vs, ve)
    BY <1>1, <1>2, <1>3, <1>4, Zenon DEF HeaderAt
  <1> QED
    BY <1>6, <1>7
-----------------------------------------------------------------------------
(* The parser of the headers does not stop in a block of the reference.     *)

\* The parts of a header line are where they are found first.
LEMMA SameKeyEnd ==
    ASSUME NEW t, NEW p \in Nat, NEW ke \in Nat, NEW KE \in Nat, KeyTo(t, p, ke), KeyTo(t, p, KE)
    PROVE  ke = KE
  <1>1. p + 1 \in Int /\ ke \in Int /\ KE \in Int /\ p + 1 <= ke /\ p + 1 <= KE
    BY DEF KeyTo
  <1>2. NoneOf(t, p + 1, ke - 1, {SP, ":"}) /\ NoneOf(t, p + 1, KE - 1, {SP, ":"})
    BY Zenon DEF KeyTo
  <1>3. t[ke] \in {SP, ":"} /\ t[KE] \in {SP, ":"}
    BY Bytes DEF KeyTo
  <1> QED
    BY <1>1, <1>2, <1>3, SameStop, Zenon

\* The colon is at one place.
LEMMA SameColon ==
    ASSUME NEW t, NEW ke \in Nat, NEW c \in Nat, NEW C \in Nat, ColonAt(t, ke, c), ColonAt(t, ke, C)
    PROVE  c = C
  <1>1. ke \in Int /\ c \in Int /\ C \in Int /\ ke <= c /\ ke <= C
    BY DEF ColonAt
  <1>2. AllOf(t, ke, c - 1, {SP}) /\ AllOf(t, ke, C - 1, {SP})
    BY Zenon DEF ColonAt
  <1>3. t[c] \notin {SP} /\ t[C] \notin {SP}
    BY Bytes DEF ColonAt
  <1> QED
    BY <1>1, <1>2, <1>3, SameStop, Zenon

\* The value starts at one place.
LEMMA SameValue ==
    ASSUME NEW t, NEW c \in Nat, NEW vs \in Nat, NEW VS \in Nat, ValueAt(t, c, vs), ValueAt(t, c, VS)
    PROVE  vs = VS
  <1>1. c + 1 \in Int /\ vs \in Int /\ VS \in Int /\ c + 1 <= vs /\ c + 1 <= VS
    BY DEF ValueAt
  <1>2. AllOf(t, c + 1, vs - 1, {SP}) /\ AllOf(t, c + 1, VS - 1, {SP})
    BY Zenon DEF ValueAt
  <1>3. t[vs] \notin {SP} /\ t[VS] \notin {SP}
    BY Bytes DEF ValueAt
  <1> QED
    BY <1>1, <1>2, <1>3, SameStop, Zenon

\* The header line ends at one place.
LEMMA SameValueEnd ==
    ASSUME NEW t, NEW vs \in Nat, NEW ve \in Nat, NEW VE \in Nat, ValueTo(t, vs, ve), ValueTo(t, vs, VE)
    PROVE  ve = VE
  <1>1. vs + 1 \in Int /\ ve \in Int /\ VE \in Int /\ vs + 1 <= ve /\ vs + 1 <= VE
    BY DEF ValueTo
  <1>2. NoneOf(t, vs + 1, ve - 1, {CR, LF}) /\ NoneOf(t, vs + 1, VE - 1, {CR, LF})
    BY Zenon DEF ValueTo
  <1>3. t[ve] \in {CR, LF} /\ t[VE] \in {CR, LF}
    BY Bytes DEF ValueTo
  <1> QED
    BY <1>1, <1>2, <1>3, SameStop, Zenon

\* In a header line of the reference there is an edge for the next byte.
LEMMA InHeaderGoes ==
    ASSUME NEW t \in Seq(Byte), NEW from \in Nat, NEW n \in Nat, NEW p \in Nat, NEW ks \in Nat, NEW ke \in Nat,
           NEW vs \in Nat, NEW ve \in Nat, NEW k \in Nat, k = n + 1, p <= k, 1 <= p, NEW st \in HeaderStates,
           HeaderAt(t, from, st, n, p, ks, ke, vs, ve),
           NEW KE \in Nat, NEW C \in Nat, NEW VS \in Nat, NEW VE \in Nat,
           KeyAt(t, from, p), KeyTo(t, p, KE), ColonAt(t, KE, C), ValueAt(t, C, VS), ValueTo(t, VS, VE),
           t[VE + 1] = LF, VE < Len(t)
    PROVE  n <= VE /\ Accepts(HeaderRules, st, t[k])
  <1>1. p < KE /\ KE <= C /\ C < VS /\ VS < VE /\ Len(t) \in Nat
    BY LenProperties DEF KeyTo, ColonAt, ValueAt, ValueTo
  <1>2. /\ t[KE] \in {SP, ":"} /\ t[C] = ":" /\ AllOf(t, KE, C - 1, {SP}) /\ t[VS] \notin {SP}
        /\ NoneOf(t, VS + 1, VE - 1, {CR, LF}) /\ t[VE] = CR
    BY DEF KeyTo, ColonAt, ValueAt, ValueTo
  <1>3. n <= VE => t[k] \in Byte
    <2>1. n <= VE => k \in 1..Len(t)
      BY <1>1
    <2> QED
      BY <2>1, ElementOfSeq
  <1>4. CASE st \in {"start", "crlf"}
    <2>1. n = p - 1 /\ k = p /\ (st = "start" => p = from)
      <3>1. CASE st = "start"
        <4>1. n = p - 1 /\ p = from
          BY <3>1, HeaderAtIs, SMTT(40)
        <4> QED
          BY <3>1, <4>1
      <3>2. CASE st = "crlf"
        <4>1. n = p - 1
          BY <3>2, HeaderAtIs, SMTT(40)
        <4> QED
          BY <3>2, <4>1
      <3> QED
        BY <1>4, <3>1, <3>2
    <2>2. n <= VE
      BY <1>1, <2>1
    <2>3. t[k] \in Byte /\ t[k] # CR /\ (st = "start" => t[k] # LF)
      BY <1>3, <2>1, <2>2 DEF KeyAt
    <2> QED
      BY <1>4, <2>2, <2>3, HeaderAccepts
  <1>5. CASE st = "crlfcr"
    <2>1. t[p] = CR
      BY <1>5, HeaderAtIs
    <2> QED
      BY <2>1 DEF KeyAt
  <1>6. CASE st = "key"
    <2>1. NoneOf(t, p + 1, n, {SP, ":"})
      BY <1>6, Zenon DEF HeaderAt
    <2>2. p + 1 \in Int /\ n \in Int /\ KE \in Int /\ p + 1 <= KE
      BY <1>1
    <2>3. n < KE
      BY <1>2, <2>1, <2>2, NotYet, Zenon
    <2>4. n <= VE
      BY <1>1, <2>3
    <2>5. t[k] \in {SP} \/ t[k] \in {":"} \/ t[k] \in Byte \ {SP, ":"}
      BY <1>3, <2>4
    <2> QED
      BY <1>6, <2>4, <2>5, HeaderAccepts
  <1>7. CASE st = "spaces_before_colon"
    <2>1. KeyTo(t, p, ke) /\ ke <= n /\ AllOf(t, ke, n, {SP})
      BY <1>7, Zenon DEF HeaderAt
    <2>2. ke = KE
      BY <2>1, SameKeyEnd
    <2>3. KE \in Int /\ n \in Int /\ C \in Int /\ KE <= C /\ t[C] \notin {SP} /\ k \in Int /\ KE <= k
      BY <1>1, <1>2, <2>1, <2>2, Bytes
    <2>4. AllOf(t, KE, n, {SP})
      BY <2>1, <2>2, Zenon
    <2>5. n < C
      BY <2>3, <2>4, NotYet, Zenon
    <2>6. k < C => t[k] \in {SP}
      BY <1>2, <2>3, InRun, ZenonT(60)
    <2>7. n <= VE /\ (k < C \/ k = C)
      BY <1>1, <2>5, SMTT(40)
    <2>8. t[k] \in {SP} \/ t[k] \in {":"}
      BY <1>2, <2>6, <2>7
    <2> QED
      BY <1>7, <2>7, <2>8, HeaderAccepts
  <1>8. CASE st = "spaces_after_colon"
    <2>1. KeyTo(t, p, ke) /\ \E c \in ke..n : ColonAt(t, ke, c) /\ AllOf(t, c + 1, n, {SP})
      BY <1>8, Zenon DEF HeaderAt
    <2>2. ke = KE
      BY <2>1, SameKeyEnd
    <2>3. PICK c \in ke..n : ColonAt(t, ke, c) /\ AllOf(t, c + 1, n, {SP})
      BY <2>1
    <2>4. c \in Nat
      OBVIOUS
    <2>5. c = C
      BY <2>2, <2>3, <2>4, SameColon
    <2>6. C + 1 \in Int /\ n \in Int /\ VS \in Int /\ C + 1 <= VS
      BY <1>1
    <2>7. AllOf(t, C + 1, n, {SP})
      BY <2>3, <2>5, Zenon
    <2>8. n < VS
      BY <1>2, <2>6, <2>7, NotYet, Zenon
    <2>9. n <= VE
      BY <1>1, <2>8
    <2>10. t[k] \in {SP} \/ t[k] \in Byte \ {SP}
      BY <1>3, <2>9
    <2> QED
      BY <1>8, <2>9, <2>10, HeaderAccepts
  <1>9. CASE st \in {"value", "cr"}
    <2>1. KeyTo(t, p, ke) /\ (\E c \in ke..vs : ColonAt(t, ke, c) /\ ValueAt(t, c, vs)) /\ vs <= n
      BY <1>9, Zenon DEF HeaderAt
    <2>2. ke = KE
      BY <2>1, SameKeyEnd
    <2>3. PICK c \in ke..vs : ColonAt(t, ke, c) /\ ValueAt(t, c, vs)
      BY <2>1
    <2>4. c \in Nat
      OBVIOUS
    <2>5. c = C
      BY <2>2, <2>3, <2>4, SameColon
    <2>6. vs = VS
      BY <2>3, <2>5, SameValue
    <2>7. CASE st = "value"
      <3>1. NoneOf(t, vs + 1, n, {CR, LF})
        BY <2>7, Zenon DEF HeaderAt
      <3>2. NoneOf(t, VS + 1, n, {CR, LF})
        BY <2>6, <3>1, Zenon
      <3>3. /\ VS + 1 \in Int /\ n \in Int /\ VE \in Int /\ VS + 1 <= VE /\ t[VE] \in {CR, LF}
            /\ k \in Int /\ VS + 1 <= k
        BY <1>1, <1>2, <2>1, <2>6
      <3>4. n < VE
        BY <3>2, <3>3, NotYet, Zenon
      <3>5. k < VE => t[k] \notin {CR, LF}
        BY <1>2, <3>3, InRun, ZenonT(60)
      <3>6. n <= VE /\ (k < VE \/ k = VE)
        BY <3>4
      <3>7. t[k] \in {CR} \/ t[k] \in Byte \ {CR, LF}
        BY <1>2, <1>3, <3>5, <3>6
      <3> QED
        BY <2>7, <3>6, <3>7, HeaderAccepts
    <2>8. CASE st = "cr"
      <3>1. ve = n /\ ValueTo(t, vs, ve)
        BY <2>8, Zenon DEF HeaderAt
      <3>2. ve = VE
        BY <2>6, <3>1, SameValueEnd
      <3>3. n <= VE /\ t[k] \in {LF}
        BY <3>1, <3>2
      <3> QED
        BY <2>8, <3>3, HeaderAccepts
    <2> QED
      BY <1>9, <2>7, <2>8
  <1> QED
    BY <1>4, <1>5, <1>6, <1>7, <1>8, <1>9, HeaderStatesAre

\* In a block of the reference the parser of the headers goes on.
LEMMA HeaderGoes ==
    ASSUME NEW t \in Seq(Byte), NEW from \in Nat, NEW n \in Nat, NEW p \in Nat, NEW ks \in Nat, NEW ke \in Nat,
           NEW vs \in Nat, NEW ve \in Nat, NEW k \in Nat, k = n + 1, p <= k, 1 <= p, n <= Len(t), NEW st \in HeaderStates,
           HeaderAt(t, from, st, n, p, ks, ke, vs, ve), Block(t, from)[p].ok
    PROVE  n < Len(t) /\ n < Block(t, from)[p].end /\ Accepts(HeaderRules, st, t[k])
  <1>1. Len(t) \in Nat /\ p \in 1..(Len(t) + 1)
    BY LenProperties
  <1>2. CASE Empty(t, p)
    <2>1. Block(t, from)[p] = [ok |-> TRUE, headers |-> <<>>, end |-> p + 1]
      BY <1>1, <1>2, BlockEmpty
    <2>2. Block(t, from)[p].end = p + 1
      BY <2>1
    <2>3. p < Len(t) /\ t[p] = CR /\ t[p + 1] = LF
      BY <1>2 DEF Empty
    <2>4. CASE st \in {"start", "crlf"}
      <3>1. n = p - 1
        BY <2>4, Zenon DEF HeaderAt
      <3>2. k = p /\ n < Len(t) /\ n < p + 1
        BY <1>1, <2>3, <3>1
      <3>3. t[k] \in {CR}
        BY <2>3, <3>2
      <3> QED
        BY <2>2, <2>4, <3>2, <3>3, HeaderAccepts
    <2>5. CASE st = "crlfcr"
      <3>1. n = p
        BY <2>5, HeaderAtIs
      <3>2. t[k] \in {LF} /\ n < Len(t) /\ n < p + 1
        BY <2>3, <3>1
      <3> QED
        BY <2>2, <2>5, <3>2, HeaderAccepts
    <2>6. CASE st \in {"key", "spaces_before_colon", "spaces_after_colon", "value", "cr"}
      <3>1. KeyAt(t, from, p)
        BY <2>6, Zenon DEF HeaderAt
      <3> QED
        BY <2>3, <3>1 DEF KeyAt
    <2> QED
      BY <2>4, <2>5, <2>6, HeaderStatesAre
  <1>3. CASE ~Empty(t, p) /\ ~HasLine(t, from, p)
    <2>1. Block(t, from)[p] = [ok |-> FALSE, headers |-> <<>>, end |-> p]
      BY <1>1, <1>3, BlockNone
    <2> QED
      BY <2>1
  <1>4. CASE ~Empty(t, p) /\ HasLine(t, from, p)
    <2>1. p <= Len(t) /\ HeaderLine(t, p).ok /\ KeyAt(t, from, p)
      BY <1>4 DEF HasLine, KeyAt
    <2>2. PICK KE \in Nat, C \in Nat, VS \in Nat, VE \in Nat :
             /\ KeyTo(t, p, KE) /\ ColonAt(t, KE, C) /\ ValueAt(t, C, VS) /\ ValueTo(t, VS, VE)
             /\ t[VE + 1] = LF /\ VE < Len(t)
      BY <2>1, ShapeOfHeader
    <2>3. n <= VE /\ Accepts(HeaderRules, st, t[k])
      BY <2>1, <2>2, InHeaderGoes, ZenonT(60)
    <2>4. HeaderRead(t, from, p, KE, VS, VE)
      <3>1. C \in KE..VS
        BY <2>2 DEF ColonAt, ValueAt
      <3> QED
        BY <2>1, <2>2, <3>1 DEF HeaderRead
    <2>5. /\ VE + 2 \in 1..(Len(t) + 1)
          /\ Block(t, from)[p].ok = Block(t, from)[VE + 2].ok
          /\ Block(t, from)[p].end = Block(t, from)[VE + 2].end
      <3>1. Adds(t, from, p, KE, VS, VE)
        BY <2>2, <2>4, BlockLine
      <3> QED
        BY <3>1 DEF Adds
    <2>6. Block(t, from)[VE + 2].end \in Nat /\ VE + 2 < Block(t, from)[VE + 2].end
      BY <2>5, BlockFields
    <2>7. n < Block(t, from)[p].end /\ n < Len(t)
      <3> DEFINE x == Block(t, from)[VE + 2].end
      <3> HIDE DEF x
      <3>1. x \in Nat /\ VE + 2 < x /\ Block(t, from)[p].end = x
        BY <2>5, <2>6 DEF x
      <3>2. n < x /\ n < Len(t)
        <4>1. n <= VE /\ VE < Len(t)
          BY <2>2, <2>3
        <4> QED
          BY <1>1, <3>1, <4>1, SMTT(40)
      <3> QED
        BY <3>1, <3>2
    <2> QED
      BY <2>3, <2>7
  <1> QED
    BY <1>2, <1>3, <1>4
-----------------------------------------------------------------------------
(* The headers that are read, and the rest of the block.                    *)

\* A header of the list as the reference has it, and the first j of the list, the
\* oldest first.
HeaderText(t, b, x)    == [key |-> SubSeq(t, b + x.ks, (b + x.ke) - 1), val |-> SubSeq(t, b + x.vs, (b + x.ve) - 1)]
HeadersOf(t, b, l, j)  == [i \in 1..j |-> HeaderText(t, b, l[j + 1 - i])]

\* One element before a sequence of m.
IsPrefixed(m, e, f, g) ==
    /\ f = [i \in 1..m |-> f[i]] /\ g = [i \in 1..(m + 1) |-> g[i]]
    /\ g[1] = e /\ \A i \in 1..m : g[i + 1] = f[i]

\* It is the concatenation.
LEMMA Before ==
    ASSUME NEW m \in Nat, NEW e, NEW f, NEW g, IsPrefixed(m, e, f, g)
    PROVE  <<e>> \o f = g
  <1> USE DEF IsPrefixed
  <1> DEFINE S == {e} \cup {f[i] : i \in 1..m}
  <1>1. f \in Seq(S) /\ Len(f) = m
    <2>1. f \in [1..m -> S]
      OBVIOUS
    <2>2. f \in Seq(S)
      BY <2>1, SeqDef, SMTT(40)
    <2>3. DOMAIN f = 1..Len(f) /\ DOMAIN f = 1..m /\ Len(f) \in Nat
      BY <2>1, <2>2, LenProperties
    <2> QED
      BY <2>2, <2>3
  <1>2. g \in Seq(S) /\ Len(g) = m + 1
    <2>1. ASSUME NEW i \in 1..(m + 1) PROVE g[i] \in S
      <3>1. CASE i = 1
        BY <3>1
      <3>2. CASE i # 1
        <4>1. i - 1 \in 1..m /\ (i - 1) + 1 = i
          BY <3>2
        <4> QED
          BY <4>1, ZenonT(60)
      <3> QED
        BY <3>1, <3>2
    <2>2. g \in [1..(m + 1) -> S]
      <3> HIDE DEF S
      <3> QED
        BY <2>1
    <2>3. g \in Seq(S)
      <3>1. m + 1 \in Nat
        OBVIOUS
      <3> HIDE DEF S
      <3> QED
        BY <2>2, <3>1, SeqDef
    <2>4. DOMAIN g = 1..Len(g) /\ DOMAIN g = 1..(m + 1) /\ Len(g) \in Nat
      BY <2>2, <2>3, LenProperties
    <2> HIDE DEF S
    <2> QED
      BY <2>3, <2>4
  <1>3. <<e>> \in Seq(S) /\ Len(<<e>>) = 1 /\ <<e>>[1] = e
    OBVIOUS
  <1> DEFINE a == <<e>>
             c == a \o f
  <1> HIDE DEF S, a
  <1>4. a \in Seq(S) /\ Len(a) = 1 /\ a[1] = e
    BY <1>3 DEF a
  <1>5. /\ c \in Seq(S) /\ Len(c) = Len(a) + Len(f)
        /\ \A i \in 1..(Len(a) + Len(f)) : c[i] = IF i <= Len(a) THEN a[i] ELSE f[i - Len(a)]
    BY <1>1, <1>4, ConcatProperties, ZenonT(60)
  <1> HIDE DEF c
  <1>6. ASSUME NEW i \in 1..Len(c) PROVE c[i] = g[i]
    <2>0. Len(a) + Len(f) = m + 1 /\ Len(c) = m + 1
      BY <1>1, <1>4, <1>5
    <2>4. i \in 1..(m + 1) /\ i \in 1..(Len(a) + Len(f))
      BY <2>0
    <2>5. c[i] = IF i <= Len(a) THEN a[i] ELSE f[i - Len(a)]
      BY <1>5, <2>4
    <2>1. i \in 1..(m + 1) /\ c[i] = IF i <= 1 THEN a[i] ELSE f[i - 1]
      BY <1>4, <2>4, <2>5
    <2>2. CASE i = 1
      BY <1>4, <2>1, <2>2
    <2>3. CASE i # 1
      <3>1. i - 1 \in 1..m /\ (i - 1) + 1 = i /\ ~(i <= 1)
        BY <2>1, <2>3
      <3>2. g[(i - 1) + 1] = f[i - 1]
        BY <3>1
      <3> QED
        BY <2>1, <3>1, <3>2
    <2> QED
      BY <2>2, <2>3
  <1>7. Len(c) = Len(g)
    BY <1>1, <1>2, <1>4, <1>5
  <1>8. c = g
    BY <1>2, <1>5, <1>6, <1>7, SeqEqual
  <1> QED
    BY <1>8 DEF c, a

\* One header more of the list.
LEMMA HeadersMore ==
    ASSUME NEW t, NEW b, NEW l, NEW j \in Nat, NEW k, k = j + 1
    PROVE  <<HeaderText(t, b, l[k])>> \o HeadersOf(t, b, l, j) = HeadersOf(t, b, l, k)
  <1> DEFINE f == HeadersOf(t, b, l, j)
             g == HeadersOf(t, b, l, k)
             e == HeaderText(t, b, l[k])
  <1>1. f = [i \in 1..j |-> f[i]] /\ \A i \in 1..j : f[i] = HeaderText(t, b, l[j + 1 - i])
    BY DEF HeadersOf
  <1>2. g = [i \in 1..(j + 1) |-> g[i]] /\ \A i \in 1..(j + 1) : g[i] = HeaderText(t, b, l[k + 1 - i])
    BY DEF HeadersOf
  <1>3. 1 \in 1..(j + 1) /\ k + 1 - 1 = k
    OBVIOUS
  <1>4. g[1] = e
    BY <1>2, <1>3
  <1>5. \A i \in 1..j : g[i + 1] = f[i]
    <2> TAKE i \in 1..j
    <2>1. i + 1 \in 1..(j + 1) /\ k + 1 - (i + 1) = j + 1 - i
      OBVIOUS
    <2> QED
      BY <1>1, <1>2, <2>1, ZenonT(60)
  <1>7. f = [i \in 1..j |-> f[i]]
    BY <1>1
  <1>8. g = [i \in 1..(j + 1) |-> g[i]]
    BY <1>2
  <1> HIDE DEF f, g, e
  <1>9. IsPrefixed(j, e, f, g)
    BY <1>4, <1>5, <1>7, <1>8, Zenon DEF IsPrefixed
  <1>6. <<e>> \o f = g
    BY <1>9, Before
  <1> QED
    BY <1>6 DEF f, g, e

\* None of the list.
LEMMA HeadersNone ==
    ASSUME NEW t, NEW b, NEW l
    PROVE  HeadersOf(t, b, l, 0) = <<>>
  <1>1. HeadersOf(t, b, l, 0) \in [1..0 -> {}]
    BY DEF HeadersOf
  <1>2. HeadersOf(t, b, l, 0) \in Seq({})
    BY <1>1, SeqDef
  <1>3. DOMAIN HeadersOf(t, b, l, 0) = 1..0
    BY <1>1
  <1> DEFINE x == HeadersOf(t, b, l, 0)
  <1> HIDE DEF x
  <1>4. Len(x) \in Nat /\ 1..Len(x) = 1..0
    BY <1>2, <1>3, LenProperties DEF x
  <1>5. Len(x) = 0
    BY <1>4
  <1>6. x = <<>>
    BY <1>2, <1>5, EmptySeq DEF x
  <1> QED
    BY <1>6 DEF x

\* The block at its start, and at the line that follows the list.
Follows(t, b, from, l) ==
    /\ NextAt(b, from, l, 1) \in 1..(Len(t) + 1)
    /\ Block(t, from)[from].ok = Block(t, from)[NextAt(b, from, l, 1)].ok
    /\ Block(t, from)[from].end = Block(t, from)[NextAt(b, from, l, 1)].end
    /\ Block(t, from)[NextAt(b, from, l, 1)].headers = <<>> =>
         Block(t, from)[from].headers = HeadersOf(t, b, l, Len(l))

\* The headers of a list that is read are the first ones of the block.
LEMMA ChainFollows ==
    ASSUME NEW t \in Seq(Byte), NEW b \in Nat, NEW from \in 1..(Len(t) + 1), NEW l \in Seq(Header), NEW n \in Nat,
           n <= Len(t), Chain(t, b, from, l, n)
    PROVE  Follows(t, b, from, l)
  <1> DEFINE L == Len(l)
             N(k) == NextAt(b, from, l, k)
             B == Block(t, from)
             Good(k) == /\ N(k) \in 1..(Len(t) + 1)
                        /\ B[N(k)].ok = B[N(1)].ok /\ B[N(k)].end = B[N(1)].end
                        /\ B[N(1)].headers = <<>> => B[N(k)].headers = HeadersOf(t, b, l, k - 1)
             T == {k \in 1..(L + 1) : ~Good(k)}
  <1>1. L \in Nat /\ Len(t) \in Nat /\ from \in Nat
    BY LenProperties
  <1>2. N(L + 1) = from
    BY <1>1 DEF NextAt
  <1>3. SUFFICES Good(L + 1)
    <2>1. (L + 1) - 1 = L
      BY <1>1
    <2> HIDE DEF L
    <2>2. /\ B[from].ok = B[N(1)].ok /\ B[from].end = B[N(1)].end
          /\ B[N(1)].headers = <<>> => B[from].headers = HeadersOf(t, b, l, L)
      BY <1>2, <1>3, <2>1
    <2>3. N(1) \in 1..(Len(t) + 1)
      <3>1. CASE L = 0
        BY <1>2, <3>1
      <3>2. CASE L # 0
        <4>1. 1 \in 1..L /\ ~(1 > L)
          BY <1>1, <3>2
        <4>4. l[1] \in Header
          BY <4>1, ElementOfSeq DEF L
        <4>2. b + l[1].ve < n /\ l[1].ve \in Nat
          BY <4>1, <4>4 DEF Chain, L, Header
        <4>3. N(1) = b + l[1].ve + 2
          BY <4>1 DEF NextAt, L
        <4> HIDE DEF N
        <4> DEFINE x == l[1].ve
        <4>6. b + x < n /\ x \in Nat
          BY <4>2
        <4> HIDE DEF x
        <4>7. b + x + 2 \in 1..(Len(t) + 1)
          BY <1>1, <4>6
        <4>5. b + l[1].ve + 2 \in 1..(Len(t) + 1)
          BY <4>7, SMTT(40) DEF x
        <4> QED
          BY <4>3, <4>5
      <3> QED
        BY <3>1, <3>2
    <2> QED
      BY <2>2, <2>3 DEF Follows, L
  <1>4. ASSUME NEW k \in 1..L
        PROVE  /\ N(k + 1) = b + l[k].ks /\ N(k) = b + l[k].ve + 2
               /\ N(k) \in 1..(Len(t) + 1) /\ N(k + 1) \in 1..(Len(t) + 1)
               /\ B[N(k + 1)].ok = B[N(k)].ok /\ B[N(k + 1)].end = B[N(k)].end
               /\ B[N(k + 1)].headers = <<HeaderText(t, b, l[k])>> \o B[N(k)].headers
    <2>1. /\ b + l[k].ks = N(k + 1)
          /\ HeaderRead(t, from, b + l[k].ks, b + l[k].ke, b + l[k].vs, b + l[k].ve)
          /\ b + l[k].ve < n
      BY DEF Chain
    <2>2. l[k].ks \in Nat /\ l[k].ke \in Nat /\ l[k].vs \in Nat /\ l[k].ve \in Nat
      <3>1. l[k] \in Header
        BY ElementOfSeq
      <3> QED
        BY <3>1 DEF Header
    <2>3. ~(k > L)
      BY <1>1
    <2>4. N(k) = b + l[k].ve + 2
      BY <2>3 DEF NextAt
    <2>5. N(k + 1) \in Nat /\ 1 <= N(k + 1)
      <3>1. CASE k = L
        BY <1>1, <1>2, <3>1
      <3>2. CASE k # L
        <4>1. k + 1 \in 1..L /\ ~(k + 1 > L)
          BY <1>1, <3>2
        <4>4. l[k + 1] \in Header
          BY <4>1, ElementOfSeq
        <4>2. l[k + 1].ve \in Nat
          BY <4>4 DEF Header
        <4>3. N(k + 1) = b + l[k + 1].ve + 2
          BY <4>1 DEF NextAt
        <4> HIDE DEF N
        <4> QED
          BY <4>2, <4>3, SMTT(40)
      <3> QED
        BY <3>1, <3>2
    <2> HIDE DEF N, L
    <2> DEFINE p == b + l[k].ks
               ke == b + l[k].ke
               vs == b + l[k].vs
               ve == b + l[k].ve
    <2>6. /\ p \in Nat /\ ke \in Nat /\ vs \in Nat /\ ve \in Nat /\ 1 <= p /\ ve < Len(t)
          /\ HeaderRead(t, from, p, ke, vs, ve)
      <3>4. \A x \in Nat : b + x \in Nat
        OBVIOUS
      <3>1. p \in Nat /\ ke \in Nat /\ vs \in Nat /\ ve \in Nat
        BY <2>2, <3>4, Zenon
      <3>2. p = N(k + 1) /\ ve < n /\ HeaderRead(t, from, p, ke, vs, ve)
        BY <2>1
      <3> HIDE DEF p, ke, vs, ve
      <3> QED
        BY <1>1, <2>5, <3>1, <3>2
    <2> HIDE DEF p, ke, vs, ve
    <2>7. Adds(t, from, p, ke, vs, ve)
      BY <2>6, BlockLine
    <2>8. HeaderText(t, b, l[k]) = [key |-> SubSeq(t, p, ke - 1), val |-> SubSeq(t, vs, ve - 1)]
      BY Zenon DEF p, ke, vs, ve, HeaderText
    <2>9. N(k + 1) = p /\ N(k) = ve + 2
      BY <2>1, <2>4 DEF p, ve
    <2>10. /\ ve + 2 \in 1..(Len(t) + 1) /\ p \in 1..(Len(t) + 1)
           /\ B[p].ok = B[ve + 2].ok /\ B[p].end = B[ve + 2].end
           /\ B[p].headers =
                <<[key |-> SubSeq(t, p, ke - 1), val |-> SubSeq(t, vs, ve - 1)]>> \o B[ve + 2].headers
      BY <2>7, Zenon DEF Adds
    <2> HIDE DEF B
    <2>11. /\ N(k) \in 1..(Len(t) + 1) /\ N(k + 1) \in 1..(Len(t) + 1)
           /\ B[N(k + 1)].ok = B[N(k)].ok /\ B[N(k + 1)].end = B[N(k)].end
           /\ B[N(k + 1)].headers = <<HeaderText(t, b, l[k])>> \o B[N(k)].headers
      BY <2>8, <2>9, <2>10, Zenon
    <2> QED
      BY <2>1, <2>4, <2>11
  <1>5. Good(1)
    <2>1. N(1) \in 1..(Len(t) + 1)
      <3>1. CASE L = 0
        BY <1>2, <3>1
      <3>2. CASE L # 0
        <4>1. 1 \in 1..L
          BY <1>1, <3>2
        <4> HIDE DEF N
        <4> QED
          BY <1>4, <4>1
      <3> QED
        BY <3>1, <3>2
    <2>2. 1 - 1 = 0
      OBVIOUS
    <2>3. HeadersOf(t, b, l, 1 - 1) = <<>>
      BY <2>2, HeadersNone
    <2> HIDE DEF N, B
    <2> QED
      BY <2>1, <2>3
  <1>6. ASSUME NEW k \in 1..L, Good(k) PROVE Good(k + 1)
    <2> HIDE DEF N, B
    <2>2. /\ N(k + 1) \in 1..(Len(t) + 1) /\ B[N(k + 1)].ok = B[N(k)].ok /\ B[N(k + 1)].end = B[N(k)].end
          /\ B[N(k + 1)].headers = <<HeaderText(t, b, l[k])>> \o B[N(k)].headers
      BY <1>4
    <2>3. k - 1 \in Nat /\ k = (k - 1) + 1 /\ (k + 1) - 1 = k
      BY <1>1
    <2>4. <<HeaderText(t, b, l[k])>> \o HeadersOf(t, b, l, k - 1) = HeadersOf(t, b, l, k)
      BY <2>3, HeadersMore, SMTT(40)
    <2>5. /\ B[N(k + 1)].ok = B[N(1)].ok /\ B[N(k + 1)].end = B[N(1)].end
          /\ B[N(1)].headers = <<>> => B[N(k + 1)].headers = HeadersOf(t, b, l, k)
      BY <1>6, <2>2, <2>4
    <2> QED
      BY <2>2, <2>3, <2>5
  <1> HIDE DEF Good, L
  <1>7. SUFFICES T = {}
    BY <1>1, <1>7
  <1>8. SUFFICES ASSUME T # {} PROVE FALSE
    OBVIOUS
  <1>9. T \in SUBSET Nat
    BY <1>1
  <1>10. Min(T) \in T /\ \A x \in T : Min(T) <= x
    <2> HIDE DEF T
    <2> QED
      BY <1>8, <1>9, MinIsMin
  <1> DEFINE k == Min(T)
  <1> HIDE DEF k
  <1>11. k \in 1..(L + 1) /\ ~Good(k) /\ \A x \in T : k <= x
    BY <1>10 DEF k
  <1>12. k # 1
    BY <1>5, <1>11
  <1>13. k - 1 \in 1..L /\ (k - 1) + 1 = k /\ k - 1 \in 1..(L + 1) /\ ~(k <= k - 1)
    BY <1>1, <1>11, <1>12
  <1>14. Good(k - 1)
    BY <1>11, <1>13
  <1>15. Good((k - 1) + 1)
    BY <1>6, <1>13, <1>14
  <1> QED
    BY <1>11, <1>13, <1>15
-----------------------------------------------------------------------------
(* More of the stream: what the reference finds in a part of it, it finds   *)
(* in the whole.                                                            *)

Begins(t, s) == Len(t) <= Len(s) /\ \A k \in 1..Len(t) : t[k] = s[k]

\* A run in the beginning of a stream is one in the stream.
LEMMA RunLonger ==
    ASSUME NEW s, NEW t \in Seq(Byte), Begins(t, s), NEW i \in Int, NEW j \in Int, 1 <= i, j <= Len(t), NEW S
    PROVE  /\ AllOf(t, i, j, S) => AllOf(s, i, j, S)
           /\ NoneOf(t, i, j, S) => NoneOf(s, i, j, S)
  <1>1. Len(t) \in Nat
    BY LenProperties
  <1>2. \A k \in i..j : k \in 1..Len(t)
    BY <1>1
  <1>3. \A k \in i..j : t[k] = s[k]
    BY <1>2 DEF Begins
  <1> QED
    BY <1>3 DEF AllOf, NoneOf

\* The line.
LEMMA ShapeLonger ==
    ASSUME NEW s \in Seq(Byte), NEW t \in Seq(Byte), Begins(t, s), NEW b \in Nat,
           NEW a \in Nat, NEW m \in Nat, NEW u \in Nat, NEW v \in Nat,
           NEW h \in Nat, NEW d \in Nat, NEW z \in Nat, NEW e \in Nat, Shape(t, b, a, m, u, v, h, d, z, e)
    PROVE  Shape(s, b, a, m, u, v, h, d, z, e)
  <1>1. Parts(t, b, a, m, u, v, h, d, z, e)
    BY ShapeOrder
  <1>2. b < a /\ a < m /\ m < u /\ u < v /\ v < h /\ h + 5 < d /\ d + 1 < z /\ z <= e /\ e <= Len(t)
    BY <1>1, Zenon DEF Parts
  <1>3. Len(t) \in Nat /\ Len(s) \in Nat /\ Len(t) <= Len(s)
    BY LenProperties DEF Begins
  <1>4. \A k \in 1..Len(t) : t[k] = s[k]
    BY DEF Begins
  <1>5. /\ a \in 1..Len(t) /\ m \in 1..Len(t) /\ u \in 1..Len(t) /\ v \in 1..Len(t) /\ h \in 1..Len(t)
        /\ h + 1 \in 1..Len(t) /\ h + 2 \in 1..Len(t) /\ h + 3 \in 1..Len(t) /\ h + 4 \in 1..Len(t)
        /\ h + 5 \in 1..Len(t) /\ d \in 1..Len(t) /\ e \in 1..Len(t) /\ e - 1 \in 1..Len(t)
    BY <1>2, <1>3
  <1>6. /\ s[a] = t[a] /\ s[m] = t[m] /\ s[u] = t[u] /\ s[v] = t[v] /\ s[h] = t[h] /\ s[h + 1] = t[h + 1]
        /\ s[h + 2] = t[h + 2] /\ s[h + 3] = t[h + 3] /\ s[h + 4] = t[h + 4] /\ s[h + 5] = t[h + 5]
        /\ s[d] = t[d] /\ s[e] = t[e] /\ s[e - 1] = t[e - 1]
    BY <1>4, <1>5, Zenon
  <1>7. WordAt(s, b, a) /\ WordTo(s, a, m)
    <2>1. /\ b + 1 \in Int /\ a - 1 \in Int /\ 1 <= b + 1 /\ a - 1 <= Len(t)
          /\ a \in Int /\ m - 1 \in Int /\ 1 <= a /\ m - 1 <= Len(t)
      BY <1>2, <1>3, SMTT(40)
    <2>2. WordAt(t, b, a) /\ WordTo(t, a, m)
      BY Zenon DEF Shape, MethodUri
    <2>3. AllOf(s, b + 1, a - 1, {CR, LF})
      BY <2>1, <2>2, RunLonger, Zenon DEF WordAt
    <2>4. AllOf(s, a, m - 1, Upper)
      BY <2>1, <2>2, RunLonger, Zenon DEF WordTo
    <2> QED
      BY <1>6, <2>2, <2>3, <2>4, Zenon DEF WordAt, WordTo
  <1>8. UriAt(s, m, u) /\ UriTo(s, u, v) /\ SpacesTo(s, v, h)
    <2>1. /\ m \in Int /\ u - 1 \in Int /\ 1 <= m /\ u - 1 <= Len(t)
          /\ u \in Int /\ v - 1 \in Int /\ 1 <= u /\ v - 1 <= Len(t)
          /\ v \in Int /\ h - 1 \in Int /\ 1 <= v /\ h - 1 <= Len(t)
      BY <1>2, <1>3, SMTT(40)
    <2>2. UriAt(t, m, u) /\ UriTo(t, u, v) /\ SpacesTo(t, v, h)
      BY Zenon DEF Shape, MethodUri, DotAt
    <2>3. AllOf(s, m, u - 1, {SP})
      BY <2>1, <2>2, RunLonger, Zenon DEF UriAt
    <2>4. NoneOf(s, u, v - 1, {SP})
      BY <2>1, <2>2, RunLonger, Zenon DEF UriTo
    <2>5. AllOf(s, v, h - 1, {SP})
      BY <2>1, <2>2, RunLonger, Zenon DEF SpacesTo
    <2> QED
      BY <1>6, <2>2, <2>3, <2>4, <2>5, Zenon DEF UriAt, UriTo, SpacesTo
  <1>9. HttpAt(s, h, 4) /\ MajorTo(s, h, d) /\ s[d] = "."
    <2>1. h + 5 \in Int /\ d - 1 \in Int /\ 1 <= h + 5 /\ d - 1 <= Len(t)
      BY <1>2, <1>3
    <2>2. HttpAt(t, h, 4) /\ MajorTo(t, h, d) /\ t[d] = "."
      BY Zenon DEF Shape, DotAt
    <2>3. AllOf(s, h + 5, d - 1, Digit)
      BY <2>1, <2>2, RunLonger, Zenon DEF MajorTo
    <2>4. HttpAt(s, h, 4)
      BY <1>6, <2>2, ZenonT(60) DEF HttpAt
    <2> QED
      BY <1>6, <2>2, <2>3, <2>4, Zenon DEF MajorTo
  <1>10. MinorTo(s, d, z)
    <2>1. d + 1 \in Int /\ z - 1 \in Int /\ 1 <= d + 1 /\ z - 1 <= Len(t)
      BY <1>2, <1>3
    <2>2. MinorTo(t, d, z)
      BY Zenon DEF Shape
    <2> QED
      BY <2>1, <2>2, RunLonger, Zenon DEF MinorTo
  <1>11. LineTo(s, z, e)
    <2>1. /\ z \in Int /\ 1 <= z /\ e - 1 \in Int /\ e - 2 \in Int /\ e - 1 <= Len(t) /\ e - 2 <= Len(t)
      BY <1>2, <1>3, SMTT(40)
    <2>2. LineTo(t, z, e)
      BY Zenon DEF Shape
    <2>3. /\ AllOf(t, z, e - 1, {SP}) => AllOf(s, z, e - 1, {SP})
          /\ AllOf(t, z, e - 2, {SP}) => AllOf(s, z, e - 2, {SP})
      BY <2>1, RunLonger, Zenon
    <2> QED
      BY <1>6, <2>2, <2>3, Zenon DEF LineTo
  <1>12. e <= Len(s)
    BY <1>2, <1>3
  <1> QED
    BY <1>7, <1>8, <1>9, <1>10, <1>11, <1>12, Zenon DEF Shape, MethodUri, DotAt

\* A header line.
LEMMA HeaderLonger ==
    ASSUME NEW s \in Seq(Byte), NEW t \in Seq(Byte), Begins(t, s), NEW from,
           NEW p \in Nat, NEW ke \in Nat, NEW vs \in Nat, NEW ve \in Nat, 1 <= p, ve < Len(t),
           HeaderRead(t, from, p, ke, vs, ve)
    PROVE  HeaderRead(s, from, p, ke, vs, ve)
  <1>1. PICK c \in ke..vs : ColonAt(t, ke, c) /\ ValueAt(t, c, vs)
    BY DEF HeaderRead
  <1>2. KeyAt(t, from, p) /\ KeyTo(t, p, ke) /\ ValueTo(t, vs, ve) /\ t[ve + 1] = LF
    BY Zenon DEF HeaderRead
  <1>3. p < ke /\ ke <= c /\ c < vs /\ vs < ve /\ c \in Nat /\ Len(t) \in Nat
    BY <1>1, <1>2, LenProperties DEF KeyTo, ColonAt, ValueAt, ValueTo
  <1>4. \A k \in 1..Len(t) : t[k] = s[k]
    BY DEF Begins
  <1>5. /\ p \in 1..Len(t) /\ ke \in 1..Len(t) /\ c \in 1..Len(t) /\ vs \in 1..Len(t) /\ ve \in 1..Len(t)
        /\ ve + 1 \in 1..Len(t)
    BY <1>3
  <1>6. /\ s[p] = t[p] /\ s[ke] = t[ke] /\ s[c] = t[c] /\ s[vs] = t[vs] /\ s[ve] = t[ve] /\ s[ve + 1] = t[ve + 1]
    BY <1>4, <1>5, Zenon
  <1>7. /\ p + 1 \in Int /\ 1 <= p + 1 /\ ke - 1 \in Int /\ ke - 1 <= Len(t)
        /\ ke \in Int /\ 1 <= ke /\ c - 1 \in Int /\ c - 1 <= Len(t)
        /\ c + 1 \in Int /\ 1 <= c + 1 /\ vs - 1 \in Int /\ vs - 1 <= Len(t)
        /\ vs + 1 \in Int /\ 1 <= vs + 1 /\ ve - 1 \in Int /\ ve - 1 <= Len(t)
    BY <1>3
  <1>8. KeyAt(s, from, p)
    BY <1>2, <1>6, Zenon DEF KeyAt
  <1>9. KeyTo(s, p, ke)
    <2>1. NoneOf(s, p + 1, ke - 1, {SP, ":"})
      BY <1>2, <1>7, RunLonger, Zenon DEF KeyTo
    <2> QED
      BY <1>2, <1>6, <2>1, Zenon DEF KeyTo
  <1>10. ColonAt(s, ke, c)
    <2>1. AllOf(s, ke, c - 1, {SP})
      BY <1>1, <1>7, RunLonger, Zenon DEF ColonAt
    <2> QED
      BY <1>1, <1>6, <2>1, Zenon DEF ColonAt
  <1>11. ValueAt(s, c, vs)
    <2>1. AllOf(s, c + 1, vs - 1, {SP})
      BY <1>1, <1>7, RunLonger, Zenon DEF ValueAt
    <2> QED
      BY <1>1, <1>6, <2>1, Zenon DEF ValueAt
  <1>12. ValueTo(s, vs, ve)
    <2>1. NoneOf(s, vs + 1, ve - 1, {CR, LF})
      BY <1>2, <1>7, RunLonger, Zenon DEF ValueTo
    <2> QED
      BY <1>2, <1>6, <2>1, Zenon DEF ValueTo
  <1> QED
    BY <1>2, <1>6, <1>8, <1>9, <1>10, <1>11, <1>12, Zenon DEF HeaderRead

\* The header lines from p on.
LEMMA BlockLonger ==
    ASSUME NEW s \in Seq(Byte), NEW t \in Seq(Byte), Begins(t, s), NEW from
    PROVE  \A p \in 1..(Len(t) + 1) : Block(t, from)[p].ok =>
             Block(s, from)[p].ok /\ Block(s, from)[p].end = Block(t, from)[p].end
  <1> DEFINE N == Len(t) + 1
             B == Block(t, from)
             C == Block(s, from)
             Good(p) == B[p].ok => C[p].ok /\ C[p].end = B[p].end
             T == {p \in 1..N : ~Good(p)}
  <1>1. N \in Nat /\ N >= 1 /\ Len(t) \in Nat /\ Len(s) \in Nat /\ Len(t) <= Len(s)
    BY LenProperties DEF Begins
  <1>2. ASSUME NEW p \in 1..N, \A q \in (p + 1)..N : Good(q), B[p].ok
        PROVE  C[p].ok /\ C[p].end = B[p].end
    <2>1. p \in 1..(Len(t) + 1) /\ p \in 1..(Len(s) + 1) /\ p \in Nat /\ 1 <= p
      BY <1>1
    <2>2. CASE Empty(t, p)
      <3>1. p < Len(t) /\ t[p] = CR /\ t[p + 1] = LF /\ p \in 1..Len(t) /\ p + 1 \in 1..Len(t)
        BY <1>1, <2>1, <2>2 DEF Empty
      <3>2. Empty(s, p)
        BY <1>1, <2>1, <3>1 DEF Empty, Begins
      <3>3. B[p] = [ok |-> TRUE, headers |-> <<>>, end |-> p + 1]
        BY <2>1, <2>2, BlockEmpty
      <3>4. C[p] = [ok |-> TRUE, headers |-> <<>>, end |-> p + 1]
        BY <2>1, <3>2, BlockEmpty
      <3> HIDE DEF B, C
      <3> QED
        BY <3>3, <3>4
    <2>3. CASE ~Empty(t, p) /\ HasLine(t, from, p)
      <3>1. p <= Len(t) /\ HeaderLine(t, p).ok /\ KeyAt(t, from, p)
        BY <2>3, Zenon DEF HasLine, KeyAt
      <3>2. \E ke, c, vs, ve \in Nat :
             /\ KeyTo(t, p, ke) /\ ColonAt(t, ke, c) /\ ValueAt(t, c, vs) /\ ValueTo(t, vs, ve)
             /\ t[ve + 1] = LF /\ ve < Len(t) /\ HeaderLine(t, p).next = ve + 2
        BY <2>1, <3>1, ShapeOfHeader
      <3>3. PICK ke, c, vs, ve \in Nat :
             /\ KeyTo(t, p, ke) /\ ColonAt(t, ke, c) /\ ValueAt(t, c, vs) /\ ValueTo(t, vs, ve)
             /\ t[ve + 1] = LF /\ ve < Len(t)
        BY <3>2
      <3>4. p < ke /\ ke <= c /\ c < vs /\ vs < ve /\ c \in ke..vs
        BY <3>3 DEF KeyTo, ColonAt, ValueAt, ValueTo
      <3>5. HeaderRead(t, from, p, ke, vs, ve)
        BY <3>1, <3>3, <3>4, Zenon DEF HeaderRead
      <3>6. HeaderRead(s, from, p, ke, vs, ve) /\ ve < Len(s)
        BY <1>1, <2>1, <3>3, <3>5, HeaderLonger
      <3>7. Adds(t, from, p, ke, vs, ve) /\ Adds(s, from, p, ke, vs, ve)
        BY <2>1, <3>3, <3>5, <3>6, BlockLine
      <3>8. /\ B[p].ok = B[ve + 2].ok /\ B[p].end = B[ve + 2].end
            /\ C[p].ok = C[ve + 2].ok /\ C[p].end = C[ve + 2].end
        BY <3>7, Zenon DEF Adds
      <3>9. ve + 2 \in (p + 1)..N
        BY <1>1, <3>3, <3>4
      <3> HIDE DEF B, C
      <3> QED
        BY <1>2, <3>8, <3>9
    <2>4. CASE ~Empty(t, p) /\ ~HasLine(t, from, p)
      <3>1. B[p] = [ok |-> FALSE, headers |-> <<>>, end |-> p]
        BY <2>1, <2>4, BlockNone
      <3> HIDE DEF B
      <3> QED
        BY <1>2, <3>1
    <2> QED
      BY <2>2, <2>3, <2>4
  <1>3. T = {}
    <2> SUFFICES ASSUME T # {} PROVE FALSE
      OBVIOUS
    <2>1. T \in SUBSET (1..N)
      OBVIOUS
    <2>2. Max(T) \in T /\ \A x \in T : x <= Max(T)
      <3> HIDE DEF T, N
      <3> QED
        BY <1>1, <2>1, MaxIsMax
    <2> DEFINE p == Max(T)
    <2> HIDE DEF p
    <2>3. p \in 1..N /\ ~Good(p) /\ \A x \in T : x <= p
      BY <2>2 DEF p
    <2>4. \A q \in (p + 1)..N : q \in 1..N /\ ~(q <= p)
      BY <1>1, <2>3
    <2>5. \A q \in (p + 1)..N : Good(q)
      <3> HIDE DEF Good, N
      <3> QED
        BY <2>3, <2>4
    <2> HIDE DEF N, B, C, T
    <2> QED
      BY <1>2, <2>3, <2>5
  <1> HIDE DEF B, C
  <1> QED
    BY <1>3 DEF B, C

\* The request.
LEMMA RequestLonger ==
    ASSUME NEW s \in Seq(Byte), NEW t \in Seq(Byte), Begins(t, s), NEW b \in Nat, b <= Len(t), Request(t, b).ok
    PROVE  Request(s, b).ok /\ Request(s, b).end <= Len(t)
  <1>1. \E a, m, u, v, h, d, z, e \in Nat :
             /\ Shape(t, b, a, m, u, v, h, d, z, e)
             /\ HeaderBlock(t, e + 1).ok /\ Request(t, b).end = HeaderBlock(t, e + 1).end
    BY ShapeOfRequest
  <1>2. PICK a, m, u, v, h, d, z, e \in Nat : Shape(t, b, a, m, u, v, h, d, z, e) /\ HeaderBlock(t, e + 1).ok
    BY <1>1, ZenonT(60)
  <1>3. e + 1 \in 1..(Len(t) + 1)
    <2>1. e <= Len(t)
      BY <1>2, Zenon DEF Shape
    <2> QED
      BY <2>1, LenProperties
  <1> DEFINE f == e + 1
  <1> HIDE DEF f
  <1>4. f \in 1..(Len(t) + 1) /\ Block(t, f)[f].ok
    BY <1>2, <1>3, HeaderBlockIs DEF f
  <1>5. Block(t, f)[f].end \in Nat /\ Block(t, f)[f].end <= Len(t)
    BY <1>4, BlockFields
  <1>6. Block(s, f)[f].ok /\ Block(s, f)[f].end = Block(t, f)[f].end
    BY <1>4, BlockLonger
  <1>7. HeaderBlock(s, f).ok /\ HeaderBlock(s, f).end <= Len(t)
    BY <1>5, <1>6, HeaderBlockIs
  <1>8. Shape(s, b, a, m, u, v, h, d, z, e)
    BY <1>2, ShapeLonger
  <1>9. FoundAs(s, b, a, m, u, v, h, d, e)
    BY <1>7, <1>8, RequestOfShape DEF f
  <1> QED
    BY <1>7, <1>9 DEF FoundAs, f
-----------------------------------------------------------------------------
(* The headers, and the request that is complete.                           *)

\* The line that is read is the one of the reference.
LEMMA SameLineEnd ==
    ASSUME NEW t, NEW b \in Nat, NEW a \in Nat, NEW m \in Nat, NEW u \in Nat, NEW v \in Nat, NEW w, NEW e \in Nat,
           NEW A \in Nat, NEW M \in Nat, NEW U \in Nat, NEW V \in Nat, NEW H \in Nat, NEW D \in Nat, NEW Z \in Nat, NEW E \in Nat,
           LineRead(t, b, a, m, u, v, w, e), Shape(t, b, A, M, U, V, H, D, Z, E)
    PROVE  e = E
  <1>1. MethodUri(t, b, a, m, u, v) /\ MethodUri(t, b, A, M, U, V)
    BY Zenon DEF LineRead, Shape
  <1>2. v = V
    BY <1>1, SameMethodUri
  <1>3. PICK h, d, z \in v..e : DotAt(t, v, h, d) /\ MinorTo(t, d, z) /\ LineTo(t, z, e)
    BY DEF LineRead
  <1>4. h \in Nat /\ d \in Nat /\ z \in Nat
    OBVIOUS
  <1>5. DotAt(t, v, H, D) /\ MinorTo(t, D, Z) /\ LineTo(t, Z, E)
    BY <1>2, Zenon DEF Shape
  <1>6. d = D
    BY <1>3, <1>4, <1>5, SameDot
  <1>7. z <= e /\ Z <= E /\ t[e] = LF /\ t[E] = LF
    BY <1>3, <1>5 DEF LineTo
  <1>8. t[z] \notin Digit /\ t[Z] \notin Digit
    BY <1>3, <1>4, <1>5, <1>7, LineToBytes
  <1>9. z = Z
    BY <1>3, <1>4, <1>5, <1>6, <1>8, SameMinorEnd
  <1>10. CASE e <= E
    BY <1>4, <1>5, <1>7, <1>9, <1>10, LineToBytes
  <1>11. CASE E <= e
    BY <1>3, <1>4, <1>7, <1>9, <1>11, LineToBytes
  <1> QED
    BY <1>10, <1>11

\* Behind a line and headers that are read, the parser accepts the next byte of a
\* request, and has not come to its end.
LEMMA HeadersGo ==
    ASSUME NEW t \in Seq(Byte), NEW b \in Nat, NEW a \in Nat, NEW m \in Nat, NEW u \in Nat, NEW v \in Nat, NEW w, NEW e \in Nat,
           LineRead(t, b, a, m, u, v, w, e), NEW n \in Nat, e <= n, n <= Len(t), b <= n,
           NEW l \in Seq(Header), NEW from, from = e + 1, Chain(t, b, from, l, n), NEW p, p = NextAt(b, from, l, 1),
           NEW st \in HeaderStates, NEW ks \in Nat, NEW ke \in Nat, NEW vs \in Nat, NEW ve \in Nat,
           HeaderAt(t, from, st, n, p, ks, ke, vs, ve), Request(t, b).ok, NEW k, k = n + 1
    PROVE  n < Len(t) /\ n < Request(t, b).end /\ Accepts(HeaderRules, st, t[k])
  <1>1. Len(t) \in Nat /\ b <= Len(t) /\ from \in Nat /\ k \in Nat /\ from \in 1..(Len(t) + 1) /\ from <= k
    BY LenProperties, SMTT(40)
  <1>2. \E A, M, U, V, H, D, Z, E \in Nat :
             /\ Shape(t, b, A, M, U, V, H, D, Z, E)
             /\ HeaderBlock(t, E + 1).ok /\ Request(t, b).end = HeaderBlock(t, E + 1).end
    BY <1>1, ShapeOfRequest
  <1>3. PICK A, M, U, V, H, D, Z, E \in Nat :
             /\ Shape(t, b, A, M, U, V, H, D, Z, E)
             /\ HeaderBlock(t, E + 1).ok /\ Request(t, b).end = HeaderBlock(t, E + 1).end
    BY <1>2
  <1>4. e = E
    BY <1>3, SameLineEnd
  <1>5. HeaderBlock(t, from).ok /\ Request(t, b).end = HeaderBlock(t, from).end
    BY <1>3, <1>4
  <1>6. Block(t, from)[from].ok /\ Request(t, b).end = Block(t, from)[from].end
    BY <1>5, HeaderBlockIs
  <1>7. Follows(t, b, from, l)
    BY <1>1, ChainFollows
  <1>8. p \in 1..(Len(t) + 1) /\ Block(t, from)[p].ok /\ Request(t, b).end = Block(t, from)[p].end
    BY <1>6, <1>7, Zenon DEF Follows
  <1>9. p <= k
    <2>1. CASE Len(l) = 0
      BY <1>1, <2>1 DEF NextAt
    <2>2. CASE Len(l) # 0
      <3>1. 1 \in 1..Len(l) /\ ~(1 > Len(l))
        BY <2>2, LenProperties, SMTT(40)
      <3>2. l[1] \in Header
        BY <3>1, ElementOfSeq
      <3> DEFINE x == l[1].ve
      <3>3. x \in Nat
        BY <3>2 DEF Header
      <3>4. b + x < n
        BY <3>1 DEF Chain
      <3>5. p = b + x + 2
        BY <3>1 DEF NextAt
      <3> HIDE DEF x
      <3> QED
        BY <3>3, <3>4, <3>5
    <2> QED
      BY <2>1, <2>2
  <1>10. p \in Nat /\ 1 <= p
    BY <1>1, <1>8, SMTT(40)
  <1>11. n < Len(t) /\ n < Block(t, from)[p].end /\ Accepts(HeaderRules, st, t[k])
    BY <1>1, <1>8, <1>9, <1>10, HeaderGoes, ZenonT(60)
  <1> QED
    BY <1>8, <1>11

\* The version.
LEMMA VersionIs ==
    ASSUME NEW t \in Seq(Byte), NEW w \in [major : Nat, minor : Nat], NEW h \in Nat, NEW d \in Nat, NEW e \in Nat,
           1 <= h, h + 5 < d, d < e, e <= Len(t), MajorIs(t, w, h, d), MinorIs(t, w, d, e), t[e] = LF
    PROVE  (w.major > 1 \/ w.minor >= 1) =
             (\/ SubSeq(t, h + 5, d - 1) # <<"1">>
              \/ \E i \in (d + 1)..(e - 1) : t[i] \in Digit \ {"0"})
  <1> DEFINE i == h + 5
             j == d - 1
             x == SubSeq(t, i, j)
  <1>1. /\ i \in Nat /\ j \in Nat /\ 1 <= i /\ i <= j + 1 /\ j <= Len(t) /\ Len(t) \in Nat
        /\ (j - i + 1 = 1 <=> d = h + 6) /\ j - i + 1 >= 1 /\ i + 1 - 1 = i
    BY LenProperties
  <1> HIDE DEF i, j
  <1>2. /\ x \in Seq(Byte) /\ Len(x) = j - i + 1
        /\ \A k \in 1..(j - i + 1) : x[k] = t[i + k - 1]
    BY <1>1, Part, SMTT(40)
  <1>3. 1 \in 1..(j - i + 1)
    BY <1>1
  <1>4. x[1] = t[i]
    BY <1>1, <1>2, <1>3
  <1>5. <<"1">> \in Seq({"1"}) /\ Len(<<"1">>) = 1 /\ <<"1">>[1] = "1"
    OBVIOUS
  <1> HIDE DEF x
  <1>6. x = <<"1">> <=> Len(x) = 1 /\ x[1] = "1"
    <2>1. ASSUME Len(x) = 1, x[1] = "1" PROVE x = <<"1">>
      <3> DEFINE y == <<"1">>
      <3>1. y \in Seq({"1"}) /\ Len(y) = 1 /\ y[1] = "1"
        BY <1>5
      <3> HIDE DEF y
      <3>2. \A k \in 1..Len(x) : x[k] = y[k]
        BY <2>1, <3>1
      <3>3. x = y
        BY <1>2, <2>1, <3>1, <3>2, SeqEqual
      <3> QED
        BY <3>3 DEF y
    <2> QED
      BY <1>5, <2>1
  <1>7. x = <<"1">> <=> d = h + 6 /\ t[h + 5] = "1"
    BY <1>1, <1>2, <1>4, <1>6 DEF i
  <1>8. w.major \in Nat /\ w.major >= 1 /\ (w.major = 1 <=> x = <<"1">>)
    BY <1>7 DEF MajorIs
  <1>9. w.minor >= 1 <=> \E k \in (d + 1)..(e - 1) : t[k] \in Digit \ {"0"}
    <2>1. t[e] \notin Digit
      BY Bytes
    <2>2. \A k \in (d + 1)..e : k = e \/ k \in (d + 1)..(e - 1)
      OBVIOUS
    <2>3. \A k \in (d + 1)..(e - 1) : k \in (d + 1)..e
      OBVIOUS
    <2> QED
      BY <2>1, <2>2, <2>3, Zenon DEF MinorIs
  <1>10. w.major > 1 <=> x # <<"1">>
    BY <1>8
  <1> QED
    BY <1>9, <1>10 DEF x, i, j

\* The request the reference finds when the empty line is read.
Complete(t, b, a, m, u, v, w, l, k) ==
    /\ Request(t, b).ok /\ Request(t, b).end = k
    /\ Request(t, b).method = SubSeq(t, a, m - 1) /\ Request(t, b).uri = SubSeq(t, u, v - 1)
    /\ Request(t, b).v11 = (w.major > 1 \/ w.minor >= 1)
    /\ Request(t, b).headers = HeadersOf(t, b, l, Len(l))

\* Behind the empty line the request is complete.
LEMMA DoneIs ==
    ASSUME NEW t \in Seq(Byte), NEW b \in Nat, NEW a \in Nat, NEW m \in Nat, NEW u \in Nat, NEW v \in Nat,
           NEW w \in [major : Nat, minor : Nat], NEW e \in Nat,
           LineRead(t, b, a, m, u, v, w, e), NEW n \in Nat, e <= n, n < Len(t),
           NEW l \in Seq(Header), NEW from, from = e + 1, Chain(t, b, from, l, n), NEW p, p = NextAt(b, from, l, 1),
           n = p, t[p] = CR, NEW k, k = n + 1, t[k] = LF
    PROVE  Complete(t, b, a, m, u, v, w, l, k)
  <1>1. Len(t) \in Nat /\ from \in 1..(Len(t) + 1) /\ n <= Len(t)
    BY LenProperties, SMTT(40)
  <1>2. PICK h, d, z \in v..e :
          DotAt(t, v, h, d) /\ MajorIs(t, w, h, d) /\ MinorTo(t, d, z) /\ MinorIs(t, w, d, e) /\ LineTo(t, z, e)
    BY DEF LineRead
  <1>3. h \in Nat /\ d \in Nat /\ z \in Nat
    OBVIOUS
  <1>4. Shape(t, b, a, m, u, v, h, d, z, e)
    <2>1. e <= Len(t)
      BY <1>1
    <2>2. MethodUri(t, b, a, m, u, v)
      BY Zenon DEF LineRead
    <2> QED
      BY <1>2, <2>1, <2>2, Zenon DEF Shape
  <1>5. Parts(t, b, a, m, u, v, h, d, z, e)
    BY <1>3, <1>4, ShapeOrder
  <1>6. Follows(t, b, from, l)
    BY <1>1, ChainFollows
  <1>7. /\ p \in 1..(Len(t) + 1)
        /\ Block(t, from)[from].ok = Block(t, from)[p].ok /\ Block(t, from)[from].end = Block(t, from)[p].end
        /\ Block(t, from)[p].headers = <<>> => Block(t, from)[from].headers = HeadersOf(t, b, l, Len(l))
    BY <1>6, Zenon DEF Follows
  <1>8. Empty(t, p) /\ p + 1 = k
    BY DEF Empty
  <1>9. Block(t, from)[p] = [ok |-> TRUE, headers |-> <<>>, end |-> p + 1]
    BY <1>7, <1>8, BlockEmpty, ZenonT(60)
  <1>10. Block(t, from)[p].ok /\ Block(t, from)[p].end = k /\ Block(t, from)[p].headers = <<>>
    <2> DEFINE r == Block(t, from)[p]
    <2>1. r = [ok |-> TRUE, headers |-> <<>>, end |-> p + 1]
      BY <1>9
    <2> HIDE DEF r
    <2>2. r.ok /\ r.end = k /\ r.headers = <<>>
      BY <1>8, <2>1
    <2> QED
      BY <2>2 DEF r
  <1>11. /\ HeaderBlock(t, from).ok /\ HeaderBlock(t, from).end = k
         /\ HeaderBlock(t, from).headers = HeadersOf(t, b, l, Len(l))
    BY <1>7, <1>10, HeaderBlockIs, Zenon
  <1>12. FoundAs(t, b, a, m, u, v, h, d, e)
    BY <1>3, <1>4, <1>11, RequestOfShape
  <1>13. /\ b < a /\ a < m /\ m < u /\ u < v /\ v < h /\ h + 5 < d /\ d + 1 < z /\ z <= e /\ e <= Len(t) /\ t[e] = LF
    BY <1>5, Zenon DEF Parts
  <1>14. 1 <= h /\ d < e
    BY <1>3, <1>13
  <1>15. (w.major > 1 \/ w.minor >= 1) =
             (\/ SubSeq(t, h + 5, d - 1) # <<"1">>
              \/ \E i \in (d + 1)..(e - 1) : t[i] \in Digit \ {"0"})
    BY <1>2, <1>3, <1>13, <1>14, VersionIs
  <1>16. /\ Request(t, b).ok /\ Request(t, b).end = k
         /\ Request(t, b).method = SubSeq(t, a, m - 1) /\ Request(t, b).uri = SubSeq(t, u, v - 1)
         /\ Request(t, b).headers = HeadersOf(t, b, l, Len(l))
    BY <1>11, <1>12, Zenon DEF FoundAs
  <1>17. Request(t, b).v11 = (w.major > 1 \/ w.minor >= 1)
    BY <1>12, <1>15, Zenon DEF FoundAs
  <1> QED
    BY <1>16, <1>17, Zenon DEF Complete
-----------------------------------------------------------------------------
(* Numbers in order.                                                        *)

\* How many members of S are up to x.
Rank(S, x) == Cardinality({y \in S : y <= x})

\* A rank is a number, at most that of all members.
LEMMA RankTyped ==
    ASSUME NEW n \in Nat, NEW S \in SUBSET (1..n)
    PROVE  /\ IsFiniteSet(S) /\ Cardinality(S) \in Nat /\ Cardinality(S) <= n
           /\ \A x \in Nat : Rank(S, x) \in Nat /\ Rank(S, x) <= Cardinality(S)
  <1>1. IsFiniteSet(1..n) /\ Cardinality(1..n) = n
    BY FS_Interval
  <1>2. IsFiniteSet(S) /\ Cardinality(S) <= n
    BY <1>1, FS_Subset, ZenonT(60)
  <1>3. ASSUME NEW x \in Nat PROVE Rank(S, x) \in Nat /\ Rank(S, x) <= Cardinality(S)
    <2> DEFINE B == {y \in S : y <= x}
    <2>1. IsFiniteSet(B) /\ Cardinality(B) <= Cardinality(S)
      BY <1>2, FS_Subset
    <2>2. Cardinality(B) \in Nat
      BY <2>1, FS_CardinalityType
    <2> QED
      BY <2>1, <2>2 DEF Rank
  <1>4. Cardinality(S) \in Nat
    BY <1>2, FS_CardinalityType
  <1> QED
    BY <1>2, <1>3, <1>4

\* The larger of two members has the higher rank, one more if it is the next.
LEMMA RankLess ==
    ASSUME NEW n \in Nat, NEW S \in SUBSET (1..n), NEW x \in S, NEW y \in S, x < y
    PROVE  Rank(S, x) < Rank(S, y)
  <1> DEFINE X == {z \in S : z <= x}
             Y == {z \in S : z <= y}
  <1>1. IsFiniteSet(S)
    BY RankTyped
  <1>2. \A z \in S : z \in Nat
    OBVIOUS
  <1>3. X \in SUBSET Y /\ y \in Y /\ y \notin X
    <2>1. x \in Nat /\ y \in Nat /\ ~(y <= x) /\ y <= y
      BY <1>2
    <2>2. \A z \in S : z <= x => z <= y
      BY <1>2, <2>1
    <2> QED
      BY <2>1, <2>2
  <1>4. Y \in SUBSET S
    OBVIOUS
  <1> HIDE DEF X, Y
  <1>5. IsFiniteSet(Y)
    BY <1>1, <1>4, FS_Subset
  <1>6. Cardinality(X) <= Cardinality(Y) /\ Cardinality(X) # Cardinality(Y)
    BY <1>3, <1>5, FS_Subset
  <1>7. Cardinality(X) = Rank(S, x) /\ Cardinality(Y) = Rank(S, y)
    BY DEF X, Y, Rank
  <1>8. Rank(S, x) \in Nat /\ Rank(S, y) \in Nat
    BY <1>2, RankTyped
  <1> QED
    BY <1>6, <1>7, <1>8

\* Every number up to the size of the set is the rank of a member.
LEMMA RankFound ==
    ASSUME NEW n \in Nat, NEW S \in SUBSET (1..n), NEW k \in 1..Cardinality(S)
    PROVE  \E x \in S : Rank(S, x) = k
  <1> DEFINE X == {x \in S : k <= Rank(S, x)}
             m == Max(S)
  <1>1. IsFiniteSet(S) /\ Cardinality(S) \in Nat /\ \A x \in S : x \in Nat /\ Rank(S, x) \in Nat
    BY RankTyped
  <1>2. S # {}
    BY <1>1, FS_EmptySet
  <1>3. m \in S /\ \A x \in S : x <= m
    BY <1>2, MaxIsMax
  <1>4. {y \in S : y <= m} = S
    BY <1>3
  <1>5. Rank(S, m) = Cardinality(S)
    BY <1>4 DEF Rank
  <1>6. m \in X
    BY <1>1, <1>3, <1>5
  <1>7. X \in SUBSET Nat
    BY <1>1
  <1> DEFINE x == Min(X)
  <1> HIDE DEF m
  <1>8. x \in X /\ \A y \in X : x <= y
    <2> HIDE DEF X
    <2> QED
      BY <1>6, <1>7, MinIsMin
  <1> HIDE DEF x
  <1>9. x \in S /\ k <= Rank(S, x) /\ x \in Nat /\ Rank(S, x) \in Nat
    BY <1>1, <1>8
  <1>10. CASE Rank(S, x) = k
    BY <1>9, <1>10
  <1>11. CASE k < Rank(S, x)
    <2> DEFINE A == {y \in S : y <= x}
               B == A \ {x}
    <2>1. IsFiniteSet(A) /\ x \in A
      BY <1>1, <1>9, FS_Subset
    <2>2. Cardinality(A) = Rank(S, x)
      BY DEF Rank
    <2>3. IsFiniteSet(B) /\ Cardinality(B) = Rank(S, x) - 1
      <3> HIDE DEF A
      <3> QED
        BY <2>1, <2>2, FS_RemoveElement
    <2>4. B # {}
      <3> HIDE DEF B
      <3> QED
        BY <2>3, <1>9, <1>11, FS_EmptySet
    <2>5. B \in SUBSET (1..n)
      OBVIOUS
    <2> DEFINE b == Max(B)
    <2>6. b \in B /\ \A y \in B : y <= b
      <3> HIDE DEF B
      <3> QED
        BY <2>4, <2>5, MaxIsMax
    <2> HIDE DEF b
    <2>7. b \in S /\ b < x /\ b \in Nat
      BY <2>6, <1>1, <1>9
    <2>8. {y \in S : y <= b} = B
      <3>1. \A y \in S : y <= b => y <= x /\ y # x
        BY <2>7, <1>1, <1>9
      <3>2. \A y \in B : y \in S /\ y <= b
        BY <2>6
      <3> QED
        BY <3>1, <3>2
    <2>9. Rank(S, b) = Rank(S, x) - 1
      BY <2>3, <2>8 DEF Rank
    <2>10. b \in X
      BY <2>7, <2>9, <1>9, <1>11
    <2> QED
      BY <2>7, <2>10, <1>8, <1>9
  <1> QED
    BY <1>9, <1>10, <1>11

\* What Ascending does.
LEMMA AscendingIs ==
    ASSUME NEW n \in Nat, NEW S \in SUBSET (1..n)
    PROVE  /\ Ascending(S) \in Seq(S) /\ Len(Ascending(S)) = Cardinality(S)
           /\ \A k \in 1..Cardinality(S) : Ascending(S)[k] \in S /\ Rank(S, Ascending(S)[k]) = k
           /\ \A x \in S : Rank(S, x) \in 1..Cardinality(S) /\ Ascending(S)[Rank(S, x)] = x
  <1> DEFINE s == Ascending(S)
             c == Cardinality(S)
  <1>1. c \in Nat /\ \A x \in S : x \in Nat /\ Rank(S, x) \in Nat /\ Rank(S, x) <= c
    BY RankTyped
  <1>2. s = [k \in 1..c |-> CHOOSE x \in S : Rank(S, x) = k]
    BY DEF Ascending, Rank
  <1>3. ASSUME NEW k \in 1..c PROVE s[k] \in S /\ Rank(S, s[k]) = k
    <2>1. \E x \in S : Rank(S, x) = k
      BY RankFound
    <2>2. s[k] = CHOOSE x \in S : Rank(S, x) = k
      BY <1>2
    <2> QED
      BY <2>1, <2>2
  <1>4. s \in [1..c -> S]
    <2>1. s = [k \in 1..c |-> s[k]]
      BY <1>2
    <2> HIDE DEF s, c
    <2> QED
      BY <2>1, <1>3
  <1>5. s \in Seq(S) /\ Len(s) = c
    <2> HIDE DEF s, c
    <2>1. s \in Seq(S) /\ DOMAIN s = 1..c
      BY <1>1, <1>4, SeqDef
    <2> QED
      BY <2>1, <1>1, LenProperties
  <1>6. ASSUME NEW x \in S PROVE Rank(S, x) \in 1..c /\ s[Rank(S, x)] = x
    <2>1. x \in {y \in S : y <= x}
      BY <1>1
    <2>2. Rank(S, x) # 0
      <3>1. IsFiniteSet({y \in S : y <= x})
        BY RankTyped, FS_Subset
      <3> QED
        BY <2>1, <3>1, FS_EmptySet DEF Rank
    <2>3. Rank(S, x) \in 1..c
      BY <1>1, <2>2
    <2> DEFINE y == s[Rank(S, x)]
    <2>4. y \in S /\ Rank(S, y) = Rank(S, x)
      BY <1>3, <2>3
    <2> HIDE DEF y
    <2>5. ~(x < y) /\ ~(y < x)
      <3>1. ASSUME x < y PROVE FALSE
        <4>1. Rank(S, x) < Rank(S, y)
          BY <2>4, <3>1, RankLess
        <4>2. Rank(S, x) \in Nat
          BY <1>1
        <4> QED
          BY <2>4, <4>1, <4>2
      <3>2. ASSUME y < x PROVE FALSE
        <4>1. Rank(S, y) < Rank(S, x)
          BY <2>4, <3>2, RankLess
        <4>2. Rank(S, x) \in Nat
          BY <1>1
        <4> QED
          BY <2>4, <4>1, <4>2
      <3> QED
        BY <3>1, <3>2
    <2>6. x = y
      BY <2>4, <2>5, <1>1
    <2> QED
      BY <2>3, <2>6 DEF y
  <1> QED
    BY <1>3, <1>5, <1>6

\* Nothing is in order when there is nothing.
LEMMA AscendingNone == Ascending({}) = <<>>
  <1>1. Cardinality({}) = 0
    BY FS_EmptySet
  <1>2. Len(Ascending({})) = 0 /\ Ascending({}) \in Seq({})
    BY <1>1, AscendingIs
  <1> QED
    BY <1>2, EmptySeq

\* What comes behind does not change what comes first.
LEMMA AscendingFirst ==
    ASSUME NEW n \in Nat, NEW S \in SUBSET (1..n), NEW T \in SUBSET (1..n),
           \A s \in S, t \in T : s < t, NEW k \in 1..Cardinality(S)
    PROVE  k <= Cardinality(S \cup T) /\ Ascending(S \cup T)[k] = Ascending(S)[k]
  <1> DEFINE U == S \cup T
             x == Ascending(S)[k]
  <1>1. U \in SUBSET (1..n)
    OBVIOUS
  <1>2. x \in S /\ Rank(S, x) = k
    BY AscendingIs
  <1> HIDE DEF x
  <1>3. {y \in U : y <= x} = {y \in S : y <= x}
    <2>1. \A t \in T : x < t /\ x \in Nat /\ t \in Nat
      BY <1>2
    <2>2. \A t \in T : ~(t <= x)
      BY <2>1
    <2> QED
      BY <2>2
  <1>4. Rank(U, x) = k /\ x \in U
    BY <1>2, <1>3 DEF Rank
  <1> HIDE DEF U
  <1>5. k \in 1..Cardinality(U) /\ Ascending(U)[k] = x
    BY <1>1, <1>4, AscendingIs
  <1>6. Cardinality(U) \in Nat
    BY <1>1, RankTyped
  <1> QED
    BY <1>5, <1>6 DEF U, x

\* A number behind all others comes last.
LEMMA AscendingMore ==
    ASSUME NEW n \in Nat, NEW S \in SUBSET (1..n), NEW m \in 1..n, \A s \in S : s < m
    PROVE  /\ Cardinality(S \cup {m}) = Cardinality(S) + 1
           /\ Ascending(S \cup {m})[Cardinality(S) + 1] = m
           /\ \A k \in 1..Cardinality(S) : Ascending(S \cup {m})[k] = Ascending(S)[k]
  <1> DEFINE U == S \cup {m}
  <1>1. U \in SUBSET (1..n) /\ m \in U /\ m \notin S
    OBVIOUS
  <1>2. Cardinality(U) = Cardinality(S) + 1
    BY <1>1, RankTyped, FS_AddElement
  <1>3. {y \in U : y <= m} = U
    <2>1. \A y \in U : y <= m
      OBVIOUS
    <2> QED
      BY <2>1
  <1>4. Rank(U, m) = Cardinality(S) + 1
    BY <1>2, <1>3 DEF Rank
  <1>5. Ascending(U)[Cardinality(S) + 1] = m
    <2> HIDE DEF U
    <2> QED
      BY <1>1, <1>4, AscendingIs
  <1>6. \A k \in 1..Cardinality(S) : Ascending(U)[k] = Ascending(S)[k]
    <2> DEFINE T == {m}
    <2>1. T \in SUBSET (1..n) /\ \A s \in S, t \in T : s < t
      OBVIOUS
    <2>2. U = S \cup T
      OBVIOUS
    <2> HIDE DEF T, U
    <2> QED
      BY <2>1, <2>2, AscendingFirst
  <1> QED
    BY <1>2, <1>5, <1>6
-----------------------------------------------------------------------------
(* percent_decode: what of a path is decoded.                               *)

\* Where bytes and escapes start in the first i bytes of r, what the one at j
\* stands for, and whether it is one that percent_decode takes.
UnitsTo(r, i) == {j \in 1..i : \A k \in {1, 2} : j <= k \/ r[j - k] # "%"}
Unit(r, j)    == IF r[j] = "%" THEN Chr(16 * Hex[r[j + 1]] + Hex[r[j + 2]]) ELSE r[j]
Sound(r, i, j) ==
    /\ r[j] \notin Refused
    /\ r[j] = "%" => /\ j + 2 <= i
                     /\ r[j + 1] \in DOMAIN Hex /\ r[j + 2] \in DOMAIN Hex
                     /\ Chr(16 * Hex[r[j + 1]] + Hex[r[j + 2]]) \notin Refused

\* d is what the first i bytes of r stand for.
DecodedTo(r, i, d) ==
    /\ i \in 0..Len(r) /\ d \in Seq(Byte)
    /\ \A j \in 1..i : Sound(r, i, j)
    /\ Len(d) = Cardinality(UnitsTo(r, i))
    /\ \A k \in 1..Len(d) : d[k] = Unit(r, Ascending(UnitsTo(r, i))[k])
    /\ i > 0 => d # <<>> /\ d[1] = "/"

\* The bytes an escape is made of, and what it can stand for.
LEMMA HexDigits ==
    /\ \A c \in DOMAIN Hex : c \in Byte /\ c # "%" /\ c \notin Refused
    /\ \A n : Chr(n) \notin Refused => Chr(n) \in Byte
    /\ "/" # "%" /\ "/" \in Byte /\ "/" \notin Refused
  <1>1. \A c \in DOMAIN Hex : c \in Byte /\ c # "%" /\ c \notin Refused
    <2>1. DOMAIN Hex = Digit \cup {"a", "b", "c", "d", "e", "f"} \cup {"A", "B", "C", "D", "E", "F"}
      BY DEF Hex
    <2>2. \A c \in Digit : c \in Byte /\ c # "%" /\ c \notin Refused
      BY DEF Digit, Byte, Refused, CR, LF
    <2>3. \A c \in {"a", "b", "c", "d", "e", "f"} : c \in Byte /\ c # "%" /\ c \notin Refused
      BY DEF Other, Byte, Refused, CR, LF
    <2>4. \A c \in {"A", "B", "C", "D", "E", "F"} : c \in Byte /\ c # "%" /\ c \notin Refused
      BY DEF Upper, Byte, Refused, CR, LF
    <2> QED
      BY <2>1, <2>2, <2>3, <2>4
  <1>2. \A n : Chr(n) \in Byte \cup {"NUL"}
    <2> TAKE n
    <2>1. "o" \in Byte
      BY DEF Byte, Other
    <2>2. (\E c \in Byte : Code[c] = n) => (CHOOSE c \in Byte : Code[c] = n) \in Byte
      BY Zenon
    <2> QED
      BY <2>1, <2>2, Zenon DEF Chr
  <1>3. "NUL" \in Refused /\ "/" # "%" /\ "/" \in Byte /\ "/" \notin Refused
    BY DEF Byte, Other, Refused, CR, LF
  <1> QED
    BY <1>1, <1>2, <1>3, Zenon

\* A byte or an escape more.
LEMMA UnitsMore ==
    ASSUME NEW r \in Seq(Byte), NEW i \in Nat, NEW w \in {1, 3}, i + w <= Len(r),
           \A j \in 1..i : Sound(r, i, j), w = 3 <=> r[i + 1] = "%"
    PROVE  UnitsTo(r, i + w) = UnitsTo(r, i) \cup {i + 1}
  <1>1. \A k \in {1, 2} : i + 1 <= k \/ r[(i + 1) - k] # "%"
    <2>1. i >= 1 => r[i] # "%"
      BY DEF Sound
    <2>2. i >= 2 => r[i - 1] # "%"
      <3>1. i >= 2 => i - 1 \in 1..i /\ ~((i - 1) + 2 <= i)
        OBVIOUS
      <3> QED
        BY <3>1 DEF Sound
    <2>3. (i + 1) - 1 = i /\ (i + 1) - 2 = i - 1 /\ (~(i + 1 <= 1) => i >= 1) /\ (~(i + 1 <= 2) => i >= 2)
      OBVIOUS
    <2> QED
      BY <2>1, <2>2, <2>3
  <1>2. w = 3 => /\ ~(i + 2 <= 1) /\ r[(i + 2) - 1] = "%"
                 /\ ~(i + 3 <= 2) /\ r[(i + 3) - 2] = "%"
    <2>1. (i + 2) - 1 = i + 1 /\ (i + 3) - 2 = i + 1
      OBVIOUS
    <2> QED
      BY <2>1
  <1>3. \A j : j \in 1..(i + w) <=> j \in 1..i \/ j = i + 1 \/ (w = 3 /\ (j = i + 2 \/ j = i + 3))
    OBVIOUS
  <1>4. \A j \in UnitsTo(r, i + w) : j \in UnitsTo(r, i) \cup {i + 1}
    <2> SUFFICES ASSUME NEW j \in 1..(i + w), \A k \in {1, 2} : j <= k \/ r[j - k] # "%"
                 PROVE  j \in 1..i \/ j = i + 1
      BY DEF UnitsTo
    <2>1. j # i + 2 \/ w = 1
      BY <1>2
    <2>2. j # i + 3 \/ w = 1
      BY <1>2
    <2> QED
      BY <1>3, <2>1, <2>2
  <1>5. i + 1 \in UnitsTo(r, i + w)
    BY <1>1, <1>3 DEF UnitsTo
  <1>6. \A j \in UnitsTo(r, i) : j \in UnitsTo(r, i + w)
    BY <1>3 DEF UnitsTo
  <1> QED
    BY <1>4, <1>5, <1>6

\* Nothing is decoded yet.
LEMMA DecodedNone ==
    ASSUME NEW r \in Seq(Byte)
    PROVE  DecodedTo(r, 0, <<>>)
  <1>1. UnitsTo(r, 0) = {}
    BY DEF UnitsTo
  <1>2. Cardinality(UnitsTo(r, 0)) = 0
    BY <1>1, FS_EmptySet
  <1>3. Len(r) \in Nat
    BY LenProperties
  <1> QED
    BY <1>2, <1>3 DEF DecodedTo

\* A byte or an escape more is decoded, as percent_decode does it.
LEMMA DecodedMore ==
    ASSUME NEW r \in Seq(Byte), NEW i, NEW d, DecodedTo(r, i, d), i < Len(r), r[1] = "/",
           NEW w \in {1, 3}, i + w <= Len(r), w = 3 <=> r[i + 1] = "%",
           r[i + 1] = "%" => r[i + 2] \in DOMAIN Hex /\ r[i + 3] \in DOMAIN Hex,
           Unit(r, i + 1) \notin Refused
    PROVE  DecodedTo(r, i + w, Append(d, Unit(r, i + 1)))
  <1> DEFINE S == UnitsTo(r, i)
             T == UnitsTo(r, i + w)
             x == Unit(r, i + 1)
             e == Append(d, x)
             c == Cardinality(S)
  <1>1. Len(r) \in Nat /\ i \in Nat /\ i <= Len(r)
    BY LenProperties DEF DecodedTo
  <1>2. T = S \cup {i + 1}
    BY <1>1, UnitsMore DEF DecodedTo
  <1>3. S \in SUBSET (1..(i + 1)) /\ (\A s \in S : s < i + 1) /\ i + 1 \in 1..(i + 1)
    BY <1>1 DEF UnitsTo
  <1>4. /\ Cardinality(T) = c + 1 /\ Ascending(T)[c + 1] = i + 1
        /\ \A k \in 1..c : Ascending(T)[k] = Ascending(S)[k]
    <2> DEFINE m == i + 1
    <2>1. m \in Nat /\ S \in SUBSET (1..m) /\ (\A s \in S : s < m) /\ m \in 1..m /\ T = S \cup {m}
      BY <1>1, <1>2, <1>3
    <2> HIDE DEF S, T, m
    <2>2. /\ Cardinality(S \cup {m}) = c + 1 /\ Ascending(S \cup {m})[c + 1] = m
          /\ \A k \in 1..c : Ascending(S \cup {m})[k] = Ascending(S)[k]
      BY <2>1, AscendingMore, ZenonT(60)
    <2> QED
      BY <2>1, <2>2 DEF m
  <1>5. x \in Byte
    <2>1. i + 1 \in 1..Len(r)
      BY <1>1
    <2>2. r[i + 1] \in Byte
      BY <2>1, ElementOfSeq
    <2> QED
      BY <2>2, HexDigits DEF Unit
  <1>6. d \in Seq(Byte) /\ Len(d) \in Nat /\ Len(d) = c
    BY LenProperties DEF DecodedTo
  <1> HIDE DEF S, T, x
  <1>7. /\ e \in Seq(Byte) /\ Len(e) = c + 1 /\ e[c + 1] = x
        /\ \A k \in 1..c : e[k] = d[k]
    BY <1>5, <1>6, AppendProperties
  <1>8. \A k \in 1..Len(e) : e[k] = Unit(r, Ascending(T)[k])
    <2>1. \A k \in 1..c : d[k] = Unit(r, Ascending(S)[k])
      BY <1>6 DEF DecodedTo, S
    <2>2. \A k \in 1..(c + 1) : k \in 1..c \/ k = c + 1
      BY <1>6
    <2> QED
      BY <1>4, <1>6, <1>7, <2>1, <2>2 DEF x
  <1>9. \A j \in 1..(i + w) : Sound(r, i + w, j)
    <2>1. \A j \in 1..i : Sound(r, i + w, j)
      <3>1. \A j \in 1..i : j + 2 <= i => j + 2 <= i + w
        BY <1>1
      <3>2. \A j \in 1..i : Sound(r, i, j)
        BY DEF DecodedTo
      <3> QED
        BY <3>1, <3>2 DEF Sound
    <2>2. Sound(r, i + w, i + 1)
      <3>1. (i + 1) + 1 = i + 2 /\ (i + 1) + 2 = i + 3
        BY <1>1
      <3>2. CASE r[i + 1] = "%"
        <4>1. r[i + 1] \notin Refused
          BY <3>2 DEF Refused, CR, LF
        <4>2. (i + 1) + 2 <= i + w
          BY <3>2, <1>1
        <4> QED
          BY <3>1, <3>2, <4>1, <4>2 DEF Sound, Unit
      <3>3. CASE r[i + 1] # "%"
        BY <3>3 DEF Sound, Unit
      <3> QED
        BY <3>2, <3>3
    <2>3. w = 3 => Sound(r, i + w, i + 2) /\ Sound(r, i + w, i + 3)
      BY HexDigits DEF Sound
    <2>4. \A j \in 1..(i + w) : j \in 1..i \/ j = i + 1 \/ (w = 3 /\ (j = i + 2 \/ j = i + 3))
      BY <1>1
    <2> QED
      BY <2>1, <2>2, <2>3, <2>4
  <1>10. e # <<>> /\ e[1] = "/"
    <2>1. e # <<>>
      BY <1>6, <1>7
    <2>2. CASE i = 0
      <3>1. S = {}
        BY <2>2 DEF S, UnitsTo
      <3>2. c = 0
        BY <3>1, FS_EmptySet
      <3>3. x = "/"
        BY <2>2, HexDigits DEF x, Unit
      <3> QED
        BY <2>1, <3>2, <3>3, <1>7
    <2>3. CASE i > 0
      <3>1. d # <<>> /\ d[1] = "/"
        BY <2>3 DEF DecodedTo
      <3>2. 1 \in 1..c
        BY <3>1, <1>6, EmptySeq
      <3> QED
        BY <2>1, <3>1, <3>2, <1>7
    <2> QED
      BY <1>1, <2>2, <2>3
  <1>11. i + w \in 0..Len(r)
    BY <1>1
  <1> QED
    BY <1>4, <1>7, <1>8, <1>9, <1>10, <1>11 DEF DecodedTo, T, x

\* All of it.
LEMMA DecodedAll ==
    ASSUME NEW r \in Seq(Byte), NEW d, DecodedTo(r, Len(r), d)
    PROVE  RefDecodable(r) /\ d = RefDecode(r)
  <1> DEFINE S == UnitsTo(r, Len(r))
             n == Len(r)
  <1>1. n \in Nat
    BY LenProperties
  <1>2. RefDecodable(r)
    BY DEF DecodedTo, Sound, RefDecodable
  <1>3. UnitStarts(r) = S
    BY DEF UnitStarts, UnitsTo
  <1>4. S \in SUBSET (1..n)
    BY DEF UnitsTo
  <1>5. Len(Ascending(S)) = Cardinality(S) /\ Cardinality(S) \in Nat
    <2> HIDE DEF S, n
    <2> QED
      BY <1>1, <1>4, AscendingIs, RankTyped
  <1>6. d \in Seq(Byte) /\ Len(d) = Cardinality(S) /\ \A k \in 1..Len(d) : d[k] = Unit(r, Ascending(S)[k])
    BY DEF DecodedTo
  <1> HIDE DEF S, n
  <1>7. RefDecode(r) = [k \in 1..Len(d) |-> Unit(r, Ascending(S)[k])]
    BY <1>3, <1>5, <1>6 DEF RefDecode, Unit
  <1>8. d = [k \in 1..Len(d) |-> d[k]]
    BY <1>6, LenProperties
  <1> QED
    BY <1>2, <1>6, <1>7, <1>8

\* Where percent_decode fails, the path is malformed.
LEMMA DecodeFails ==
    ASSUME NEW r \in Seq(Byte), NEW i \in Nat, i < Len(r),
           ~(/\ r[i + 1] = "%" => i + 2 < Len(r) /\ r[i + 2] \in DOMAIN Hex /\ r[i + 3] \in DOMAIN Hex
             /\ Unit(r, i + 1) \notin Refused)
    PROVE  ~RefDecodable(r)
  <1>1. Len(r) \in Nat /\ i + 1 \in 1..Len(r)
    BY LenProperties
  <1>2. (i + 1) + 1 = i + 2 /\ (i + 1) + 2 = i + 3 /\ ((i + 1) + 2 <= Len(r) <=> i + 2 < Len(r))
    BY <1>1
  <1> QED
    BY <1>1, <1>2 DEF RefDecodable, Unit
-----------------------------------------------------------------------------
(* Segments, and the ".." that take them back.                              *)

\* Sequences of segments, and how many of those from a to b are in W.
Paths == Seq(Seq(Byte))
Hits(segs, W, a, b) == Cardinality({k \in a..b : segs[k] \in W})

\* A count is a number, and none without positions.
LEMMA HitsTyped ==
    ASSUME NEW segs, NEW W, NEW a \in Int, NEW b \in Int
    PROVE  /\ IsFiniteSet({k \in a..b : segs[k] \in W}) /\ Hits(segs, W, a, b) \in Nat
           /\ a > b => Hits(segs, W, a, b) = 0
  <1> DEFINE X == {k \in a..b : segs[k] \in W}
  <1>1. IsFiniteSet(a..b)
    BY FS_Interval
  <1>2. IsFiniteSet(X)
    BY <1>1, FS_Subset
  <1>3. Cardinality(X) \in Nat
    BY <1>2, FS_CardinalityType
  <1>4. a > b => X = {}
    OBVIOUS
  <1>5. a > b => Cardinality(X) = 0
    BY <1>4, FS_EmptySet
  <1> QED
    BY <1>2, <1>3, <1>5 DEF Hits

\* A segment behind the others counts once if it is in W.
LEMMA HitsMore ==
    ASSUME NEW segs \in Paths, NEW s \in Seq(Byte), NEW W, NEW a \in 1..(Len(segs) + 1)
    PROVE  LET t == Append(segs, s)
               n == Len(segs)
           IN /\ \A b \in 0..n : Hits(t, W, a, b) = Hits(segs, W, a, b)
              /\ Hits(t, W, a, n + 1) = Hits(segs, W, a, n) + IF s \in W THEN 1 ELSE 0
  <1> DEFINE t == Append(segs, s)
             n == Len(segs)
             X == {k \in a..n : segs[k] \in W}
             Y == {k \in a..(n + 1) : t[k] \in W}
  <1>1. n \in Nat /\ a \in Nat
    BY LenProperties DEF Paths
  <1>2. t[n + 1] = s /\ \A k \in 1..n : t[k] = segs[k]
    BY AppendProperties DEF Paths
  <1> HIDE DEF t, n
  <1>3. ASSUME NEW b \in 0..n PROVE Hits(t, W, a, b) = Hits(segs, W, a, b)
    <2>1. \A k \in a..b : k \in 1..n
      BY <1>1
    <2>2. {k \in a..b : t[k] \in W} = {k \in a..b : segs[k] \in W}
      BY <1>2, <2>1
    <2> QED
      BY <2>2 DEF Hits
  <1>4. \A k : k \in a..(n + 1) <=> k \in a..n \/ k = n + 1
    <2>1. a <= n + 1
      BY <1>1 DEF n
    <2> QED
      BY <1>1, <2>1
  <1>5. \A k \in a..n : k \in 1..n /\ k # n + 1
    BY <1>1
  <1>6. IsFiniteSet(X) /\ n + 1 \notin X
    <2>1. a \in Int /\ n \in Int
      BY <1>1
    <2>2. IsFiniteSet(X)
      BY <2>1, HitsTyped
    <2> QED
      BY <1>5, <2>2
  <1>7. Y = IF s \in W THEN X \cup {n + 1} ELSE X
    BY <1>2, <1>4, <1>5
  <1> HIDE DEF X, Y
  <1>8. Cardinality(Y) = Cardinality(X) + IF s \in W THEN 1 ELSE 0
    <2>1. CASE s \in W
      BY <1>6, <1>7, <2>1, FS_AddElement
    <2>2. CASE s \notin W
      <3>1. Cardinality(X) \in Nat
        BY <1>6, FS_CardinalityType
      <3> QED
        BY <1>7, <2>2, <3>1
    <2> QED
      BY <2>1, <2>2
  <1>9. Hits(t, W, a, n + 1) = Hits(segs, W, a, n) + IF s \in W THEN 1 ELSE 0
    BY <1>8 DEF Hits, X, Y
  <1> QED
    BY <1>3, <1>9 DEF t, n

\* Segments other than "." and "..".
Ordinary == Seq(Byte) \ {Dot, Up}

\* The two counts of the reference are of this kind.
LEMMA CountsAre ==
    ASSUME NEW segs \in Paths, NEW a \in 1..(Len(segs) + 1), NEW b \in 0..Len(segs)
    PROVE  Ups(segs, a, b) = Hits(segs, {Up}, a, b) /\ Names(segs, a, b) = Hits(segs, Ordinary, a, b)
  <1>1. Len(segs) \in Nat
    BY LenProperties DEF Paths
  <1>2. \A k \in a..b : k \in 1..Len(segs)
    BY <1>1
  <1>3. \A k \in a..b : segs[k] \in Seq(Byte)
    BY <1>2, ElementOfSeq DEF Paths
  <1>4. {k \in a..b : segs[k] \in Ordinary} = {k \in a..b : segs[k] \notin {Dot, Up}}
    BY <1>3 DEF Ordinary
  <1>5. {k \in a..b : segs[k] \in {Up}} = {k \in a..b : segs[k] = Up}
    OBVIOUS
  <1> QED
    BY <1>4, <1>5 DEF Hits, Ups, Names

\* A segment more.
LEMMA CountsMore ==
    ASSUME NEW segs \in Paths, NEW s \in Seq(Byte), NEW a \in 1..(Len(segs) + 1)
    PROVE  LET t == Append(segs, s)
               n == Len(segs)
           IN /\ \A b \in 0..n : /\ Ups(t, a, b) = Ups(segs, a, b) /\ Ups(segs, a, b) \in Nat
                                 /\ Names(t, a, b) = Names(segs, a, b) /\ Names(segs, a, b) \in Nat
              /\ Ups(t, a, n + 1) = Ups(segs, a, n) + IF s = Up THEN 1 ELSE 0
              /\ Names(t, a, n + 1) = Names(segs, a, n) + IF s \in {Dot, Up} THEN 0 ELSE 1
              /\ a > n => Ups(segs, a, n) = 0 /\ Names(segs, a, n) = 0
  <1> DEFINE t == Append(segs, s)
             n == Len(segs)
  <1>1. n \in Nat /\ a \in Int /\ t \in Paths /\ Len(t) = n + 1
    BY LenProperties, AppendProperties DEF Paths
  <1>2. a \in 1..(Len(t) + 1) /\ n + 1 \in 0..Len(t) /\ n \in 0..n
    BY <1>1
  <1>3. ASSUME NEW b \in 0..n
        PROVE  /\ Ups(t, a, b) = Ups(segs, a, b) /\ Ups(segs, a, b) \in Nat
               /\ Names(t, a, b) = Names(segs, a, b) /\ Names(segs, a, b) \in Nat
    <2>1. b \in Int /\ b \in 0..Len(t)
      BY <1>1
    <2>2. Ups(t, a, b) = Hits(t, {Up}, a, b) /\ Names(t, a, b) = Hits(t, Ordinary, a, b)
      <3> HIDE DEF t
      <3> QED
        BY <1>1, <1>2, <2>1, CountsAre
    <2>3. Ups(segs, a, b) = Hits(segs, {Up}, a, b) /\ Names(segs, a, b) = Hits(segs, Ordinary, a, b)
      BY CountsAre
    <2>4. Hits(t, {Up}, a, b) = Hits(segs, {Up}, a, b) /\ Hits(t, Ordinary, a, b) = Hits(segs, Ordinary, a, b)
      BY HitsMore
    <2>5. Hits(segs, {Up}, a, b) \in Nat /\ Hits(segs, Ordinary, a, b) \in Nat
      BY <1>1, <2>1, HitsTyped
    <2> QED
      BY <2>2, <2>3, <2>4, <2>5
  <1>4. Ups(t, a, n + 1) = Hits(t, {Up}, a, n + 1) /\ Names(t, a, n + 1) = Hits(t, Ordinary, a, n + 1)
    <2> HIDE DEF t
    <2> QED
      BY <1>1, <1>2, CountsAre
  <1>5. Ups(segs, a, n) = Hits(segs, {Up}, a, n) /\ Names(segs, a, n) = Hits(segs, Ordinary, a, n)
    BY <1>2, CountsAre
  <1>6. /\ Hits(t, {Up}, a, n + 1) = Hits(segs, {Up}, a, n) + IF s \in {Up} THEN 1 ELSE 0
        /\ Hits(t, Ordinary, a, n + 1) = Hits(segs, Ordinary, a, n) + IF s \in Ordinary THEN 1 ELSE 0
    BY HitsMore
  <1>7. (s \in {Up} <=> s = Up) /\ (s \in Ordinary <=> s \notin {Dot, Up})
    BY DEF Ordinary
  <1>8. a > n => Ups(segs, a, n) = 0 /\ Names(segs, a, n) = 0
    <2>1. n \in Int
      BY <1>1
    <2> HIDE DEF n
    <2>2. a > n => Hits(segs, {Up}, a, n) = 0 /\ Hits(segs, Ordinary, a, n) = 0
      BY <1>1, <2>1, HitsTyped
    <2> QED
      BY <1>5, <2>2
  <1> HIDE DEF t, n
  <1>9. Names(t, a, n + 1) = Names(segs, a, n) + IF s \in {Dot, Up} THEN 0 ELSE 1
    BY <1>4, <1>5, <1>6, <1>7
  <1>10. Ups(t, a, n + 1) = Ups(segs, a, n) + IF s = Up THEN 1 ELSE 0
    BY <1>4, <1>5, <1>6, <1>7
  <1> QED
    BY <1>3, <1>8, <1>9, <1>10 DEF t, n

\* Every ".." has taken back a segment, and behind a segment that stays as many
\* stay as there are more names than "..".
Behind(segs, k) == Cardinality({j \in Stays(segs) : k <= j})
Balanced(segs) ==
    LET n == Len(segs)
    IN /\ ~Climbs(segs)
       /\ Names(segs, 1, n) = Ups(segs, 1, n) + Cardinality(Stays(segs))
       /\ \A k \in Stays(segs) : Names(segs, k, n) = Ups(segs, k, n) + Behind(segs, k)

\* What a segment more does to those that stay, and to climbing.
LEMMA StaysMore ==
    ASSUME NEW segs \in Paths, NEW s \in Seq(Byte), NEW t, NEW n, t = Append(segs, s), n = Len(segs)
    PROVE  /\ n \in Nat /\ t \in Paths /\ Len(t) = n + 1
           /\ Stays(segs) \in SUBSET (1..n) /\ Stays(t) \in SUBSET (1..(n + 1))
           /\ \A k \in 1..n : k \in Stays(t) <=> k \in Stays(segs) /\ Ups(t, k, n + 1) < Names(t, k, n + 1)
           /\ n + 1 \in Stays(t) <=> s \notin {Dot, Up}
           /\ Climbs(t) <=> Climbs(segs) \/ Ups(t, 1, n + 1) > Names(t, 1, n + 1)
  <1>1. n \in Nat /\ t \in Paths /\ Len(t) = n + 1 /\ t[n + 1] = s /\ \A k \in 1..n : t[k] = segs[k]
    BY LenProperties, AppendProperties DEF Paths
  <1>2. Stays(segs) \in SUBSET (1..n) /\ Stays(t) \in SUBSET (1..(n + 1))
    BY <1>1 DEF Stays
  <1>3. \A k \in 1..(n + 1) : \A b \in 0..n : Ups(t, k, b) = Ups(segs, k, b) /\ Names(t, k, b) = Names(segs, k, b)
    BY <1>1, CountsMore
  <1>4. ASSUME NEW k \in 1..n
        PROVE  k \in Stays(t) <=> k \in Stays(segs) /\ Ups(t, k, n + 1) < Names(t, k, n + 1)
    <2>1. k \in 1..(n + 1) /\ t[k] = segs[k]
      BY <1>1
    <2>2. \A b : b \in k..(n + 1) <=> b \in k..n \/ b = n + 1
      BY <1>1, SMTT(40)
    <2>3. \A b \in k..n : b \in 0..n
      BY <1>1
    <2>4. \A b \in k..n : Ups(t, k, b) < Names(t, k, b) <=> Ups(segs, k, b) < Names(segs, k, b)
      BY <1>3, <2>1, <2>3
    <2>5. k \in Stays(t) <=> t[k] \notin {Dot, Up} /\ \A b \in k..(n + 1) : Ups(t, k, b) < Names(t, k, b)
      BY <1>1, <2>1 DEF Stays
    <2>6. k \in Stays(segs) <=> segs[k] \notin {Dot, Up} /\ \A b \in k..n : Ups(segs, k, b) < Names(segs, k, b)
      BY DEF Stays
    <2> QED
      BY <2>1, <2>2, <2>4, <2>5, <2>6
  <1>5. n + 1 \in Stays(t) <=> s \notin {Dot, Up}
    <2>1. n + 1 \in 1..(n + 1) /\ \A b \in (n + 1)..(n + 1) : b = n + 1
      BY <1>1
    <2>2. n + 1 \in Stays(t) => s \notin {Dot, Up}
      BY <1>1 DEF Stays
    <2>3. ASSUME s \notin {Dot, Up} PROVE Ups(t, n + 1, n + 1) < Names(t, n + 1, n + 1)
      <3>1. n + 1 > n /\ n + 1 \in 1..(n + 1)
        BY <1>1
      <3>2. /\ Ups(t, n + 1, n + 1) = Ups(segs, n + 1, n) + IF s = Up THEN 1 ELSE 0
            /\ Names(t, n + 1, n + 1) = Names(segs, n + 1, n) + IF s \in {Dot, Up} THEN 0 ELSE 1
            /\ Ups(segs, n + 1, n) = 0 /\ Names(segs, n + 1, n) = 0
        BY <3>1, CountsMore
      <3> QED
        BY <2>3, <3>2
    <2> QED
      BY <1>1, <2>1, <2>2, <2>3 DEF Stays
  <1>6. Climbs(t) <=> Climbs(segs) \/ Ups(t, 1, n + 1) > Names(t, 1, n + 1)
    <2>1. \A b : b \in 1..(n + 1) <=> b \in 1..n \/ b = n + 1
      BY <1>1
    <2>2. 1 \in 1..(n + 1) /\ \A b \in 1..n : b \in 0..n
      BY <1>1
    <2>3. \A b \in 1..n : Ups(t, 1, b) = Ups(segs, 1, b) /\ Names(t, 1, b) = Names(segs, 1, b)
      BY <1>3, <2>2
    <2> QED
      BY <1>1, <2>1, <2>3 DEF Climbs
  <1> QED
    BY <1>1, <1>2, <1>4, <1>5, <1>6

\* A segment that stays has more names than ".." behind it.
LEMMA StaysAhead ==
    ASSUME NEW segs \in Paths, NEW k \in Stays(segs)
    PROVE  Ups(segs, k, Len(segs)) < Names(segs, k, Len(segs))
  <1>1. Len(segs) \in Nat
    BY LenProperties DEF Paths
  <1>2. k \in 1..Len(segs)
    BY DEF Stays
  <1>3. Len(segs) \in k..Len(segs)
    BY <1>1, <1>2
  <1> QED
    BY <1>3 DEF Stays

\* "." changes nothing.
LEMMA DotBalanced ==
    ASSUME NEW segs \in Paths, Balanced(segs)
    PROVE  Stays(Append(segs, Dot)) = Stays(segs) /\ Balanced(Append(segs, Dot))
  <1> DEFINE n == Len(segs)
             t == Append(segs, Dot)
  <1>1. Dot \in Seq(Byte) /\ Dot # Up
    BY DEF Dot, Up, Byte, Other
  <1> HIDE DEF t, n
  <1>2. /\ n \in Nat /\ t \in Paths /\ Len(t) = n + 1
        /\ Stays(segs) \in SUBSET (1..n) /\ Stays(t) \in SUBSET (1..(n + 1))
        /\ \A k \in 1..n : k \in Stays(t) <=> k \in Stays(segs) /\ Ups(t, k, n + 1) < Names(t, k, n + 1)
        /\ n + 1 \notin Stays(t)
        /\ Climbs(t) <=> Climbs(segs) \/ Ups(t, 1, n + 1) > Names(t, 1, n + 1)
    BY <1>1, StaysMore, ZenonT(60) DEF t, n
  <1>3. ASSUME NEW k \in 1..(n + 1)
        PROVE  /\ Ups(t, k, n + 1) = Ups(segs, k, n) /\ Names(t, k, n + 1) = Names(segs, k, n)
               /\ Ups(segs, k, n) \in Nat /\ Names(segs, k, n) \in Nat
    <2>1. n \in 0..n
      BY <1>2
    <2>2. /\ Ups(t, k, n + 1) = Ups(segs, k, n) + 0 /\ Names(t, k, n + 1) = Names(segs, k, n) + 0
          /\ Ups(segs, k, n) \in Nat /\ Names(segs, k, n) \in Nat
      BY <1>1, <2>1, CountsMore DEF t, n
    <2> QED
      BY <2>2
  <1>4. \A k \in 1..n : k \in 1..(n + 1)
    BY <1>2
  <1>5. Stays(t) = Stays(segs)
    <2>1. \A k \in Stays(segs) : k \in 1..n /\ Ups(segs, k, n) < Names(segs, k, n)
      BY <1>2, StaysAhead DEF n
    <2>2. \A k \in Stays(segs) : k \in Stays(t)
      BY <1>2, <1>3, <1>4, <2>1
    <2>3. \A k \in 1..(n + 1) : k \in 1..n \/ k = n + 1
      BY <1>2
    <2> QED
      BY <1>2, <2>2, <2>3
  <1>6. 1 \in 1..(n + 1)
    BY <1>2
  <1>7. Cardinality(Stays(segs)) \in Nat
    BY <1>2, RankTyped
  <1>8. /\ ~Climbs(segs) /\ Names(segs, 1, n) = Ups(segs, 1, n) + Cardinality(Stays(segs))
        /\ \A k \in Stays(segs) : Names(segs, k, n) = Ups(segs, k, n) + Behind(segs, k)
    BY DEF Balanced, n
  <1>9. ~Climbs(t)
    BY <1>2, <1>3, <1>6, <1>7, <1>8
  <1>10. \A k \in Stays(t) : Names(t, k, n + 1) = Ups(t, k, n + 1) + Behind(t, k)
    <2>1. \A k \in Stays(t) : k \in 1..(n + 1) /\ Behind(t, k) = Behind(segs, k)
      BY <1>2, <1>5 DEF Behind
    <2> QED
      BY <1>3, <1>5, <1>8, <2>1
  <1> QED
    BY <1>2, <1>3, <1>5, <1>6, <1>8, <1>9, <1>10 DEF Balanced, t

\* An ordinary segment stays until a ".." comes.
LEMMA NameBalanced ==
    ASSUME NEW segs \in Paths, Balanced(segs), NEW s \in Seq(Byte), s \notin {Dot, Up}
    PROVE  /\ Stays(Append(segs, s)) = Stays(segs) \cup {Len(segs) + 1}
           /\ Balanced(Append(segs, s))
  <1> DEFINE n == Len(segs)
             t == Append(segs, s)
  <1> HIDE DEF t, n
  <1>1. s # Up /\ s # Dot
    OBVIOUS
  <1>2. /\ n \in Nat /\ t \in Paths /\ Len(t) = n + 1
        /\ Stays(segs) \in SUBSET (1..n) /\ Stays(t) \in SUBSET (1..(n + 1))
        /\ \A k \in 1..n : k \in Stays(t) <=> k \in Stays(segs) /\ Ups(t, k, n + 1) < Names(t, k, n + 1)
        /\ n + 1 \in Stays(t)
        /\ Climbs(t) <=> Climbs(segs) \/ Ups(t, 1, n + 1) > Names(t, 1, n + 1)
    <2>0. t = Append(segs, s) /\ n = Len(segs)
      BY DEF t, n
    <2>1. n + 1 \in Stays(t) <=> s \notin {Dot, Up}
      BY <2>0, StaysMore
    <2>2. n \in Nat /\ t \in Paths /\ Len(t) = n + 1
      BY <2>0, LenProperties, AppendProperties DEF Paths
    <2>3. Stays(segs) \in SUBSET (1..n) /\ Stays(t) \in SUBSET (1..(n + 1))
      BY <2>0, StaysMore, ZenonT(60)
    <2>4. \A k \in 1..n : k \in Stays(t) <=> k \in Stays(segs) /\ Ups(t, k, n + 1) < Names(t, k, n + 1)
      BY <2>0, StaysMore, ZenonT(60)
    <2>5. Climbs(t) <=> Climbs(segs) \/ Ups(t, 1, n + 1) > Names(t, 1, n + 1)
      BY <2>0, StaysMore, ZenonT(60)
    <2> QED
      BY <1>1, <2>1, <2>2, <2>3, <2>4, <2>5
  <1>3. ASSUME NEW k \in 1..(n + 1)
        PROVE  /\ Ups(t, k, n + 1) = Ups(segs, k, n) /\ Names(t, k, n + 1) = Names(segs, k, n) + 1
               /\ Ups(segs, k, n) \in Nat /\ Names(segs, k, n) \in Nat
               /\ k > n => Ups(segs, k, n) = 0 /\ Names(segs, k, n) = 0
    <2>1. n \in 0..n
      BY <1>2
    <2>2. /\ Ups(t, k, n + 1) = Ups(segs, k, n) + 0 /\ Names(t, k, n + 1) = Names(segs, k, n) + 1
          /\ Ups(segs, k, n) \in Nat /\ Names(segs, k, n) \in Nat
          /\ k > n => Ups(segs, k, n) = 0 /\ Names(segs, k, n) = 0
      BY <1>1, <2>1, CountsMore DEF t, n
    <2> QED
      BY <2>2
  <1>4. \A k \in 1..n : k \in 1..(n + 1)
    BY <1>2
  <1>5. Stays(t) = Stays(segs) \cup {n + 1}
    <2>1. \A k \in Stays(segs) : k \in 1..n /\ Ups(segs, k, n) < Names(segs, k, n)
      BY <1>2, StaysAhead DEF n
    <2>2. \A k \in Stays(segs) : Ups(t, k, n + 1) < Names(t, k, n + 1)
      BY <1>3, <1>4, <2>1
    <2>3. \A k \in Stays(segs) : k \in Stays(t)
      BY <1>2, <2>1, <2>2
    <2>4. \A k \in 1..(n + 1) : k \in 1..n \/ k = n + 1
      BY <1>2
    <2> QED
      BY <1>2, <2>3, <2>4
  <1>6. 1 \in 1..(n + 1)
    BY <1>2
  <1>7. IsFiniteSet(Stays(segs)) /\ Cardinality(Stays(segs)) \in Nat /\ n + 1 \notin Stays(segs)
    BY <1>2, RankTyped
  <1>8. /\ ~Climbs(segs) /\ Names(segs, 1, n) = Ups(segs, 1, n) + Cardinality(Stays(segs))
        /\ \A k \in Stays(segs) : Names(segs, k, n) = Ups(segs, k, n) + Behind(segs, k)
    BY DEF Balanced, n
  <1>9. ~Climbs(t)
    BY <1>2, <1>3, <1>6, <1>7, <1>8
  <1>10. Cardinality(Stays(t)) = Cardinality(Stays(segs)) + 1
    BY <1>5, <1>7, FS_AddElement
  <1>11. Names(t, 1, n + 1) = Ups(t, 1, n + 1) + Cardinality(Stays(t))
    BY <1>3, <1>6, <1>7, <1>8, <1>10
  <1>12. ASSUME NEW k \in Stays(segs)
         PROVE  Names(t, k, n + 1) = Ups(t, k, n + 1) + Behind(t, k)
    <2> DEFINE B == {j \in Stays(segs) : k <= j}
    <2>1. k \in 1..n /\ k \in 1..(n + 1)
      BY <1>2, <1>4
    <2>2. {j \in Stays(t) : k <= j} = B \cup {n + 1}
      BY <1>2, <1>5, <2>1
    <2>3. IsFiniteSet(B) /\ n + 1 \notin B
      BY <1>7, FS_Subset
    <2>4. Behind(t, k) = Behind(segs, k) + 1 /\ Behind(segs, k) \in Nat
      <3> HIDE DEF B
      <3>1. Cardinality(B \cup {n + 1}) = Cardinality(B) + 1 /\ Cardinality(B) \in Nat
        BY <2>3, FS_AddElement, FS_CardinalityType
      <3> QED
        BY <2>2, <3>1 DEF Behind, B
    <2> QED
      BY <1>3, <1>8, <2>1, <2>4
  <1>13. Names(t, n + 1, n + 1) = Ups(t, n + 1, n + 1) + Behind(t, n + 1)
    <2>1. n + 1 \in 1..(n + 1) /\ n + 1 > n
      BY <1>2
    <2>2. {j \in Stays(t) : n + 1 <= j} = {n + 1}
      BY <1>2, <1>5
    <2>3. Behind(t, n + 1) = 1
      BY <2>2, FS_Singleton DEF Behind
    <2> QED
      BY <1>3, <2>1, <2>3
  <1>14. \A k \in Stays(t) : Names(t, k, n + 1) = Ups(t, k, n + 1) + Behind(t, k)
    BY <1>5, <1>12, <1>13
  <1> QED
    BY <1>2, <1>5, <1>9, <1>11, <1>14 DEF Balanced, t, n

\* ".." takes back the last segment that stays, and no other.
LEMMA UpBalanced ==
    ASSUME NEW segs \in Paths, Balanced(segs), Stays(segs) # {}
    PROVE  /\ Stays(Append(segs, Up)) = Stays(segs) \ {Max(Stays(segs))}
           /\ Balanced(Append(segs, Up))
  <1> DEFINE n == Len(segs)
             t == Append(segs, Up)
             K == Stays(segs)
             m == Max(K)
  <1>1. Up \in Seq(Byte) /\ Dot # Up
    BY DEF Dot, Up, Byte, Other
  <1> HIDE DEF t, n
  <1>2. /\ n \in Nat /\ t \in Paths /\ Len(t) = n + 1
        /\ K \in SUBSET (1..n) /\ Stays(t) \in SUBSET (1..(n + 1))
        /\ \A k \in 1..n : k \in Stays(t) <=> k \in K /\ Ups(t, k, n + 1) < Names(t, k, n + 1)
        /\ n + 1 \notin Stays(t)
        /\ Climbs(t) <=> Climbs(segs) \/ Ups(t, 1, n + 1) > Names(t, 1, n + 1)
    BY <1>1, StaysMore, ZenonT(60) DEF t, n
  <1>3. ASSUME NEW k \in 1..(n + 1)
        PROVE  /\ Ups(t, k, n + 1) = Ups(segs, k, n) + 1 /\ Names(t, k, n + 1) = Names(segs, k, n)
               /\ Ups(segs, k, n) \in Nat /\ Names(segs, k, n) \in Nat
    <2>1. n \in 0..n
      BY <1>2
    <2>2. /\ Ups(t, k, n + 1) = Ups(segs, k, n) + 1 /\ Names(t, k, n + 1) = Names(segs, k, n) + 0
          /\ Ups(segs, k, n) \in Nat /\ Names(segs, k, n) \in Nat
      BY <1>1, <2>1, CountsMore DEF t, n
    <2> QED
      BY <2>2
  <1>4. \A k \in 1..n : k \in 1..(n + 1)
    BY <1>2
  <1>5. m \in K /\ m \in 1..n /\ \A x \in K : x <= m
    <2> HIDE DEF K
    <2>1. K # {}
      BY DEF K
    <2> QED
      BY <1>2, <2>1, MaxIsMax
  <1> HIDE DEF m
  <1>6. IsFiniteSet(K) /\ Cardinality(K) \in Nat
    <2> HIDE DEF K
    <2> QED
      BY <1>2, RankTyped
  <1>7. /\ ~Climbs(segs) /\ Names(segs, 1, n) = Ups(segs, 1, n) + Cardinality(K)
        /\ \A k \in K : Names(segs, k, n) = Ups(segs, k, n) + Behind(segs, k)
    BY DEF Balanced, n
  <1>8. \A k \in K : k \in Nat /\ k \in 1..n
    BY <1>2
  <1>9. Behind(segs, m) = 1
    <2>1. {j \in K : m <= j} = {m}
      <3>1. \A j \in K : m <= j <=> j = m
        BY <1>5, <1>8
      <3> QED
        BY <1>5, <3>1
    <2> QED
      BY <2>1, FS_Singleton DEF Behind
  <1>10. ASSUME NEW k \in K, k # m
         PROVE  /\ Behind(segs, k) \in Nat /\ Behind(segs, k) > 1
                /\ Cardinality({j \in K \ {m} : k <= j}) = Behind(segs, k) - 1
    <2> DEFINE B == {j \in K : k <= j}
               C == B \ {m}
    <2>1. m \in B /\ k \in C
      BY <1>5, <1>8, <1>10
    <2>2. IsFiniteSet(B)
      BY <1>6, FS_Subset
    <2>3. {j \in K \ {m} : k <= j} = C
      OBVIOUS
    <2> HIDE DEF B, C
    <2>4. IsFiniteSet(C) /\ Cardinality(C) = Cardinality(B) - 1
      BY <2>1, <2>2, FS_RemoveElement DEF C
    <2>5. Cardinality(B) \in Nat /\ Cardinality(C) \in Nat
      BY <2>2, <2>4, FS_CardinalityType
    <2>6. Cardinality(C) # 0
      BY <2>1, <2>4, FS_EmptySet
    <2>7. Behind(segs, k) = Cardinality(B)
      BY DEF Behind, B
    <2> QED
      BY <2>3, <2>4, <2>5, <2>6, <2>7
  <1>11. Stays(t) = K \ {m}
    <2>1. ASSUME NEW k \in K, k # m PROVE k \in Stays(t)
      <3>1. k \in 1..n /\ k \in 1..(n + 1)
        BY <1>4, <1>8
      <3>2. Ups(t, k, n + 1) < Names(t, k, n + 1)
        <4>1. Names(segs, k, n) = Ups(segs, k, n) + Behind(segs, k)
          BY <1>7
        <4>2. Behind(segs, k) \in Nat /\ Behind(segs, k) > 1
          BY <1>10, <2>1
        <4>3. /\ Ups(t, k, n + 1) = Ups(segs, k, n) + 1 /\ Names(t, k, n + 1) = Names(segs, k, n)
              /\ Ups(segs, k, n) \in Nat /\ Names(segs, k, n) \in Nat
          BY <1>3, <3>1
        <4> QED
          BY <4>1, <4>2, <4>3
      <3> QED
        BY <1>2, <3>1, <3>2
    <2>2. m \notin Stays(t)
      <3>1. ~(Ups(t, m, n + 1) < Names(t, m, n + 1))
        BY <1>3, <1>4, <1>5, <1>7, <1>9
      <3> QED
        BY <1>2, <1>5, <3>1
    <2>3. \A k \in Stays(t) : k \in 1..n
      BY <1>2
    <2> QED
      BY <1>2, <2>1, <2>2, <2>3
  <1>12. 1 \in 1..(n + 1) /\ Cardinality(K) >= 1
    <2>1. Cardinality(K) # 0
      BY <1>5, <1>6, FS_EmptySet
    <2> QED
      BY <1>2, <1>6, <2>1
  <1>13. ~Climbs(t)
    <2> HIDE DEF K
    <2> QED
      BY <1>2, <1>3, <1>6, <1>7, <1>12
  <1>14. Cardinality(Stays(t)) = Cardinality(K) - 1
    <2> HIDE DEF K
    <2> QED
      BY <1>5, <1>6, <1>11, FS_RemoveElement
  <1>15. Names(t, 1, n + 1) = Ups(t, 1, n + 1) + Cardinality(Stays(t))
    <2> HIDE DEF K
    <2> QED
      BY <1>3, <1>6, <1>7, <1>12, <1>14
  <1>16. ASSUME NEW k \in Stays(t) PROVE Names(t, k, n + 1) = Ups(t, k, n + 1) + Behind(t, k)
    <2>1. k \in K /\ k # m /\ k \in 1..n /\ k \in 1..(n + 1)
      BY <1>4, <1>8, <1>11
    <2>2. Behind(t, k) = Behind(segs, k) - 1 /\ Behind(segs, k) \in Nat
      BY <1>10, <1>11, <2>1 DEF Behind
    <2> QED
      BY <1>3, <1>7, <2>1, <2>2
  <1> QED
    BY <1>2, <1>11, <1>13, <1>15, <1>16 DEF Balanced, t, m

\* With nothing to take back, ".." climbs above the root.
LEMMA UpClimbs ==
    ASSUME NEW segs \in Paths, Balanced(segs), Stays(segs) = {}
    PROVE  Climbs(Append(segs, Up))
  <1> DEFINE n == Len(segs)
             t == Append(segs, Up)
  <1>1. Up \in Seq(Byte)
    BY DEF Up, Byte, Other
  <1> HIDE DEF t, n
  <1>2. /\ n \in Nat
        /\ Climbs(t) <=> Climbs(segs) \/ Ups(t, 1, n + 1) > Names(t, 1, n + 1)
    BY <1>1, StaysMore DEF t, n
  <1>3. n \in 0..n /\ 1 \in 1..(n + 1)
    BY <1>2
  <1>4. /\ Ups(t, 1, n + 1) = Ups(segs, 1, n) + 1 /\ Names(t, 1, n + 1) = Names(segs, 1, n) + 0
        /\ Ups(segs, 1, n) \in Nat /\ Names(segs, 1, n) \in Nat
    BY <1>1, <1>3, CountsMore DEF t, n
  <1>5. Names(segs, 1, n) = Ups(segs, 1, n) + 0
    BY FS_EmptySet DEF Balanced, n
  <1>6. Ups(t, 1, n + 1) > Names(t, 1, n + 1)
    BY <1>4, <1>5
  <1> QED
    BY <1>2, <1>6 DEF t
-----------------------------------------------------------------------------
(* The segments of the part of a path that is read.                         *)

\* Where segments start in the first i bytes of t.
StartsTo(t, i) == {j \in 1..i : t[j] # "/" /\ (j = 1 \/ t[j - 1] = "/")}

\* No segment goes on behind position i.
Boundary(t, i) == i \in 1..Len(t) /\ (i = Len(t) \/ t[i] = "/" \/ t[i + 1] = "/")

\* A part of a part.
LEMMA PartOfPart ==
    ASSUME NEW t \in Seq(Byte), NEW i \in Nat, i <= Len(t),
           NEW a \in Nat, NEW b \in Nat, 1 <= a, a <= b + 1, b <= i
    PROVE  SubSeq(SubSeq(t, 1, i), a, b) = SubSeq(t, a, b)
  <1> DEFINE p == SubSeq(t, 1, i)
             x == SubSeq(p, a, b)
             y == SubSeq(t, a, b)
  <1>1. Len(t) \in Nat /\ b <= Len(t)
    BY LenProperties
  <1>2. p \in Seq(Byte) /\ Len(p) = i /\ \A k \in 1..i : p[k] = t[k]
    BY <1>1, Part
  <1> HIDE DEF p
  <1>3. x \in Seq(Byte) /\ Len(x) = b - a + 1 /\ \A k \in 1..(b - a + 1) : x[k] = p[a + k - 1]
    BY <1>1, <1>2, Part
  <1>4. y \in Seq(Byte) /\ Len(y) = b - a + 1 /\ \A k \in 1..(b - a + 1) : y[k] = t[a + k - 1]
    BY <1>1, Part
  <1>5. \A k \in 1..(b - a + 1) : a + k - 1 \in 1..i
    BY <1>1
  <1> HIDE DEF x, y
  <1>6. x = y
    BY <1>2, <1>3, <1>4, <1>5, SeqEqual, ZenonT(60)
  <1> QED
    BY <1>6 DEF x, y, p

\* What the reference takes for the segments of a path.
LEMMA SegmentsAre ==
    ASSUME NEW t \in Seq(Byte)
    PROVE  /\ SegStarts(t) \in SUBSET (1..Len(t)) /\ Cardinality(SegStarts(t)) \in Nat
           /\ Segments(t) \in Paths /\ Len(Segments(t)) = Cardinality(SegStarts(t))
           /\ \A k \in 1..Cardinality(SegStarts(t)) :
                LET a == Ascending(SegStarts(t))[k]
                IN /\ a \in SegStarts(t) /\ Len(Segments(t)[k]) >= 1
                   /\ Segments(t)[k] = SubSeq(t, a, FirstIn(t, a, {"/"}) - 1)
  <1> DEFINE S == SegStarts(t)
             n == Len(t)
             c == Cardinality(S)
             f == Ascending(S)
             Seg(a) == SubSeq(t, a, FirstIn(t, a, {"/"}) - 1)
             segs == Segments(t)
  <1>1. n \in Nat /\ S \in SUBSET (1..n)
    BY LenProperties DEF SegStarts
  <1>2. c \in Nat /\ Len(f) = c /\ \A k \in 1..c : f[k] \in S
    <2> HIDE DEF S, n
    <2> QED
      BY <1>1, RankTyped, AscendingIs
  <1>3. segs = [k \in 1..c |-> Seg(f[k])]
    BY <1>2 DEF Segments
  <1>4. ASSUME NEW a \in S PROVE Seg(a) \in Seq(Byte) /\ Len(Seg(a)) >= 1
    <2> DEFINE q == FirstIn(t, a, {"/"})
    <2>1. a \in 1..n /\ t[a] # "/"
      BY DEF SegStarts
    <2>2. q \in Nat /\ q <= n + 1 /\ a <= q /\ (q <= n => t[q] \in {"/"})
      BY <1>1, <2>1, FirstInFinds
    <2> HIDE DEF q
    <2>3. q # a
      BY <2>1, <2>2
    <2>4. q - 1 \in Nat /\ 1 <= a /\ a <= (q - 1) + 1 /\ q - 1 <= n /\ a \in Nat /\ a < q
      BY <1>1, <2>1, <2>2, <2>3
    <2>5. SubSeq(t, a, q - 1) \in Seq(Byte) /\ Len(SubSeq(t, a, q - 1)) = (q - 1) - a + 1
      BY <2>4, Part
    <2> DEFINE z == SubSeq(t, a, q - 1)
    <2> HIDE DEF z
    <2>6. z \in Seq(Byte) /\ Len(z) >= 1
      BY <2>2, <2>4, <2>5 DEF z
    <2> QED
      BY <2>6 DEF z, q
  <1> HIDE DEF S, n, f, Seg, c, segs
  <1>5. segs \in [1..c -> Seq(Byte)] /\ \A k \in 1..c : segs[k] = Seg(f[k])
    BY <1>2, <1>3, <1>4
  <1>6. segs \in Paths /\ Len(segs) = c
    <2>1. segs \in Paths /\ DOMAIN segs = 1..c
      BY <1>2, <1>5, SeqDef DEF Paths
    <2> QED
      BY <1>2, <2>1, LenProperties DEF Paths
  <1> QED
    BY <1>1, <1>2, <1>4, <1>5, <1>6 DEF S, n, f, Seg, c, segs

\* Where the segments of the first part of a path start.
LEMMA StartsOfPart ==
    ASSUME NEW t \in Seq(Byte), NEW i \in 0..Len(t)
    PROVE  /\ SegStarts(SubSeq(t, 1, i)) = StartsTo(t, i)
           /\ SubSeq(t, 1, i) \in Seq(Byte) /\ Len(SubSeq(t, 1, i)) = i
           /\ \A k \in 1..i : SubSeq(t, 1, i)[k] = t[k]
  <1> DEFINE p == SubSeq(t, 1, i)
  <1>1. Len(t) \in Nat /\ i \in Nat
    BY LenProperties
  <1>2. p \in Seq(Byte) /\ Len(p) = i /\ \A k \in 1..i : p[k] = t[k]
    BY <1>1, Part
  <1> HIDE DEF p
  <1>3. \A j \in 1..i : j = 1 \/ j - 1 \in 1..i
    BY <1>1
  <1>4. SegStarts(p) = StartsTo(t, i)
    BY <1>2, <1>3 DEF SegStarts, StartsTo
  <1> QED
    BY <1>2, <1>4 DEF p

\* A segment before a boundary is the same in any longer part.
LEMMA SegmentStays ==
    ASSUME NEW t \in Seq(Byte), NEW i, Boundary(t, i), NEW e \in i..Len(t), NEW a \in StartsTo(t, i)
    PROVE  SubSeq(SubSeq(t, 1, i), a, FirstIn(SubSeq(t, 1, i), a, {"/"}) - 1)
             = SubSeq(SubSeq(t, 1, e), a, FirstIn(SubSeq(t, 1, e), a, {"/"}) - 1)
  <1> DEFINE p == SubSeq(t, 1, i)
             q == SubSeq(t, 1, e)
             f == FirstIn(p, a, {"/"})
  <1>1. Len(t) \in Nat /\ i \in 1..Len(t) /\ i \in 0..Len(t) /\ e \in 0..Len(t) /\ i <= e /\ e \in Nat /\ i \in Nat
    BY LenProperties DEF Boundary
  <1>2. p \in Seq(Byte) /\ Len(p) = i /\ \A k \in 1..i : p[k] = t[k]
    BY <1>1, StartsOfPart
  <1>3. q \in Seq(Byte) /\ Len(q) = e /\ \A k \in 1..e : q[k] = t[k]
    BY <1>1, StartsOfPart
  <1>4. a \in 1..i /\ a \in Nat
    BY DEF StartsTo
  <1> HIDE DEF p, q
  <1>5. /\ f \in Nat /\ f <= i + 1 /\ a <= f /\ (f <= i => p[f] \in {"/"})
        /\ NoneOf(p, a, f - 1, {"/"})
    BY <1>1, <1>2, <1>4, FirstInFinds, SMTT(40)
  <1> HIDE DEF f
  <1>6. NoneOf(q, a, f - 1, {"/"})
    <2>1. \A k \in a..(f - 1) : k \in 1..i /\ k \in 1..e
      BY <1>1, <1>4, <1>5
    <2>2. \A k \in a..(f - 1) : q[k] = p[k]
      BY <1>2, <1>3, <2>1
    <2> QED
      BY <1>5, <2>2 DEF NoneOf
  <1>7. FirstIn(q, a, {"/"}) = f
    <2>1. CASE f <= i
      <3>1. f \in 1..i /\ f \in 1..e
        BY <1>1, <1>4, <1>5, <2>1
      <3>2. q[f] \in {"/"}
        BY <1>2, <1>3, <1>5, <2>1, <3>1
      <3> QED
        BY <1>1, <1>3, <1>4, <1>5, <1>6, <3>1, <3>2, FirstInIs, SMTT(40)
    <2>2. CASE f = i + 1 /\ e = i
      BY <2>2 DEF p, q, f
    <2>3. CASE f = i + 1 /\ e # i
      <3>1. i \in a..(f - 1) /\ i + 1 \in 1..e /\ i \in 1..i /\ i # Len(t)
        BY <1>1, <1>4, <2>3
      <3>2. t[i] # "/"
        BY <1>2, <1>5, <3>1 DEF NoneOf
      <3>3. t[i + 1] = "/"
        BY <3>1, <3>2 DEF Boundary
      <3>4. q[f] \in {"/"} /\ f <= Len(q)
        BY <1>1, <1>3, <2>3, <3>1, <3>3
      <3> QED
        BY <1>3, <1>4, <1>5, <1>6, <3>4, FirstInIs
    <2> QED
      BY <1>1, <1>5, <2>1, <2>2, <2>3
  <1>8. f - 1 \in Nat /\ 1 <= a /\ a <= (f - 1) + 1 /\ f - 1 <= i /\ f - 1 <= e
    BY <1>1, <1>4, <1>5
  <1>9. SubSeq(p, a, f - 1) = SubSeq(t, a, f - 1) /\ SubSeq(q, a, f - 1) = SubSeq(t, a, f - 1)
    BY <1>1, <1>4, <1>8, PartOfPart, SMTT(40) DEF p, q
  <1> QED
    BY <1>7, <1>9 DEF f, p, q

\* The segments before a boundary are the first ones of any longer part.
LEMMA SegmentsFirst ==
    ASSUME NEW t \in Seq(Byte), NEW i, Boundary(t, i), NEW e \in i..Len(t)
    PROVE  LET p == Segments(SubSeq(t, 1, i))
               q == Segments(SubSeq(t, 1, e))
           IN /\ Len(p) <= Len(q)
              /\ \A k \in 1..Len(p) : q[k] = p[k]
  <1> DEFINE tp == SubSeq(t, 1, i)
             tq == SubSeq(t, 1, e)
             p == Segments(tp)
             q == Segments(tq)
             P == StartsTo(t, i)
             Q == StartsTo(t, e)
             T == {j \in Q : i < j}
  <1>1. Len(t) \in Nat /\ i \in 1..Len(t) /\ i \in 0..Len(t) /\ e \in 0..Len(t) /\ i <= e /\ e \in Nat
    BY LenProperties DEF Boundary
  <1>2. SegStarts(tp) = P /\ tp \in Seq(Byte) /\ Len(tp) = i
    BY <1>1, StartsOfPart
  <1>3. SegStarts(tq) = Q /\ tq \in Seq(Byte) /\ Len(tq) = e
    BY <1>1, StartsOfPart
  <1>4. P \in SUBSET (1..e) /\ T \in SUBSET (1..e) /\ \A x \in P, y \in T : x < y
    BY <1>1 DEF StartsTo
  <1>5. Q = P \cup T
    <2>1. \A j \in 1..e : j \in 1..i \/ i < j
      BY <1>1
    <2>2. \A j \in 1..i : j \in 1..e
      BY <1>1
    <2> QED
      BY <2>1, <2>2 DEF StartsTo
  <1> HIDE DEF P, Q, T, tp, tq
  <1>6. ASSUME NEW k \in 1..Cardinality(P)
        PROVE  k <= Cardinality(Q) /\ Ascending(Q)[k] = Ascending(P)[k] /\ Ascending(P)[k] \in P
    <2>1. Ascending(P)[k] \in P
      BY <1>1, <1>4, AscendingIs
    <2> QED
      BY <1>1, <1>4, <1>5, <2>1, AscendingFirst, ZenonT(60)
  <1>7. /\ Cardinality(P) \in Nat /\ Len(p) = Cardinality(P)
        /\ \A k \in 1..Cardinality(P) :
             p[k] = SubSeq(tp, Ascending(P)[k], FirstIn(tp, Ascending(P)[k], {"/"}) - 1)
    BY <1>2, SegmentsAre
  <1>8. /\ Cardinality(Q) \in Nat /\ Len(q) = Cardinality(Q)
        /\ \A k \in 1..Cardinality(Q) :
             q[k] = SubSeq(tq, Ascending(Q)[k], FirstIn(tq, Ascending(Q)[k], {"/"}) - 1)
    BY <1>3, SegmentsAre
  <1>9. ASSUME NEW a \in P
        PROVE  SubSeq(tp, a, FirstIn(tp, a, {"/"}) - 1) = SubSeq(tq, a, FirstIn(tq, a, {"/"}) - 1)
    <2>1. a \in StartsTo(t, i)
      BY DEF P
    <2>2. SubSeq(SubSeq(t, 1, i), a, FirstIn(SubSeq(t, 1, i), a, {"/"}) - 1)
            = SubSeq(SubSeq(t, 1, e), a, FirstIn(SubSeq(t, 1, e), a, {"/"}) - 1)
      BY <2>1, SegmentStays, ZenonT(60)
    <2> QED
      BY <2>2 DEF tp, tq
  <1>10. \A k \in 1..Cardinality(P) : k \in 1..Cardinality(Q)
    BY <1>6, <1>7, <1>8
  <1> HIDE DEF p, q
  <1>11. \A k \in 1..Len(p) : q[k] = p[k]
    BY <1>6, <1>7, <1>8, <1>9, <1>10
  <1>12. Len(p) <= Len(q)
    <2>1. CASE Cardinality(P) = 0
      BY <1>7, <1>8, <2>1
    <2>2. CASE Cardinality(P) # 0
      <3>1. Cardinality(P) \in 1..Cardinality(P)
        BY <1>7, <2>2
      <3> QED
        BY <1>6, <1>7, <1>8, <3>1
    <2> QED
      BY <2>1, <2>2
  <1> QED
    BY <1>11, <1>12 DEF p, q, tp, tq

\* The next segment.
LEMMA NextSegment ==
    ASSUME NEW t \in Seq(Byte), NEW i, Boundary(t, i), FirstNotIn(t, i + 1, {"/"}) <= Len(t)
    PROVE  LET a == FirstNotIn(t, i + 1, {"/"})
               f == FirstIn(t, a, {"/"})
           IN /\ a \in Nat /\ i < a /\ AllOf(t, i + 1, a - 1, {"/"}) /\ f \in Nat /\ a < f /\ f - 1 \in Nat
              /\ f - 1 <= Len(t) /\ a <= f - 1 /\ NoneOf(t, a, f - 1, {"/"})
              /\ f - 1 = Len(t) \/ t[(f - 1) + 1] = "/"
  <1> DEFINE a == FirstNotIn(t, i + 1, {"/"})
             f == FirstIn(t, a, {"/"})
  <1>1. Len(t) \in Nat /\ i \in 1..Len(t) /\ i \in Nat /\ a <= Len(t)
    BY LenProperties DEF Boundary
  <1>2. a \in Nat /\ i + 1 <= a /\ t[a] # "/" /\ AllOf(t, i + 1, a - 1, {"/"})
    BY <1>1, FirstNotInFinds
  <1> HIDE DEF a
  <1>3. f \in Nat /\ f <= Len(t) + 1 /\ a <= f /\ (f <= Len(t) => t[f] \in {"/"}) /\ NoneOf(t, a, f - 1, {"/"})
    BY <1>1, <1>2, FirstInFinds
  <1> HIDE DEF f
  <1>4. f # a
    BY <1>1, <1>2, <1>3
  <1>5. f - 1 = Len(t) \/ ((f - 1) + 1 = f /\ f <= Len(t))
    BY <1>1, <1>3
  <1>6. f - 1 = Len(t) \/ t[(f - 1) + 1] = "/"
    BY <1>3, <1>5
  <1>7. i < a /\ a < f /\ f - 1 \in Nat /\ f - 1 <= Len(t) /\ a <= f - 1
    BY <1>1, <1>2, <1>3, <1>4
  <1> QED
    BY <1>2, <1>3, <1>6, <1>7 DEF a, f

\* The segments up to the end of the next one.
LEMMA SegmentsMore ==
    ASSUME NEW t \in Seq(Byte), NEW i, Boundary(t, i), NEW a \in Nat, NEW e \in Nat,
           i < a, AllOf(t, i + 1, a - 1, {"/"}), a <= e, e <= Len(t), NoneOf(t, a, e, {"/"}),
           e = Len(t) \/ t[e + 1] = "/"
    PROVE  /\ t[i] # "/" => i + 1 < a
           /\ Boundary(t, e) /\ t[e] # "/"
           /\ SubSeq(t, a, e) \in Seq(Byte) /\ Len(SubSeq(t, a, e)) = e - a + 1
           /\ Segments(SubSeq(t, 1, i)) \in Paths
           /\ Segments(SubSeq(t, 1, e)) = Append(Segments(SubSeq(t, 1, i)), SubSeq(t, a, e))
  <1>1. Len(t) \in Nat /\ i \in 1..Len(t) /\ i \in 0..Len(t) /\ i \in Nat
    BY LenProperties DEF Boundary
  <1>2. i + 1 <= a /\ 1 <= a /\ a <= e + 1 /\ t[a] # "/"
    BY <1>1 DEF NoneOf
  <1>3. t[i] # "/" => i + 1 < a
    <2>1. ASSUME a = i + 1 PROVE t[i] = "/"
      BY <1>1, <1>2, <2>1 DEF Boundary
    <2> QED
      BY <1>1, <1>2, <2>1
  <1>7. e \in 1..Len(t) /\ e \in 0..Len(t) /\ i <= e /\ e \in i..Len(t)
    BY <1>1
  <1>8. \A k \in a..e : t[k] # "/"
    BY DEF NoneOf
  <1>9. t[e] # "/"
    BY <1>8
  <1>10. Boundary(t, e)
    BY <1>7 DEF Boundary
  <1> DEFINE P == StartsTo(t, i)
             Q == StartsTo(t, e)
             tp == SubSeq(t, 1, i)
             tq == SubSeq(t, 1, e)
             p == Segments(tp)
             q == Segments(tq)
             s == SubSeq(t, a, e)
             c == Cardinality(P)
  <1>11. SegStarts(tp) = P /\ tp \in Seq(Byte) /\ Len(tp) = i
    BY <1>1, StartsOfPart
  <1>12. SegStarts(tq) = Q /\ tq \in Seq(Byte) /\ Len(tq) = e /\ \A k \in 1..e : tq[k] = t[k]
    BY <1>7, StartsOfPart
  <1>13. P \in SUBSET (1..e) /\ (\A x \in P : x < a) /\ a \in 1..e
    BY <1>1, <1>2, <1>7 DEF StartsTo
  <1>14. Q = P \cup {a}
    <2>1. \A j \in 1..e : j \in 1..i \/ j \in (i + 1)..(a - 1) \/ j = a \/ j \in (a + 1)..e
      BY <1>1, <1>2, <1>7
    <2>2. \A j \in (i + 1)..(a - 1) : t[j] = "/"
      BY DEF AllOf
    <2>3. \A j \in (a + 1)..e : j # 1 /\ j - 1 \in a..e
      BY <1>2, <1>7
    <2>4. \A j \in (a + 1)..e : j # 1 /\ t[j - 1] # "/"
      BY <1>8, <2>3
    <2>5. t[a - 1] = "/"
      <3>1. CASE a = i + 1
        BY <1>1, <1>3, <3>1
      <3>2. CASE a # i + 1
        <4>1. a - 1 \in (i + 1)..(a - 1)
          BY <1>1, <1>2, <3>2
        <4> QED
          BY <2>2, <4>1
      <3> QED
        BY <3>1, <3>2
    <2>6. a \in Q
      BY <1>2, <1>13, <2>5 DEF StartsTo
    <2>7. \A j \in 1..i : j \in 1..e
      BY <1>1, <1>7
    <2>8. \A j \in P : j \in Q
      BY <2>7 DEF StartsTo
    <2>9. \A j \in Q : j \in P \cup {a}
      BY <2>1, <2>2, <2>4 DEF StartsTo
    <2> QED
      BY <2>6, <2>8, <2>9
  <1>15. s \in Seq(Byte) /\ Len(s) = e - a + 1
    BY <1>1, <1>2, <1>7, Part
  <1>16. Len(p) <= Len(q) /\ \A k \in 1..Len(p) : q[k] = p[k]
    BY <1>7, SegmentsFirst
  <1> HIDE DEF P, Q, tp, tq, s
  <1>17. Cardinality(Q) = c + 1 /\ Ascending(Q)[c + 1] = a
    BY <1>7, <1>13, <1>14, AscendingMore, ZenonT(60)
  <1>18. p \in Paths /\ Len(p) = c /\ c \in Nat
    BY <1>11, SegmentsAre
  <1>19. /\ q \in Paths /\ Len(q) = Cardinality(Q)
         /\ \A k \in 1..Cardinality(Q) :
              q[k] = SubSeq(tq, Ascending(Q)[k], FirstIn(tq, Ascending(Q)[k], {"/"}) - 1)
    BY <1>12, SegmentsAre
  <1>20. FirstIn(tq, a, {"/"}) = e + 1
    <2> DEFINE g == FirstIn(tq, a, {"/"})
    <2>1. g \in Nat /\ g <= e + 1 /\ a <= g /\ (g <= e => tq[g] \in {"/"})
      BY <1>2, <1>7, <1>12, FirstInFinds
    <2> HIDE DEF g
    <2>2. ASSUME g <= e PROVE FALSE
      <3>1. g \in a..e /\ g \in 1..e
        BY <1>2, <1>7, <2>1, <2>2
      <3> QED
        BY <1>8, <1>12, <2>1, <2>2, <3>1
    <2>3. g = e + 1
      BY <1>7, <2>1, <2>2
    <2> QED
      BY <2>3 DEF g
  <1>21. q[c + 1] = s
    <2>1. c + 1 \in 1..Cardinality(Q)
      BY <1>17, <1>18
    <2>2. q[c + 1] = SubSeq(tq, a, FirstIn(tq, a, {"/"}) - 1)
      BY <1>17, <1>19, <2>1
    <2>3. (e + 1) - 1 = e
      BY <1>7
    <2>4. q[c + 1] = SubSeq(tq, a, e)
      BY <1>20, <2>2, <2>3
    <2>5. SubSeq(tq, a, e) = s
      BY <1>2, <1>7, PartOfPart DEF tq, s
    <2> QED
      BY <2>4, <2>5
  <1>22. q = Append(p, s)
    <2> DEFINE r == Append(p, s)
    <2> HIDE DEF p, q, c
    <2>1. /\ r \in Paths /\ Len(r) = c + 1 /\ r[c + 1] = s
          /\ \A k \in 1..c : r[k] = p[k]
      BY <1>15, <1>18, AppendProperties DEF Paths
    <2> HIDE DEF r
    <2>2. \A k \in 1..(c + 1) : k \in 1..c \/ k = c + 1
      BY <1>18
    <2>3. \A k \in 1..(c + 1) : q[k] = r[k]
      BY <1>16, <1>18, <1>21, <2>1, <2>2
    <2>4. q = r
      BY <1>17, <1>19, <2>1, <2>3, SeqEqual DEF Paths
    <2> QED
      BY <2>4 DEF r
  <1> QED
    BY <1>3, <1>9, <1>10, <1>15, <1>18, <1>22 DEF p, q, tp, tq, s

\* There is none.
LEMMA SegmentsEnd ==
    ASSUME NEW t \in Seq(Byte), NEW i, Boundary(t, i), FirstNotIn(t, i + 1, {"/"}) > Len(t)
    PROVE  Segments(t) = Segments(SubSeq(t, 1, i)) /\ AllOf(t, i + 1, Len(t), {"/"})
  <1> DEFINE a == FirstNotIn(t, i + 1, {"/"})
             n == Len(t)
             P == StartsTo(t, i)
             Q == StartsTo(t, n)
             tp == SubSeq(t, 1, i)
             p == Segments(tp)
             q == Segments(t)
  <1>1. n \in Nat /\ i \in 1..n /\ i \in 0..n /\ i \in Nat /\ n \in i..n /\ n \in 0..n
    BY LenProperties DEF Boundary
  <1>2. a \in Nat /\ a <= n + 1 /\ AllOf(t, i + 1, a - 1, {"/"})
    BY <1>1, FirstNotInFinds
  <1>3. a - 1 = n
    BY <1>1, <1>2
  <1>4. AllOf(t, i + 1, n, {"/"})
    BY <1>2, <1>3
  <1>5. Q = P
    <2>1. \A j : j \in 1..n <=> j \in 1..i \/ j \in (i + 1)..n
      BY <1>1
    <2>2. \A j \in (i + 1)..n : t[j] = "/"
      BY <1>4 DEF AllOf
    <2> QED
      BY <2>1, <2>2 DEF StartsTo
  <1>6. SubSeq(t, 1, n) = t
    BY SubSeqFull
  <1>7. SegStarts(tp) = P /\ tp \in Seq(Byte)
    BY <1>1, StartsOfPart
  <1>8. SegStarts(t) = Q
    BY <1>1, <1>6, StartsOfPart
  <1>9. Len(p) <= Len(q) /\ \A k \in 1..Len(p) : q[k] = p[k]
    <2>1. /\ Len(p) <= Len(Segments(SubSeq(t, 1, n)))
          /\ \A k \in 1..Len(p) : Segments(SubSeq(t, 1, n))[k] = p[k]
      BY <1>1, SegmentsFirst
    <2> QED
      BY <1>6, <2>1
  <1> HIDE DEF P, Q, tp
  <1>10. p \in Paths /\ Len(p) = Cardinality(P) /\ q \in Paths /\ Len(q) = Cardinality(Q)
    BY <1>7, <1>8, SegmentsAre
  <1> HIDE DEF p, q
  <1>11. q = p
    BY <1>5, <1>9, <1>10, SeqEqual DEF Paths
  <1> QED
    BY <1>4, <1>11 DEF p, q, tp

\* What climbs above the root is not taken back by what follows.
LEMMA ClimbsLonger ==
    ASSUME NEW t \in Seq(Byte), NEW i, Boundary(t, i), Climbs(Segments(SubSeq(t, 1, i)))
    PROVE  Climbs(Segments(t))
  <1> DEFINE p == Segments(SubSeq(t, 1, i))
             q == Segments(t)
  <1>1. Len(t) \in Nat /\ i \in 0..Len(t) /\ Len(t) \in i..Len(t) /\ SubSeq(t, 1, Len(t)) = t
    BY LenProperties, SubSeqFull DEF Boundary
  <1>2. Len(p) <= Len(q) /\ \A k \in 1..Len(p) : q[k] = p[k]
    <2>1. /\ Len(p) <= Len(Segments(SubSeq(t, 1, Len(t))))
          /\ \A k \in 1..Len(p) : Segments(SubSeq(t, 1, Len(t)))[k] = p[k]
      BY <1>1, SegmentsFirst
    <2> QED
      BY <1>1, <2>1
  <1>3. Len(p) \in Nat /\ Len(q) \in Nat
    <2>1. SubSeq(t, 1, i) \in Seq(Byte)
      BY <1>1, StartsOfPart
    <2>2. p \in Paths /\ q \in Paths
      BY <2>1, SegmentsAre
    <2> QED
      BY <2>2, LenProperties DEF Paths
  <1>4. Climbs(p)
    OBVIOUS
  <1> HIDE DEF p, q
  <1>5. PICK b \in 1..Len(p) : Ups(p, 1, b) > Names(p, 1, b)
    BY <1>4 DEF Climbs
  <1>6. b \in 1..Len(q) /\ \A k \in 1..b : q[k] = p[k]
    BY <1>2, <1>3
  <1>7. /\ {k \in 1..b : q[k] = Up} = {k \in 1..b : p[k] = Up}
        /\ {k \in 1..b : q[k] \notin {Dot, Up}} = {k \in 1..b : p[k] \notin {Dot, Up}}
    BY <1>6
  <1>8. Ups(q, 1, b) = Ups(p, 1, b) /\ Names(q, 1, b) = Names(p, 1, b)
    BY <1>7 DEF Ups, Names
  <1> QED
    BY <1>5, <1>6, <1>8 DEF Climbs, q
=============================================================================
