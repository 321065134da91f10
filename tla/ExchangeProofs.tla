--------------------------- MODULE ExchangeProofs ---------------------------
(***************************************************************************)
(* Proofs about Exchange, for any clients, any tree and any limits.        *)
(***************************************************************************)
EXTENDS Exchange, SequenceTheorems, FiniteSetTheorems, WellFoundedInduction, TLAPS

-----------------------------------------------------------------------------
(* The operators.                                                          *)

\* The smaller of two numbers.
LEMMA MinOfTwo ==
    ASSUME NEW a \in Int, NEW b \in Int
    PROVE  Min({a, b}) = IF a <= b THEN a ELSE b
  <1>1. \E x \in {a, b} : \A y \in {a, b} : x <= y
    OBVIOUS
  <1> QED
    BY <1>1 DEF Min

\* Every state a table leads to, other than "done", has a rule of its own.
LEMMA LineTable ==
    /\ "start" \in LineStates
    /\ \A rule \in LineRules : rule[3] = "done" \/ rule[3] \in LineStates
  <1> DEFINE S == {"start", "method", "spaces_before_uri", "after_slash_in_uri", "http", "http_H", "http_HT",
                   "http_HTT", "http_HTTP", "first_major_digit", "major_digit", "first_minor_digit",
                   "minor_digit", "spaces_after_digit", "almost_done"}
  <1>1. \A rule \in LineRules : rule[3] = "done" \/ rule[3] \in S
    BY DEF LineRules
  <1>2. \A s \in S : \E rule \in LineRules : rule[1] = s
    BY DEF LineRules
  <1> QED
    BY <1>1, <1>2 DEF LineStates

\* The same of the headers.
LEMMA HeaderTable ==
    /\ "start" \in HeaderStates
    /\ \A rule \in HeaderRules : rule[3] = "done" \/ rule[3] \in HeaderStates
  <1> DEFINE S == {"start", "crlfcr", "key", "spaces_before_colon", "spaces_after_colon", "value", "cr", "crlf"}
  <1>1. \A rule \in HeaderRules : rule[3] = "done" \/ rule[3] \in S
    BY DEF HeaderRules
  <1>2. \A s \in S : \E rule \in HeaderRules : rule[1] = s
    BY DEF HeaderRules
  <1> QED
    BY <1>1, <1>2 DEF HeaderStates

\* The first digit of a number of the version is a digit.
LEMMA FirstDigits ==
    \A rule \in LineRules : rule[1] \in {"first_major_digit", "first_minor_digit"} => rule[2] \subseteq Digit
  BY DEF LineRules

\* The value of a digit.
LEMMA DigitIsNat == \A d \in Digit : DigitVal[d] \in Nat
  BY DEF DigitVal, Digit

\* A sequence, whatever its elements are.
IsSeq(s) == s \in Seq({s[k] : k \in DOMAIN s})

\* Append to a sequence of anything.
LEMMA AppendAny ==
    ASSUME NEW s, NEW e, IsSeq(s)
    PROVE  /\ Len(s) \in Nat /\ DOMAIN s = 1..Len(s)
           /\ IsSeq(Append(s, e)) /\ Len(Append(s, e)) = Len(s) + 1
           /\ \A k \in 1..Len(s) : Append(s, e)[k] = s[k]
           /\ Append(s, e)[Len(s) + 1] = e
           /\ Append(s, e) # <<>>
  <1> DEFINE S == {s[k] : k \in DOMAIN s} \cup {e}
             a == Append(s, e)
  <1>1. s \in Seq(S) /\ e \in S
    BY SeqMonotonic DEF IsSeq
  <1> HIDE DEF S
  <1>2. /\ a \in Seq(S) /\ Len(a) = Len(s) + 1 /\ DOMAIN a = 1..Len(a)
        /\ \A k \in 1..Len(s) : a[k] = s[k]
        /\ a[Len(s) + 1] = e /\ Len(s) \in Nat /\ DOMAIN s = 1..Len(s)
    BY <1>1, AppendProperties, LenProperties
  <1> HIDE DEF a
  <1>3. a \in Seq({a[k] : k \in DOMAIN a})
    BY <1>2, SeqOfRange, RangeEquality
  <1> QED
    BY <1>2, <1>3, SMTT(40) DEF IsSeq, a

\* An element more in front of a sequence of anything.
LEMMA ConsAny ==
    ASSUME NEW s, NEW e, IsSeq(s)
    PROVE  IsSeq(<<e>> \o s) /\ Len(<<e>> \o s) = Len(s) + 1 /\ Len(s) \in Nat
  <1> DEFINE S == {s[k] : k \in DOMAIN s} \cup {e}
             a == <<e>> \o s
  <1>1. s \in Seq(S) /\ <<e>> \in Seq(S) /\ Len(<<e>>) = 1
    BY SeqMonotonic DEF IsSeq
  <1> HIDE DEF S
  <1>2. a \in Seq(S) /\ Len(a) = Len(s) + 1 /\ DOMAIN a = 1..Len(a) /\ Len(s) \in Nat
    BY <1>1, ConcatProperties, LenProperties
  <1> HIDE DEF a
  <1>3. a \in Seq({a[k] : k \in DOMAIN a})
    BY <1>2, SeqOfRange, RangeEquality
  <1> QED
    BY <1>2, <1>3 DEF IsSeq, a

\* A set of numbers from 1 to n that is not empty has a largest.
LEMMA MaxIsMax ==
    ASSUME NEW n \in Nat, NEW T \in SUBSET (1..n), T # {}
    PROVE  Max(T) \in T /\ \A x \in T : x <= Max(T)
  <1> DEFINE D == {n - x : x \in T}
  <1>1. D \in SUBSET Nat /\ D # {}
    <2>1. \A x \in T : x \in Int /\ x <= n
      OBVIOUS
    <2>2. \A x \in T : n - x \in Nat
      BY <2>1
    <2>3. D \in SUBSET Nat
      BY <2>2
    <2>4. PICK x \in T : TRUE
      OBVIOUS
    <2>5. n - x \in D
      OBVIOUS
    <2> QED
      BY <2>3, <2>5
  <1>2. PICK d \in D : \A y \in D : ~(<<y, d>> \in OpToRel(<, Nat))
    BY <1>1, NatLessThanWellFounded, WFMin
  <1>3. \A y \in D : <<y, d>> \in OpToRel(<, Nat) <=> y < d
    BY <1>1 DEF OpToRel
  <1>4. \A y \in D : ~(y < d)
    BY <1>2, <1>3, Zenon
  <1>5. PICK m \in T : d = n - m
    OBVIOUS
  <1>6. \A x \in T : m >= x
    <2> SUFFICES ASSUME NEW x \in T PROVE m >= x
      OBVIOUS
    <2>1. n - x \in D
      OBVIOUS
    <2>2. ~(n - x < n - m)
      BY <1>4, <1>5, <2>1
    <2>3. x \in Int /\ m \in Int
      OBVIOUS
    <2> QED
      BY <2>2, <2>3
  <1>7. Max(T) \in T /\ \A x \in T : Max(T) >= x
    BY <1>6 DEF Max
  <1> QED
    BY <1>7

\* What a header says of the connection: kept, closed, or nothing.
Keeps(hd)  == /\ NameMatches(Text(hd.ks, hd.ke), Connection)
              /\ NameMatches(Text(hd.vs, hd.ve), KeepAlive)
Closes(hd) == /\ NameMatches(Text(hd.ks, hd.ke), Connection)
              /\ NameMatches(Text(hd.vs, hd.ve), Close)

\* The fold of zv_http_handle_header, on every subset of the header lines.
KeepFold(f, base) ==
    f = [s \in SUBSET DOMAIN list |->
           IF s = {} THEN base ELSE KeepAfter(f[s \ {Max(s)}], list[Max(s)])]

\* The header lines that decide.
Deciding == {k \in DOMAIN list : Keeps(list[k]) \/ Closes(list[k])}

\* What zv_http_handle_header gives.  That the fold is defined is shown by the
\* function it computes: the last header of the list that decides, or the default.
LEMMA KeepIsLast ==
    ASSUME NEW base \in BOOLEAN, IsSeq(list)
    PROVE  FoldLeft(KeepAfter, base, list) = IF Deciding = {} THEN base ELSE Keeps(list[Max(Deciding)])
  <1> DEFINE n == Len(list)
             E(s) == {k \in s : Keeps(list[k]) \/ Closes(list[k])}
             g == [s \in SUBSET DOMAIN list |-> IF E(s) = {} THEN base ELSE Keeps(list[Max(E(s))])]
             f == CHOOSE f : KeepFold(f, base)
  <1>1. n \in Nat /\ DOMAIN list = 1..n
    BY LenProperties DEF IsSeq
  <1>2. \A keep, hd : KeepAfter(keep, hd) = IF Keeps(hd) THEN TRUE ELSE IF Closes(hd) THEN FALSE ELSE keep
    BY DEF KeepAfter, Keeps, Closes
  <1>3. KeepFold(g, base)
    <2> SUFFICES ASSUME NEW s \in SUBSET DOMAIN list
                 PROVE  g[s] = IF s = {} THEN base ELSE KeepAfter(g[s \ {Max(s)}], list[Max(s)])
      BY DEF KeepFold
    <2>1. CASE s = {}
      BY <2>1
    <2>2. CASE s # {}
      <3> DEFINE m == Max(s)
                 t == s \ {m}
      <3>1. m \in s /\ (\A x \in s : x <= m) /\ s \in SUBSET (1..n)
        BY <1>1, <2>2, MaxIsMax
      <3> HIDE DEF m
      <3>2. g[t] = IF E(t) = {} THEN base ELSE Keeps(list[Max(E(t))])
        OBVIOUS
      <3>3. CASE m \in E(s)
        <4>1. E(s) # {} /\ E(s) \in SUBSET (1..n)
          BY <3>1, <3>3
        <4>2. Max(E(s)) \in E(s) /\ \A x \in E(s) : x <= Max(E(s))
          BY <4>1, <1>1, MaxIsMax
        <4>3. Max(E(s)) = m
          <5> DEFINE M == Max(E(s))
          <5>1. M \in s /\ m <= M
            BY <4>2, <3>3
          <5>2. M <= m /\ M \in Int /\ m \in Int
            BY <5>1, <3>1
          <5> QED
            BY <5>1, <5>2
        <4>4. g[s] = Keeps(list[m])
          BY <4>1, <4>3
        <4>5. Keeps(list[m]) \/ Closes(list[m])
          BY <3>3
        <4>6. Keeps(list[m]) \in BOOLEAN
          BY DEF Keeps
        <4> HIDE DEF g, E
        <4> QED
          BY <4>4, <4>5, <4>6, <1>2, <2>2 DEF m
      <3>4. CASE m \notin E(s)
        <4>1. E(t) = E(s)
          BY <3>4
        <4>2. ~Keeps(list[m]) /\ ~Closes(list[m])
          BY <3>1, <3>4
        <4>3. g[s] = g[t]
          BY <4>1
        <4> HIDE DEF g, E
        <4> QED
          BY <4>2, <4>3, <1>2, <2>2 DEF m, t
      <3> QED
        BY <3>3, <3>4
    <2> QED
      BY <2>1, <2>2
  <1>4. FoldLeft(KeepAfter, base, list) = f[DOMAIN list]
    BY DEF FoldLeft, MapThenFoldSet, KeepFold
  <1>5. KeepFold(f, base)
    BY <1>3
  <1>14. g[1..n] = IF Deciding = {} THEN base ELSE Keeps(list[Max(Deciding)])
    BY <1>1 DEF Deciding
  <1> HIDE DEF f, g
  <1> DEFINE T == {k \in 0..n : f[1..k] # g[1..k]}
  <1>6. SUFFICES ASSUME T # {} PROVE FALSE
    <2>1. T = {} => f[1..n] = g[1..n]
      BY <1>1
    <2> QED
      BY <1>1, <1>4, <1>14, <2>1
  <1>15. T \in SUBSET Nat /\ \A k : k \in T <=> k \in 0..n /\ f[1..k] # g[1..k]
    BY <1>1
  <1> HIDE DEF T
  <1>7. PICK k \in T : \A j \in T : ~(<<j, k>> \in OpToRel(<, Nat))
    BY <1>6, <1>15, NatLessThanWellFounded, WFMin
  <1>8. k \in 0..n /\ f[1..k] # g[1..k]
    BY <1>15
  <1>9. /\ f[1..k] = IF 1..k = {} THEN base ELSE KeepAfter(f[(1..k) \ {Max(1..k)}], list[Max(1..k)])
        /\ g[1..k] = IF 1..k = {} THEN base ELSE KeepAfter(g[(1..k) \ {Max(1..k)}], list[Max(1..k)])
    <2>1. 1..k \in SUBSET DOMAIN list
      BY <1>1, <1>8
    <2> QED
      BY <1>3, <1>5, <2>1 DEF KeepFold
  <1>10. k # 0
    BY <1>8, <1>9
  <1>11. Max(1..k) = k /\ (1..k) \ {k} = 1..(k - 1) /\ 1..k # {}
    <2>1. 1..k # {} /\ 1..k \in SUBSET (1..k) /\ k \in Nat
      <3>1. k \in Nat /\ k >= 1
        BY <1>1, <1>8, <1>10
      <3>2. 1 \in 1..k
        BY <3>1
      <3> QED
        BY <3>1, <3>2
    <2>2. Max(1..k) \in 1..k /\ \A x \in 1..k : x <= Max(1..k)
      BY <2>1, MaxIsMax
    <2> QED
      BY <2>1, <2>2, <1>8, <1>10
  <1>12. k - 1 \in 0..n /\ <<k - 1, k>> \in OpToRel(<, Nat)
    BY <1>1, <1>8, <1>10 DEF OpToRel
  <1>13. f[1..(k - 1)] = g[1..(k - 1)]
    BY <1>7, <1>12, <1>15
  <1> QED
    BY <1>8, <1>9, <1>11, <1>13

\* It is a Boolean.
LEMMA KeepIsBoolean ==
    ASSUME NEW base \in BOOLEAN, IsSeq(list)
    PROVE  FoldLeft(KeepAfter, base, list) \in BOOLEAN
  <1>1. \A hd : Keeps(hd) \in BOOLEAN
    BY DEF Keeps
  <1>2. FoldLeft(KeepAfter, base, list) = IF Deciding = {} THEN base ELSE Keeps(list[Max(Deciding)])
    BY KeepIsLast
  <1> QED
    BY <1>1, <1>2

\* The smallest of a set of naturals that is not empty is in it, and there is one.
LEMMA MinIsMin ==
    ASSUME NEW T \in SUBSET Nat, T # {}
    PROVE  /\ Min(T) \in T /\ \A x \in T : Min(T) <= x
           /\ \A m \in T : (\A x \in T : m <= x) => m = Min(T)
  <1>1. PICK d \in T : \A y \in T : ~(<<y, d>> \in OpToRel(<, Nat))
    BY NatLessThanWellFounded, WFMin
  <1>2. \A y \in T : <<y, d>> \in OpToRel(<, Nat) <=> y < d
    BY DEF OpToRel
  <1>3. \A y \in T : ~(y < d)
    BY <1>1, <1>2, Zenon
  <1>4. \A y \in T : d <= y
    BY <1>3
  <1>5. Min(T) \in T /\ \A x \in T : Min(T) <= x
    BY <1>4 DEF Min
  <1>6. ASSUME NEW m \in T, \A x \in T : m <= x
        PROVE  m = Min(T)
    <2>1. m <= Min(T) /\ Min(T) <= m /\ m \in Nat /\ Min(T) \in Nat
      BY <1>5, <1>6
    <2> QED
      BY <2>1
  <1> QED
    BY <1>5, <1>6

\* p is r, or goes on with a slash behind it.
Continues(r, p) ==
    /\ Len(r) <= Len(p) /\ \A i \in 1..Len(r) : p[i] = r[i]
    /\ Len(p) # Len(r) => p[Len(r) + 1] = "/"

\* A segment of r ends in both at the same place.
LEMMA SameEnd ==
    ASSUME NEW r \in Seq(Byte), NEW p \in Seq(Byte), Continues(r, p), NEW a \in 1..Len(r)
    PROVE  /\ FirstIn(r, a, {"/"}) = FirstIn(p, a, {"/"})
           /\ FirstIn(r, a, {"/"}) \in Nat /\ FirstIn(r, a, {"/"}) - 1 <= Len(r)
  <1> DEFINE l == Len(r)
             h == Len(p)
             R == {i \in a..l : r[i] \in {"/"}} \cup {l + 1}
             P == {i \in a..h : p[i] \in {"/"}} \cup {h + 1}
             m == Min(R)
  <1>1. l \in Nat /\ h \in Nat /\ l <= h
    BY LenProperties DEF Continues
  <1> HIDE DEF l, h
  <1>2. R \in SUBSET Nat /\ R # {} /\ P \in SUBSET Nat /\ P # {}
    <2>1. a \in Nat
      BY DEF l
    <2> QED
      BY <1>1, <2>1
  <1>3. m \in R /\ \A x \in R : m <= x
    BY <1>2, MinIsMin
  <1> HIDE DEF m
  <1>4. m \in Nat /\ m <= l + 1 /\ l + 1 \in R
    BY <1>1, <1>2, <1>3
  <1>5. /\ \A i \in 1..l : p[i] = r[i]
        /\ h # l => p[l + 1] = "/"
        /\ a \in Nat /\ 1 <= a /\ a <= l
    BY <1>1 DEF Continues, l, h
  <1>6. m \in P
    <2>1. CASE m = l + 1
      <3>1. CASE h = l
        BY <2>1, <3>1
      <3>2. CASE h # l
        BY <1>1, <1>5, <2>1, <3>2
      <3> QED
        BY <3>1, <3>2
    <2>2. CASE m # l + 1
      <3>1. m \in a..l /\ r[m] = "/"
        BY <1>3, <2>2
      <3> QED
        BY <1>1, <1>5, <3>1
    <2> QED
      BY <2>1, <2>2
  <1>7. \A x \in P : m <= x
    <2> SUFFICES ASSUME NEW x \in P PROVE m <= x
      OBVIOUS
    <2>1. x \in Nat
      BY <1>2
    <2>2. CASE x <= l
      <3>1. x \in a..l /\ p[x] = "/"
        BY <1>1, <2>1, <2>2
      <3>2. x \in R
        BY <1>1, <1>5, <3>1
      <3> QED
        BY <1>3, <3>2
    <2>3. CASE ~(x <= l)
      BY <1>1, <1>4, <2>1, <2>3
    <2> QED
      BY <2>2, <2>3
  <1>8. m = Min(P)
    BY <1>2, <1>6, <1>7, MinIsMin
  <1>9. FirstIn(r, a, {"/"}) = m /\ FirstIn(p, a, {"/"}) = Min(P)
    BY DEF FirstIn, m, l, h
  <1> QED
    BY <1>1, <1>4, <1>8, <1>9 DEF l

\* is_path_under_root_real compares bytes; that is enough for the segments.
LEMMA UnderRootIsBelow ==
    ASSUME NEW r \in Seq(Byte), NEW p \in Seq(Byte),
           IsPrefix(r, p), Len(p) = Len(r) \/ p[Len(r) + 1] = "/"
    PROVE  Numbered(r) \subseteq Numbered(p)
  <1> DEFINE Starts(s) == {i \in 1..Len(s) : s[i] # "/" /\ (i = 1 \/ s[i - 1] = "/")}
             Seg(s, i) == SubSeq(s, i, FirstIn(s, i, {"/"}) - 1)
             Num(s, i) == Cardinality({j \in Starts(s) : j <= i})
  <1>1. Len(r) \in Nat /\ Len(p) \in Nat /\ Len(r) <= Len(p)
    BY LenProperties DEF IsPrefix
  <1>2. \A i \in 1..Len(r) : p[i] = r[i]
    <2> SUFFICES ASSUME NEW i \in 1..Len(r) PROVE p[i] = r[i]
      OBVIOUS
    <2>1. SubSeq(r, 1, Len(r)) = SubSeq(p, 1, Len(r))
      BY DEF IsPrefix
    <2>2. SubSeq(r, 1, Len(r))[i] = r[i]
      BY <1>1, SubSeqFull
    <2>3. SubSeq(p, 1, Len(r))[i] = p[i]
      <3>1. \A k \in 1..Len(r) : p[k] \in Byte
        BY <1>1, ElementOfSeq
      <3>2. \A k \in 1..(Len(r) - 1 + 1) : SubSeq(p, 1, Len(r))[k] = p[1 + k - 1]
        BY <1>1, <3>1, SubSeqProperties
      <3>3. i \in 1..(Len(r) - 1 + 1) /\ 1 + i - 1 = i
        BY <1>1
      <3> QED
        BY <3>2, <3>3
    <2> QED
      BY <2>1, <2>2, <2>3
  <1>3. Continues(r, p)
    BY <1>1, <1>2 DEF Continues
  <1>4. ASSUME NEW i \in Starts(r)
        PROVE  i \in Starts(p) /\ Num(r, i) = Num(p, i) /\ Seg(r, i) = Seg(p, i)
    <2>1. i \in 1..Len(r) /\ i \in Nat
      OBVIOUS
    <2>2. \A j \in 1..i : j \in Starts(r) <=> j \in Starts(p)
      <3> SUFFICES ASSUME NEW j \in 1..i PROVE j \in Starts(r) <=> j \in Starts(p)
        OBVIOUS
      <3>1. /\ j \in 1..Len(r) /\ j \in 1..Len(p) /\ r[j] = p[j]
            /\ j # 1 => r[j - 1] = p[j - 1]
        <4>1. j \in 1..Len(r) /\ (j # 1 => j - 1 \in 1..Len(r))
          BY <1>1, <2>1
        <4> QED
          BY <1>1, <1>2, <4>1
      <3> QED
        BY <3>1
    <2>3. {j \in Starts(r) : j <= i} = {j \in Starts(p) : j <= i}
      <3>1. \A j \in Starts(r) : j <= i => j \in 1..i
        BY <1>1, <2>1
      <3>2. \A j \in Starts(p) : j <= i => j \in 1..i
        BY <1>1, <2>1
      <3> HIDE DEF Starts
      <3> QED
        BY <2>2, <3>1, <3>2
    <2>4. i \in Starts(p)
      <3>1. i \in 1..i
        BY <2>1
      <3> HIDE DEF Starts
      <3> QED
        BY <2>2, <3>1
    <2>5. Seg(r, i) = Seg(p, i)
      <3> DEFINE e == FirstIn(r, i, {"/"})
      <3>1. e = FirstIn(p, i, {"/"}) /\ e \in Nat /\ e - 1 <= Len(r)
        BY <1>3, <2>1, SameEnd
      <3> HIDE DEF e
      <3>2. \A k \in i..(e - 1) : r[k] = p[k] /\ r[k] \in Byte
        <4>1. \A k \in i..(e - 1) : k \in 1..Len(r)
          BY <1>1, <2>1, <3>1
        <4> QED
          BY <1>2, <4>1, ElementOfSeq
      <3>3. SubSeq(r, i, e - 1) = SubSeq(p, i, e - 1)
        <4> DEFINE b == e - 1
                   x == SubSeq(r, i, b)
                   y == SubSeq(p, i, b)
        <4>1. i \in Int /\ b \in Int /\ \A k \in i..b : r[k] = p[k] /\ r[k] \in Byte /\ p[k] \in Byte
          BY <2>1, <3>1, <3>2, SMTT(40)
        <4> HIDE DEF b
        <4>2. /\ x \in Seq(Byte) /\ Len(x) = IF i <= b THEN b - i + 1 ELSE 0
              /\ \A k \in 1..(b - i + 1) : x[k] = r[i + k - 1]
          BY <4>1, SubSeqProperties
        <4>3. /\ y \in Seq(Byte) /\ Len(y) = IF i <= b THEN b - i + 1 ELSE 0
              /\ \A k \in 1..(b - i + 1) : y[k] = p[i + k - 1]
          BY <4>1, SubSeqProperties
        <4> HIDE DEF x, y
        <4>4. \A k \in 1..Len(x) : x[k] = y[k]
          <5> SUFFICES ASSUME NEW k \in 1..Len(x) PROVE x[k] = y[k]
            OBVIOUS
          <5>1. k \in 1..(b - i + 1) /\ i + k - 1 \in i..b
            BY <4>1, <4>2
          <5> QED
            BY <5>1, <4>1, <4>2, <4>3
        <4> QED
          BY <4>2, <4>3, <4>4, SeqEqual DEF x, y, b
      <3> QED
        BY <3>1, <3>3 DEF e
    <2> HIDE DEF Starts, Seg
    <2> QED
      BY <2>3, <2>4, <2>5
  <1>5. \A s : Numbered(s) = {<<Num(s, i), Seg(s, i)>> : i \in Starts(s)}
    BY DEF Numbered, SegStarts
  <1> HIDE DEF Starts, Seg, Num
  <1> QED
    BY <1>4, <1>5

-----------------------------------------------------------------------------
(* The inductive invariant.                                                *)

\* Types and ranges of everything but the response.
CoreOK ==
    /\ taken \in 0..Len(client.bytes)
    /\ pc \in {"wait", "top", "line", "hdr", "handle", "resolve", "file", "send", "closed", "cgi"}
    /\ armed \in {"in", "out", "none"} /\ after \in {"done", "close", "write"}
    /\ sw \in LineStates \cup HeaderStates
    /\ request_line_state \in LineStates /\ header_state \in HeaderStates
    /\ Len(buf) < MaxBuf /\ parse_pos \in 0..Len(buf) /\ parse_phase \in 0..2
    /\ pc \in {"line", "hdr"} => pi \in parse_pos..Len(buf)
    /\ method \in {"UNKNOWN", "GET", "POST", "HEAD"} /\ version \in [major : Nat, minor : Nat]
    /\ hfree \in 0..HdrMax /\ halloc \in Nat
    /\ keep_alive \in BOOLEAN /\ writing \in BOOLEAN

\* A response on its way: the counts do not pass what they count.
OutOK ==
    /\ out \in [hdr : Nat, hsent : Nat, body : Nat, bsent : Nat,
                fd : BOOLEAN, off : Nat, size : Nat, len : Nat]
    /\ out.hsent <= out.hdr /\ out.bsent <= out.body /\ out.off <= out.size

\* Which phase of the request every place in the handlers belongs to.  Behind a
\* blocked response the connection is kept only if the request is already gone
\* from the buffer.
InPhase ==
    /\ pc = "line" => parse_phase = 0 /\ sw \in LineStates
    /\ pc = "hdr" => parse_phase = 1 /\ sw \in HeaderStates
    /\ pc \in {"handle", "resolve", "file"} => parse_phase = 2
    /\ pc = "top" => parse_phase \in {0, 1}
    /\ pc = "wait" => armed \in {"in", "out"}
    /\ pc = "wait" /\ armed = "in" => parse_phase \in {0, 1}
    /\ pc = "wait" /\ armed = "out" /\ keep_alive => parse_phase = 0
    /\ pc = "send" /\ after = "done" => parse_phase = 2 /\ list = <<>>
    /\ pc = "send" /\ after = "close" => ~keep_alive
    /\ pc = "send" /\ after = "write" /\ keep_alive => parse_phase = 0

\* There is a response only while it is sent; a CGI path has no headers left.
Clean ==
    /\ ~(pc = "send" \/ (pc = "wait" /\ armed = "out")) => out = NoOut
    /\ pc \in {"resolve", "file"} /\ IsCgi(raw) => list = <<>>

\* The values and the sequences the steps compute with.
Shapes ==
    /\ client \in Clients /\ buf \in Seq(Byte) /\ Len(buf) <= taken
    /\ IsSeq(list) /\ IsSeq(reqs)
    /\ parse_phase = 2 => reqs # <<>>
    /\ \A k \in DOMAIN reqs : reqs[k].begin \in Int /\ reqs[k].end \in Int
    /\ IsSeq(answers)
    /\ \A k \in DOMAIN answers : {"status", "name", "short"} \subseteq DOMAIN answers[k]

Inv == CoreOK /\ OutOK /\ Shapes /\ InPhase /\ Clean /\ NothingLeaks /\ BufferIsStream /\ ServedUnderRoot
-----------------------------------------------------------------------------
(* Every step keeps the invariant.                                         *)

\* The headers are given back: what the cache does not take is freed.
LEMMA HeadersFreed ==
    ASSUME Inv, FreeHeaders
    PROVE  /\ list' = <<>> /\ IsSeq(list') /\ Len(list') = 0
           /\ HdrMax \in Nat /\ hfree' \in 0..HdrMax /\ halloc' = Len(list') + hfree' /\ halloc' \in Nat
  <1>1. Len(list) \in Nat /\ hfree \in 0..HdrMax /\ HdrMax \in Nat /\ halloc = Len(list) + hfree
    BY ExchangeAssumption, LenProperties DEF Inv, Shapes, CoreOK, NothingLeaks, IsSeq
  <1> DEFINE all == hfree + Len(list)
             cached == Min({HdrMax, all})
  <1>2. all \in Nat /\ cached = IF HdrMax <= all THEN HdrMax ELSE all
    BY <1>1, MinOfTwo
  <1>3. list' = <<>>
    BY DEF FreeHeaders
  <1>7. hfree' = cached /\ halloc' = halloc - (hfree + Len(list) - cached)
    BY DEF FreeHeaders
  <1> HIDE DEF cached
  <1>4. IsSeq(<<>>)
    BY DEF IsSeq
  <1>5. Len(<<>>) = 0
    OBVIOUS
  <1>6. hfree' \in 0..HdrMax /\ hfree' \in Nat /\ halloc' = hfree' /\ halloc' \in Nat
    <2>1. cached \in 0..HdrMax /\ cached \in Nat
      BY <1>1, <1>2
    <2>2. halloc - (hfree + Len(list) - cached) = cached
      BY <1>1, <2>1
    <2> QED
      BY <1>7, <2>1, <2>2
  <1>8. \A x \in Nat : x = 0 + x
    OBVIOUS
  <1> QED
    BY <1>1, <1>3, <1>4, <1>5, <1>6, <1>8, Zenon

\* Whatever closes the connection.
LEMMA CloseInv ==
    ASSUME Inv, NEW why, CloseConn(why)
    PROVE  Inv'
  <1>1. /\ FreeHeaders
        /\ pc' = "closed"
        /\ armed' = "none"
        /\ out' = NoOut
        /\ writing' = FALSE
        /\ UNCHANGED <<client, taken, sw, pi, request_line_state, method, version, header_state, buf,
                       parse_pos, parse_phase, keep_alive, after, reqs, answers, raw>>
    BY DEF CloseConn, reset_output, netVars, lineVars, hdrVars, bufVars, outVars, histVars, uriVars
  <1>2. HdrMax \in Nat /\ hfree' \in 0..HdrMax /\ halloc' \in Nat
    BY <1>1, HeadersFreed
  <1>4. halloc' = Len(list') + hfree'
    BY <1>1, HeadersFreed
  <1>3. list' = <<>> /\ IsSeq(list')
    BY <1>1, HeadersFreed
  <1>11. CoreOK'
    BY <1>1, <1>2, <1>3 DEF Inv, CoreOK
  <1>12. OutOK'
    BY <1>1, <1>2, <1>3 DEF Inv, OutOK, NoOut
  <1>13. Shapes'
    BY <1>1, <1>2, <1>3 DEF Inv, Shapes
  <1>14. InPhase'
    BY <1>1, <1>2, <1>3 DEF Inv, InPhase
  <1>15. Clean'
    BY <1>1, <1>2, <1>3 DEF Inv, Clean
  <1>16. NothingLeaks'
    <2>2. parse_phase' = 0 => list' = <<>>
      BY <1>3
    <2>3. pc' \in {"closed", "cgi"} => list' = <<>>
      BY <1>3
    <2>4. out' = NoOut'
      BY <1>1 DEF NoOut
    <2> QED
      BY <1>4, <2>2, <2>3, <2>4 DEF NothingLeaks
  <1>17. BufferIsStream'
    BY <1>1, <1>2, <1>3 DEF Inv, BufferIsStream, Base
  <1>18. ServedUnderRoot'
    BY <1>1, <1>2, <1>3 DEF Inv, ServedUnderRoot
  <1> QED
    BY <1>11, <1>12, <1>13, <1>14, <1>15, <1>16, <1>17, <1>18 DEF Inv

\* The lengths are numbers, the stream is a sequence of bytes.
LEMMA Sizes ==
    ASSUME Inv
    PROVE  /\ client.bytes \in Seq(Byte) /\ Len(client.bytes) \in Nat /\ buf \in Seq(Byte) /\ Len(buf) \in Nat
           /\ taken \in Nat /\ taken <= Len(client.bytes) /\ Len(buf) <= taken
           /\ MaxBuf \in Nat /\ HdrMax \in Nat /\ Len(buf) < MaxBuf
           /\ parse_pos \in Nat /\ parse_pos <= Len(buf) /\ parse_phase \in 0..2
           /\ pc \in {"line", "hdr"} => pi \in Nat /\ parse_pos <= pi /\ pi <= Len(buf)
           /\ Base \in Nat
  <1>1. client.bytes \in Seq(Byte) /\ MaxBuf \in Nat /\ HdrMax \in Nat
    BY ExchangeAssumption DEF Inv, Shapes
  <1>2. buf \in Seq(Byte) /\ Len(buf) <= taken
    BY DEF Inv, Shapes
  <1>3. Len(client.bytes) \in Nat /\ Len(buf) \in Nat
    BY <1>1, <1>2, LenProperties
  <1>4. /\ taken \in Nat /\ taken <= Len(client.bytes) /\ Len(buf) < MaxBuf
        /\ parse_pos \in Nat /\ parse_pos <= Len(buf) /\ parse_phase \in 0..2
    BY <1>3 DEF Inv, CoreOK
  <1>5. pc \in {"line", "hdr"} => pi \in Nat /\ parse_pos <= pi /\ pi <= Len(buf)
    BY <1>3, <1>4 DEF Inv, CoreOK
  <1>6. Base \in Nat
    BY <1>2, <1>3, <1>4 DEF Base
  <1> QED
    BY <1>1, <1>2, <1>3, <1>4, <1>5, <1>6

\* do_request is called.
LEMMA InputEventInv ==
    ASSUME Inv, InputEvent
    PROVE  Inv'
  <1>1. /\ pc = "wait" /\ armed = "in"
        /\ pc' = "top"
        /\ armed' = "none"
        /\ UNCHANGED <<client, taken, sw, pi, request_line_state, method, version, header_state,
                       list, hfree, halloc, buf, parse_pos, parse_phase, out, keep_alive, writing,
                       after, reqs, answers, raw>>
    BY DEF InputEvent, netVars, lineVars, hdrVars, bufVars, outVars, histVars, uriVars
  <1>11. CoreOK'
    BY <1>1 DEF Inv, CoreOK
  <1>12. OutOK'
    BY <1>1 DEF Inv, OutOK
  <1>13. Shapes'
    BY <1>1 DEF Inv, Shapes
  <1>14. InPhase'
    BY <1>1 DEF Inv, InPhase
  <1>15. Clean'
    BY <1>1 DEF Inv, Clean
  <1>16. NothingLeaks'
    BY <1>1 DEF Inv, NothingLeaks
  <1>17. BufferIsStream'
    BY <1>1 DEF Inv, BufferIsStream, Base
  <1>18. ServedUnderRoot'
    BY <1>1 DEF Inv, ServedUnderRoot
  <1> QED
    BY <1>11, <1>12, <1>13, <1>14, <1>15, <1>16, <1>17, <1>18 DEF Inv

\* On with bytes that are there.
LEMMA ResumeInv ==
    ASSUME Inv, Resume
    PROVE  Inv'
  <1>1. /\ pc = "top"
        /\ pc' = IF parse_phase = 0 THEN "line" ELSE "hdr"
        /\ sw' = IF parse_phase = 0 THEN request_line_state ELSE header_state
        /\ pi' = parse_pos
        /\ UNCHANGED <<client, taken, armed, request_line_state, method, version, header_state, list,
                       hfree, halloc, buf, parse_pos, parse_phase, out, keep_alive, writing, after,
                       reqs, answers, raw>>
    BY DEF Resume, EnterParser, netVars, lineVars, hdrVars, bufVars, outVars, histVars, uriVars
  <1>2. Len(buf) \in Nat /\ parse_pos \in Nat /\ parse_pos <= Len(buf)
    BY Sizes
  <1>3. parse_phase \in {0, 1}
    BY <1>1 DEF Inv, InPhase
  <1>11. CoreOK'
    BY <1>1, <1>2, <1>3 DEF Inv, CoreOK
  <1>12. OutOK'
    BY <1>1, <1>2, <1>3 DEF Inv, OutOK
  <1>13. Shapes'
    BY <1>1, <1>2, <1>3 DEF Inv, Shapes
  <1>14. InPhase'
    <2>1. request_line_state \in LineStates /\ header_state \in HeaderStates
      BY DEF Inv, CoreOK
    <2> QED
      BY <1>1, <1>3, <2>1 DEF InPhase
  <1>15. Clean'
    BY <1>1, <1>2, <1>3 DEF Inv, Clean
  <1>16. NothingLeaks'
    BY <1>1, <1>2, <1>3 DEF Inv, NothingLeaks
  <1>17. BufferIsStream'
    BY <1>1, <1>2, <1>3 DEF Inv, BufferIsStream, Base
  <1>18. ServedUnderRoot'
    BY <1>1, <1>2, <1>3 DEF Inv, ServedUnderRoot
  <1> QED
    BY <1>11, <1>12, <1>13, <1>14, <1>15, <1>16, <1>17, <1>18 DEF Inv

\* Nothing to read.
LEMMA ReadAgainInv ==
    ASSUME Inv, ReadAgain
    PROVE  Inv'
  <1>1. /\ pc = "top"
        /\ pc' = "wait"
        /\ armed' = "in"
        /\ UNCHANGED <<client, taken, sw, pi, request_line_state, method, version, header_state,
                       list, hfree, halloc, buf, parse_pos, parse_phase, out, keep_alive, writing,
                       after, reqs, answers, raw>>
    BY DEF ReadAgain, Return, netVars, lineVars, hdrVars, bufVars, outVars, histVars, uriVars
  <1>11. CoreOK'
    BY <1>1 DEF Inv, CoreOK
  <1>12. OutOK'
    BY <1>1 DEF Inv, OutOK
  <1>13. Shapes'
    BY <1>1 DEF Inv, Shapes
  <1>14. InPhase'
    BY <1>1 DEF Inv, InPhase
  <1>15. Clean'
    BY <1>1 DEF Inv, Clean
  <1>16. NothingLeaks'
    BY <1>1 DEF Inv, NothingLeaks
  <1>17. BufferIsStream'
    BY <1>1 DEF Inv, BufferIsStream, Base
  <1>18. ServedUnderRoot'
    BY <1>1 DEF Inv, ServedUnderRoot
  <1> QED
    BY <1>11, <1>12, <1>13, <1>14, <1>15, <1>16, <1>17, <1>18 DEF Inv

\* Bytes are read: the next of the stream, behind those that are there.
LEMMA ReadInv ==
    ASSUME Inv, NEW n \in 1..(Len(client.bytes) - taken), Read(n)
    PROVE  Inv'
  <1>1. /\ pc = "top" /\ n <= MaxBuf - 1 - Len(buf)
        /\ pc' = IF parse_phase = 0 THEN "line" ELSE "hdr"
        /\ sw' = IF parse_phase = 0 THEN request_line_state ELSE header_state
        /\ pi' = parse_pos
        /\ taken' = taken + n
        /\ buf' = buf \o SubSeq(client.bytes, taken + 1, taken + n)
        /\ UNCHANGED <<client, armed, request_line_state, method, version, header_state, list, hfree,
                       halloc, parse_pos, parse_phase, out, keep_alive, writing, after, reqs,
                       answers, raw>>
    BY DEF Read, EnterParser, netVars, lineVars, hdrVars, bufVars, outVars, histVars, uriVars
  <1>2. /\ client.bytes \in Seq(Byte) /\ Len(client.bytes) \in Nat /\ buf \in Seq(Byte) /\ Len(buf) \in Nat
        /\ taken \in Nat /\ Len(buf) <= taken /\ MaxBuf \in Nat /\ parse_pos \in Nat /\ parse_pos <= Len(buf)
    BY Sizes
  <1>3. n \in Nat /\ n >= 1 /\ taken + n <= Len(client.bytes)
    BY <1>2
  <1>4. parse_phase \in {0, 1}
    BY <1>1 DEF Inv, InPhase
  <1>5. buf = SubSeq(client.bytes, Base + 1, taken) /\ Base \in Nat /\ Base = taken - Len(buf)
    BY Sizes, SMTT(40) DEF Inv, BufferIsStream, Base
  <1>6. buf' = SubSeq(client.bytes, Base + 1, taken + n)
    <2> DEFINE m == Base + 1
               z == taken + n
               l == Len(client.bytes)
    <2>0. /\ Base \in Nat /\ taken \in Nat /\ n \in Nat /\ l \in Nat /\ Base <= taken /\ taken + n <= l
      BY <1>2, <1>3, <1>5
    <2> HIDE DEF l
    <2>1. m \in 1..(l + 1) /\ taken \in (m - 1)..l /\ z \in taken..l
      BY <2>0
    <2> HIDE DEF m, z
    <2>2. SubSeq(client.bytes, m, taken) \o SubSeq(client.bytes, taken + 1, z) = SubSeq(client.bytes, m, z)
      BY <1>2, <2>1, ConcatAdjacentSubSeq DEF l
    <2> QED
      BY <1>1, <1>5, <2>2 DEF m, z
  <1>7. buf' \in Seq(Byte) /\ Len(buf') = Len(buf) + n
    <2> DEFINE m == Base + 1
               z == taken + n
    <2>1. m \in Int /\ z \in Int /\ m <= z /\ z - m + 1 = Len(buf) + n
      BY <1>2, <1>3, <1>5
    <2>2. \A i \in m..z : client.bytes[i] \in Byte
      <3>1. \A i \in m..z : i \in 1..Len(client.bytes)
        BY <1>2, <1>3, <1>5
      <3> QED
        BY <1>2, <3>1, ElementOfSeq
    <2> HIDE DEF m, z
    <2>3. /\ SubSeq(client.bytes, m, z) \in Seq(Byte)
          /\ Len(SubSeq(client.bytes, m, z)) = IF m <= z THEN z - m + 1 ELSE 0
      BY <2>1, <2>2, SubSeqProperties
    <2> QED
      BY <1>6, <2>1, <2>3 DEF m, z
  <1>11. CoreOK'
    <2>1. taken' \in 0..Len(client'.bytes) /\ Len(buf') < MaxBuf /\ parse_pos' \in 0..Len(buf')
      BY <1>1, <1>2, <1>3, <1>7
    <2>2. pi' \in parse_pos'..Len(buf')
      BY <1>1, <1>2, <1>3, <1>7
    <2>3. /\ pc' \in {"line", "hdr"} /\ sw' \in LineStates \cup HeaderStates
      BY <1>1 DEF Inv, CoreOK
    <2> QED
      BY <1>1, <2>1, <2>2, <2>3 DEF Inv, CoreOK
  <1>12. OutOK'
    BY <1>1 DEF Inv, OutOK
  <1>13. Shapes'
    <2>1. Len(buf') <= taken'
      BY <1>1, <1>2, <1>3, <1>7
    <2> QED
      BY <1>1, <1>7, <2>1 DEF Inv, Shapes
  <1>14. InPhase'
    <2>1. request_line_state \in LineStates /\ header_state \in HeaderStates
      BY DEF Inv, CoreOK
    <2> QED
      BY <1>1, <1>4, <2>1 DEF InPhase
  <1>15. Clean'
    BY <1>1 DEF Inv, Clean
  <1>16. NothingLeaks'
    BY <1>1 DEF Inv, NothingLeaks
  <1>17. BufferIsStream'
    <2>1. Base' = Base
      BY <1>1, <1>2, <1>3, <1>5, <1>7 DEF Base
    <2>2. buf' = SubSeq(client'.bytes, Base' + 1, taken')
      BY <1>1, <1>6, <2>1
    <2> QED
      BY <1>1, <2>1, <2>2 DEF Inv, BufferIsStream
  <1>18. ServedUnderRoot'
    BY <1>1 DEF Inv, ServedUnderRoot
  <1> QED
    BY <1>11, <1>12, <1>13, <1>14, <1>15, <1>16, <1>17, <1>18 DEF Inv

\* The states a byte leads to.
LEMMA NextLine == \A q \in NextState(LineRules) : q = "done" \/ q \in LineStates
  BY LineTable DEF NextState

\* The same of the headers.
LEMMA NextHeader == \A q \in NextState(HeaderRules) : q = "done" \/ q \in HeaderStates
  BY HeaderTable DEF NextState

\* The version stays a pair of numbers: where the parser takes the value of a
\* byte, the table has only let digits pass.
LEMMA VersionTyped ==
    ASSUME version \in [major : Nat, minor : Nat], NextState(LineRules) # {}
    PROVE  Version \in [major : Nat, minor : Nat]
  <1>1. PICK rule \in LineRules : rule[1] = sw /\ Ch \in rule[2]
    BY DEF NextState
  <1>2. sw \in {"first_major_digit", "first_minor_digit"} => Ch \in Digit
    BY <1>1, FirstDigits
  <1>3. CASE sw = "first_major_digit"
    <2>1. Version = [version EXCEPT !.major = DigitVal[Ch]]
      BY <1>3 DEF Version
    <2> QED
      BY <1>2, <1>3, <2>1, DigitIsNat
  <1>4. CASE sw = "major_digit"
    <2>1. CASE Ch \in Digit
      <3>1. Version = [version EXCEPT !.major = 10 * @ + DigitVal[Ch]]
        BY <1>4, <2>1 DEF Version
      <3>2. version.major \in Nat /\ DigitVal[Ch] \in Nat
        BY <2>1, DigitIsNat
      <3>3. 10 * version.major + DigitVal[Ch] \in Nat
        BY <3>2
      <3> QED
        BY <3>1, <3>3
    <2>2. CASE Ch \notin Digit
      BY <1>4, <2>2 DEF Version
    <2> QED
      BY <2>1, <2>2
  <1>5. CASE sw = "first_minor_digit"
    <2>1. Version = [version EXCEPT !.minor = DigitVal[Ch]]
      BY <1>5 DEF Version
    <2> QED
      BY <1>2, <1>5, <2>1, DigitIsNat
  <1>6. CASE sw = "minor_digit"
    <2>1. CASE Ch \in Digit
      <3>1. Version = [version EXCEPT !.minor = 10 * @ + DigitVal[Ch]]
        BY <1>6, <2>1 DEF Version
      <3>2. version.minor \in Nat /\ DigitVal[Ch] \in Nat
        BY <2>1, DigitIsNat
      <3>3. 10 * version.minor + DigitVal[Ch] \in Nat
        BY <3>2
      <3> QED
        BY <3>1, <3>3
    <2>2. CASE Ch \notin Digit
      BY <1>6, <2>2 DEF Version
    <2> QED
      BY <2>1, <2>2
  <1>7. CASE sw \notin {"first_major_digit", "major_digit", "first_minor_digit", "minor_digit"}
    BY <1>7 DEF Version
  <1> QED
    BY <1>3, <1>4, <1>5, <1>6, <1>7

\* The method is one of the names the parser knows.
LEMMA MethodTyped ==
    ASSUME NEW word, NEW old \in {"UNKNOWN", "GET", "POST", "HEAD"}
    PROVE  MethodOf(word, old) \in {"UNKNOWN", "GET", "POST", "HEAD"}
  BY DEF MethodOf

\* A byte of the request line.
LEMMA LineByteInv ==
    ASSUME Inv, LineByte
    PROVE  Inv'
  <1>1. /\ pc = "line" /\ pi < Len(buf)
        /\ sw' \in NextState(LineRules) /\ sw' # "done"
        /\ pi' = pi + 1
        /\ version' = Version
        /\ method' = IF sw = "method" /\ Ch = SP THEN MethodOf(Text(ptr.request_start, pi + 1), method)
                   ELSE method
        /\ UNCHANGED <<client, taken, pc, armed, request_line_state, header_state, list, hfree,
                       halloc, buf, parse_pos, parse_phase, out, keep_alive, writing, after, reqs,
                       answers, raw>>
    BY DEF LineByte, InBuf, netVars, lineVars, hdrVars, bufVars, outVars, histVars, uriVars
  <1>2. /\ Len(buf) \in Nat /\ pi \in Nat /\ parse_pos \in Nat /\ parse_pos <= pi /\ pi <= Len(buf)
        /\ taken \in Nat /\ Len(buf) <= taken
    BY <1>1, Sizes
  <1>3. sw' \in LineStates
    BY <1>1, NextLine
  <1>4. version' \in [major : Nat, minor : Nat]
    BY <1>1, VersionTyped DEF Inv, CoreOK
  <1>5. method' \in {"UNKNOWN", "GET", "POST", "HEAD"}
    <2>1. method \in {"UNKNOWN", "GET", "POST", "HEAD"}
      BY DEF Inv, CoreOK
    <2> QED
      BY <1>1, <2>1, MethodTyped
  <1>11. CoreOK'
    <2>1. pi' \in parse_pos'..Len(buf') /\ parse_pos' \in 0..Len(buf')
      BY <1>1, <1>2
    <2> QED
      BY <1>1, <2>1, <1>3, <1>4, <1>5 DEF Inv, CoreOK
  <1>12. OutOK'
    BY <1>1 DEF Inv, OutOK
  <1>13. Shapes'
    BY <1>1 DEF Inv, Shapes
  <1>14. InPhase'
    BY <1>1, <1>3 DEF Inv, InPhase
  <1>15. Clean'
    BY <1>1 DEF Inv, Clean
  <1>16. NothingLeaks'
    BY <1>1 DEF Inv, NothingLeaks
  <1>17. BufferIsStream'
    BY <1>1 DEF Inv, BufferIsStream, Base
  <1>18. ServedUnderRoot'
    BY <1>1 DEF Inv, ServedUnderRoot
  <1> QED
    BY <1>11, <1>12, <1>13, <1>14, <1>15, <1>16, <1>17, <1>18 DEF Inv

\* The request line is complete.
LEMMA LineDoneInv ==
    ASSUME Inv, LineDone
    PROVE  Inv'
  <1>1. /\ pc = "line" /\ pi < Len(buf)
        /\ sw' = header_state
        /\ pi' = pi + 1
        /\ parse_pos' = pi + 1
        /\ parse_phase' = 1
        /\ request_line_state' = "start"
        /\ pc' = "hdr"
        /\ UNCHANGED <<client, taken, armed, method, version, header_state, list, hfree, halloc, buf,
                       out, keep_alive, writing, after, reqs, answers, raw>>
    BY DEF LineDone, InBuf, netVars, lineVars, hdrVars, bufVars, outVars, histVars, uriVars
  <1>2. /\ Len(buf) \in Nat /\ pi \in Nat /\ parse_pos \in Nat /\ parse_pos <= pi /\ pi <= Len(buf)
        /\ taken \in Nat /\ Len(buf) <= taken
    BY <1>1, Sizes
  <1>3. parse_phase = 0 /\ header_state \in HeaderStates /\ "start" \in LineStates
    BY <1>1, LineTable DEF Inv, InPhase, CoreOK
  <1>11. CoreOK'
    <2>1. pi' \in parse_pos'..Len(buf') /\ parse_pos' \in 0..Len(buf')
      BY <1>1, <1>2
    <2> QED
      BY <1>1, <2>1, <1>3 DEF Inv, CoreOK
  <1>12. OutOK'
    BY <1>1 DEF Inv, OutOK
  <1>13. Shapes'
    BY <1>1, <1>3 DEF Inv, Shapes
  <1>14. InPhase'
    BY <1>1, <1>3 DEF Inv, InPhase
  <1>15. Clean'
    BY <1>1 DEF Inv, Clean
  <1>16. NothingLeaks'
    BY <1>1, <1>3 DEF Inv, NothingLeaks
  <1>17. BufferIsStream'
    BY <1>1, <1>3 DEF Inv, BufferIsStream, Base
  <1>18. ServedUnderRoot'
    BY <1>1 DEF Inv, ServedUnderRoot
  <1> QED
    BY <1>11, <1>12, <1>13, <1>14, <1>15, <1>16, <1>17, <1>18 DEF Inv

\* The buffer ends within the request line.
LEMMA LineAgainInv ==
    ASSUME Inv, LineAgain
    PROVE  Inv'
  <1>1. /\ pc = "line"
        /\ parse_pos' = pi
        /\ request_line_state' = sw
        /\ pc' = "top"
        /\ UNCHANGED <<client, taken, armed, sw, pi, method, version, header_state, list, hfree,
                       halloc, buf, parse_phase, out, keep_alive, writing, after, reqs, answers, raw>>
    BY DEF LineAgain, netVars, lineVars, hdrVars, bufVars, outVars, histVars, uriVars
  <1>2. /\ Len(buf) \in Nat /\ pi \in Nat /\ parse_pos \in Nat /\ parse_pos <= pi /\ pi <= Len(buf)
        /\ taken \in Nat /\ Len(buf) <= taken
    BY <1>1, Sizes
  <1>3. parse_phase = 0 /\ sw \in LineStates
    BY <1>1 DEF Inv, InPhase
  <1>11. CoreOK'
    <2>1. parse_pos' \in 0..Len(buf')
      BY <1>1, <1>2
    <2> QED
      BY <1>1, <2>1, <1>3 DEF Inv, CoreOK
  <1>12. OutOK'
    BY <1>1 DEF Inv, OutOK
  <1>13. Shapes'
    BY <1>1 DEF Inv, Shapes
  <1>14. InPhase'
    BY <1>1, <1>3 DEF Inv, InPhase
  <1>15. Clean'
    BY <1>1 DEF Inv, Clean
  <1>16. NothingLeaks'
    BY <1>1 DEF Inv, NothingLeaks
  <1>17. BufferIsStream'
    BY <1>1, <1>3 DEF Inv, BufferIsStream, Base
  <1>18. ServedUnderRoot'
    BY <1>1 DEF Inv, ServedUnderRoot
  <1> QED
    BY <1>11, <1>12, <1>13, <1>14, <1>15, <1>16, <1>17, <1>18 DEF Inv

\* The buffer ends within the headers.
LEMMA HdrAgainInv ==
    ASSUME Inv, HdrAgain
    PROVE  Inv'
  <1>1. /\ pc = "hdr"
        /\ parse_pos' = pi
        /\ header_state' = sw
        /\ pc' = "top"
        /\ UNCHANGED <<client, taken, armed, sw, pi, request_line_state, method, version, list,
                       hfree, halloc, buf, parse_phase, out, keep_alive, writing, after, reqs,
                       answers, raw>>
    BY DEF HdrAgain, netVars, lineVars, hdrVars, bufVars, outVars, histVars, uriVars
  <1>2. /\ Len(buf) \in Nat /\ pi \in Nat /\ parse_pos \in Nat /\ parse_pos <= pi /\ pi <= Len(buf)
        /\ taken \in Nat /\ Len(buf) <= taken
    BY <1>1, Sizes
  <1>3. parse_phase = 1 /\ sw \in HeaderStates
    BY <1>1 DEF Inv, InPhase
  <1>11. CoreOK'
    <2>1. parse_pos' \in 0..Len(buf')
      BY <1>1, <1>2
    <2> QED
      BY <1>1, <2>1, <1>3 DEF Inv, CoreOK
  <1>12. OutOK'
    BY <1>1 DEF Inv, OutOK
  <1>13. Shapes'
    BY <1>1 DEF Inv, Shapes
  <1>14. InPhase'
    BY <1>1, <1>3 DEF Inv, InPhase
  <1>15. Clean'
    BY <1>1 DEF Inv, Clean
  <1>16. NothingLeaks'
    BY <1>1 DEF Inv, NothingLeaks
  <1>17. BufferIsStream'
    BY <1>1, <1>3 DEF Inv, BufferIsStream, Base
  <1>18. ServedUnderRoot'
    BY <1>1 DEF Inv, ServedUnderRoot
  <1> QED
    BY <1>11, <1>12, <1>13, <1>14, <1>15, <1>16, <1>17, <1>18 DEF Inv

\* A byte of a header; the end of its line takes a node for it.
LEMMA HdrByteInv ==
    ASSUME Inv, HdrByte
    PROVE  Inv'
  <1>1. /\ pc = "hdr" /\ pi < Len(buf)
        /\ sw' \in NextState(HeaderRules) /\ sw' # "done"
        /\ IF sw = "cr" THEN list' = <<cur>> \o list /\ zv_http_header_alloc ELSE UNCHANGED <<list, hfree, halloc>>
        /\ pi' = pi + 1
        /\ UNCHANGED <<client, taken, pc, armed, request_line_state, method, version, header_state,
                       buf, parse_pos, parse_phase, out, keep_alive, writing, after, reqs, answers,
                       raw>>
    BY DEF HdrByte, InBuf, netVars, lineVars, hdrVars, bufVars, outVars, histVars, uriVars
  <1>2. /\ Len(buf) \in Nat /\ pi \in Nat /\ parse_pos \in Nat /\ parse_pos <= pi /\ pi <= Len(buf)
        /\ taken \in Nat /\ Len(buf) <= taken
    BY <1>1, Sizes
  <1>3. sw' \in HeaderStates
    BY <1>1, NextHeader
  <1>4. parse_phase = 1
    BY <1>1 DEF Inv, InPhase
  <1>5. /\ HdrMax \in Nat /\ hfree \in 0..HdrMax /\ halloc \in Nat /\ IsSeq(list) /\ Len(list) \in Nat
        /\ halloc = Len(list) + hfree
    BY Sizes, LenProperties DEF Inv, CoreOK, Shapes, NothingLeaks, IsSeq
  <1>6. IsSeq(list') /\ hfree' \in 0..HdrMax /\ halloc' \in Nat /\ halloc' = Len(list') + hfree'
    <2>1. CASE sw = "cr"
      <3>1. IsSeq(list') /\ Len(list') = Len(list) + 1
        BY <1>1, <1>5, <2>1, ConsAny
      <3>2. CASE hfree > 0
        <4>1. hfree' = hfree - 1 /\ halloc' = halloc
          BY <1>1, <2>1, <3>2 DEF zv_http_header_alloc
        <4> QED
          BY <1>5, <3>1, <3>2, <4>1
      <3>3. CASE ~(hfree > 0)
        <4>1. hfree' = 0 /\ halloc' = halloc + 1
          BY <1>1, <2>1, <3>3 DEF zv_http_header_alloc
        <4> QED
          BY <1>5, <3>1, <3>3, <4>1
      <3> QED
        BY <3>2, <3>3
    <2>2. CASE sw # "cr"
      BY <1>1, <1>5, <2>2
    <2> QED
      BY <2>1, <2>2
  <1>11. CoreOK'
    <2>1. pi' \in parse_pos'..Len(buf') /\ parse_pos' \in 0..Len(buf')
      BY <1>1, <1>2
    <2> QED
      BY <1>1, <2>1, <1>3, <1>6 DEF Inv, CoreOK
  <1>12. OutOK'
    BY <1>1 DEF Inv, OutOK
  <1>13. Shapes'
    BY <1>1, <1>6 DEF Inv, Shapes
  <1>14. InPhase'
    BY <1>1, <1>3 DEF Inv, InPhase
  <1>15. Clean'
    BY <1>1 DEF Inv, Clean
  <1>16. NothingLeaks'
    BY <1>1, <1>4, <1>6 DEF Inv, NothingLeaks
  <1>17. BufferIsStream'
    BY <1>1 DEF Inv, BufferIsStream, Base
  <1>18. ServedUnderRoot'
    BY <1>1 DEF Inv, ServedUnderRoot
  <1> QED
    BY <1>11, <1>12, <1>13, <1>14, <1>15, <1>16, <1>17, <1>18 DEF Inv

\* The empty line: the request is complete, from the start of the buffer to here.
LEMMA HdrDoneInv ==
    ASSUME Inv, HdrDone
    PROVE  Inv'
  <1>1. /\ pc = "hdr" /\ pi < Len(buf)
        /\ parse_pos' = pi + 1
        /\ parse_phase' = 2
        /\ header_state' = "start"
        /\ pc' = "handle"
        /\ UNCHANGED <<client, taken, armed, sw, pi, request_line_state, method, version, list,
                       hfree, halloc, buf, out, keep_alive, writing, after, answers, raw>>
    BY DEF HdrDone, InBuf, Base, netVars, lineVars, hdrVars, bufVars, outVars, histVars, uriVars
  <1>2. /\ Len(buf) \in Nat /\ pi \in Nat /\ parse_pos \in Nat /\ parse_pos <= pi /\ pi <= Len(buf)
        /\ taken \in Nat /\ Len(buf) <= taken
    BY <1>1, Sizes
  <1>3. parse_phase = 1 /\ "start" \in HeaderStates
    BY <1>1, HeaderTable DEF Inv, InPhase
  <1> DEFINE q == [begin   |-> taken - Len(buf), end |-> taken - Len(buf) + pi + 1,
                   method  |-> Text(ptr.request_start, ptr.method_end), uri |-> Uri,
                   v11     |-> version.major > 1 \/ version.minor >= 1,
                   headers |-> Reverse([k \in DOMAIN list |->
                                 [key |-> Text(list[k].ks, list[k].ke),
                                  val |-> Text(list[k].vs, list[k].ve)]])]
  <1>4. q.begin = Base /\ q.end = Base + pi + 1 /\ reqs' = Append(reqs, q)
    <2>1. reqs' = Append(reqs, q)
      BY DEF HdrDone
    <2>2. q.begin = Base /\ q.end = Base + pi + 1
      BY DEF Base
    <2> QED
      BY <2>1, <2>2
  <1> HIDE DEF q
  <1>5. /\ Len(reqs) \in Nat /\ DOMAIN reqs = 1..Len(reqs)
        /\ IsSeq(reqs') /\ Len(reqs') = Len(reqs) + 1 /\ reqs' # <<>>
        /\ \A k \in 1..Len(reqs) : reqs'[k] = reqs[k]
        /\ reqs'[Len(reqs) + 1] = q
    BY <1>4, AppendAny DEF Inv, Shapes
  <1>6. DOMAIN reqs' = 1..(Len(reqs) + 1)
    BY <1>5, AppendAny
  <1>7. Base \in Nat
    BY Sizes
  <1>8. \A k \in DOMAIN reqs' : k = Len(reqs) + 1 \/ k \in DOMAIN reqs
    BY <1>5, <1>6
  <1>11. CoreOK'
    <2>1. parse_pos' \in 0..Len(buf')
      BY <1>1, <1>2
    <2> QED
      BY <1>1, <2>1, <1>3 DEF Inv, CoreOK
  <1>12. OutOK'
    BY <1>1 DEF Inv, OutOK
  <1>13. Shapes'
    <2>1. \A k \in DOMAIN reqs' : reqs'[k].begin \in Int /\ reqs'[k].end \in Int
      <3>1. q.begin \in Int /\ q.end \in Int
        BY <1>2, <1>4, <1>7
      <3>2. \A k \in DOMAIN reqs : reqs[k].begin \in Int /\ reqs[k].end \in Int
        BY DEF Inv, Shapes
      <3> QED
        BY <1>5, <1>8, <3>1, <3>2
    <2> QED
      BY <1>1, <1>5, <2>1 DEF Inv, Shapes
  <1>14. InPhase'
    BY <1>1, <1>3 DEF Inv, InPhase
  <1>15. Clean'
    BY <1>1 DEF Inv, Clean
  <1>16. NothingLeaks'
    BY <1>1, <1>3 DEF Inv, NothingLeaks
  <1>17. BufferIsStream'
    <2>1. Base' = Base
      BY <1>1 DEF Base
    <2>2. buf' = SubSeq(client'.bytes, Base' + 1, taken')
      BY <1>1, <2>1 DEF Inv, BufferIsStream
    <2>3. Base = IF reqs = <<>> THEN 0 ELSE reqs[Len(reqs)].end
      BY <1>3 DEF Inv, BufferIsStream, Last
    <2>4. reqs = <<>> <=> Len(reqs) = 0
      BY <1>5, EmptySeq DEF Inv, Shapes, IsSeq
    <2>5. \A k \in DOMAIN reqs' : reqs'[k].begin = IF k = 1 THEN 0 ELSE reqs'[k - 1].end
      <3> SUFFICES ASSUME NEW k \in DOMAIN reqs'
                   PROVE  reqs'[k].begin = IF k = 1 THEN 0 ELSE reqs'[k - 1].end
        OBVIOUS
      <3>1. CASE k \in DOMAIN reqs
        <4>1. reqs[k].begin = IF k = 1 THEN 0 ELSE reqs[k - 1].end
          BY <3>1 DEF Inv, BufferIsStream
        <4>2. k \in 1..Len(reqs) /\ (k # 1 => k - 1 \in 1..Len(reqs))
          BY <1>5, <3>1
        <4> QED
          BY <1>5, <4>1, <4>2
      <3>2. CASE k = Len(reqs) + 1
        <4>1. reqs'[k].begin = Base
          BY <1>4, <1>5, <3>2
        <4>2. k # 1 => k - 1 = Len(reqs) /\ Len(reqs) \in 1..Len(reqs)
          BY <1>5, <3>2
        <4>3. k # 1 => reqs'[k - 1] = reqs[Len(reqs)] /\ reqs # <<>>
          BY <1>5, <2>4, <4>2
        <4>4. k = 1 => reqs = <<>>
          BY <1>5, <2>4, <3>2
        <4> QED
          BY <2>3, <4>1, <4>3, <4>4
      <3> QED
        BY <1>8, <3>1, <3>2
    <2>6. Base' = Last(reqs').begin /\ Base' + parse_pos' = Last(reqs').end
      <3>1. Last(reqs') = q
        BY <1>5 DEF Last
      <3>2. Base + (pi + 1) = Base + pi + 1
        BY <1>2, <1>7
      <3> QED
        BY <1>1, <1>4, <2>1, <3>1, <3>2
    <2> QED
      BY <1>1, <2>2, <2>5, <2>6 DEF BufferIsStream
  <1>18. ServedUnderRoot'
    BY <1>1 DEF Inv, ServedUnderRoot
  <1> QED
    BY <1>11, <1>12, <1>13, <1>14, <1>15, <1>16, <1>17, <1>18 DEF Inv

\* The nodes are accounted for behind a step, as NothingLeaks has it.
HeadersOK == /\ IsSeq(list) /\ hfree \in 0..HdrMax /\ halloc \in Nat
             /\ halloc = Len(list) + hfree

\* They are if the headers are kept or freed.
LEMMA HeadersStay ==
    ASSUME Inv, FreeHeaders \/ KeepHeaders
    PROVE  HeadersOK'
  <1>1. CASE FreeHeaders
    BY <1>1, HeadersFreed, Zenon DEF HeadersOK
  <1>2. CASE KeepHeaders
    <2>1. HeadersOK
      BY DEF Inv, Shapes, CoreOK, NothingLeaks, HeadersOK
    <2> QED
      BY <1>2, <2>1 DEF KeepHeaders, HeadersOK
  <1> QED
    BY <1>1, <1>2

\* What is_path_under_root_real lets pass is below the root.
LEMMA Allowed ==
    ASSUME client \in Clients, NEW name, Exists(name), is_path_under_root_real(client.root, name)
    PROVE  Below(client.root, name)
  <1>1. Exists(client.root)
    BY ExchangeAssumption
  <1>2. \A x : Exists(x) => File(x).real \in Seq(Byte)
    BY UriAssumption DEF Exists, File
  <1>3. File(client.root).real \in Seq(Byte) /\ File(name).real \in Seq(Byte)
    BY <1>1, <1>2
  <1> QED
    BY <1>3, UnderRootIsBelow DEF Below, is_path_under_root_real

\* A further answer: those before it stay.
LEMMA OneAnswerMore ==
    ASSUME Inv, NEW a, answers' = Append(answers, a), client' = client,
           {"status", "name", "short"} \subseteq DOMAIN a,
           a.status \in {0, 200, 304} => Below(client.root, a.name)
    PROVE  /\ IsSeq(answers') /\ \A k \in DOMAIN answers' : {"status", "name", "short"} \subseteq DOMAIN answers'[k]
           /\ ServedUnderRoot'
  <1>1. /\ IsSeq(answers)
        /\ \A k \in DOMAIN answers : {"status", "name", "short"} \subseteq DOMAIN answers[k]
    BY DEF Inv, Shapes
  <1>2. /\ Len(answers) \in Nat /\ DOMAIN answers = 1..Len(answers)
        /\ IsSeq(answers') /\ Len(answers') = Len(answers) + 1
        /\ \A k \in 1..Len(answers) : answers'[k] = answers[k]
        /\ answers'[Len(answers) + 1] = a
    BY <1>1, AppendAny
  <1>3. DOMAIN answers' = 1..(Len(answers) + 1)
    BY <1>2, AppendAny
  <1>4. \A k \in DOMAIN answers' : \/ k \in DOMAIN answers /\ answers'[k] = answers[k]
                                   \/ answers'[k] = a
    BY <1>2, <1>3
  <1>5. \A k \in DOMAIN answers : answers[k].status \in {0, 200, 304} => Below(client.root, answers[k].name)
    BY DEF Inv, ServedUnderRoot
  <1>6. \A k \in DOMAIN answers' : {"status", "name", "short"} \subseteq DOMAIN answers'[k]
    BY <1>1, <1>4
  <1>7. \A k \in DOMAIN answers' :
          answers'[k].status \in {0, 200, 304} => Below(client.root, answers'[k].name)
    BY <1>4, <1>5
  <1>8. \A n : Below(client.root, n)' = Below(client.root, n)
    BY DEF Below
  <1>9. ServedUnderRoot'
    BY <1>7 DEF ServedUnderRoot, Below
  <1> QED
    BY <1>2, <1>6, <1>9

\* A response is begun: after it the request is done and has no headers any more,
\* or the connection is closed.
LEMMA BeginInv ==
    ASSUME Inv, pc \in {"handle", "file"},
           NEW status, NEW keep \in BOOLEAN, NEW then, NEW response, NEW name,
           Begin(status, keep, then, response, name),
           \/ then = "done" /\ list' = <<>>
           \/ then = "close" /\ ~keep,
           FreeHeaders \/ KeepHeaders,
           response \in [hdr : Nat, hsent : Nat, body : Nat, bsent : Nat,
                         fd : BOOLEAN, off : Nat, size : Nat, len : Nat],
           response.hsent <= response.hdr, response.bsent <= response.body, response.off <= response.size,
           status \in {0, 200, 304} => Below(client.root, name),
           UNCHANGED <<client, taken, armed, sw, pi, request_line_state, method, version, header_state, buf,
                       parse_pos, parse_phase, reqs, raw>>
    PROVE  Inv'
  <1> DEFINE a == [req |-> Len(reqs), status |-> status, keep |-> keep, name |-> name,
                   total |-> response.hdr + response.body + response.size, short |-> FALSE]
  <1>1. /\ pc' = "send" /\ out' = response /\ writing' = FALSE /\ keep_alive' = keep /\ after' = then
        /\ answers' = Append(answers, a)
    BY DEF Begin
  <1>2. HeadersOK'
    BY HeadersStay
  <1>3. parse_phase = 2
    BY DEF Inv, InPhase
  <1>4. /\ {"status", "name", "short"} \subseteq DOMAIN a
        /\ a.status \in {0, 200, 304} => Below(client.root, a.name)
    OBVIOUS
  <1> HIDE DEF a
  <1>5. /\ IsSeq(answers') /\ \A k \in DOMAIN answers' : {"status", "name", "short"} \subseteq DOMAIN answers'[k]
        /\ ServedUnderRoot'
    BY <1>1, <1>4, OneAnswerMore
  <1>6. CoreOK'
    <2>1. hfree' \in 0..HdrMax /\ halloc' \in Nat
      BY <1>2 DEF HeadersOK
    <2> QED
      BY <1>1, <2>1 DEF Inv, CoreOK
  <1>7. OutOK'
    BY <1>1 DEF OutOK
  <1>8. Shapes'
    BY <1>2, <1>5 DEF Inv, Shapes, HeadersOK
  <1>9. InPhase'
    BY <1>1, <1>3 DEF InPhase
  <1>10. Clean' /\ NothingLeaks'
    BY <1>1, <1>2, <1>3 DEF Clean, NothingLeaks, HeadersOK
  <1>11. BufferIsStream'
    BY DEF Inv, BufferIsStream, Base
  <1> QED
    BY <1>5, <1>6, <1>7, <1>8, <1>9, <1>10, <1>11 DEF Inv

\* An error is answered, with a page of its own.
LEMMA ErrorInv ==
    ASSUME Inv, pc \in {"handle", "file"},
           NEW status, status \notin {0, 200, 304}, NEW keep \in BOOLEAN, NEW then,
           prepare_error(status, keep, then),
           \/ then = "done" /\ list' = <<>>
           \/ then = "close" /\ ~keep,
           FreeHeaders \/ KeepHeaders,
           UNCHANGED <<client, taken, armed, sw, pi, request_line_state, method, version, header_state, buf,
                       parse_pos, parse_phase, reqs, raw>>
    PROVE  Inv'
  <1> DEFINE page == [NoOut EXCEPT !.hdr = HeaderLen, !.body = PageLen]
  <1>1. HeaderLen \in Nat /\ PageLen \in Nat
    BY ExchangeAssumption
  <1>2. /\ page \in [hdr : Nat, hsent : Nat, body : Nat, bsent : Nat,
                     fd : BOOLEAN, off : Nat, size : Nat, len : Nat]
        /\ page.hsent = 0 /\ page.bsent = 0 /\ page.off = 0 /\ page.size = 0
        /\ page.hdr = HeaderLen /\ page.body = PageLen
    <2>1. NoOut \in [hdr : Nat, hsent : Nat, body : Nat, bsent : Nat,
                     fd : BOOLEAN, off : Nat, size : Nat, len : Nat]
      BY DEF NoOut
    <2>2. NoOut.hsent = 0 /\ NoOut.bsent = 0 /\ NoOut.off = 0 /\ NoOut.size = 0
      BY DEF NoOut
    <2> QED
      BY <1>1, <2>1, <2>2, ZenonT(60)
  <1>3. Begin(status, keep, then, page, <<>>)
    BY DEF prepare_error
  <1> HIDE DEF page
  <1>4. /\ page \in [hdr : Nat, hsent : Nat, body : Nat, bsent : Nat,
                     fd : BOOLEAN, off : Nat, size : Nat, len : Nat]
        /\ page.hsent <= page.hdr /\ page.bsent <= page.body /\ page.off <= page.size
    BY <1>1, <1>2
  <1> QED
    BY <1>3, <1>4, BeginInv

\* A request refused before its path is looked at.
LEMMA HandleEarlyInv ==
    ASSUME Inv, HandleEarly
    PROVE  Inv'
  <1>1. /\ pc = "handle" /\ EarlyStatus # 0
        /\ FreeHeaders \/ KeepHeaders
        /\ UNCHANGED <<client, taken, armed, sw, pi, request_line_state, method, version, header_state, buf,
                       parse_pos, parse_phase, reqs, raw>>
    BY DEF HandleEarly, netVars, lineVars, hdrVars, bufVars, outVars, histVars, uriVars
  <1>2. prepare_error(EarlyStatus, FALSE, "close")
    BY DEF HandleEarly
  <1>3. EarlyStatus \notin {0, 200, 304}
    BY <1>1 DEF EarlyStatus
  <1> QED
    BY <1>1, <1>2, <1>3, ErrorInv, ZenonT(60)

\* A script that is refused or cannot be started.
LEMMA CgiErrorInv ==
    ASSUME Inv, CgiError
    PROVE  Inv'
  <1>1. /\ pc = "file"
        /\ FreeHeaders \/ KeepHeaders
        /\ UNCHANGED <<client, taken, armed, sw, pi, request_line_state, method, version, header_state, buf,
                       parse_pos, parse_phase, reqs, raw>>
    BY DEF CgiError, CgiFile, KeepHeaders, netVars, lineVars, hdrVars, bufVars, outVars, histVars, uriVars
  <1>2. prepare_error(IF CgiStatus = 0 THEN 500 ELSE CgiStatus, FALSE, "close")
    BY DEF CgiError, CgiFile, KeepHeaders
  <1>3. (IF CgiStatus = 0 THEN 500 ELSE CgiStatus) \notin {0, 200, 304}
    BY <1>1 DEF CgiStatus
  <1> DEFINE s == IF CgiStatus = 0 THEN 500 ELSE CgiStatus
  <1>4. s \notin {0, 200, 304} /\ prepare_error(s, FALSE, "close")
    BY <1>2, <1>3
  <1> HIDE DEF s
  <1> QED
    BY <1>1, <1>4, ErrorInv, ZenonT(60)

\* A path that is refused.
LEMMA StaticInvalidInv ==
    ASSUME Inv, StaticInvalid
    PROVE  Inv'
  <1>1. /\ pc = "file"
        /\ FreeHeaders \/ KeepHeaders
        /\ UNCHANGED <<client, taken, armed, sw, pi, request_line_state, method, version, header_state, buf,
                       parse_pos, parse_phase, reqs, raw>>
    BY DEF StaticInvalid, StaticPath, KeepHeaders, netVars, lineVars, hdrVars, bufVars, outVars, histVars, uriVars
  <1>2. prepare_error(400, FALSE, "close")
    BY ZenonT(60) DEF StaticInvalid, StaticPath, KeepHeaders
  <1>3. 400 \notin {0, 200, 304}
    OBVIOUS
  <1> DEFINE s == 400
  <1>4. s \notin {0, 200, 304} /\ prepare_error(s, FALSE, "close")
    BY <1>2, <1>3, ZenonT(60)
  <1> HIDE DEF s
  <1> QED
    BY <1>1, <1>4, ErrorInv, ZenonT(60)

\* A file that is refused.
LEMMA StaticErrorInv ==
    ASSUME Inv, StaticError
    PROVE  Inv'
  <1>1. /\ pc = "file"
        /\ FreeHeaders /\ StaticStatus \in {403, 404}
        /\ UNCHANGED <<client, taken, armed, sw, pi, request_line_state, method, version, header_state, buf,
                       parse_pos, parse_phase, reqs, raw>>
    BY DEF StaticError, StaticPath, netVars, lineVars, hdrVars, bufVars, outVars, histVars, uriVars
  <1>2. prepare_error(StaticStatus, zv_http_handle_header, "done")
    BY DEF StaticError, StaticPath
  <1>3. list' = <<>>
    BY <1>1 DEF FreeHeaders
  <1>4. zv_http_handle_header \in BOOLEAN
    BY KeepIsBoolean DEF zv_http_handle_header, Inv, Shapes
  <1> QED
    BY <1>1, <1>2, <1>3, <1>4, ErrorInv

\* A file is served: it is there, and below the root.
LEMMA StaticFileInv ==
    ASSUME Inv, NEW modified \in BOOLEAN, StaticFile(modified)
    PROVE  Inv'
  <1>1. /\ pc = "file" /\ StaticStatus = 0
        /\ FreeHeaders
        /\ UNCHANGED <<client, taken, armed, sw, pi, request_line_state, method, version, header_state, buf,
                       parse_pos, parse_phase, reqs, raw>>
    BY DEF StaticFile, StaticPath, netVars, lineVars, hdrVars, bufVars, outVars, histVars, uriVars
  <1>2. Begin(IF modified THEN 200 ELSE 304, zv_http_handle_header, "done",
              IF modified THEN [NoOut EXCEPT !.hdr = HeaderLen, !.fd = TRUE, !.size = File(filename).size,
                                             !.len = File(filename).size]
                          ELSE [NoOut EXCEPT !.hdr = HeaderLen], filename)
    BY DEF StaticFile, StaticPath, prepare_static
  <1>3. list' = <<>>
    BY <1>1 DEF FreeHeaders
  <1>4. zv_http_handle_header \in BOOLEAN
    BY KeepIsBoolean DEF zv_http_handle_header, Inv, Shapes
  <1>5. Exists(filename) /\ is_path_under_root_real(client.root, filename)
    BY <1>1 DEF StaticStatus
  <1>6. Below(client.root, filename)
    BY <1>5, Allowed DEF Inv, Shapes
  <1> DEFINE response == IF modified THEN [NoOut EXCEPT !.hdr = HeaderLen, !.fd = TRUE, !.size = File(filename).size,
                                             !.len = File(filename).size]
                          ELSE [NoOut EXCEPT !.hdr = HeaderLen]
  <1>7. /\ response \in [hdr : Nat, hsent : Nat, body : Nat, bsent : Nat,
                         fd : BOOLEAN, off : Nat, size : Nat, len : Nat]
        /\ response.hsent <= response.hdr /\ response.bsent <= response.body /\ response.off <= response.size
    <2>1. HeaderLen \in Nat /\ File(filename).size \in Nat
      BY <1>5, ExchangeAssumption, UriAssumption DEF Exists, File
    <2>2. response = [hdr |-> HeaderLen, hsent |-> 0, body |-> 0, bsent |-> 0, fd |-> modified, off |-> 0,
                      size |-> IF modified THEN File(filename).size ELSE 0,
                      len  |-> IF modified THEN File(filename).size ELSE 0]
      BY DEF NoOut
    <2> HIDE DEF response
    <2> QED
      BY <2>1, <2>2
  <1>8. Begin(IF modified THEN 200 ELSE 304, zv_http_handle_header, "done", response, filename)
    BY <1>2
  <1> HIDE DEF response
  <1> QED
    BY <1>1, <1>3, <1>4, <1>6, <1>7, <1>8, BeginInv

\* A script is started: it is there, and below the root.
LEMMA CgiStartInv ==
    ASSUME Inv, CgiStart
    PROVE  Inv'
  <1>1. /\ pc = "file" /\ IsCgi(raw) /\ CgiStatus = 0
        /\ pc' = "cgi"
        /\ UNCHANGED <<client, taken, armed, sw, pi, request_line_state, method, version,
                       header_state, list, hfree, halloc, buf, parse_pos, parse_phase, out,
                       keep_alive, writing, after, reqs, raw>>
    BY DEF CgiStart, CgiFile, netVars, lineVars, hdrVars, bufVars, outVars, histVars, uriVars
  <1> DEFINE a == [req |-> Len(reqs), status |-> 0, keep |-> FALSE, name |-> filename, total |-> 0, short |-> FALSE]
  <1>2. answers' = Append(answers, a)
    BY DEF CgiStart
  <1>3. Exists(filename) /\ is_path_under_root_real(client.root, filename)
    BY <1>1 DEF CgiStatus
  <1>4. Below(client.root, filename)
    BY <1>3, Allowed DEF Inv, Shapes
  <1>5. {"status", "name", "short"} \subseteq DOMAIN a /\ a.name = filename
    OBVIOUS
  <1> HIDE DEF a
  <1>6. /\ IsSeq(answers') /\ \A k \in DOMAIN answers' : {"status", "name", "short"} \subseteq DOMAIN answers'[k]
        /\ ServedUnderRoot'
    BY <1>1, <1>2, <1>4, <1>5, OneAnswerMore
  <1>7. list = <<>>
    BY <1>1 DEF Inv, Clean
  <1>8. parse_phase = 2
    BY <1>1 DEF Inv, InPhase
  <1>11. CoreOK'
    BY <1>1 DEF Inv, CoreOK
  <1>12. OutOK'
    BY <1>1 DEF Inv, OutOK
  <1>13. Shapes'
    BY <1>1, <1>6 DEF Inv, Shapes
  <1>14. InPhase'
    BY <1>1 DEF Inv, InPhase
  <1>15. Clean'
    BY <1>1 DEF Inv, Clean
  <1>16. NothingLeaks'
    BY <1>1, <1>7, <1>8 DEF Inv, NothingLeaks, Clean
  <1>17. BufferIsStream'
    BY <1>1 DEF Inv, BufferIsStream, Base
  <1>18. ServedUnderRoot'
    BY <1>6
  <1> QED
    BY <1>11, <1>12, <1>13, <1>14, <1>15, <1>16, <1>17, <1>18 DEF Inv

\* On to the path; the headers of a CGI request are not needed.
LEMMA HandlePathInv ==
    ASSUME Inv, HandlePath
    PROVE  Inv'
  <1>1. /\ pc = "handle"
        /\ IF IsCgi(Path) THEN FreeHeaders ELSE KeepHeaders
        /\ pc' = "resolve"
        /\ raw' = Path
        /\ UNCHANGED <<client, taken, armed, sw, pi, request_line_state, method, version,
                       header_state, buf, parse_pos, parse_phase, out, keep_alive, writing, after,
                       reqs, answers>>
    BY DEF HandlePath, UriStart, netVars, lineVars, hdrVars, bufVars, outVars, histVars, uriVars
  <1>2. HeadersOK'
    BY <1>1, HeadersStay
  <1>3. parse_phase = 2
    BY <1>1 DEF Inv, InPhase
  <1>4. IsCgi(raw') => list' = <<>>
    BY <1>1 DEF FreeHeaders
  <1>5. hfree' \in 0..HdrMax /\ halloc' \in Nat /\ IsSeq(list') /\ halloc' = Len(list') + hfree'
    BY <1>2 DEF HeadersOK
  <1>11. CoreOK'
    BY <1>1, <1>5 DEF Inv, CoreOK
  <1>12. OutOK'
    BY <1>1 DEF Inv, OutOK
  <1>13. Shapes'
    BY <1>1, <1>5 DEF Inv, Shapes
  <1>14. InPhase'
    BY <1>1, <1>3 DEF InPhase
  <1>15. Clean'
    <2>1. out = NoOut
      BY <1>1 DEF Inv, Clean
    <2>2. \A x : IsCgi(x)' = IsCgi(x)
      BY DEF IsCgi
    <2> QED
      BY <1>1, <1>4, <2>1 DEF Clean, NoOut, IsCgi
  <1>16. NothingLeaks'
    BY <1>1, <1>3, <1>5 DEF NothingLeaks
  <1>17. BufferIsStream'
    BY <1>1 DEF Inv, BufferIsStream, Base
  <1>18. ServedUnderRoot'
    BY <1>1 DEF Inv, ServedUnderRoot
  <1> QED
    BY <1>11, <1>12, <1>13, <1>14, <1>15, <1>16, <1>17, <1>18 DEF Inv

\* The steps of the path leave the path of the URI alone.
LEMMA UriKeepsRaw == UriStep => raw' = raw
  BY DEF UriStep, DecodeByte, DecodeBad, DecodeEnd, SegDot, SegUp, SegName, SegBad, NormEnd

\* A step of the path.
LEMMA ResolveInv ==
    ASSUME Inv, Resolve
    PROVE  Inv'
  <1>1. /\ pc = "resolve"
        /\ raw' = raw
        /\ UNCHANGED <<client, taken, pc, armed, sw, pi, request_line_state, method, version,
                       header_state, list, hfree, halloc, buf, parse_pos, parse_phase, out,
                       keep_alive, writing, after, reqs, answers>>
    BY UriKeepsRaw DEF Resolve, netVars, lineVars, hdrVars, bufVars, outVars, histVars, uriVars
  <1>11. CoreOK'
    BY <1>1 DEF Inv, CoreOK
  <1>12. OutOK'
    BY <1>1 DEF Inv, OutOK
  <1>13. Shapes'
    BY <1>1 DEF Inv, Shapes
  <1>14. InPhase'
    BY <1>1 DEF Inv, InPhase
  <1>15. Clean'
    BY <1>1 DEF Inv, Clean
  <1>16. NothingLeaks'
    BY <1>1 DEF Inv, NothingLeaks
  <1>17. BufferIsStream'
    BY <1>1 DEF Inv, BufferIsStream, Base
  <1>18. ServedUnderRoot'
    BY <1>1 DEF Inv, ServedUnderRoot
  <1> QED
    BY <1>11, <1>12, <1>13, <1>14, <1>15, <1>16, <1>17, <1>18 DEF Inv

\* The name of the file.
LEMMA LocateInv ==
    ASSUME Inv, Locate
    PROVE  Inv'
  <1>1. /\ pc = "resolve"
        /\ pc' = "file"
        /\ UNCHANGED <<client, taken, armed, sw, pi, request_line_state, method, version,
                       header_state, list, hfree, halloc, buf, parse_pos, parse_phase, out,
                       keep_alive, writing, after, reqs, answers, raw>>
    BY DEF Locate, netVars, lineVars, hdrVars, bufVars, outVars, histVars, uriVars
  <1>11. CoreOK'
    BY <1>1 DEF Inv, CoreOK
  <1>12. OutOK'
    BY <1>1 DEF Inv, OutOK
  <1>13. Shapes'
    BY <1>1 DEF Inv, Shapes
  <1>14. InPhase'
    BY <1>1 DEF Inv, InPhase
  <1>15. Clean'
    BY <1>1 DEF Inv, Clean
  <1>16. NothingLeaks'
    BY <1>1 DEF Inv, NothingLeaks
  <1>17. BufferIsStream'
    BY <1>1 DEF Inv, BufferIsStream, Base
  <1>18. ServedUnderRoot'
    BY <1>1 DEF Inv, ServedUnderRoot
  <1> QED
    BY <1>11, <1>12, <1>13, <1>14, <1>15, <1>16, <1>17, <1>18 DEF Inv

\* request_done: what is behind the request moves to the front, and is still the
\* piece of the stream that was read last.
LEMMA BufferMoved ==
    ASSUME Inv, RequestDone, parse_phase = 2, UNCHANGED <<client, taken, reqs>>
    PROVE  /\ buf' \in Seq(Byte) /\ Len(buf') \in Nat /\ Len(buf') <= Len(buf)
           /\ parse_pos' = 0 /\ parse_phase' = 0
           /\ request_line_state' \in LineStates /\ header_state' \in HeaderStates
           /\ BufferIsStream'
  <1>1. /\ buf' = SubSeq(buf, parse_pos + 1, Len(buf))
        /\ parse_pos' = 0 /\ parse_phase' = 0
        /\ request_line_state' \in LineStates /\ header_state' \in HeaderStates
    BY LineTable, HeaderTable DEF RequestDone
  <1> DEFINE l == Len(buf)
             s == client.bytes
             b == Base
             p == parse_pos
  <1>2. /\ s \in Seq(Byte) /\ Len(s) \in Nat /\ buf \in Seq(Byte) /\ l \in Nat /\ p \in Nat /\ p <= l
        /\ taken \in Nat /\ taken <= Len(s) /\ b \in Nat /\ b = taken - l
    BY Sizes DEF Base
  <1>3. buf = SubSeq(s, b + 1, taken)
    BY DEF Inv, BufferIsStream
  <1> HIDE DEF l, s, b, p
  <1>4. \A k \in 1..l : buf[k] = s[b + k]
    <2>1. \A i \in (b + 1)..taken : s[i] \in Byte
      <3>1. \A i \in (b + 1)..taken : i \in 1..Len(s)
        BY <1>2
      <3> QED
        BY <1>2, <3>1, ElementOfSeq
    <2> DEFINE m == b + 1
    <2>2. m \in Int /\ taken \in Int /\ \A i \in m..taken : s[i] \in Byte
      BY <1>2, <2>1
    <2> HIDE DEF m
    <2>3. \A k \in 1..(taken - m + 1) : SubSeq(s, m, taken)[k] = s[m + k - 1]
      BY <2>2, SubSeqProperties
    <2>4. taken - m + 1 = l /\ \A k \in 1..l : m + k - 1 = b + k
      BY <1>2 DEF m
    <2>5. \A k \in 1..l : SubSeq(s, m, taken)[k] = s[b + k]
      BY <2>3, <2>4
    <2> QED
      BY <1>3, <2>5 DEF m
  <1> DEFINE c == p + 1
             x == SubSeq(buf, c, l)
             d == b + p + 1
             y == SubSeq(s, d, taken)
  <1>5. /\ x \in Seq(Byte) /\ Len(x) = l - p
        /\ \A k \in 1..(l - p) : x[k] = buf[p + k]
    <2>1. c \in Int /\ l \in Int /\ \A i \in c..l : buf[i] \in Byte
      <3>1. \A i \in c..l : i \in 1..Len(buf)
        BY <1>2 DEF l
      <3> QED
        BY <1>2, <3>1, ElementOfSeq
    <2>2. /\ l - c + 1 = l - p /\ (IF c <= l THEN l - c + 1 ELSE 0) = l - p
          /\ \A k \in 1..(l - p) : c + k - 1 = p + k
      BY <1>2
    <2> HIDE DEF c
    <2>3. /\ x \in Seq(Byte) /\ Len(x) = IF c <= l THEN l - c + 1 ELSE 0
          /\ \A k \in 1..(l - c + 1) : x[k] = buf[c + k - 1]
      BY <2>1, SubSeqProperties
    <2> HIDE DEF x
    <2> QED
      BY <2>2, <2>3
  <1>6. /\ y \in Seq(Byte) /\ Len(y) = l - p
        /\ \A k \in 1..(l - p) : y[k] = s[b + (p + k)]
    <2>1. d \in Int /\ taken \in Int /\ \A i \in d..taken : s[i] \in Byte
      <3>1. \A i \in d..taken : i \in 1..Len(s)
        BY <1>2
      <3> QED
        BY <1>2, <3>1, ElementOfSeq
    <2>2. /\ taken - d + 1 = l - p /\ (IF d <= taken THEN taken - d + 1 ELSE 0) = l - p
          /\ \A k \in 1..(l - p) : d + k - 1 = b + (p + k)
      BY <1>2
    <2> HIDE DEF d
    <2>3. /\ y \in Seq(Byte) /\ Len(y) = IF d <= taken THEN taken - d + 1 ELSE 0
          /\ \A k \in 1..(taken - d + 1) : y[k] = s[d + k - 1]
      BY <2>1, SubSeqProperties
    <2> HIDE DEF y
    <2> QED
      BY <2>2, <2>3
  <1> HIDE DEF x, y, c, d
  <1>7. x = y
    <2>1. \A k \in 1..Len(x) : x[k] = y[k]
      <3> SUFFICES ASSUME NEW k \in 1..Len(x) PROVE x[k] = y[k]
        OBVIOUS
      <3>1. k \in 1..(l - p) /\ p + k \in 1..l
        BY <1>2, <1>5
      <3> QED
        BY <1>4, <1>5, <1>6, <3>1
    <2> QED
      BY <1>5, <1>6, <2>1, SeqEqual
  <1>8. buf' = x
    BY <1>1 DEF x, c, p, l
  <1>9. Base' = b + p
    <2>1. Base' = taken' - Len(buf')
      BY DEF Base
    <2>2. taken' = taken /\ Len(buf') = l - p
      BY <1>5, <1>8
    <2> QED
      BY <1>2, <2>1, <2>2
  <1>10. buf' = SubSeq(client'.bytes, Base' + 1, taken')
    <2>1. d = Base' + 1
      BY <1>9, <1>2 DEF d
    <2> QED
      BY <1>7, <1>8, <2>1 DEF y, s
  <1>11. b + p = Last(reqs).end /\ reqs # <<>>
    BY DEF Inv, BufferIsStream, Shapes, b, p
  <1>12. \A k \in DOMAIN reqs : reqs[k].begin = IF k = 1 THEN 0 ELSE reqs[k - 1].end
    BY DEF Inv, BufferIsStream
  <1>13. BufferIsStream'
    <2>1. parse_phase' # 2
      BY <1>1
    <2>2. reqs' = reqs
      OBVIOUS
    <2>3. Base' = IF reqs' = <<>> THEN 0 ELSE Last(reqs').end
      BY <1>9, <1>11, <2>2
    <2>4. \A k \in DOMAIN reqs' : reqs'[k].begin = IF k = 1 THEN 0 ELSE reqs'[k - 1].end
      BY <1>12, <2>2
    <2> HIDE DEF Base, Last
    <2> QED
      BY <1>10, <2>1, <2>3, <2>4, Zenon DEF BufferIsStream
  <1>14. Len(buf') \in Nat /\ Len(buf') <= Len(buf) /\ buf' \in Seq(Byte)
    BY <1>2, <1>5, <1>8 DEF l
  <1> QED
    BY <1>1, <1>13, <1>14

\* The answer that is marked stays the answer it was.
LEMMA AnswerMarked ==
    ASSUME Inv, MarkShort, client' = client
    PROVE  /\ IsSeq(answers') /\ \A k \in DOMAIN answers' : {"status", "name", "short"} \subseteq DOMAIN answers'[k]
           /\ ServedUnderRoot'
  <1>1. /\ IsSeq(answers)
        /\ \A k \in DOMAIN answers : {"status", "name", "short"} \subseteq DOMAIN answers[k]
        /\ \A k \in DOMAIN answers : answers[k].status \in {0, 200, 304} => Below(client.root, answers[k].name)
    BY DEF Inv, Shapes, ServedUnderRoot
  <1>2. Len(answers) \in Nat /\ DOMAIN answers = 1..Len(answers)
    BY <1>1, LenProperties DEF IsSeq
  <1> DEFINE n == Len(answers)
             e == [answers[n] EXCEPT !.short = AtEof]
  <1>3. answers' = [answers EXCEPT ![n] = e]
    BY DEF MarkShort
  <1>4. n \in DOMAIN answers => /\ DOMAIN e = DOMAIN answers[n]
                                /\ e.status = answers[n].status /\ e.name = answers[n].name
    BY <1>1
  <1> HIDE DEF e, n
  <1>5. /\ DOMAIN answers' = DOMAIN answers
        /\ \A k \in DOMAIN answers : answers'[k] = IF k = n THEN e ELSE answers[k]
    BY <1>3
  <1>6. IsSeq(answers')
    <2> DEFINE S == {answers'[k] : k \in DOMAIN answers'}
    <2>1. answers' \in [1..Len(answers) -> S]
      <3>1. answers' = [k \in DOMAIN answers |-> answers'[k]]
        BY <1>3, <1>5
      <3>2. \A k \in DOMAIN answers : answers'[k] \in S
        BY <1>5
      <3> HIDE DEF S
      <3> QED
        BY <1>2, <3>1, <3>2
    <2> HIDE DEF S
    <2>2. answers' \in Seq(S)
      BY <1>2, <2>1, SeqDef
    <2> QED
      BY <2>2 DEF IsSeq, S
  <1>7. \A k \in DOMAIN answers' : {"status", "name", "short"} \subseteq DOMAIN answers'[k]
    BY <1>1, <1>4, <1>5
  <1>8. \A k \in DOMAIN answers' :
          answers'[k].status \in {0, 200, 304} => Below(client.root, answers'[k].name)
    BY <1>1, <1>4, <1>5
  <1>9. ServedUnderRoot'
    BY <1>8 DEF ServedUnderRoot, Below
  <1> QED
    BY <1>6, <1>7, <1>9

\* A part of header and page goes out: the header first, no more than there is.
LEMMA WritevInv ==
    ASSUME Inv, NEW n \in Nat, Writev(n)
    PROVE  Inv'
  <1>1. /\ pc = "send" /\ n <= out.hdr + out.body - out.hsent - out.bsent
        /\ out' = [out EXCEPT !.hsent = @ + Min({out.hdr - out.hsent, n}),
                           !.bsent = @ + (n - Min({out.hdr - out.hsent, n}))]
        /\ UNCHANGED <<client, taken, pc, armed, sw, pi, request_line_state, method, version,
                       header_state, list, hfree, halloc, buf, parse_pos, parse_phase, keep_alive,
                       writing, after, reqs, answers, raw>>
    BY DEF Writev, netVars, lineVars, hdrVars, bufVars, outVars, histVars, uriVars
  <1>2. /\ out \in [hdr : Nat, hsent : Nat, body : Nat, bsent : Nat,
                    fd : BOOLEAN, off : Nat, size : Nat, len : Nat]
        /\ out.hsent <= out.hdr /\ out.bsent <= out.body /\ out.off <= out.size
    BY DEF Inv, OutOK
  <1> DEFINE h == Min({out.hdr - out.hsent, n})
  <1>3. h \in Nat /\ n - h \in Nat /\ out.hsent + h <= out.hdr /\ out.bsent + (n - h) <= out.body
    <2>1. out.hdr - out.hsent \in Nat /\ out.hdr \in Nat /\ out.hsent \in Nat /\ out.body \in Nat /\ out.bsent \in Nat
      BY <1>2
    <2>2. h = IF out.hdr - out.hsent <= n THEN out.hdr - out.hsent ELSE n
      BY <2>1, MinOfTwo
    <2> HIDE DEF h
    <2> QED
      BY <1>1, <1>2, <2>1, <2>2
  <1>11. CoreOK'
    BY <1>1 DEF Inv, CoreOK
  <1>12. OutOK'
    <2>1. out' = [out EXCEPT !.hsent = @ + h, !.bsent = @ + (n - h)]
      BY <1>1
    <2> DEFINE u == out.hsent + h
               v == out.bsent + (n - h)
    <2>2. u \in Nat /\ v \in Nat /\ u <= out.hdr /\ v <= out.body
      <3>1. out.hsent \in Nat /\ out.bsent \in Nat
        BY <1>2
      <3> HIDE DEF h
      <3> QED
        BY <1>3, <3>1
    <2>3. out' = [out EXCEPT !.hsent = u, !.bsent = v]
      BY <2>1
    <2> HIDE DEF h, u, v
    <2> QED
      BY <1>2, <2>2, <2>3 DEF OutOK
  <1>13. Shapes'
    BY <1>1 DEF Inv, Shapes
  <1>14. InPhase'
    BY <1>1 DEF Inv, InPhase
  <1>15. Clean'
    BY <1>1 DEF Inv, Clean
  <1>16. NothingLeaks'
    BY <1>1 DEF Inv, NothingLeaks
  <1>17. BufferIsStream'
    BY <1>1 DEF Inv, BufferIsStream, Base
  <1>18. ServedUnderRoot'
    BY <1>1 DEF Inv, ServedUnderRoot
  <1> QED
    BY <1>11, <1>12, <1>13, <1>14, <1>15, <1>16, <1>17, <1>18 DEF Inv

\* A part of the file goes out.
LEMMA SendfileInv ==
    ASSUME Inv, NEW n \in Nat, Sendfile(n)
    PROVE  Inv'
  <1>1. /\ pc = "send" /\ out.off + n <= Min({out.size, out.len})
        /\ out' = [out EXCEPT !.off = @ + n]
        /\ UNCHANGED <<client, taken, pc, armed, sw, pi, request_line_state, method, version,
                       header_state, list, hfree, halloc, buf, parse_pos, parse_phase, keep_alive,
                       writing, after, reqs, answers, raw>>
    BY DEF Sendfile, netVars, lineVars, hdrVars, bufVars, outVars, histVars, uriVars
  <1>2. /\ out \in [hdr : Nat, hsent : Nat, body : Nat, bsent : Nat,
                    fd : BOOLEAN, off : Nat, size : Nat, len : Nat]
        /\ out.hsent <= out.hdr /\ out.bsent <= out.body /\ out.off <= out.size
    BY DEF Inv, OutOK
  <1>3. out.off + n <= out.size
    <2>1. out.size \in Nat /\ out.len \in Nat /\ out.off \in Nat
      BY <1>2
    <2>2. Min({out.size, out.len}) = IF out.size <= out.len THEN out.size ELSE out.len
      BY <2>1, MinOfTwo
    <2> QED
      BY <1>1, <2>1, <2>2
  <1>11. CoreOK'
    BY <1>1 DEF Inv, CoreOK
  <1>12. OutOK'
    BY <1>1, <1>2, <1>3 DEF OutOK
  <1>13. Shapes'
    BY <1>1 DEF Inv, Shapes
  <1>14. InPhase'
    BY <1>1 DEF Inv, InPhase
  <1>15. Clean'
    BY <1>1 DEF Inv, Clean
  <1>16. NothingLeaks'
    BY <1>1 DEF Inv, NothingLeaks
  <1>17. BufferIsStream'
    BY <1>1 DEF Inv, BufferIsStream, Base
  <1>18. ServedUnderRoot'
    BY <1>1 DEF Inv, ServedUnderRoot
  <1> QED
    BY <1>11, <1>12, <1>13, <1>14, <1>15, <1>16, <1>17, <1>18 DEF Inv

\* The file becomes shorter.
LEMMA TruncateInv ==
    ASSUME Inv, Truncate
    PROVE  Inv'
  <1>1. /\ pc \in {"send", "wait"} /\ out.fd
        /\ \E n \in 0..(out.len - 1) : out' = [out EXCEPT !.len = n]
        /\ UNCHANGED <<client, taken, pc, armed, sw, pi, request_line_state, method, version,
                       header_state, list, hfree, halloc, buf, parse_pos, parse_phase, keep_alive,
                       writing, after, reqs, answers, raw>>
    BY DEF Truncate, netVars, lineVars, hdrVars, bufVars, outVars, histVars, uriVars
  <1>2. /\ out \in [hdr : Nat, hsent : Nat, body : Nat, bsent : Nat,
                    fd : BOOLEAN, off : Nat, size : Nat, len : Nat]
        /\ out.hsent <= out.hdr /\ out.bsent <= out.body /\ out.off <= out.size
    BY DEF Inv, OutOK
  <1>3. PICK n \in 0..(out.len - 1) : out' = [out EXCEPT !.len = n]
    BY <1>1
  <1>4. n \in Nat
    BY <1>2
  <1>5. out # NoOut
    BY <1>1 DEF NoOut
  <1>6. pc = "wait" => armed = "out"
    BY <1>1, <1>5 DEF Inv, Clean, InPhase
  <1>11. CoreOK'
    BY <1>1 DEF Inv, CoreOK
  <1>12. OutOK'
    BY <1>2, <1>3, <1>4 DEF OutOK
  <1>13. Shapes'
    BY <1>1 DEF Inv, Shapes
  <1>14. InPhase'
    BY <1>1 DEF Inv, InPhase
  <1>15. Clean'
    BY <1>1, <1>6 DEF Inv, Clean
  <1>16. NothingLeaks'
    BY <1>1, <1>6 DEF Inv, NothingLeaks
  <1>17. BufferIsStream'
    BY <1>1 DEF Inv, BufferIsStream, Base
  <1>18. ServedUnderRoot'
    BY <1>1 DEF Inv, ServedUnderRoot
  <1> QED
    BY <1>11, <1>12, <1>13, <1>14, <1>15, <1>16, <1>17, <1>18 DEF Inv

\* do_write is called.
LEMMA WriteEventInv ==
    ASSUME Inv, WriteEvent
    PROVE  Inv'
  <1>1. /\ pc = "wait" /\ armed = "out"
        /\ pc' = "send"
        /\ after' = "write"
        /\ armed' = "none"
        /\ UNCHANGED <<client, taken, sw, pi, request_line_state, method, version, header_state,
                       list, hfree, halloc, buf, parse_pos, parse_phase, out, keep_alive, writing,
                       reqs, answers, raw>>
    BY DEF WriteEvent, netVars, lineVars, hdrVars, bufVars, outVars, histVars, uriVars
  <1>11. CoreOK'
    BY <1>1 DEF Inv, CoreOK
  <1>12. OutOK'
    BY <1>1 DEF Inv, OutOK
  <1>13. Shapes'
    BY <1>1 DEF Inv, Shapes
  <1>14. InPhase'
    BY <1>1 DEF Inv, InPhase
  <1>15. Clean'
    BY <1>1 DEF Inv, Clean
  <1>16. NothingLeaks'
    BY <1>1 DEF Inv, NothingLeaks
  <1>17. BufferIsStream'
    BY <1>1 DEF Inv, BufferIsStream, Base
  <1>18. ServedUnderRoot'
    BY <1>1 DEF Inv, ServedUnderRoot
  <1> QED
    BY <1>11, <1>12, <1>13, <1>14, <1>15, <1>16, <1>17, <1>18 DEF Inv

\* The socket takes no more: do_write goes on.
LEMMA SendBlockedInv ==
    ASSUME Inv, SendBlocked
    PROVE  Inv'
  <1>1. /\ pc = "send"
        /\ IF after = "done" THEN RequestDone ELSE KeepRequest
        /\ pc' = "wait"
        /\ armed' = "out"
        /\ writing' = TRUE
        /\ UNCHANGED <<client, taken, sw, pi, method, version, list, hfree, halloc, out, keep_alive,
                       after, reqs, answers, raw>>
    BY DEF SendBlocked, Return, netVars, lineVars, hdrVars, bufVars, outVars, histVars, uriVars
  <1>2. after = "done" => parse_phase = 2 /\ list = <<>>
    BY <1>1 DEF Inv, InPhase
  <1>3. after # "done" => KeepRequest
    BY <1>1
  <1>4. after = "done" => RequestDone
    BY <1>1
  <1>5. /\ buf' \in Seq(Byte) /\ Len(buf') \in Nat /\ Len(buf') <= Len(buf)
        /\ parse_pos' \in 0..Len(buf') /\ parse_phase' \in 0..2
        /\ request_line_state' \in LineStates /\ header_state' \in HeaderStates
        /\ parse_phase' = 2 => reqs' # <<>>
        /\ BufferIsStream'
    <2>1. CASE after = "done"
      <3>1. /\ buf' \in Seq(Byte) /\ Len(buf') \in Nat /\ Len(buf') <= Len(buf)
            /\ parse_pos' = 0 /\ parse_phase' = 0
            /\ request_line_state' \in LineStates /\ header_state' \in HeaderStates
            /\ BufferIsStream'
        BY <1>1, <1>2, <1>4, <2>1, BufferMoved
      <3> QED
        BY <3>1
    <2>2. CASE after # "done"
      <3>1. UNCHANGED <<buf, parse_pos, parse_phase, request_line_state, header_state>>
        BY <1>3, <2>2 DEF KeepRequest, bufVars
      <3>2. buf \in Seq(Byte) /\ Len(buf) \in Nat
        BY Sizes
      <3>3. /\ parse_pos \in 0..Len(buf) /\ parse_phase \in 0..2
            /\ request_line_state \in LineStates /\ header_state \in HeaderStates
            /\ parse_phase = 2 => reqs # <<>>
        BY DEF Inv, CoreOK, Shapes
      <3>4. BufferIsStream'
        BY <1>1, <3>1 DEF Inv, BufferIsStream, Base
      <3> QED
        BY <1>1, <3>1, <3>2, <3>3, <3>4
    <2> QED
      BY <2>1, <2>2
  <1>6. after = "done" => parse_phase' = 0
    BY <1>4 DEF RequestDone
  <1>7. after # "done" => parse_phase' = parse_phase
    BY <1>3 DEF KeepRequest, bufVars
  <1>8. after \in {"done", "close", "write"} /\ keep_alive \in BOOLEAN /\ Len(buf') < MaxBuf /\ Len(buf') <= taken'
    <2>1. after \in {"done", "close", "write"} /\ keep_alive \in BOOLEAN
      BY DEF Inv, CoreOK
    <2>2. Len(buf) \in Nat /\ Len(buf) < MaxBuf /\ MaxBuf \in Nat /\ taken \in Nat /\ Len(buf) <= taken
      BY Sizes
    <2> QED
      BY <1>1, <1>5, <2>1, <2>2
  <1>11. CoreOK'
    BY <1>1, <1>5, <1>8 DEF Inv, CoreOK
  <1>12. OutOK'
    BY <1>1 DEF Inv, OutOK
  <1>13. Shapes'
    BY <1>1, <1>5, <1>8 DEF Inv, Shapes
  <1>14. InPhase'
    BY <1>1, <1>6, <1>7, <1>8 DEF Inv, InPhase
  <1>15. Clean'
    BY <1>1 DEF Inv, Clean
  <1>16. NothingLeaks'
    BY <1>1, <1>2, <1>7, <1>8 DEF Inv, NothingLeaks
  <1>17. BufferIsStream'
    BY <1>5
  <1>18. ServedUnderRoot'
    BY <1>1 DEF Inv, ServedUnderRoot
  <1> QED
    BY <1>11, <1>12, <1>13, <1>14, <1>15, <1>16, <1>17, <1>18 DEF Inv

\* All sent, and the connection stays.
LEMMA SendNextInv ==
    ASSUME Inv, SendNext
    PROVE  Inv'
  <1>1. /\ pc = "send" /\ keep_alive /\ MarkShort
        /\ IF after = "done" THEN RequestDone ELSE KeepRequest
        /\ pc' = IF after = "done" THEN "top" ELSE "wait"
        /\ armed' = IF after = "done" THEN "none" ELSE "in"
        /\ writing' = FALSE
        /\ out' = NoOut
        /\ UNCHANGED <<client, taken, sw, pi, method, version, list, hfree, halloc, keep_alive,
                       after, reqs, raw>>
    BY DEF SendNext, Return, reset_output, netVars, lineVars, hdrVars, bufVars, outVars, histVars, uriVars
  <1>2. after = "done" => parse_phase = 2 /\ list = <<>>
    BY <1>1 DEF Inv, InPhase
  <1>3. after # "done" => KeepRequest
    BY <1>1
  <1>4. after = "done" => RequestDone
    BY <1>1
  <1>5. /\ buf' \in Seq(Byte) /\ Len(buf') \in Nat /\ Len(buf') <= Len(buf)
        /\ parse_pos' \in 0..Len(buf') /\ parse_phase' \in 0..2
        /\ request_line_state' \in LineStates /\ header_state' \in HeaderStates
        /\ parse_phase' = 2 => reqs' # <<>>
        /\ BufferIsStream'
    <2>1. CASE after = "done"
      <3>1. /\ buf' \in Seq(Byte) /\ Len(buf') \in Nat /\ Len(buf') <= Len(buf)
            /\ parse_pos' = 0 /\ parse_phase' = 0
            /\ request_line_state' \in LineStates /\ header_state' \in HeaderStates
            /\ BufferIsStream'
        BY <1>1, <1>2, <1>4, <2>1, BufferMoved
      <3> QED
        BY <3>1
    <2>2. CASE after # "done"
      <3>1. UNCHANGED <<buf, parse_pos, parse_phase, request_line_state, header_state>>
        BY <1>3, <2>2 DEF KeepRequest, bufVars
      <3>2. buf \in Seq(Byte) /\ Len(buf) \in Nat
        BY Sizes
      <3>3. /\ parse_pos \in 0..Len(buf) /\ parse_phase \in 0..2
            /\ request_line_state \in LineStates /\ header_state \in HeaderStates
            /\ parse_phase = 2 => reqs # <<>>
        BY DEF Inv, CoreOK, Shapes
      <3>4. BufferIsStream'
        BY <1>1, <3>1 DEF Inv, BufferIsStream, Base
      <3> QED
        BY <1>1, <3>1, <3>2, <3>3, <3>4
    <2> QED
      BY <2>1, <2>2
  <1>6. after = "done" => parse_phase' = 0
    BY <1>4 DEF RequestDone
  <1>7. after # "done" => parse_phase' = parse_phase
    BY <1>3 DEF KeepRequest, bufVars
  <1>8. after \in {"done", "close", "write"} /\ keep_alive \in BOOLEAN /\ Len(buf') < MaxBuf /\ Len(buf') <= taken'
    <2>1. after \in {"done", "close", "write"} /\ keep_alive \in BOOLEAN
      BY DEF Inv, CoreOK
    <2>2. Len(buf) \in Nat /\ Len(buf) < MaxBuf /\ MaxBuf \in Nat /\ taken \in Nat /\ Len(buf) <= taken
      BY Sizes
    <2> QED
      BY <1>1, <1>5, <2>1, <2>2
  <1>9. /\ IsSeq(answers') /\ \A k \in DOMAIN answers' : {"status", "name", "short"} \subseteq DOMAIN answers'[k]
        /\ ServedUnderRoot'
    BY <1>1, AnswerMarked
  <1>10. parse_phase' = 0
    <2>1. CASE after = "done"
      BY <1>6, <2>1
    <2>2. CASE after # "done"
      <3>1. after = "write"
        BY <1>1, <1>8, <2>2 DEF Inv, InPhase
      <3> QED
        BY <1>1, <1>7, <2>2, <3>1 DEF Inv, InPhase
    <2> QED
      BY <2>1, <2>2
  <1>11. CoreOK'
    BY <1>1, <1>5, <1>8 DEF Inv, CoreOK
  <1>12. OutOK'
    BY <1>1 DEF OutOK, NoOut
  <1>13. Shapes'
    BY <1>1, <1>5, <1>8, <1>9 DEF Inv, Shapes
  <1>14. InPhase'
    BY <1>1, <1>8, <1>10 DEF InPhase
  <1>15. Clean'
    BY <1>1 DEF Clean, NoOut
  <1>16. NothingLeaks'
    <2>1. list = <<>>
      BY <1>2, <1>7, <1>10 DEF Inv, NothingLeaks
    <2> QED
      BY <1>1, <2>1 DEF Inv, NothingLeaks, NoOut
  <1>17. BufferIsStream'
    BY <1>5
  <1>18. ServedUnderRoot'
    BY <1>9
  <1> QED
    BY <1>11, <1>12, <1>13, <1>14, <1>15, <1>16, <1>17, <1>18 DEF Inv

\* All sent, and the connection is closed.
LEMMA SendCloseInv ==
    ASSUME Inv, SendClose
    PROVE  Inv'
  <1>1. /\ pc = "send" /\ MarkShort /\ FreeHeaders
        /\ IF after = "done" THEN RequestDone ELSE KeepRequest
        /\ pc' = "closed"
        /\ armed' = "none"
        /\ writing' = FALSE
        /\ out' = NoOut
        /\ UNCHANGED <<client, taken, sw, pi, method, version, keep_alive, after, reqs, raw>>
    BY DEF SendClose, reset_output, netVars, lineVars, hdrVars, bufVars, outVars, histVars, uriVars
  <1>2. after = "done" => parse_phase = 2 /\ list = <<>>
    BY <1>1 DEF Inv, InPhase
  <1>3. after # "done" => KeepRequest
    BY <1>1
  <1>4. after = "done" => RequestDone
    BY <1>1
  <1>5. /\ buf' \in Seq(Byte) /\ Len(buf') \in Nat /\ Len(buf') <= Len(buf)
        /\ parse_pos' \in 0..Len(buf') /\ parse_phase' \in 0..2
        /\ request_line_state' \in LineStates /\ header_state' \in HeaderStates
        /\ parse_phase' = 2 => reqs' # <<>>
        /\ BufferIsStream'
    <2>1. CASE after = "done"
      <3>1. /\ buf' \in Seq(Byte) /\ Len(buf') \in Nat /\ Len(buf') <= Len(buf)
            /\ parse_pos' = 0 /\ parse_phase' = 0
            /\ request_line_state' \in LineStates /\ header_state' \in HeaderStates
            /\ BufferIsStream'
        BY <1>1, <1>2, <1>4, <2>1, BufferMoved
      <3> QED
        BY <3>1
    <2>2. CASE after # "done"
      <3>1. UNCHANGED <<buf, parse_pos, parse_phase, request_line_state, header_state>>
        BY <1>3, <2>2 DEF KeepRequest, bufVars
      <3>2. buf \in Seq(Byte) /\ Len(buf) \in Nat
        BY Sizes
      <3>3. /\ parse_pos \in 0..Len(buf) /\ parse_phase \in 0..2
            /\ request_line_state \in LineStates /\ header_state \in HeaderStates
            /\ parse_phase = 2 => reqs # <<>>
        BY DEF Inv, CoreOK, Shapes
      <3>4. BufferIsStream'
        BY <1>1, <3>1 DEF Inv, BufferIsStream, Base
      <3> QED
        BY <1>1, <3>1, <3>2, <3>3, <3>4
    <2> QED
      BY <2>1, <2>2
  <1>6. after = "done" => parse_phase' = 0
    BY <1>4 DEF RequestDone
  <1>7. after # "done" => parse_phase' = parse_phase
    BY <1>3 DEF KeepRequest, bufVars
  <1>8. after \in {"done", "close", "write"} /\ keep_alive \in BOOLEAN /\ Len(buf') < MaxBuf /\ Len(buf') <= taken'
    <2>1. after \in {"done", "close", "write"} /\ keep_alive \in BOOLEAN
      BY DEF Inv, CoreOK
    <2>2. Len(buf) \in Nat /\ Len(buf) < MaxBuf /\ MaxBuf \in Nat /\ taken \in Nat /\ Len(buf) <= taken
      BY Sizes
    <2> QED
      BY <1>1, <1>5, <2>1, <2>2
  <1>9. /\ IsSeq(answers') /\ \A k \in DOMAIN answers' : {"status", "name", "short"} \subseteq DOMAIN answers'[k]
        /\ ServedUnderRoot'
    BY <1>1, AnswerMarked
  <1>10. HdrMax \in Nat /\ hfree' \in 0..HdrMax /\ halloc' \in Nat
    BY <1>1, HeadersFreed
  <1>20. halloc' = Len(list') + hfree' /\ list' = <<>> /\ IsSeq(list')
    BY <1>1, HeadersFreed
  <1>11. CoreOK'
    BY <1>1, <1>5, <1>8, <1>10 DEF Inv, CoreOK
  <1>12. OutOK'
    BY <1>1 DEF OutOK, NoOut
  <1>13. Shapes'
    BY <1>1, <1>5, <1>8, <1>9, <1>20 DEF Inv, Shapes
  <1>14. InPhase'
    BY <1>1 DEF InPhase
  <1>15. Clean'
    BY <1>1 DEF Clean, NoOut
  <1>16. NothingLeaks'
    BY <1>1, <1>20 DEF NothingLeaks, NoOut
  <1>17. BufferIsStream'
    BY <1>5
  <1>18. ServedUnderRoot'
    BY <1>9
  <1> QED
    BY <1>11, <1>12, <1>13, <1>14, <1>15, <1>16, <1>17, <1>18 DEF Inv
-----------------------------------------------------------------------------
(* The theorems.                                                           *)

\* zv_init_request_t sets the invariant up.
LEMMA InitInv == Init => Inv
  <1> SUFFICES ASSUME Init PROVE Inv
    OBVIOUS
  <1>1. /\ client \in Clients /\ client.bytes \in Seq(Byte) /\ Len(client.bytes) \in Nat
        /\ MaxBuf \in Nat /\ MaxBuf > 0 /\ HdrMax \in Nat
    BY ExchangeAssumption, LenProperties DEF Init
  <1>2. /\ taken = 0 /\ pc = "wait" /\ armed = "in" /\ sw = "start" /\ buf = <<>> /\ parse_pos = 0
        /\ parse_phase = 0 /\ request_line_state = "start" /\ header_state = "start" /\ method = "UNKNOWN"
        /\ version = [major |-> 0, minor |-> 0] /\ list = <<>> /\ hfree = 0 /\ halloc = 0 /\ out = NoOut
        /\ keep_alive = FALSE /\ writing = FALSE /\ after = "done" /\ reqs = <<>> /\ answers = <<>>
    BY DEF Init
  <1>3. buf \in Seq(Byte) /\ Len(buf) = 0 /\ IsSeq(<<>>) /\ DOMAIN reqs = {} /\ DOMAIN answers = {}
    BY <1>2 DEF IsSeq
  <1>11. CoreOK
    <2>1. "start" \in LineStates /\ "start" \in HeaderStates
      BY LineTable, HeaderTable
    <2>2. taken \in 0..Len(client.bytes) /\ hfree \in 0..HdrMax /\ halloc \in Nat
      BY <1>1, <1>2
    <2>3. Len(buf) < MaxBuf /\ parse_pos \in 0..Len(buf) /\ parse_phase \in 0..2
      <3>1. parse_pos = 0 /\ parse_phase = 0
        BY <1>2
      <3> QED
        BY <1>1, <1>3, <3>1
    <2>4. version \in [major : Nat, minor : Nat]
      BY <1>2
    <2> QED
      BY <1>2, <2>1, <2>2, <2>3, <2>4 DEF CoreOK
  <1>12. OutOK
    BY <1>2 DEF OutOK, NoOut
  <1>13. Shapes
    BY <1>1, <1>2, <1>3 DEF Shapes
  <1>14. InPhase
    BY <1>2 DEF InPhase
  <1>15. Clean
    BY <1>2 DEF Clean
  <1>16. NothingLeaks
    BY <1>2 DEF NothingLeaks
  <1>17. BufferIsStream
    <2>1. Base = 0
      <3>1. taken = 0
        BY <1>2
      <3> QED
        BY <1>3, <3>1 DEF Base
    <2>2. SubSeq(client.bytes, 1, 0) = <<>>
      BY <1>1
    <2> QED
      BY <1>2, <1>3, <2>1, <2>2 DEF BufferIsStream
  <1>18. ServedUnderRoot
    BY <1>3 DEF ServedUnderRoot
  <1> QED
    BY <1>11, <1>12, <1>13, <1>14, <1>15, <1>16, <1>17, <1>18 DEF Inv

\* Nothing changes.
LEMMA StutterInv ==
    ASSUME Inv, UNCHANGED vars
    PROVE  Inv'
  <1>1. UNCHANGED <<client, taken, pc, armed, sw, pi, request_line_state, method, version,
                    header_state, list, hfree, halloc, buf, parse_pos, parse_phase, out, keep_alive,
                    writing, after, reqs, answers, raw>>
    BY DEF vars, netVars, lineVars, hdrVars, bufVars, outVars, histVars, uriVars
  <1>11. CoreOK'
    BY <1>1 DEF Inv, CoreOK
  <1>12. OutOK'
    BY <1>1 DEF Inv, OutOK
  <1>13. Shapes'
    BY <1>1 DEF Inv, Shapes
  <1>14. InPhase'
    BY <1>1 DEF Inv, InPhase
  <1>15. Clean'
    BY <1>1 DEF Inv, Clean
  <1>16. NothingLeaks'
    BY <1>1 DEF Inv, NothingLeaks
  <1>17. BufferIsStream'
    BY <1>1 DEF Inv, BufferIsStream, Base
  <1>18. ServedUnderRoot'
    BY <1>1 DEF Inv, ServedUnderRoot
  <1> QED
    BY <1>11, <1>12, <1>13, <1>14, <1>15, <1>16, <1>17, <1>18 DEF Inv

\* Every action keeps the invariant.
LEMMA NextInv == Inv /\ [Next]_vars => Inv'
  <1> SUFFICES ASSUME Inv, [Next]_vars PROVE Inv'
    OBVIOUS
  <1>1. CASE Reading
    BY <1>1, InputEventInv, ReadInv, ResumeInv, ReadAgainInv, CloseInv DEF Reading, ReadEnd, Overflow
  <1>2. CASE Parsing
    BY <1>2, LineByteInv, LineDoneInv, LineAgainInv, HdrByteInv, HdrDoneInv, HdrAgainInv, CloseInv
       DEF Parsing, LineBad, HdrBad, HdrNoMemory
  <1>3. CASE Handling
    BY <1>3, HandleEarlyInv, HandlePathInv, ResolveInv, LocateInv, CgiStartInv, CgiErrorInv,
       StaticInvalidInv, StaticErrorInv, StaticFileInv, CloseInv DEF Handling, PrepareFailed
  <1>4. CASE Sending
    <2>1. HeaderLen + PageLen \in Nat /\ out.size \in Nat
      BY ExchangeAssumption DEF Inv, OutOK
    <2>2. ASSUME NEW n \in 1..(HeaderLen + PageLen), Writev(n) PROVE Inv'
      <3>1. n \in Nat
        BY <2>1
      <3> QED
        BY <2>2, <3>1, WritevInv
    <2>3. ASSUME NEW n \in 1..out.size, Sendfile(n) PROVE Inv'
      <3>1. n \in Nat
        BY <2>1
      <3> QED
        BY <2>3, <3>1, SendfileInv
    <2> QED
      BY <1>4, <2>2, <2>3 DEF Sending
  <1>5. CASE AfterSending
    BY <1>5, SendNextInv, SendCloseInv DEF AfterSending
  <1>6. CASE SendBlocked \/ WriteEvent \/ Truncate
    BY <1>6, SendBlockedInv, WriteEventInv, TruncateInv
  <1>7. CASE SendFailed \/ Expired
    BY <1>7, CloseInv DEF SendFailed, Expired
  <1>8. CASE Over \/ UNCHANGED vars
    BY <1>8, StutterInv DEF Over
  <1> QED
    BY <1>1, <1>2, <1>3, <1>4, <1>5, <1>6, <1>7, <1>8 DEF Next

\* The invariant holds throughout, for any clients, any tree and any limits.
THEOREM InvHolds == Spec => []Inv
  BY InitInv, NextInv, PTL DEF Spec

\* do_request and try_send keep every variable in its range: the buffer always
\* has a byte left over, the parsers stay inside what was read, and no count of
\* the response passes the length it counts.
THEOREM TypeCorrect == Spec => []ExTypeOK
  <1>1. Inv => ExTypeOK
    <2> SUFFICES ASSUME Inv PROVE ExTypeOK
      OBVIOUS
    <2>1. CoreOK /\ OutOK
      BY DEF Inv
    <2>2. out.hsent \in 0..out.hdr /\ out.bsent \in 0..out.body /\ out.off \in 0..out.size
      BY <2>1 DEF OutOK
    <2> QED
      BY <2>1, <2>2, Zenon DEF CoreOK, ExTypeOK
  <1> QED
    BY <1>1, InvHolds, PTL

\* However reads, blocked responses and the move of the buffer in request_done
\* come about, the buffer is a piece of the client's stream, and the requests
\* follow one another in it without gap or overlap.
THEOREM BufferKept == Spec => []BufferIsStream
  <1>1. Inv => BufferIsStream
    BY DEF Inv
  <1> QED
    BY <1>1, InvHolds, PTL

\* No header node, open file or page is left behind by do_request and do_write,
\* on any way out of them, and no header of a request reaches the next one.
THEOREM NoLeak == Spec => []NothingLeaks
  <1>1. Inv => NothingLeaks
    BY DEF Inv
  <1> QED
    BY <1>1, InvHolds, PTL

\* What is_path_under_root_real lets pass is the root or below it, segment by
\* segment, so no file outside the root is sent and no script outside it run:
\* in any tree, with any links, and with any spelling of the root.
THEOREM UnderRoot == Spec => []ServedUnderRoot
  <1>1. Inv => ServedUnderRoot
    BY DEF Inv
  <1> QED
    BY <1>1, InvHolds, PTL
-----------------------------------------------------------------------------
(* The wire.  What the client got of each response is cut out of it at e:  *)
(* response k ends behind position e[k].                                   *)

Pairs == Nat \X Nat

Cut(e, w, n) ==
    /\ e \in [0..n -> Nat] /\ e[0] = 0 /\ e[n] = Len(w)
    /\ \A k \in 1..n : /\ e[k - 1] <= e[k]
                       /\ \A j \in (e[k - 1] + 1)..e[k] : w[j] = <<k, j - e[k - 1]>>

\* Nothing is behind the end of the last response.
LEMMA CutWithin ==
    ASSUME NEW n \in Nat, NEW w \in Seq(Pairs), NEW e, Cut(e, w, n), NEW k \in 0..n
    PROVE  e[k] \in Nat /\ e[k] <= Len(w)
  <1>1. \A i \in 0..n : e[i] \in Nat
    BY DEF Cut
  <1>2. Len(w) \in Nat /\ e[n] = Len(w) /\ n \in 0..n
    BY LenProperties DEF Cut
  <1> DEFINE T == {i \in 1..n : ~(e[i] <= e[n])}
  <1>3. CASE k = 0
    BY <1>1, <1>2, <1>3 DEF Cut
  <1>4. CASE k # 0 /\ T = {}
    BY <1>1, <1>2, <1>4
  <1>5. CASE T # {}
    <2>1. Max(T) \in T /\ \A x \in T : x <= Max(T)
      BY <1>5, MaxIsMax
    <2> DEFINE m == Max(T)
    <2>2. m \in 1..n /\ ~(e[m] <= e[n]) /\ \A x \in T : x <= m
      BY <2>1
    <2> HIDE DEF m
    <2>3. m # n
      BY <2>2, <1>1, <1>2
    <2>4. m + 1 \in 1..n /\ m + 1 \notin T /\ (m + 1) - 1 = m
      BY <2>2, <2>3
    <2>5. e[m + 1] <= e[n]
      BY <2>4
    <2>6. e[m] <= e[m + 1]
      BY <2>4 DEF Cut
    <2>7. e[m] \in Nat /\ e[m + 1] \in Nat /\ e[n] \in Nat
      BY <1>1, <2>2, <2>4, <1>2
    <2> QED
      BY <2>2, <2>5, <2>6, <2>7
  <1> QED
    BY <1>3, <1>4, <1>5

\* The units of response k are those between two ends.
LEMMA CutGot ==
    ASSUME NEW n \in Nat, NEW w \in Seq(Pairs), NEW e, Cut(e, w, n), NEW k \in 1..n
    PROVE  Cardinality({j \in DOMAIN w : w[j][1] = k}) = e[k] - e[k - 1]
  <1> DEFINE G == {j \in DOMAIN w : w[j][1] = k}
  <1>1. Len(w) \in Nat /\ DOMAIN w = 1..Len(w)
    BY LenProperties
  <1>2. k \in 0..n /\ k - 1 \in 0..n
    OBVIOUS
  <1>3. e[k] \in Nat /\ e[k - 1] \in Nat /\ e[k - 1] <= e[k] /\ e[k] <= Len(w)
    BY <1>2, CutWithin DEF Cut
  <1>4. ASSUME NEW j \in (e[k - 1] + 1)..e[k] PROVE j \in G
    <2>1. w[j] = <<k, j - e[k - 1]>>
      BY DEF Cut
    <2>2. j \in 1..Len(w)
      BY <1>1, <1>3
    <2> QED
      BY <1>1, <2>1, <2>2
  <1>5. ASSUME NEW j \in G PROVE j \in (e[k - 1] + 1)..e[k]
    <2> DEFINE T == {i \in 0..n : j <= e[i]}
    <2>1. j \in 1..Len(w) /\ w[j][1] = k
      BY <1>1
    <2>2. T \in SUBSET Nat /\ n \in T
      BY <2>1, <1>1 DEF Cut
    <2>3. Min(T) \in T /\ \A x \in T : Min(T) <= x
      BY <2>2, MinIsMin
    <2> DEFINE m == Min(T)
    <2>4. m \in 0..n /\ j <= e[m] /\ \A x \in T : m <= x
      BY <2>3
    <2> HIDE DEF m
    <2>5. m # 0
      BY <2>1, <2>4, <1>1 DEF Cut
    <2>6. m \in 1..n /\ m - 1 \in 0..n /\ m - 1 \notin T
      BY <2>4, <2>5
    <2>7. ~(j <= e[m - 1]) /\ e[m - 1] \in Nat /\ e[m] \in Nat
      BY <2>6 DEF Cut
    <2>8. j \in (e[m - 1] + 1)..e[m]
      BY <2>1, <2>4, <2>7
    <2>9. w[j] = <<m, j - e[m - 1]>>
      BY <2>6, <2>8 DEF Cut
    <2>10. m = k
      BY <2>1, <2>9
    <2> QED
      BY <2>8, <2>10
  <1> HIDE DEF G
  <1>6. G = (e[k - 1] + 1)..e[k]
    BY <1>4, <1>5
  <1>7. e[k - 1] + 1 \in Int /\ e[k] \in Int
    BY <1>3
  <1>8. Cardinality(G) = IF e[k - 1] + 1 > e[k] THEN 0 ELSE e[k] - (e[k - 1] + 1) + 1
    BY <1>6, <1>7, FS_Interval
  <1>9. Cardinality(G) = e[k] - e[k - 1]
    BY <1>3, <1>8
  <1> QED
    BY <1>9 DEF G

\* A response more, of which nothing went out.
LEMMA CutMore ==
    ASSUME NEW n \in Nat, NEW w \in Seq(Pairs), NEW e, Cut(e, w, n)
    PROVE  \E f : /\ Cut(f, w, n + 1) /\ f[n + 1] = f[n]
                  /\ \A k \in 0..n : f[k] = e[k]
  <1> DEFINE f == [k \in 0..(n + 1) |-> IF k = n + 1 THEN e[n] ELSE e[k]]
  <1>1. \A k \in 0..n : e[k] \in Nat
    BY DEF Cut
  <1>2. f \in [0..(n + 1) -> Nat]
    BY <1>1
  <1>3. f[n + 1] = e[n] /\ \A k \in 0..n : f[k] = e[k]
    OBVIOUS
  <1> HIDE DEF f
  <1>4. f[0] = 0 /\ f[n + 1] = Len(w)
    BY <1>3 DEF Cut
  <1>5. ASSUME NEW k \in 1..(n + 1)
        PROVE  f[k - 1] <= f[k] /\ \A j \in (f[k - 1] + 1)..f[k] : w[j] = <<k, j - f[k - 1]>>
    <2>1. CASE k = n + 1
      <3>1. f[k - 1] = f[k] /\ f[k] \in Nat
        BY <2>1, <1>1, <1>3
      <3> QED
        BY <3>1
    <2>2. CASE k # n + 1
      <3>1. k \in 1..n /\ f[k] = e[k] /\ f[k - 1] = e[k - 1]
        BY <2>2, <1>3
      <3> QED
        BY <3>1 DEF Cut
    <2> QED
      BY <2>1, <2>2
  <1>6. Cut(f, w, n + 1)
    BY <1>2, <1>4, <1>5 DEF Cut
  <1>7. f[n + 1] = f[n]
    BY <1>3
  <1> QED
    BY <1>3, <1>6, <1>7

\* The units u follow the first d of response n.
Follow(u, n, d) == u \in Seq(Pairs) /\ \A i \in 1..Len(u) : u[i] = <<n, d + i>>

\* The next units of the last response.
LEMMA CutLonger ==
    ASSUME NEW n \in Nat, n > 0, NEW w \in Seq(Pairs), NEW e, Cut(e, w, n), NEW u, Follow(u, n, e[n] - e[n - 1])
    PROVE  /\ w \o u \in Seq(Pairs)
           /\ \E f : /\ Cut(f, w \o u, n) /\ f[n] = e[n] + Len(u)
                     /\ \A k \in 0..(n - 1) : f[k] = e[k]
  <1> DEFINE d == e[n] - e[n - 1]
             m == Len(u)
             v == w \o u
             f == [k \in 0..n |-> IF k = n THEN e[n] + m ELSE e[k]]
  <1>1. /\ \A k \in 0..n : e[k] \in Nat
        /\ n \in 0..n /\ n - 1 \in 0..n /\ n \in 1..n
    <2>1. n \in 0..n /\ n - 1 \in 0..n /\ n \in 1..n
      OBVIOUS
    <2>2. e \in [0..n -> Nat]
      BY DEF Cut
    <2> QED
      BY <2>1, <2>2
  <1>2. d \in Nat /\ d = e[n] - e[n - 1]
    BY <1>1 DEF Cut
  <1>3. u \in Seq(Pairs) /\ m \in Nat /\ \A i \in 1..m : u[i] = <<n, d + i>>
    BY LenProperties DEF Follow
  <1>4. v = w \o u /\ Len(u) = m
    OBVIOUS
  <1> HIDE DEF d, m, v
  <1>5. /\ v \in Seq(Pairs) /\ Len(v) = Len(w) + m /\ Len(w) \in Nat
        /\ \A i \in 1..(Len(w) + m) : v[i] = IF i <= Len(w) THEN w[i] ELSE u[i - Len(w)]
    <2>1. Len(w) \in Nat /\ Len(u) = m
      BY <1>4, LenProperties
    <2>2. /\ w \o u \in Seq(Pairs) /\ Len(w \o u) = Len(w) + Len(u)
          /\ \A i \in 1..(Len(w) + Len(u)) : (w \o u)[i] = IF i <= Len(w) THEN w[i] ELSE u[i - Len(w)]
      BY <1>3, ConcatProperties
    <2> QED
      BY <1>4, <2>1, <2>2
  <1>6. /\ f \in [0..n -> Nat] /\ f[n] = e[n] + m /\ \A k \in 0..(n - 1) : f[k] = e[k]
    BY <1>1, <1>3, SMTT(40)
  <1> HIDE DEF f
  <1>7. f[0] = 0 /\ f[n] = Len(v)
    BY <1>5, <1>6 DEF Cut
  <1>8. ASSUME NEW k \in 1..n
        PROVE  f[k - 1] <= f[k] /\ \A j \in (f[k - 1] + 1)..f[k] : v[j] = <<k, j - f[k - 1]>>
    <2>1. f[k - 1] = e[k - 1] /\ e[k - 1] <= e[k] /\ e[k] \in Nat /\ e[k - 1] \in Nat /\ e[k] <= Len(w) /\ e[n] = Len(w)
      <3>1. k - 1 \in 0..(n - 1) /\ k \in 0..n /\ k - 1 \in 0..n
        OBVIOUS
      <3> QED
        BY <3>1, <1>1, <1>6, CutWithin DEF Cut
    <2>2. \A j \in (e[k - 1] + 1)..e[k] : v[j] = <<k, j - e[k - 1]>>
      <3> SUFFICES ASSUME NEW j \in (e[k - 1] + 1)..e[k] PROVE v[j] = <<k, j - e[k - 1]>>
        OBVIOUS
      <3>1. w[j] = <<k, j - e[k - 1]>>
        BY DEF Cut
      <3>2. j \in 1..(Len(w) + m) /\ j <= Len(w)
        BY <2>1, <1>3, <1>5, SMTT(40)
      <3> QED
        BY <3>1, <3>2, <1>5
    <2>3. CASE k # n
      <3>1. f[k] = e[k]
        BY <2>3, <1>6
      <3> QED
        BY <2>1, <2>2, <3>1
    <2>4. CASE k = n
      <3>1. f[k] = e[n] + m /\ d = e[n] - e[n - 1]
        BY <2>4, <1>2, <1>6
      <3>2. ASSUME NEW j \in (e[n] + 1)..(e[n] + m) PROVE v[j] = <<n, j - e[n - 1]>>
        <4>1. /\ j \in 1..(Len(w) + m) /\ ~(j <= Len(w)) /\ j - Len(w) \in 1..m
              /\ d + (j - Len(w)) = j - e[n - 1]
          <5> DEFINE b == e[n]
                     l == Len(w)
                     a == e[n - 1]
          <5>1. b = l /\ b \in Nat /\ a \in Nat /\ d = b - a /\ j \in (b + 1)..(b + m)
            BY <2>1, <2>4, <3>1
          <5> HIDE DEF a, b, l
          <5>2. j \in 1..(l + m) /\ ~(j <= l) /\ j - l \in 1..m /\ d + (j - l) = j - a
            BY <5>1, <1>3
          <5> QED
            BY <5>2 DEF a, l
        <4>2. u[j - Len(w)] = <<n, d + (j - Len(w))>>
          BY <4>1, <1>3
        <4> QED
          BY <4>1, <4>2, <1>5
      <3>3. f[k - 1] <= f[k]
        BY <2>1, <2>4, <3>1, <1>3, SMTT(40)
      <3>4. ASSUME NEW j \in (f[k - 1] + 1)..f[k] PROVE v[j] = <<k, j - f[k - 1]>>
        <4>1. j \in (e[k - 1] + 1)..e[k] \/ j \in (e[n] + 1)..(e[n] + m)
          BY <2>1, <2>4, <3>1, <1>3, SMTT(40)
        <4> QED
          BY <4>1, <2>1, <2>2, <2>4, <3>2
      <3> QED
        BY <3>3, <3>4
    <2> QED
      BY <2>3, <2>4
  <1>9. Cut(f, v, n)
    BY <1>6, <1>7, <1>8 DEF Cut
  <1> QED
    BY <1>5, <1>6, <1>9 DEF v, m

\* The partial results of FlattenSeq.
Flattens(g, s) == g = [i \in 1..Len(s) |-> IF i = 1 THEN s[i] ELSE g[i - 1] \o s[i]]

\* FlattenSeq is what a function with its equations gives: there is only one.
LEMMA FlattenIs ==
    ASSUME NEW s, NEW n \in Nat, Len(s) = n, n > 0, NEW g, Flattens(g, s)
    PROVE  FlattenSeq(s) = g[n]
  <1> DEFINE f == CHOOSE f : Flattens(f, s)
  <1>1. FlattenSeq(s) = f[n]
    BY DEF FlattenSeq, Flattens
  <1>2. Flattens(f, s)
    OBVIOUS
  <1> HIDE DEF f
  <1> DEFINE T == {i \in 1..n : f[i] # g[i]}
  <1>3. CASE T = {}
    BY <1>1, <1>3
  <1>4. CASE T # {}
    <2>1. T \in SUBSET Nat
      OBVIOUS
    <2>2. Min(T) \in T /\ \A x \in T : Min(T) <= x
      BY <1>4, <2>1, MinIsMin
    <2> DEFINE m == Min(T)
    <2>3. m \in 1..n /\ f[m] # g[m] /\ \A x \in T : m <= x
      BY <2>2
    <2> HIDE DEF m
    <2>4. /\ f[m] = IF m = 1 THEN s[m] ELSE f[m - 1] \o s[m]
          /\ g[m] = IF m = 1 THEN s[m] ELSE g[m - 1] \o s[m]
      BY <1>2, <2>3 DEF Flattens
    <2>5. m # 1
      BY <2>3, <2>4
    <2>6. m - 1 \in 1..n /\ m - 1 \notin T
      BY <2>3, <2>5
    <2>7. f[m - 1] = g[m - 1]
      BY <2>6
    <2> QED
      BY <2>3, <2>4, <2>5, <2>7
  <1> QED
    BY <1>3, <1>4

\* The units of a response from the first on.
Units(k, c) == [i \in 1..c |-> <<k, i>>]

\* They are a sequence.
LEMMA UnitsAre ==
    ASSUME NEW k \in Nat, NEW c \in Nat
    PROVE  Units(k, c) \in Seq(Pairs) /\ Len(Units(k, c)) = c /\ \A i \in 1..c : Units(k, c)[i] = <<k, i>>
  <1>1. Units(k, c) \in [1..c -> Pairs] /\ DOMAIN Units(k, c) = 1..c /\ \A i \in 1..c : Units(k, c)[i] = <<k, i>>
    BY DEF Units, Pairs
  <1>2. Units(k, c) \in Seq(Pairs)
    BY <1>1, SeqDef
  <1> QED
    BY <1>1, <1>2, LenProperties

\* A wire that is cut is its parts, one after another.
LEMMA CutFlat ==
    ASSUME NEW n \in Nat, NEW w \in Seq(Pairs), NEW e, Cut(e, w, n)
    PROVE  w = FlattenSeq([k \in 1..n |-> Units(k, e[k] - e[k - 1])])
  <1> DEFINE s == [k \in 1..n |-> Units(k, e[k] - e[k - 1])]
             g == [k \in 1..n |-> SubSeq(w, 1, e[k])]
  <1>1. Len(w) \in Nat /\ w \in [1..Len(w) -> Pairs] /\ \A k \in 0..n : e[k] \in Nat /\ e[k] <= Len(w)
    BY CutWithin, LenProperties
  <1>2. \A k \in 1..n : s[k] = Units(k, e[k] - e[k - 1])
    OBVIOUS
  <1>3. Len(s) = n
    <2>1. s \in Seq({s[k] : k \in 1..n}) /\ DOMAIN s = 1..n
      <3> DEFINE S == {s[k] : k \in 1..n}
      <3>1. s \in [1..n -> S] /\ DOMAIN s = 1..n
        OBVIOUS
      <3> HIDE DEF S, s
      <3>2. s \in Seq(S)
        BY <3>1, SeqDef
      <3> QED
        BY <3>1, <3>2 DEF S
    <2> HIDE DEF s
    <2> QED
      BY <2>1, LenProperties
  <1>4. \A k \in 1..n : g[k] = SubSeq(w, 1, e[k])
    OBVIOUS
  <1>5. DOMAIN g = 1..n
    OBVIOUS
  <1>6. CASE n = 0
    <2>1. s = <<>> /\ Len(w) = 0
      BY <1>6 DEF Cut
    <2>2. w = <<>>
      BY <2>1, EmptySeq
    <2>3. FlattenSeq(s) = s
      BY <1>3, <1>6 DEF FlattenSeq
    <2> QED
      BY <2>1, <2>2, <2>3
  <1> HIDE DEF g
  <1>7. CASE n > 0
    <2>1. ASSUME NEW k \in 0..n
          PROVE  /\ SubSeq(w, 1, e[k]) \in Seq(Pairs) /\ Len(SubSeq(w, 1, e[k])) = e[k]
                 /\ \A i \in 1..e[k] : SubSeq(w, 1, e[k])[i] = w[i]
      <3>1. \A i \in 1..e[k] : w[i] \in Pairs
        BY <1>1
      <3>2. 1 \in Int /\ e[k] \in Int /\ e[k] \in Nat
        BY <1>1
      <3> DEFINE z == e[k]
      <3> HIDE DEF z
      <3>3. z \in Nat /\ z \in Int /\ \A i \in 1..z : w[i] \in Pairs
        BY <3>1, <3>2 DEF z
      <3>4. /\ SubSeq(w, 1, z) \in Seq(Pairs) /\ Len(SubSeq(w, 1, z)) = (IF 1 <= z THEN z - 1 + 1 ELSE 0)
            /\ \A i \in 1..(z - 1 + 1) : SubSeq(w, 1, z)[i] = w[1 + i - 1]
        BY <3>2, <3>3, SubSeqProperties
      <3>5. SubSeq(w, 1, z) \in Seq(Pairs) /\ Len(SubSeq(w, 1, z)) = z
        BY <3>3, <3>4
      <3>6. \A i \in 1..z : i \in 1..(z - 1 + 1) /\ 1 + i - 1 = i
        BY <3>3
      <3>7. \A i \in 1..z : SubSeq(w, 1, z)[i] = w[i]
        BY <3>4, <3>6
      <3> QED
        BY <3>5, <3>7 DEF z
    <2>2. ASSUME NEW k \in 1..n
          PROVE  g[k] = IF k = 1 THEN s[k] ELSE g[k - 1] \o s[k]
      <3> DEFINE a == e[k - 1]
                 b == e[k]
                 c == b - a
      <3>1. k \in Nat /\ k - 1 \in 0..n /\ k \in 0..n
        OBVIOUS
      <3>2. a \in Nat /\ b \in Nat /\ a <= b /\ b <= Len(w) /\ c \in Nat
        BY <1>1, <3>1 DEF Cut
      <3>3. \A j \in (a + 1)..b : w[j] = <<k, j - a>>
        BY DEF Cut
      <3>4. k = 1 => a = 0
        BY DEF Cut
      <3>5. s[k] = Units(k, c) /\ g[k] = SubSeq(w, 1, b) /\ (k # 1 => g[k - 1] = SubSeq(w, 1, a))
        BY <1>2, <1>4
      <3>6. /\ SubSeq(w, 1, a) \in Seq(Pairs) /\ Len(SubSeq(w, 1, a)) = a
            /\ SubSeq(w, 1, b) \in Seq(Pairs) /\ Len(SubSeq(w, 1, b)) = b
            /\ \A i \in 1..a : SubSeq(w, 1, a)[i] = w[i]
            /\ \A i \in 1..b : SubSeq(w, 1, b)[i] = w[i]
        BY <2>1, <3>1
      <3> HIDE DEF a, b, s
      <3>7. c = b - a
        OBVIOUS
      <3> HIDE DEF c
      <3>8. Units(k, c) \in Seq(Pairs) /\ Len(Units(k, c)) = c /\ \A i \in 1..c : Units(k, c)[i] = <<k, i>>
        BY <3>1, <3>2, UnitsAre
      <3>9. CASE k = 1
        <4>1. c = b /\ \A i \in 1..b : i \in (a + 1)..b /\ i - a = i
          BY <3>2, <3>4, <3>7, <3>9
        <4>2. \A i \in 1..b : SubSeq(w, 1, b)[i] = Units(k, c)[i]
          BY <3>3, <3>6, <3>8, <4>1
        <4>3. SubSeq(w, 1, b) = Units(k, c)
          BY <3>6, <3>8, <4>1, <4>2, SeqEqual
        <4> QED
          BY <3>5, <3>9, <4>3
      <3>10. CASE k # 1
        <4> DEFINE x == SubSeq(w, 1, a)
                   y == Units(k, c)
        <4>1. /\ x \o y \in Seq(Pairs) /\ Len(x \o y) = a + c
              /\ \A i \in 1..(a + c) : (x \o y)[i] = IF i <= a THEN x[i] ELSE y[i - a]
          BY <3>6, <3>8, ConcatProperties, SMTT(40)
        <4>2. a + c = b
          BY <3>2, <3>7
        <4>3. ASSUME NEW i \in 1..b PROVE SubSeq(w, 1, b)[i] = (x \o y)[i]
          <5>1. CASE i <= a
            <6>1. i \in 1..a
              BY <3>2, <5>1
            <6> QED
              BY <3>6, <4>1, <4>2, <5>1, <6>1
          <5>2. CASE ~(i <= a)
            <6>1. i \in (a + 1)..b /\ i - a \in 1..c
              BY <3>2, <3>7, <5>2
            <6>2. y[i - a] = <<k, i - a>> /\ w[i] = <<k, i - a>>
              BY <3>3, <3>8, <6>1
            <6> HIDE DEF x, y
            <6> QED
              BY <3>6, <4>1, <4>2, <5>2, <6>2
          <5> QED
            BY <5>1, <5>2
        <4> HIDE DEF x, y
        <4>4. SubSeq(w, 1, b) = x \o y
          BY <3>6, <4>1, <4>2, <4>3, SeqEqual
        <4> QED
          BY <3>5, <3>10, <4>4 DEF x, y
      <3> QED
        BY <3>9, <3>10
    <2>3. Flattens(g, s)
      <3>1. g = [k \in 1..n |-> g[k]]
        BY <1>5 DEF g
      <3> HIDE DEF s
      <3> QED
        BY <1>3, <2>2, <3>1 DEF Flattens
    <2> HIDE DEF s
    <2>4. FlattenSeq(s) = g[n]
      BY <1>3, <1>7, <2>3, FlattenIs
    <2>5. g[n] = SubSeq(w, 1, Len(w))
      BY <1>4, <1>7 DEF Cut
    <2>6. SubSeq(w, 1, Len(w)) = w
      BY SubSeqFull
    <2> QED
      BY <2>4, <2>5, <2>6 DEF s
  <1> QED
    BY <1>6, <1>7

InSend == pc = "send" \/ (pc = "wait" /\ armed = "out")

\* Response k is complete, or marked as short.
Told(e, k) == answers[k].status # 0 => (e[k] - e[k - 1] < answers[k].total <=> answers[k].short)

\* No response is longer than it was announced, and those that are over are told.
Counted(e) ==
    \A k \in 1..Len(answers) :
        /\ answers[k].total \in Nat /\ e[k] - e[k - 1] <= answers[k].total
        /\ k < Len(answers) \/ (~InSend /\ pc # "closed") \/ cause = "served" => Told(e, k)

\* Of the response that is being sent as much went out as try_send has counted.
Current(e) ==
    InSend => LET n == Len(answers)
              IN /\ n > 0 /\ e[n] - e[n - 1] = Sent
                 /\ answers[n].total = out.hdr + out.body + out.size
                 /\ ~out.fd => out.size = 0

Flags == /\ writing => InSend
         /\ pc = "wait" /\ armed = "out" => writing
         /\ cause = "served" => pc = "closed"

WInv == Flags /\ wire \in Seq(Pairs) /\ \E e : Cut(e, wire, Len(answers)) /\ Counted(e) /\ Current(e)

\* A step between responses.
LEMMA CalmWire ==
    ASSUME WInv, ~InSend, pc # "closed", ~InSend', pc' # "closed", UNCHANGED <<wire, answers, cause, writing>>
    PROVE  WInv'
  <1>1. PICK e : Cut(e, wire, Len(answers)) /\ Counted(e) /\ Current(e)
    BY DEF WInv
  <1>2. Counted(e)'
    BY <1>1 DEF Counted, Told
  <1>3. Current(e)'
    BY DEF Current
  <1>4. Flags'
    BY DEF WInv, Flags, InSend
  <1>5. Cut(e, wire', Len(answers')) /\ wire' \in Seq(Pairs)
    BY <1>1 DEF WInv
  <1> QED
    BY <1>2, <1>3, <1>4, <1>5 DEF WInv

\* The connection is closed for another reason than that all is served.
LEMMA CloseWire ==
    ASSUME WInv, NEW why, why # "served", CloseConn(why)
    PROVE  WInv'
  <1>1. pc' = "closed" /\ writing' = FALSE /\ cause' = why /\ UNCHANGED <<wire, answers>>
    BY DEF CloseConn, reset_output
  <1>2. PICK e : Cut(e, wire, Len(answers)) /\ Counted(e) /\ Current(e)
    BY DEF WInv
  <1>3. Counted(e)'
    BY <1>1, <1>2 DEF Counted, Told
  <1>4. Current(e)' /\ Flags'
    BY <1>1 DEF Current, Flags, InSend
  <1>5. Cut(e, wire', Len(answers')) /\ wire' \in Seq(Pairs)
    BY <1>1, <1>2 DEF WInv
  <1> QED
    BY <1>3, <1>4, <1>5 DEF WInv

\* The next response begins, or the CGI takes over.
LEMMA AnswerWire ==
    ASSUME WInv, IsSeq(answers), ~InSend, pc # "closed", NEW a, answers' = Append(answers, a), a.total \in Nat,
           UNCHANGED <<wire, cause>>, writing' = FALSE,
           \/ /\ pc' = "send" /\ Sent' = 0
              /\ a.total = out'.hdr + out'.body + out'.size /\ (~out'.fd => out'.size = 0)
           \/ pc' = "cgi" /\ a.status = 0
    PROVE  WInv'
  <1> DEFINE n == Len(answers)
  <1>1. n \in Nat /\ Len(answers') = n + 1 /\ answers'[n + 1] = a /\ \A k \in 1..n : answers'[k] = answers[k]
    BY AppendAny
  <1>2. PICK e : Cut(e, wire, n) /\ Counted(e) /\ Current(e)
    BY DEF WInv
  <1>3. wire \in Seq(Pairs) /\ Flags
    BY DEF WInv
  <1>4. PICK f : Cut(f, wire, n + 1) /\ f[n + 1] = f[n] /\ \A k \in 0..n : f[k] = e[k]
    BY <1>1, <1>2, <1>3, CutMore
  <1>5. f[n + 1] - f[n] = 0 /\ (n + 1) - 1 = n
    BY <1>1, <1>4, CutWithin DEF Cut
  <1>6. Counted(f)'
    <2> SUFFICES ASSUME NEW k \in 1..(n + 1)
                 PROVE  /\ answers'[k].total \in Nat /\ f[k] - f[k - 1] <= answers'[k].total
                        /\ k < n + 1 \/ (~InSend' /\ pc' # "closed") \/ cause' = "served" => Told(f, k)'
      BY <1>1 DEF Counted
    <2>1. CASE k = n + 1
      <3>1. cause' # "served"
        BY <1>3 DEF Flags
      <3>2. a.status = 0 => Told(f, k)'
        BY <1>1, <2>1 DEF Told
      <3>3. InSend' \/ a.status = 0
        BY DEF InSend
      <3>4. f[k] - f[k - 1] <= a.total
        BY <1>5, <2>1
      <3> QED
        BY <1>1, <2>1, <3>1, <3>2, <3>3, <3>4
    <2>2. CASE k # n + 1
      <3>1. k \in 1..n /\ k \in 0..n /\ k - 1 \in 0..n
        BY <1>1, <2>2
      <3>2. answers'[k] = answers[k] /\ f[k] = e[k] /\ f[k - 1] = e[k - 1]
        BY <1>1, <1>4, <3>1
      <3>3. answers[k].total \in Nat /\ e[k] - e[k - 1] <= answers[k].total /\ Told(e, k)
        BY <1>2, <3>1 DEF Counted
      <3>4. Told(f, k)'
        BY <3>2, <3>3 DEF Told
      <3> QED
        BY <3>2, <3>3, <3>4
    <2> QED
      BY <2>1, <2>2
  <1>7. Current(f)'
    <2>1. InSend' => /\ n + 1 > 0 /\ f[n + 1] - f[n] = Sent'
                     /\ a.total = out'.hdr + out'.body + out'.size /\ (~out'.fd => out'.size = 0)
      BY <1>1, <1>5 DEF InSend
    <2> QED
      BY <1>1, <1>5, <2>1 DEF Current
  <1>8. Flags'
    BY <1>3 DEF Flags, InSend
  <1>9. Cut(f, wire', Len(answers')) /\ wire' \in Seq(Pairs)
    BY <1>1, <1>3, <1>4
  <1> QED
    BY <1>6, <1>7, <1>8, <1>9 DEF WInv

\* Units go out; they are the next ones of the response.
LEMMA DeliverWire ==
    ASSUME Inv, WInv, OutOK', pc = "send", NEW m \in Nat, Deliver(m), UNCHANGED <<pc, armed, writing, answers, cause>>,
           Sent' = Sent + m, Sent' <= out.hdr + out.body + out.size,
           out'.hdr = out.hdr, out'.body = out.body, out'.size = out.size, out'.fd = out.fd
    PROVE  WInv'
  <1> DEFINE n == Len(answers)
  <1>1. n \in Nat
    BY LenProperties DEF Inv, Shapes, IsSeq
  <1>2. PICK e : Cut(e, wire, n) /\ Counted(e) /\ Current(e)
    BY DEF WInv
  <1>3. wire \in Seq(Pairs) /\ Flags
    BY DEF WInv
  <1>4. /\ InSend /\ InSend' /\ n > 0 /\ e[n] - e[n - 1] = Sent
        /\ answers[n].total = out.hdr + out.body + out.size /\ (~out.fd => out.size = 0)
    BY <1>2 DEF Current, InSend
  <1>5. wire' = wire \o [i \in 1..m |-> <<n, e[n] - e[n - 1] + i>>]
    BY <1>4 DEF Deliver
  <1>6. /\ wire' \in Seq(Pairs)
        /\ \E f : /\ Cut(f, wire', n) /\ f[n] = e[n] + m
                  /\ \A k \in 0..(n - 1) : f[k] = e[k]
    <2> HIDE DEF n
    <2>1. n > 0 /\ Cut(e, wire, n)
      BY <1>2, <1>4
    <2> DEFINE d == e[n] - e[n - 1]
               u == [i \in 1..m |-> <<n, d + i>>]
    <2>2. d = e[n] - e[n - 1] /\ d \in Nat
      BY <1>1, <2>1 DEF Cut
    <2> HIDE DEF d
    <2>3. wire' = wire \o u
      BY <1>5 DEF d
    <2>4. u \in [1..m -> Pairs] /\ DOMAIN u = 1..m /\ \A i \in 1..m : u[i] = <<n, d + i>>
      BY <1>1, <2>2 DEF Pairs
    <2> HIDE DEF u
    <2>5. u \in Seq(Pairs) /\ Len(u) = m
      <3>1. u \in Seq(Pairs)
        BY <2>4, SeqDef
      <3> QED
        BY <2>4, <3>1, LenProperties
    <2>6. Follow(u, n, e[n] - e[n - 1])
      BY <2>2, <2>4, <2>5 DEF Follow
    <2> QED
      BY <1>1, <1>3, <2>1, <2>3, <2>5, <2>6, CutLonger
  <1>7. PICK f : Cut(f, wire', n) /\ f[n] = e[n] + m /\ \A k \in 0..(n - 1) : f[k] = e[k]
    BY <1>6
  <1>8. f[n] - f[n - 1] = Sent'
    <2>1. e[n] \in Nat /\ e[n - 1] \in Nat /\ f[n - 1] = e[n - 1]
      BY <1>1, <1>2, <1>4, <1>7, SMTT(40) DEF Cut
    <2> QED
      BY <1>4, <1>7, <2>1
  <1>9. Counted(f)'
    <2> SUFFICES ASSUME NEW k \in 1..n
                 PROVE  /\ answers[k].total \in Nat /\ f[k] - f[k - 1] <= answers[k].total
                        /\ k < n \/ (~InSend' /\ pc' # "closed") \/ cause' = "served" => Told(f, k)'
      BY DEF Counted
    <2>1. answers[k].total \in Nat
      BY <1>2 DEF Counted
    <2>2. CASE k = n
      <3>1. f[k] - f[k - 1] <= answers[k].total
        BY <1>4, <1>8, <2>2
      <3>2. ~(k < n) /\ InSend' /\ cause' # "served"
        BY <1>1, <1>3, <1>4, <2>2 DEF Flags
      <3> QED
        BY <2>1, <3>1, <3>2
    <2>3. CASE k # n
      <3>1. k \in 0..(n - 1) /\ k - 1 \in 0..(n - 1) /\ k < n
        BY <1>1, <2>3
      <3>2. f[k] = e[k] /\ f[k - 1] = e[k - 1]
        BY <1>7, <3>1
      <3>3. e[k] - e[k - 1] <= answers[k].total /\ Told(e, k)
        BY <1>2, <3>1 DEF Counted
      <3>4. Told(f, k)'
        BY <3>2, <3>3 DEF Told
      <3> QED
        BY <2>1, <3>2, <3>3, <3>4
    <2> QED
      BY <2>2, <2>3
  <1>10. Current(f)'
    BY <1>4, <1>8 DEF Current
  <1>11. Flags'
    BY <1>3 DEF Flags, InSend
  <1> QED
    BY <1>6, <1>7, <1>9, <1>10, <1>11 DEF WInv

\* A response waits, or goes on, or its file becomes shorter.
LEMMA HeldWire ==
    ASSUME WInv, InSend, InSend', UNCHANGED <<wire, answers, cause>>, Sent' = Sent,
           out'.hdr = out.hdr, out'.body = out.body, out'.size = out.size, out'.fd = out.fd,
           pc' = "wait" /\ armed' = "out" => writing'
    PROVE  WInv'
  <1>1. PICK e : Cut(e, wire, Len(answers)) /\ Counted(e) /\ Current(e)
    BY DEF WInv
  <1>2. cause # "served"
    BY DEF WInv, Flags, InSend
  <1>3. Counted(e)'
    BY <1>1, <1>2 DEF Counted, Told
  <1>4. Current(e)'
    BY <1>1 DEF Current
  <1>5. Flags'
    BY <1>2 DEF Flags
  <1>6. Cut(e, wire', Len(answers')) /\ wire' \in Seq(Pairs)
    BY <1>1 DEF WInv
  <1> QED
    BY <1>3, <1>4, <1>5, <1>6 DEF WInv

\* A response is over: all of it went out, or its file has ended before.
LEMMA DoneWire ==
    ASSUME Inv, WInv, pc = "send", SendDone, MarkShort, UNCHANGED wire, writing' = FALSE, ~InSend',
           \/ pc' = "closed" /\ cause' = "served"
           \/ pc' # "closed" /\ cause' = cause
    PROVE  WInv'
  <1> DEFINE n == Len(answers)
             a == [answers[n] EXCEPT !.short = AtEof]
  <1>1. n \in Nat /\ DOMAIN answers = 1..n /\ IsSeq(answers)
    BY LenProperties DEF Inv, Shapes, IsSeq
  <1>2. PICK e : Cut(e, wire, n) /\ Counted(e) /\ Current(e)
    BY DEF WInv
  <1>3. /\ n > 0 /\ e[n] - e[n - 1] = Sent /\ answers[n].total = out.hdr + out.body + out.size
        /\ ~out.fd => out.size = 0
    BY <1>2 DEF Current, InSend
  <1>4. answers' = [answers EXCEPT ![n] = a]
    BY DEF MarkShort
  <1>5. "short" \in DOMAIN answers[n]
    BY <1>1, <1>3 DEF Inv, Shapes
  <1>6. a.status = answers[n].status /\ a.total = answers[n].total /\ a.short = AtEof
    BY <1>5
  <1> HIDE DEF a
  <1>7. /\ DOMAIN answers' = 1..n /\ answers'[n] = a
        /\ \A k \in 1..n : k # n => answers'[k] = answers[k]
    BY <1>1, <1>3, <1>4
  <1>8. Len(answers') = n
    <2>1. IsSeq(answers')
      <3> DEFINE S == {answers'[k] : k \in DOMAIN answers'}
      <3>1. answers' = [k \in 1..n |-> answers'[k]]
        BY <1>1, <1>4, <1>7
      <3>2. \A k \in 1..n : answers'[k] \in S
        BY <1>7
      <3> HIDE DEF S
      <3>3. answers' \in [1..n -> S]
        BY <3>1, <3>2
      <3>4. answers' \in Seq(S)
        BY <1>1, <3>3, SeqDef
      <3> QED
        BY <3>4 DEF S, IsSeq
    <2>2. Len(answers') \in Nat /\ DOMAIN answers' = 1..Len(answers')
      BY <2>1, LenProperties DEF IsSeq
    <2> DEFINE l == Len(answers')
    <2>3. l \in Nat /\ 1..l = 1..n
      BY <1>7, <2>2
    <2> HIDE DEF l, n
    <2>4. n \in 1..l
      BY <1>1, <1>3, <2>3
    <2>5. l \in 1..n
      BY <2>3, <2>4
    <2>6. l = n
      BY <1>1, <2>3, <2>4, <2>5
    <2> QED
      BY <2>6 DEF l, n
  <1>9. Sent < out.hdr + out.body + out.size <=> AtEof
    <2>1. /\ out.hdr \in Nat /\ out.hsent \in Nat /\ out.body \in Nat /\ out.bsent \in Nat
          /\ out.off \in Nat /\ out.size \in Nat /\ out.len \in Nat /\ out.fd \in BOOLEAN
          /\ out.hsent <= out.hdr /\ out.bsent <= out.body /\ out.off <= out.size
      BY DEF Inv, OutOK
    <2>2. out.hsent = out.hdr /\ out.bsent = out.body
      BY <2>1 DEF SendDone, InMemory
    <2>3. ~InFile \/ AtEof
      BY DEF SendDone
    <2>4. InFile <=> out.fd /\ out.off < out.size
      BY DEF SendDone, InFile
    <2>5. AtEof => InFile
      BY DEF AtEof
    <2>6. Sent = out.hdr + out.body + out.off
      BY <2>2 DEF Sent
    <2>7. Sent < out.hdr + out.body + out.size <=> out.off < out.size
      BY <2>1, <2>6
    <2>8. out.off < out.size => out.fd
      BY <1>3, <2>1, SMTT(40)
    <2> QED
      BY <2>3, <2>4, <2>5, <2>7, <2>8
  <1>10. Counted(e)'
    <2> SUFFICES ASSUME NEW k \in 1..n
                 PROVE  answers'[k].total \in Nat /\ e[k] - e[k - 1] <= answers'[k].total /\ Told(e, k)'
      BY <1>8 DEF Counted
    <2>1. answers[k].total \in Nat /\ e[k] - e[k - 1] <= answers[k].total /\ (k < n => Told(e, k))
      BY <1>2 DEF Counted
    <2>2. CASE k = n
      <3>1. e[k] - e[k - 1] < answers'[k].total <=> answers'[k].short
        BY <1>3, <1>6, <1>7, <1>9, <2>2
      <3> QED
        BY <1>6, <1>7, <2>1, <2>2, <3>1 DEF Told
    <2>3. CASE k # n
      BY <1>7, <2>1, <2>3 DEF Told
    <2> QED
      BY <2>2, <2>3
  <1>11. Current(e)' /\ Flags'
    BY DEF Current, Flags, WInv, InSend
  <1>12. Cut(e, wire', Len(answers')) /\ wire' \in Seq(Pairs)
    BY <1>2, <1>8 DEF WInv
  <1> QED
    BY <1>10, <1>11, <1>12 DEF WInv

\* Reading and parsing send nothing.
LEMMA ReadingWire ==
    ASSUME WInv, Reading
    PROVE  WInv'
  <1>1. CASE InputEvent
    BY <1>1, CalmWire DEF InputEvent, InSend, outVars, histVars
  <1>2. ASSUME NEW n, Read(n) PROVE WInv'
    BY <1>2, CalmWire DEF Read, EnterParser, InSend, outVars, histVars
  <1>3. CASE Resume
    BY <1>3, CalmWire DEF Resume, EnterParser, InSend, outVars, histVars
  <1>4. CASE ReadAgain
    BY <1>4, CalmWire DEF ReadAgain, Return, InSend, outVars, histVars
  <1>5. CASE ReadEnd \/ Overflow
    BY <1>5, CloseWire DEF ReadEnd, Overflow
  <1> QED
    BY <1>1, <1>2, <1>3, <1>4, <1>5 DEF Reading

\* The same of the parsers.
LEMMA ParsingWire ==
    ASSUME WInv, Parsing
    PROVE  WInv'
  <1>1. CASE LineByte
    BY <1>1, CalmWire DEF LineByte, InSend, outVars, histVars
  <1>2. CASE LineDone
    BY <1>2, CalmWire DEF LineDone, InSend, outVars, histVars
  <1>3. CASE LineAgain
    BY <1>3, CalmWire DEF LineAgain, InSend, outVars, histVars
  <1>4. CASE HdrByte
    BY <1>4, CalmWire DEF HdrByte, InSend, outVars, histVars
  <1>5. CASE HdrAgain
    BY <1>5, CalmWire DEF HdrAgain, InSend, outVars, histVars
  <1>6. CASE HdrDone
    BY <1>6, CalmWire DEF HdrDone, InSend, outVars, histVars
  <1>7. CASE LineBad \/ HdrBad
    BY <1>7, CloseWire DEF LineBad, HdrBad
  <1>8. CASE HdrNoMemory
    BY <1>8, CloseWire DEF HdrNoMemory
  <1> QED
    BY <1>1, <1>2, <1>3, <1>4, <1>5, <1>6, <1>7, <1>8 DEF Parsing

\* A response begins: of what is announced nothing is sent yet.
LEMMA BeginWire ==
    ASSUME Inv, WInv, pc \in {"handle", "file"}, UNCHANGED <<wire, cause>>,
           NEW status, NEW keep, NEW then, NEW response, NEW name, Begin(status, keep, then, response, name),
           response.hdr \in Nat, response.body \in Nat, response.size \in Nat,
           response.hsent = 0, response.bsent = 0, response.off = 0, ~response.fd => response.size = 0
    PROVE  WInv'
  <1> DEFINE a == [req |-> Len(reqs), status |-> status, keep |-> keep, name |-> name,
                   total |-> response.hdr + response.body + response.size, short |-> FALSE]
  <1>1. /\ pc' = "send" /\ out' = response /\ writing' = FALSE /\ answers' = Append(answers, a)
    BY DEF Begin
  <1>2. a.total = response.hdr + response.body + response.size
    OBVIOUS
  <1> HIDE DEF a
  <1>3. Sent' = 0
    BY <1>1 DEF Sent
  <1>4. a.total \in Nat
    BY <1>2
  <1>5. ~InSend /\ pc # "closed"
    BY DEF InSend
  <1>6. IsSeq(answers)
    BY DEF Inv, Shapes
  <1> QED
    BY <1>1, <1>2, <1>3, <1>4, <1>5, <1>6, AnswerWire

\* An error page.
LEMMA ErrorWire ==
    ASSUME Inv, WInv, pc \in {"handle", "file"}, UNCHANGED <<wire, cause>>,
           NEW status, NEW keep, NEW then, prepare_error(status, keep, then)
    PROVE  WInv'
  <1> DEFINE r == [NoOut EXCEPT !.hdr = HeaderLen, !.body = PageLen]
  <1>1. Begin(status, keep, then, r, <<>>)
    BY DEF prepare_error
  <1>2. /\ r.hdr = HeaderLen /\ r.body = PageLen /\ r.size = 0
        /\ r.hsent = 0 /\ r.bsent = 0 /\ r.off = 0
    BY DEF NoOut
  <1>3. r.hdr \in Nat /\ r.body \in Nat /\ r.size \in Nat
    BY <1>2, ExchangeAssumption
  <1> HIDE DEF r
  <1> QED
    BY <1>1, <1>2, <1>3, BeginWire

\* A file, or that it is not modified.
LEMMA StaticWire ==
    ASSUME Inv, WInv, NEW modified \in BOOLEAN, StaticFile(modified)
    PROVE  WInv'
  <1> DEFINE r == IF modified THEN [NoOut EXCEPT !.hdr = HeaderLen, !.fd = TRUE, !.size = File(filename).size,
                                                 !.len = File(filename).size]
                              ELSE [NoOut EXCEPT !.hdr = HeaderLen]
  <1>1. Begin(IF modified THEN 200 ELSE 304, zv_http_handle_header, "done", r, filename)
    BY DEF StaticFile, prepare_static
  <1>2. HeaderLen \in Nat /\ File(filename).size \in Nat
    <2>1. Exists(filename)
      BY DEF StaticFile, StaticStatus
    <2> QED
      BY <2>1, ExchangeAssumption, UriAssumption DEF Exists, File
  <1>3. /\ r.hdr = HeaderLen /\ r.body = 0 /\ r.size = (IF modified THEN File(filename).size ELSE 0)
        /\ r.hsent = 0 /\ r.bsent = 0 /\ r.off = 0 /\ r.fd = modified
    BY DEF NoOut
  <1>4. pc \in {"handle", "file"} /\ UNCHANGED <<wire, cause>>
    BY DEF StaticFile, StaticPath
  <1>5. r.hdr \in Nat /\ r.body \in Nat /\ r.size \in Nat /\ (~r.fd => r.size = 0)
    BY <1>2, <1>3
  <1> HIDE DEF r
  <1> QED
    BY <1>1, <1>3, <1>4, <1>5, BeginWire

\* The choice of the response.
LEMMA HandlingWire ==
    ASSUME Inv, WInv, Handling
    PROVE  WInv'
  <1>1. CASE HandleEarly
    <2>1. pc \in {"handle", "file"} /\ UNCHANGED <<wire, cause>> /\ prepare_error(EarlyStatus, FALSE, "close")
      BY <1>1 DEF HandleEarly
    <2> QED
      BY <2>1, ErrorWire
  <1>2. CASE HandlePath
    BY <1>2, CalmWire DEF HandlePath, InSend, outVars, histVars
  <1>3. CASE Resolve
    BY <1>3, CalmWire DEF Resolve, InSend, outVars, histVars
  <1>4. CASE Locate
    BY <1>4, CalmWire DEF Locate, InSend, outVars, histVars
  <1>5. CASE CgiStart
    <2> DEFINE a == [req |-> Len(reqs), status |-> 0, keep |-> FALSE, name |-> filename,
                     total |-> 0, short |-> FALSE]
    <2>1. /\ pc = "file" /\ pc' = "cgi" /\ answers' = Append(answers, a)
          /\ UNCHANGED <<wire, cause, writing>>
      BY <1>5 DEF CgiStart, CgiFile, outVars
    <2>2. a.total = 0 /\ a.status = 0
      OBVIOUS
    <2> HIDE DEF a
    <2>3. ~InSend /\ pc # "closed" /\ IsSeq(answers)
      BY <2>1 DEF InSend, Inv, Shapes
    <2>4. writing = FALSE
      BY <2>3 DEF WInv, Flags, Inv, CoreOK
    <2>5. a.total \in Nat /\ writing' = FALSE
      BY <2>1, <2>2, <2>4
    <2> QED
      BY <2>1, <2>2, <2>3, <2>5, AnswerWire
  <1>6. CASE CgiError
    <2> DEFINE s == IF CgiStatus = 0 THEN 500 ELSE CgiStatus
    <2>1. pc \in {"handle", "file"} /\ UNCHANGED <<wire, cause>> /\ prepare_error(s, FALSE, "close")
      BY <1>6 DEF CgiError, CgiFile
    <2> HIDE DEF s
    <2> QED
      BY <2>1, ErrorWire
  <1>7. CASE StaticInvalid
    <2>1. pc \in {"handle", "file"} /\ UNCHANGED <<wire, cause>> /\ prepare_error(400, FALSE, "close")
      BY <1>7 DEF StaticInvalid, StaticPath
    <2> QED
      BY <2>1, ErrorWire, ZenonT(60)
  <1>8. CASE StaticError
    <2>1. /\ pc \in {"handle", "file"} /\ UNCHANGED <<wire, cause>>
          /\ prepare_error(StaticStatus, zv_http_handle_header, "done")
      BY <1>8 DEF StaticError, StaticPath
    <2> QED
      BY <2>1, ErrorWire
  <1>9. ASSUME NEW modified \in BOOLEAN, StaticFile(modified) PROVE WInv'
    BY <1>9, StaticWire
  <1>10. CASE PrepareFailed
    BY <1>10, CloseWire DEF PrepareFailed
  <1> QED
    BY <1>1, <1>2, <1>3, <1>4, <1>5, <1>6, <1>7, <1>8, <1>9, <1>10 DEF Handling

\* writev and sendfile: every unit they take is counted once.
LEMMA SendingWire ==
    ASSUME Inv, WInv, Inv', Sending
    PROVE  WInv'
  <1>1. /\ HeaderLen + PageLen \in Nat /\ out.size \in Nat /\ OutOK'
        /\ out \in [hdr : Nat, hsent : Nat, body : Nat, bsent : Nat,
                    fd : BOOLEAN, off : Nat, size : Nat, len : Nat]
        /\ out.hsent <= out.hdr /\ out.bsent <= out.body /\ out.off <= out.size
    BY ExchangeAssumption DEF Inv, OutOK
  <1>2. out'.hsent + out'.bsent + out'.off <= out'.hdr + out'.body + out'.size
    <2>1. /\ out'.hsent \in Nat /\ out'.bsent \in Nat /\ out'.off \in Nat
          /\ out'.hdr \in Nat /\ out'.body \in Nat /\ out'.size \in Nat
          /\ out'.hsent <= out'.hdr /\ out'.bsent <= out'.body /\ out'.off <= out'.size
      BY <1>1 DEF OutOK
    <2> QED
      BY <2>1
  <1>3. ASSUME NEW n \in 1..(HeaderLen + PageLen), Writev(n) PROVE WInv'
    <2> DEFINE h == Min({out.hdr - out.hsent, n})
    <2>1. /\ pc = "send" /\ Deliver(n) /\ UNCHANGED <<pc, armed, writing, answers, cause>>
          /\ out' = [out EXCEPT !.hsent = @ + h, !.bsent = @ + (n - h)]
      BY <1>3 DEF Writev
    <2>2. h \in Int /\ n \in Nat
      <3>1. out.hdr - out.hsent \in Int /\ n \in Int /\ n \in Nat
        BY <1>1
      <3> QED
        BY <3>1, MinOfTwo
    <2> HIDE DEF h
    <2>3. /\ out'.hsent = out.hsent + h /\ out'.bsent = out.bsent + (n - h) /\ out'.off = out.off
          /\ out'.hdr = out.hdr /\ out'.body = out.body /\ out'.size = out.size /\ out'.fd = out.fd
      BY <1>1, <2>1
    <2>4. Sent' = Sent + n
      <3>1. out.hsent \in Nat /\ out.bsent \in Nat /\ out.off \in Nat
        BY <1>1
      <3> QED
        BY <2>2, <2>3, <3>1 DEF Sent
    <2>5. Sent' <= out.hdr + out.body + out.size
      BY <1>2, <2>3 DEF Sent
    <2> QED
      BY <1>1, <2>1, <2>2, <2>3, <2>4, <2>5, DeliverWire
  <1>4. ASSUME NEW n \in 1..out.size, Sendfile(n) PROVE WInv'
    <2>1. /\ pc = "send" /\ Deliver(n) /\ UNCHANGED <<pc, armed, writing, answers, cause>>
          /\ out' = [out EXCEPT !.off = @ + n]
      BY <1>4 DEF Sendfile
    <2>2. n \in Nat
      BY <1>1
    <2>3. /\ out'.hsent = out.hsent /\ out'.bsent = out.bsent /\ out'.off = out.off + n
          /\ out'.hdr = out.hdr /\ out'.body = out.body /\ out'.size = out.size /\ out'.fd = out.fd
      BY <1>1, <2>1
    <2>4. Sent' = Sent + n
      <3>1. out.hsent \in Nat /\ out.bsent \in Nat /\ out.off \in Nat
        BY <1>1
      <3> QED
        BY <2>2, <2>3, <3>1 DEF Sent
    <2>5. Sent' <= out.hdr + out.body + out.size
      BY <1>2, <2>3 DEF Sent
    <2> QED
      BY <1>1, <2>1, <2>2, <2>3, <2>4, <2>5, DeliverWire
  <1> QED
    BY <1>3, <1>4 DEF Sending

\* A response that has to wait, and one that is over.
LEMMA AfterWire ==
    ASSUME Inv, WInv, SendBlocked \/ WriteEvent \/ Truncate \/ AfterSending
    PROVE  WInv'
  <1>1. CASE SendBlocked
    BY <1>1, HeldWire DEF SendBlocked, Return, InSend, Sent, histVars
  <1>2. CASE WriteEvent
    BY <1>2, HeldWire DEF WriteEvent, InSend, Sent, histVars
  <1>3. CASE Truncate
    <2>1. PICK n \in 0..(out.len - 1) : out' = [out EXCEPT !.len = n]
      BY <1>3 DEF Truncate
    <2>2. /\ out'.hsent = out.hsent /\ out'.bsent = out.bsent /\ out'.off = out.off
          /\ out'.hdr = out.hdr /\ out'.body = out.body /\ out'.size = out.size /\ out'.fd = out.fd
      BY <2>1 DEF Inv, OutOK
    <2>3. out # NoOut
      BY <1>3 DEF Truncate, NoOut
    <2>4. InSend
      BY <2>3 DEF Inv, Clean, InSend
    <2>5. InSend' /\ Sent' = Sent /\ UNCHANGED <<pc, armed, wire, answers, cause, writing>>
      BY <1>3, <2>2, <2>4 DEF Truncate, InSend, Sent, histVars
    <2>6. pc' = "wait" /\ armed' = "out" => writing'
      BY <2>5 DEF WInv, Flags
    <2> QED
      BY <2>2, <2>4, <2>5, <2>6, HeldWire
  <1>4. CASE SendNext
    BY <1>4, DoneWire DEF SendNext, reset_output, Return, InSend
  <1>5. CASE SendClose
    BY <1>5, DoneWire DEF SendClose, reset_output, InSend
  <1> QED
    BY <1>1, <1>2, <1>3, <1>4, <1>5 DEF AfterSending

\* Nothing is sent and nothing is answered at first.
LEMMA InitWire == Init => WInv
  <1> SUFFICES ASSUME Init PROVE WInv
    OBVIOUS
  <1>1. pc = "wait" /\ armed = "in" /\ writing = FALSE /\ cause = "none" /\ wire = <<>> /\ answers = <<>>
    BY DEF Init
  <1>2. Flags
    BY <1>1 DEF Flags
  <1>3. wire \in Seq(Pairs) /\ Len(wire) = 0 /\ Len(answers) = 0
    BY <1>1
  <1> DEFINE e == [k \in 0..0 |-> 0]
  <1>4. Cut(e, wire, 0)
    BY <1>3 DEF Cut
  <1>5. Counted(e) /\ Current(e)
    BY <1>1, <1>3 DEF Counted, Current, InSend
  <1> QED
    BY <1>2, <1>3, <1>4, <1>5 DEF WInv

\* Every step keeps the wire in its parts.
LEMMA NextWire == Inv /\ Inv' /\ WInv /\ [Next]_vars => WInv'
  <1> SUFFICES ASSUME Inv, Inv', WInv, [Next]_vars PROVE WInv'
    OBVIOUS
  <1>1. CASE Reading \/ Parsing
    BY <1>1, ReadingWire, ParsingWire
  <1>2. CASE Handling
    BY <1>2, HandlingWire
  <1>3. CASE Sending
    BY <1>3, SendingWire
  <1>4. CASE SendBlocked \/ WriteEvent \/ Truncate \/ AfterSending
    BY <1>4, AfterWire
  <1>5. CASE SendFailed \/ Expired
    BY <1>5, CloseWire DEF SendFailed, Expired
  <1>6. CASE Over \/ UNCHANGED vars
    <2>1. UNCHANGED <<pc, armed, writing, cause, wire, answers, out>>
      BY <1>6 DEF Over, vars, outVars, histVars
    <2>2. PICK e : Cut(e, wire, Len(answers)) /\ Counted(e) /\ Current(e)
      BY DEF WInv
    <2>3. Counted(e)' /\ Current(e)' /\ Flags'
      BY <2>1, <2>2 DEF Counted, Current, Flags, Told, InSend, Sent, WInv
    <2>4. Cut(e, wire', Len(answers')) /\ wire' \in Seq(Pairs)
      BY <2>1, <2>2, SMTT(40) DEF WInv
    <2> QED
      BY <2>3, <2>4 DEF WInv
  <1> QED
    BY <1>1, <1>2, <1>3, <1>4, <1>5, <1>6 DEF Next

\* What the parts say of the wire as a whole.
LEMMA WireIs ==
    ASSUME Inv, WInv
    PROVE  WireInOrder
  <1> DEFINE n == Len(answers)
             got(k) == Cardinality({j \in DOMAIN wire : wire[j][1] = k})
  <1>1. n \in Nat /\ DOMAIN answers = 1..n
    BY LenProperties DEF Inv, Shapes, IsSeq
  <1>2. PICK e : Cut(e, wire, n) /\ Counted(e) /\ Current(e)
    BY DEF WInv
  <1>3. wire \in Seq(Pairs) /\ Flags
    BY DEF WInv
  <1>4. \A k \in 1..n : got(k) = e[k] - e[k - 1]
    BY <1>1, <1>2, <1>3, CutGot
  <1> HIDE DEF got
  <1>5. [k \in DOMAIN answers |-> [i \in 1..got(k) |-> <<k, i>>]] = [k \in 1..n |-> Units(k, e[k] - e[k - 1])]
    BY <1>1, <1>4 DEF Units
  <1>6. wire = FlattenSeq([k \in DOMAIN answers |-> [i \in 1..got(k) |-> <<k, i>>]])
    BY <1>1, <1>2, <1>3, <1>5, CutFlat
  <1>7. ASSUME NEW k \in 1..n,
               \/ k < n
               \/ pc = "top" \/ (pc = "wait" /\ ~writing) \/ cause = "served"
        PROVE  Told(e, k)
    <2>1. pc = "top" \/ (pc = "wait" /\ ~writing) => ~InSend /\ pc # "closed"
      BY <1>3 DEF Flags, InSend
    <2> QED
      BY <1>2, <1>7, <2>1 DEF Counted
  <1>8. \A k \in 1..n : got(k) <= answers[k].total
    BY <1>2, <1>4 DEF Counted
  <1>9. ASSUME NEW k \in 1..n,
               \/ k < n
               \/ pc = "top" \/ (pc = "wait" /\ ~writing) \/ cause = "served",
               answers[k].status # 0
        PROVE  got(k) < answers[k].total <=> answers[k].short
    BY <1>4, <1>7, <1>9 DEF Told
  <1> QED
    BY <1>1, <1>6, <1>8, <1>9 DEF WireInOrder, got

\* The client gets the responses one after another, each from its first unit on,
\* without gap or repetition, and in full before the next one starts or the
\* connection is closed as served, in whatever parts writev and sendfile take
\* them and however often they block; only a file that became shorter leaves a
\* response short.
THEOREM WireRight == Spec => []WireInOrder
  <1>1. Inv /\ WInv => WireInOrder
    BY WireIs
  <1>2. Spec => []WInv
    BY InitWire, NextWire, InvHolds, PTL DEF Spec
  <1> QED
    BY <1>1, <1>2, InvHolds, PTL
=============================================================================
