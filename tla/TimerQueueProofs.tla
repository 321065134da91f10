-------------------------- MODULE TimerQueueProofs --------------------------
(***************************************************************************)
(* Proofs about TimerQueue, for any requests, nodes and timeouts, and for  *)
(* any horizon of the clock.                                               *)
(***************************************************************************)
EXTENDS TimerQueue, FiniteSetTheorems, SequenceTheorems, TLAPS

-----------------------------------------------------------------------------
(* The inductive invariant.                                                *)

\* No node is in the heap twice.
Distinct == \A i, j \in 1..Len(pq) : pq[i] = pq[j] => i = j

\* A request and its node know each other until the timer is cancelled or
\* expires, and a node without a mark belongs to a request.
Links ==
    /\ \A r \in Reqs : timer[r] # None =>
         timer[r] \in live /\ ~deleted[timer[r]] /\ rq[timer[r]] = r
    /\ \A n \in live : ~deleted[n] => rq[n] \in Reqs /\ timer[rq[n]] = n

\* The heap is repaired before the event loop goes on.
Repairing ==
    /\ op = "swim" => phase = "run"
    /\ op = "sink" => phase \in {"find", "expire"}

Inv == TqTypeOK /\ Distinct /\ Links /\ Repairing /\ HeapOrder /\ NoOversleep

-----------------------------------------------------------------------------
(* Numbers, halves and sequences.                                          *)

\* A set of naturals that is not empty has a smallest element.
LEMMA SmallestOf ==
    ASSUME NEW T \in SUBSET Nat, T # {}
    PROVE  \E m \in T : \A n \in T : m <= n
  <1>1. PICK m \in T : \A n \in T : ~(<<n, m>> \in OpToRel(<, Nat))
    BY NatLessThanWellFounded, WFMin
  <1>2. \A n \in T : <<n, m>> \in OpToRel(<, Nat) <=> n < m
    BY DEF OpToRel
  <1>3. \A n \in T : ~(n < m)
    BY <1>1, <1>2, Zenon
  <1> QED
    BY <1>3

\* The parent of a position.
LEMMA Half ==
    ASSUME NEW i \in Nat
    PROVE  /\ i \div 2 \in Nat
           /\ i = 2 * (i \div 2) \/ i = 2 * (i \div 2) + 1
           /\ (2 * i) \div 2 = i /\ (2 * i + 1) \div 2 = i
  OBVIOUS

\* What an exchange does, position by position.
LEMMA ExchProperties ==
    ASSUME NEW S, NEW s \in Seq(S), NEW i \in 1..Len(s), NEW j \in 1..Len(s)
    PROVE  /\ exch(s, i, j) \in Seq(S)
           /\ Len(exch(s, i, j)) = Len(s)
           /\ \A x \in 1..Len(s) : exch(s, i, j)[x] =
                 IF x = j THEN s[i] ELSE IF x = i THEN s[j] ELSE s[x]
  BY DEF exch

\* A sequence without duplicates has as many elements as positions.
LEMMA DistinctCount ==
    ASSUME NEW S, NEW s \in Seq(S), \A i, j \in 1..Len(s) : s[i] = s[j] => i = j
    PROVE  Cardinality({s[i] : i \in DOMAIN s}) = Len(s)
  <1> DEFINE R == {s[i] : i \in DOMAIN s}
  <1>1. s \in Bijection(1..Len(s), R)
    BY DEF Bijection, Injection, Surjection, IsInjective
  <1>2. ExistsBijection(1..Len(s), R)
    BY <1>1 DEF ExistsBijection
  <1> QED
    BY <1>2, FS_CountingElements, LenProperties

\* The heap's keys are numbers.
LEMMA KeyTypes ==
    ASSUME TqTypeOK
    PROVE  /\ Len(pq) \in Nat /\ DOMAIN pq = 1..Len(pq)
           /\ \A i \in 1..Len(pq) : pq[i] \in Nodes /\ pq[i] \in live /\ key[pq[i]] \in Nat
           /\ \A n \in live : \E i \in 1..Len(pq) : n = pq[i]
           /\ pq # <<>> <=> Len(pq) >= 1
  <1>1. Len(pq) \in Nat /\ DOMAIN pq = 1..Len(pq)
    BY DEF TqTypeOK
  <1>2. \A i \in 1..Len(pq) : pq[i] \in Nodes /\ key[pq[i]] \in Nat
    <2>1. \A i \in 1..Len(pq) : pq[i] \in Nodes
      BY ElementOfSeq, SMTT(40) DEF TqTypeOK
    <2> QED
      BY <2>1 DEF TqTypeOK
  <1>3. live = {pq[i] : i \in 1..Len(pq)}
    BY <1>1 DEF TqTypeOK
  <1>4. pq # <<>> <=> Len(pq) >= 1
    <2>1. pq \in Seq(Nodes)
      BY DEF TqTypeOK
    <2> QED
      BY <1>1, <2>1, EmptySeq
  <1> QED
    BY <1>1, <1>2, <1>3, <1>4

\* The top of a heap in order is its smallest node: a position with a smaller
\* key, the first one, would have its parent before it.
LEMMA TopIsSmallest ==
    ASSUME TqTypeOK, HeapOrder, op = "none"
    PROVE  \A i \in 1..Len(pq) : key[pq[1]] <= key[pq[i]]
  <1> DEFINE T == {i \in 1..Len(pq) : key[pq[i]] < key[pq[1]]}
  <1>1. SUFFICES ASSUME T # {} PROVE FALSE
    BY KeyTypes
  <1>2. T \in SUBSET Nat
    OBVIOUS
  <1>3. PICK m \in T : \A n \in T : m <= n
    BY <1>1, <1>2, SmallestOf
  <1>4. m \in 2..Len(pq) /\ m \div 2 \in 1..Len(pq) /\ m \div 2 < m
    BY KeyTypes, Half
  <1>5. ~Less(pq[m], pq[m \div 2])
    BY <1>4 DEF HeapOrder
  <1>6. m \div 2 \in T
    BY <1>4, <1>5, KeyTypes DEF Less
  <1> QED
    BY <1>3, <1>4, <1>6

\* Every timer that is set has its node in the heap, at or below the top.
LEMMA TimersBelowTop ==
    ASSUME Inv, op = "none", NEW r \in Reqs, timer[r] # None
    PROVE  pq # <<>> /\ key[pq[1]] <= key[timer[r]] /\ key[timer[r]] \in Nat
  <1>1. timer[r] \in live
    BY DEF Inv, Links
  <1>2. PICK i \in 1..Len(pq) : timer[r] = pq[i]
    BY <1>1, KeyTypes DEF Inv
  <1> QED
    BY <1>2, KeyTypes, TopIsSmallest DEF Inv

\* Two functions that take the same values.
LEMMA SameImage ==
    ASSUME NEW f, NEW g, NEW A, NEW B,
           \A x \in A : \E y \in B : f[x] = g[y],
           \A y \in B : \E x \in A : g[y] = f[x]
    PROVE  {f[x] : x \in A} = {g[y] : y \in B}
  OBVIOUS

\* A function that takes a value in one place only.
LEMMA ImageWithout ==
    ASSUME NEW g, NEW B, NEW b \in B, \A y \in B : g[y] = g[b] => y = b
    PROVE  {g[y] : y \in B \ {b}} = {g[y] : y \in B} \ {g[b]}
  OBVIOUS

\* An exchange keeps the nodes of the heap, each of them once.
LEMMA ExchSame ==
    ASSUME NEW S, NEW s \in Seq(S), NEW i \in 1..Len(s), NEW j \in 1..Len(s),
           \A x, y \in 1..Len(s) : s[x] = s[y] => x = y
    PROVE  /\ {exch(s, i, j)[x] : x \in DOMAIN exch(s, i, j)} = {s[x] : x \in DOMAIN s}
           /\ \A x, y \in 1..Len(s) : exch(s, i, j)[x] = exch(s, i, j)[y] => x = y
  <1> DEFINE e == exch(s, i, j)
  <1>1. /\ e \in Seq(S) /\ Len(e) = Len(s)
        /\ \A x \in 1..Len(s) : e[x] = IF x = j THEN s[i] ELSE IF x = i THEN s[j] ELSE s[x]
    BY DEF exch
  <1>2. DOMAIN e = 1..Len(s) /\ DOMAIN s = 1..Len(s)
    BY <1>1, LenProperties
  <1> HIDE DEF e
  <1>3. \A x \in 1..Len(s) : \E y \in 1..Len(s) : e[x] = s[y]
    BY <1>1
  <1>4. \A x \in 1..Len(s) : \E y \in 1..Len(s) : s[x] = e[y]
    <2>1. e[i] = s[j] /\ e[j] = s[i] /\ \A x \in 1..Len(s) : x # i /\ x # j => e[x] = s[x]
      BY <1>1
    <2> QED
      BY <2>1
  <1>5. {e[x] : x \in 1..Len(s)} = {s[x] : x \in 1..Len(s)}
    <2> DEFINE D == 1..Len(s)
    <2>1. (\A x \in D : \E y \in D : e[x] = s[y]) /\ (\A y \in D : \E x \in D : s[y] = e[x])
      BY <1>3, <1>4
    <2> HIDE DEF D
    <2>2. {e[x] : x \in D} = {s[x] : x \in D}
      BY <2>1, SameImage, SMTT(40)
    <2> QED
      BY <2>2 DEF D
  <1>6. \A x, y \in 1..Len(s) : e[x] = e[y] => x = y
    BY <1>1
  <1> QED
    BY <1>2, <1>5, <1>6 DEF e

\* zv_pq_delmin takes the top away, and the last node takes its place.
LEMMA DelminSame ==
    ASSUME NEW S, NEW s \in Seq(S), s # <<>>,
           \A x, y \in 1..Len(s) : s[x] = s[y] => x = y
    PROVE  LET d == SubSeq(exch(s, 1, Len(s)), 1, Len(s) - 1) IN
           /\ d \in Seq(S) /\ Len(d) = Len(s) - 1
           /\ \A x \in 1..Len(d) : d[x] = IF x = 1 THEN s[Len(s)] ELSE s[x]
           /\ \A x, y \in 1..Len(d) : d[x] = d[y] => x = y
           /\ {d[x] : x \in DOMAIN d} = {s[x] : x \in DOMAIN s} \ {s[1]}
  <1> DEFINE e == exch(s, 1, Len(s))
             n == Len(s)
             d == SubSeq(e, 1, n - 1)
  <1>1. n \in Nat \ {0} /\ DOMAIN s = 1..n
    BY EmptySeq, LenProperties
  <1>2. /\ e \in Seq(S) /\ Len(e) = n
        /\ \A x \in 1..n : e[x] = IF x = n THEN s[1] ELSE IF x = 1 THEN s[n] ELSE s[x]
    <2>1. 1 \in 1..Len(s) /\ Len(s) \in 1..Len(s)
      BY <1>1
    <2> QED
      BY <2>1 DEF exch
  <1>3. \A x \in 1..(n - 1) : e[x] \in S
    BY <1>2, <1>1, ElementOfSeq
  <1> HIDE DEF e
  <1>4. /\ d \in Seq(S) /\ Len(d) = n - 1
        /\ \A x \in 1..(n - 1) : d[x] = e[x]
    BY <1>1, <1>3, SubSeqProperties
  <1> HIDE DEF n, d
  <1>5. \A x \in 1..Len(d) : d[x] = IF x = 1 THEN s[n] ELSE s[x]
    <2>1. \A x \in 1..Len(d) : x \in 1..(n - 1) /\ x \in 1..n /\ x # n
      BY <1>1, <1>4
    <2> QED
      BY <2>1, <1>2, <1>4
  <1>6. \A x, y \in 1..Len(d) : d[x] = d[y] => x = y
    BY <1>1, <1>4, <1>5
  <1>7. DOMAIN d = 1..(n - 1)
    BY <1>4, LenProperties
  <1>8. \A x \in 1..(n - 1) : \E y \in 1..n : d[x] = s[y] /\ y # 1
    BY <1>1, <1>4, <1>5
  <1>9. \A y \in 1..n : y # 1 => \E x \in 1..(n - 1) : d[x] = s[y]
    <2> SUFFICES ASSUME NEW y \in 1..n, y # 1 PROVE \E x \in 1..(n - 1) : d[x] = s[y]
      OBVIOUS
    <2>1. CASE y = n
      <3>1. 1 \in 1..(n - 1) /\ d[1] = s[y]
        BY <2>1, <1>1, <1>4, <1>5
      <3> QED
        BY <3>1
    <2>2. CASE y # n
      <3>1. y \in 1..(n - 1) /\ d[y] = s[y]
        BY <2>2, <1>1, <1>4, <1>5
      <3> QED
        BY <3>1
    <2> QED
      BY <2>1, <2>2
  <1>10. 1 \in 1..n /\ \A y \in 1..n : s[y] = s[1] <=> y = 1
    BY <1>1 DEF n
  <1>11. {d[x] : x \in 1..(n - 1)} = {s[x] : x \in 1..n} \ {s[1]}
    <2>1. {d[x] : x \in 1..(n - 1)} = {s[y] : y \in (1..n) \ {1}}
      <3>1. \A x \in 1..(n - 1) : \E y \in (1..n) \ {1} : d[x] = s[y]
        BY <1>8
      <3>2. \A y \in (1..n) \ {1} : \E x \in 1..(n - 1) : s[y] = d[x]
        BY <1>9
      <3> DEFINE A == 1..(n - 1)
                 B == (1..n) \ {1}
      <3>3. (\A x \in A : \E y \in B : d[x] = s[y]) /\ (\A y \in B : \E x \in A : s[y] = d[x])
        BY <3>1, <3>2
      <3> HIDE DEF A, B
      <3>4. {d[x] : x \in A} = {s[x] : x \in B}
        BY <3>3
      <3> QED
        BY <3>4 DEF A, B
    <2>2. {s[y] : y \in (1..n) \ {1}} = {s[y] : y \in 1..n} \ {s[1]}
      BY <1>10, ImageWithout
    <2> QED
      BY <2>1, <2>2
  <1> QED
    BY <1>1, <1>4, <1>5, <1>6, <1>7, <1>11 DEF n, d, e

\* zv_pq_insert adds a node that is not there at the end.
LEMMA AppendSame ==
    ASSUME NEW S, NEW s \in Seq(S), NEW n \in S, n \notin {s[x] : x \in DOMAIN s},
           \A x, y \in 1..Len(s) : s[x] = s[y] => x = y
    PROVE  /\ Append(s, n) \in Seq(S) /\ Len(Append(s, n)) = Len(s) + 1
           /\ \A x \in 1..Len(s) : Append(s, n)[x] = s[x]
           /\ Append(s, n)[Len(s) + 1] = n
           /\ \A x, y \in 1..(Len(s) + 1) : Append(s, n)[x] = Append(s, n)[y] => x = y
           /\ {Append(s, n)[x] : x \in DOMAIN Append(s, n)} = {s[x] : x \in DOMAIN s} \cup {n}
  <1> DEFINE a == Append(s, n)
  <1>1. Len(s) \in Nat /\ DOMAIN s = 1..Len(s)
    BY LenProperties
  <1>2. /\ a \in Seq(S) /\ Len(a) = Len(s) + 1
        /\ \A x \in 1..Len(s) : a[x] = s[x]
        /\ a[Len(s) + 1] = n
    BY AppendProperties
  <1> HIDE DEF a
  <1>3. \A x \in 1..Len(s) : s[x] # n
    BY <1>1
  <1>4. \A x \in 1..(Len(s) + 1) : x \in 1..Len(s) \/ x = Len(s) + 1
    BY <1>1
  <1>5. \A x, y \in 1..(Len(s) + 1) : a[x] = a[y] => x = y
    BY <1>2, <1>3, <1>4
  <1>6. DOMAIN a = 1..(Len(s) + 1)
    BY <1>2, LenProperties
  <1>7. \A x \in 1..Len(s) : x \in 1..(Len(s) + 1)
    BY <1>1
  <1>8. Len(s) + 1 \in 1..(Len(s) + 1)
    BY <1>1
  <1>9. {a[x] : x \in 1..(Len(s) + 1)} = {s[x] : x \in 1..Len(s)} \cup {n}
    BY <1>2, <1>4, <1>7, <1>8
  <1> QED
    BY <1>1, <1>2, <1>5, <1>6, <1>9 DEF a

-----------------------------------------------------------------------------
(* One lemma per action.                                                   *)

\* The heap is in order with a node k that is too small for its parent only.
LEMMA SwimStep ==
    ASSUME Inv, swim
    PROVE  Inv'
  <1>1. /\ TqTypeOK /\ HeapOrder /\ op = "swim" /\ phase = "run" /\ k \in 1..Len(pq)
        /\ UNCHANGED <<size, nodeVars, timer, closed, phase, until, msec, now>>
    BY DEF Inv, swim, Repairing, TqTypeOK
  <1>2. CASE k > 1 /\ Less(pq[k], pq[k \div 2])
    <2> DEFINE m == k \div 2
    <2>1. /\ pq' = exch(pq, k, m) /\ k' = m /\ op' = "swim"
      BY <1>1, <1>2 DEF swim
    <2>2. /\ m \in 1..Len(pq) /\ m < k
          /\ (k = 2 * m) \/ (k = 2 * m + 1)
      BY <1>1, <1>2, KeyTypes, Half
    <2> HIDE DEF m
    <2>3. /\ pq' \in Seq(Nodes) /\ Len(pq') = Len(pq)
          /\ \A x \in 1..Len(pq) : pq'[x] = IF x = m THEN pq[k] ELSE IF x = k THEN pq[m] ELSE pq[x]
      BY <1>1, <2>1, <2>2, SMTT(40) DEF TqTypeOK, exch
    <2>4. {pq'[x] : x \in DOMAIN pq'} = live /\ Distinct'
      <3>1. pq \in Seq(Nodes) /\ \A x, y \in 1..Len(pq) : pq[x] = pq[y] => x = y
        BY DEF TqTypeOK, Inv, Distinct
      <3>2. /\ {exch(pq, k, m)[x] : x \in DOMAIN exch(pq, k, m)} = {pq[x] : x \in DOMAIN pq}
            /\ \A x, y \in 1..Len(pq) : exch(pq, k, m)[x] = exch(pq, k, m)[y] => x = y
        BY <1>1, <2>2, <3>1, ExchSame
      <3>3. live = {pq[x] : x \in DOMAIN pq}
        BY <1>1 DEF TqTypeOK
      <3> QED
        BY <2>1, <2>3, <3>2, <3>3 DEF Distinct
    <2>5. TqTypeOK'
      <3>1. /\ live' = {pq'[x] : x \in DOMAIN pq'} /\ Cardinality(live') = Len(pq')
            /\ pq' \in Seq(Nodes) /\ size' \in Nat /\ Len(pq') < size'
        BY <1>1, <2>3, <2>4 DEF TqTypeOK, nodeVars
      <3>2. m \in 1..Len(pq') /\ m \in Nat
        BY <2>2, <2>3, KeyTypes, <1>1
      <3> QED
        BY <3>1, <3>2, <1>1, <2>1 DEF TqTypeOK, nodeVars
    <2>6. HeapOrder'
      <3> SUFFICES ASSUME NEW i \in 2..Len(pq)
                   PROVE  /\ i # m => ~(key[pq'[i]] < key[pq'[i \div 2]])
                          /\ i \div 2 = m /\ m > 1 => ~(key[pq'[i]] < key[pq'[m \div 2]])
        BY <1>1, <2>1, <2>3 DEF HeapOrder, Less, nodeVars
      <3> DEFINE h == i \div 2
                 p == m \div 2
      <3>1. /\ h \in 1..Len(pq) /\ h < i /\ (i = 2 * h \/ i = 2 * h + 1)
            /\ m > 1 => p \in 1..Len(pq) /\ p < m
        BY <2>2, KeyTypes, Half, <1>1, SMTT(40)
      <3>T. /\ key[pq[i]] \in Nat /\ key[pq[h]] \in Nat /\ key[pq[k]] \in Nat
            /\ key[pq[m]] \in Nat /\ (m > 1 => key[pq[p]] \in Nat)
        BY <1>1, <2>2, <3>1, KeyTypes, SMTT(40)
      <3>2. /\ i # k => key[pq[h]] <= key[pq[i]]
            /\ h = k => key[pq[m]] <= key[pq[i]]
            /\ m > 1 => key[pq[p]] <= key[pq[m]]
            /\ key[pq[k]] < key[pq[m]]
        <4>1. i # k => ~Less(pq[i], pq[h])
          BY <1>1 DEF HeapOrder
        <4>2. h = k => ~Less(pq[i], pq[m])
          BY <1>1, <1>2 DEF HeapOrder, m
        <4>3. m > 1 => ~Less(pq[m], pq[p])
          BY <1>1, <2>2 DEF HeapOrder
        <4>4. Less(pq[k], pq[m])
          BY <1>2 DEF m
        <4> QED
          BY <4>1, <4>2, <4>3, <4>4, <3>T, SMTT(40) DEF Less
      <3>4. /\ pq'[i] = IF i = m THEN pq[k] ELSE IF i = k THEN pq[m] ELSE pq[i]
            /\ pq'[h] = IF h = m THEN pq[k] ELSE IF h = k THEN pq[m] ELSE pq[h]
            /\ m > 1 => pq'[p] = pq[p]
        <4> HIDE DEF h, p
        <4>1. m > 1 => p \in 1..Len(pq) /\ p # m /\ p # k
          BY <2>2, <3>1, <1>1, KeyTypes
        <4>2. m > 1 => pq'[p] = pq[p]
          BY <4>1, <2>3
        <4>3. h \in 1..Len(pq) /\ i \in 1..Len(pq)
          BY <3>1, KeyTypes, <1>1
        <4> QED
          BY <4>2, <4>3, <2>3
      <3>5. i = k => h = m
        BY DEF m
      <3> HIDE DEF h, p
      <3>6. i # m => ~(key[pq'[i]] < key[pq'[h]])
        BY <3>1, <3>2, <3>T, <3>4, <3>5, <2>2, <1>1, SMTT(40)
      <3>7. h = m /\ m > 1 => ~(key[pq'[i]] < key[pq'[p]])
        BY <3>1, <3>2, <3>T, <3>4, <3>5, <2>2, <1>1, SMTT(40)
      <3> QED
        BY <3>6, <3>7 DEF h, p
    <2> QED
      BY <1>1, <2>1, <2>4, <2>5, <2>6 DEF Inv, Links, Repairing, NoOversleep, nodeVars
  <1>3. CASE ~(k > 1 /\ Less(pq[k], pq[k \div 2]))
    <2>1. op' = "none" /\ k' = 0 /\ pq' = pq
      BY <1>1, <1>3 DEF swim
    <2>2. TqTypeOK'
      BY <1>1, <2>1 DEF TqTypeOK, nodeVars
    <2>3. HeapOrder'
      <3> SUFFICES ASSUME NEW i \in 2..Len(pq) PROVE ~Less(pq[i], pq[i \div 2])
        BY <1>1, <2>1 DEF HeapOrder, Less, nodeVars
      <3>1. CASE i = k
        BY <3>1, <1>3
      <3>2. CASE i # k
        BY <3>2, <1>1 DEF HeapOrder
      <3> QED
        BY <3>1, <3>2
    <2> QED
      BY <1>1, <2>1, <2>2, <2>3 DEF Inv, Distinct, Links, Repairing, NoOversleep, nodeVars
  <1> QED
    BY <1>2, <1>3

\* The smaller child, and that it is one.
LEMMA ChildProperties ==
    ASSUME TqTypeOK, k \in 1..(Len(pq) + 1), 2 * k <= Len(pq)
    PROVE  /\ Child(k) \in 1..Len(pq) /\ k \in 1..Len(pq)
           /\ Child(k) = 2 * k \/ Child(k) = 2 * k + 1
           /\ Child(k) > k /\ Child(k) \div 2 = k
           /\ \A i \in 2..Len(pq) : i \div 2 = k => key[pq[Child(k)]] <= key[pq[i]]
  <1>1. k \in Nat /\ Len(pq) \in Nat /\ k >= 1
    BY KeyTypes
  <1>2. /\ Child(k) = 2 * k \/ (Child(k) = 2 * k + 1 /\ 2 * k < Len(pq))
    BY DEF Child
  <1>3. /\ Child(k) \in 1..Len(pq) /\ k \in 1..Len(pq) /\ 2 * k \in 1..Len(pq)
        /\ Child(k) = 2 * k \/ Child(k) = 2 * k + 1
        /\ Child(k) > k /\ Child(k) \div 2 = k
    BY <1>1, <1>2, Half
  <1>4. ASSUME NEW i \in 2..Len(pq), i \div 2 = k
        PROVE  key[pq[Child(k)]] <= key[pq[i]]
    <2>1. i = 2 * k \/ i = 2 * k + 1
      BY <1>4, Half
    <2>2. key[pq[i]] \in Nat /\ key[pq[2 * k]] \in Nat /\ key[pq[Child(k)]] \in Nat
      BY <1>3, KeyTypes, SMTT(40)
    <2> QED
      BY <1>1, <1>4, <2>1, <2>2, SMTT(40) DEF Child, Less
  <1> QED
    BY <1>3, <1>4

\* The heap is in order with a node k that is too large for its children only.
LEMMA SinkStep ==
    ASSUME Inv, sink
    PROVE  Inv'
  <1>1. /\ TqTypeOK /\ HeapOrder /\ op = "sink" /\ phase \in {"find", "expire"}
        /\ k \in 1..(Len(pq) + 1)
        /\ UNCHANGED <<nodeVars, timer, closed, phase, until, msec, now>>
    BY DEF Inv, sink, Repairing, TqTypeOK
  <1>2. CASE 2 * k <= Len(pq) /\ Less(pq[Child(k)], pq[k])
    <2> DEFINE m == Child(k)
    <2>1. pq' = exch(pq, k, m) /\ k' = m /\ op' = "sink" /\ size' = size
      BY <1>1, <1>2 DEF sink
    <2>2. /\ m \in 1..Len(pq) /\ k \in 1..Len(pq) /\ k < m /\ m \div 2 = k
          /\ m = 2 * k \/ m = 2 * k + 1
          /\ \A i \in 2..Len(pq) : i \div 2 = k => key[pq[m]] <= key[pq[i]]
      BY <1>1, <1>2, ChildProperties
    <2>a. key[pq[m]] < key[pq[k]]
      BY <1>2 DEF Less
    <2> HIDE DEF m
    <2>3. /\ pq' \in Seq(Nodes) /\ Len(pq') = Len(pq)
          /\ \A x \in 1..Len(pq) : pq'[x] = IF x = m THEN pq[k] ELSE IF x = k THEN pq[m] ELSE pq[x]
      BY <1>1, <2>1, <2>2, SMTT(40) DEF TqTypeOK, exch
    <2>4. {pq'[x] : x \in DOMAIN pq'} = live /\ Distinct'
      <3>1. pq \in Seq(Nodes) /\ \A x, y \in 1..Len(pq) : pq[x] = pq[y] => x = y
        BY DEF TqTypeOK, Inv, Distinct
      <3>2. /\ {exch(pq, k, m)[x] : x \in DOMAIN exch(pq, k, m)} = {pq[x] : x \in DOMAIN pq}
            /\ \A x, y \in 1..Len(pq) : exch(pq, k, m)[x] = exch(pq, k, m)[y] => x = y
        <4>1. k \in 1..Len(pq) /\ m \in 1..Len(pq)
          BY <2>2
        <4> QED
          BY <4>1, <3>1, ExchSame
      <3>3. live = {pq[x] : x \in DOMAIN pq}
        BY <1>1 DEF TqTypeOK
      <3> QED
        BY <2>1, <2>3, <3>2, <3>3 DEF Distinct
    <2>5. TqTypeOK'
      <3>1. /\ live' = {pq'[x] : x \in DOMAIN pq'} /\ Cardinality(live') = Len(pq')
            /\ pq' \in Seq(Nodes) /\ size' \in Nat /\ Len(pq') < size'
        BY <1>1, <2>1, <2>3, <2>4 DEF TqTypeOK, nodeVars
      <3>2. m \in 1..(Len(pq') + 1) /\ m \in Nat
        BY <2>2, <2>3, KeyTypes, <1>1
      <3> QED
        BY <3>1, <3>2, <1>1, <2>1 DEF TqTypeOK, nodeVars
    <2>6. HeapOrder'
      <3> SUFFICES ASSUME NEW i \in 2..Len(pq)
                   PROVE  /\ i \div 2 # m => ~(key[pq'[i]] < key[pq'[i \div 2]])
                          /\ i \div 2 = m => ~(key[pq'[i]] < key[pq'[m \div 2]])
        BY <1>1, <2>1, <2>3 DEF HeapOrder, Less, nodeVars
      <3> DEFINE h == i \div 2
                 p == k \div 2
      <3>1. /\ h \in 1..Len(pq) /\ h < i /\ (i = 2 * h \/ i = 2 * h + 1)
            /\ k > 1 => p \in 1..Len(pq) /\ p < k
        BY <2>2, KeyTypes, Half, <1>1
      <3>2. /\ key[pq[i]] \in Nat /\ key[pq[h]] \in Nat /\ key[pq[k]] \in Nat
            /\ key[pq[m]] \in Nat /\ (k > 1 => key[pq[p]] \in Nat)
        <4>1. \A x \in 1..Len(pq) : key[pq[x]] \in Nat
          BY <1>1, KeyTypes
        <4> QED
          BY <4>1, <2>2, <3>1, SMTT(40)
      <3>3. /\ h # k => key[pq[h]] <= key[pq[i]]
            /\ h = k => key[pq[m]] <= key[pq[i]]
            /\ k > 1 => key[pq[p]] <= key[pq[m]]
        <4>1. h # k => ~Less(pq[i], pq[h])
          BY <1>1 DEF HeapOrder
        <4>2. h = k => key[pq[m]] <= key[pq[i]]
          BY <2>2
        <4>3. k > 1 => ~Less(pq[m], pq[p])
          BY <1>1, <2>2 DEF HeapOrder
        <4> QED
          BY <4>1, <4>2, <4>3, <3>2, SMTT(40) DEF Less
      <3>4. /\ pq'[i] = IF i = m THEN pq[k] ELSE IF i = k THEN pq[m] ELSE pq[i]
            /\ pq'[h] = IF h = m THEN pq[k] ELSE IF h = k THEN pq[m] ELSE pq[h]
            /\ pq'[k] = pq[m]
        BY <2>2, <2>3, <3>1, <1>1, KeyTypes, SMTT(40)
      <3>5. (i = m => h = k) /\ (i = k => h = p /\ k > 1)
        BY <2>2
      <3> HIDE DEF h, p
      <3>6. h # m => ~(key[pq'[i]] < key[pq'[h]])
        <4>1. CASE h = k
          BY <4>1, <3>1, <3>2, <3>3, <3>4, <2>2, <2>a, SMTT(40)
        <4>2. CASE h # k /\ i = k
          BY <4>2, <3>1, <3>2, <3>3, <3>4, <3>5, <2>2
        <4>3. CASE h # k /\ i # k
          BY <4>3, <3>2, <3>3, <3>4, <3>5
        <4> QED
          BY <4>1, <4>2, <4>3
      <3>7. h = m => ~(key[pq'[i]] < key[pq'[k]])
        BY <3>1, <3>2, <3>3, <3>4, <3>5, <2>2, <2>a, <1>1
      <3> QED
        BY <3>6, <3>7, <2>2 DEF h, p
    <2> QED
      BY <1>1, <2>1, <2>4, <2>5, <2>6 DEF Inv, Links, Repairing, NoOversleep, nodeVars
  <1>3. CASE ~(2 * k <= Len(pq) /\ Less(pq[Child(k)], pq[k]))
    <2>1. /\ op' = "none" /\ k' = 0 /\ pq' = pq
          /\ size' = IF pq # <<>> /\ Len(pq) <= (size - 1) \div 4 THEN size \div 2 ELSE size
      BY <1>1, <1>3 DEF sink
    <2>2. size' \in Nat /\ Len(pq) < size'
      <3>1. Len(pq) \in Nat /\ size \in Nat /\ Len(pq) < size /\ (pq # <<>> => Len(pq) >= 1)
        BY <1>1, KeyTypes DEF TqTypeOK
      <3> QED
        BY <3>1, <2>1
    <2>3. TqTypeOK'
      BY <1>1, <2>1, <2>2 DEF TqTypeOK, nodeVars
    <2>4. HeapOrder'
      <3> SUFFICES ASSUME NEW i \in 2..Len(pq) PROVE ~Less(pq[i], pq[i \div 2])
        BY <1>1, <2>1 DEF HeapOrder, Less, nodeVars
      <3>1. CASE i \div 2 = k
        <4>1. 2 * k <= Len(pq)
          BY <3>1, <1>1, KeyTypes, Half
        <4>2. /\ key[pq[Child(k)]] <= key[pq[i]] /\ Child(k) \in 1..Len(pq)
              /\ k \in 1..Len(pq)
          BY <1>1, <3>1, <4>1, ChildProperties
        <4>3. key[pq[Child(k)]] \in Nat /\ key[pq[k]] \in Nat /\ key[pq[i]] \in Nat
          BY <1>1, <4>2, KeyTypes
        <4> QED
          BY <1>3, <3>1, <4>1, <4>2, <4>3, SMTT(40) DEF Less
      <3>2. CASE i \div 2 # k
        BY <3>2, <1>1 DEF HeapOrder
      <3> QED
        BY <3>1, <3>2
    <2> QED
      BY <1>1, <2>1, <2>3, <2>4 DEF Inv, Distinct, Links, Repairing, NoOversleep, nodeVars
  <1> QED
    BY <1>2, <1>3

\* zv_pq_delmin and free: the top is gone, the other nodes are what they were,
\* and only the root may be out of order.
LEMMA DelminHeap ==
    ASSUME Inv, op = "none", pq # <<>>, zv_pq_delmin, Free(pq[1])
    PROVE  /\ pq[1] \in Nodes /\ pq[1] \in live /\ live' = live \ {pq[1]}
           /\ \A n \in Nodes : n # pq[1] =>
                key'[n] = key[n] /\ deleted'[n] = deleted[n] /\ rq'[n] = rq[n]
           /\ pq' \in Seq(Nodes) /\ size' \in Nat /\ Len(pq') < size'
           /\ live' = {pq'[i] : i \in DOMAIN pq'} /\ Cardinality(live') = Len(pq')
           /\ op' = "sink" /\ k' = 1 /\ 1 \in 1..(Len(pq') + 1)
           /\ key' \in [Nodes -> Nat] /\ deleted' \in [Nodes -> BOOLEAN]
           /\ rq' \in [Nodes -> Reqs \cup {None}]
           /\ Distinct' /\ HeapOrder'
  <1>1. /\ TqTypeOK /\ pq \in Seq(Nodes) /\ Len(pq) \in Nat /\ Len(pq) >= 1
        /\ \A x, y \in 1..Len(pq) : pq[x] = pq[y] => x = y
        /\ size \in Nat /\ Len(pq) < size /\ live = {pq[i] : i \in DOMAIN pq}
    BY KeyTypes DEF Inv, TqTypeOK, Distinct
  <1>2. pq[1] \in Nodes /\ pq[1] \in live
    BY <1>1, KeyTypes
  <1>3. /\ key' = [key EXCEPT ![pq[1]] = 0] /\ deleted' = [deleted EXCEPT ![pq[1]] = FALSE]
        /\ rq' = [rq EXCEPT ![pq[1]] = None] /\ live' = live \ {pq[1]}
    BY DEF Free
  <1>4. /\ key' \in [Nodes -> Nat] /\ deleted' \in [Nodes -> BOOLEAN]
        /\ rq' \in [Nodes -> Reqs \cup {None}]
        /\ \A n \in Nodes : n # pq[1] =>
             key'[n] = key[n] /\ deleted'[n] = deleted[n] /\ rq'[n] = rq[n]
    BY <1>1, <1>2, <1>3 DEF TqTypeOK
  <1>5. /\ pq' = SubSeq(exch(pq, 1, Len(pq)), 1, Len(pq) - 1)
        /\ op' = "sink" /\ k' = 1 /\ size' = size
    BY DEF zv_pq_delmin
  <1>6. /\ pq' \in Seq(Nodes) /\ Len(pq') = Len(pq) - 1
        /\ \A x \in 1..Len(pq') : pq'[x] = IF x = 1 THEN pq[Len(pq)] ELSE pq[x]
        /\ \A x, y \in 1..Len(pq') : pq'[x] = pq'[y] => x = y
        /\ {pq'[x] : x \in DOMAIN pq'} = {pq[x] : x \in DOMAIN pq} \ {pq[1]}
    <2> DEFINE d == SubSeq(exch(pq, 1, Len(pq)), 1, Len(pq) - 1)
    <2>1. /\ d \in Seq(Nodes) /\ Len(d) = Len(pq) - 1
          /\ \A x \in 1..Len(d) : d[x] = IF x = 1 THEN pq[Len(pq)] ELSE pq[x]
          /\ \A x, y \in 1..Len(d) : d[x] = d[y] => x = y
          /\ {d[x] : x \in DOMAIN d} = {pq[x] : x \in DOMAIN pq} \ {pq[1]}
      BY <1>1, DelminSame
    <2>2. pq' = d
      BY <1>5
    <2> HIDE DEF d
    <2> QED
      BY <2>1, <2>2, ZenonT(60)
  <1>7. live' = {pq'[i] : i \in DOMAIN pq'}
    BY <1>1, <1>3, <1>6
  <1>8. Cardinality(live') = Len(pq')
    BY <1>6, <1>7, DistinctCount
  <1>9. HeapOrder'
    <2> SUFFICES ASSUME NEW i \in 2..Len(pq'), i \div 2 # 1
                 PROVE  ~(key'[pq'[i]] < key'[pq'[i \div 2]])
      BY <1>5 DEF HeapOrder, Less
    <2> DEFINE h == i \div 2
    <2>1. /\ i \in 1..Len(pq') /\ h \in 1..Len(pq') /\ i # 1 /\ h # 1
          /\ i \in 2..Len(pq) /\ h \in 1..Len(pq) /\ i \in 1..Len(pq) /\ 1 \in 1..Len(pq)
      BY <1>1, <1>6, Half
    <2>2. ~(key[pq[i]] < key[pq[h]])
      BY <2>1 DEF Inv, HeapOrder, Less
    <2> HIDE DEF h
    <2>3. pq'[i] = pq[i] /\ pq'[h] = pq[h]
      BY <2>1, <1>6
    <2>4. pq[i] # pq[1] /\ pq[h] # pq[1] /\ pq[i] \in Nodes /\ pq[h] \in Nodes
      BY <2>1, <1>1, KeyTypes
    <2>5. key'[pq'[i]] = key[pq[i]] /\ key'[pq'[h]] = key[pq[h]]
      BY <2>3, <2>4, <1>4
    <2> QED
      BY <2>2, <2>5 DEF h
  <1>10. Len(pq') < size' /\ size' \in Nat /\ 1 \in 1..(Len(pq') + 1)
    BY <1>1, <1>5, <1>6
  <1> QED
    BY <1>2, <1>3, <1>4, <1>5, <1>6, <1>7, <1>8, <1>9, <1>10 DEF Distinct

\* A cancelled node has no request any more.
LEMMA PopDeletedStep ==
    ASSUME Inv, PopDeleted
    PROVE  Inv'
  <1>1. /\ op = "none" /\ phase \in {"find", "expire"} /\ pq # <<>> /\ deleted[pq[1]]
        /\ zv_pq_delmin /\ Free(pq[1])
        /\ msec' = now /\ UNCHANGED <<timer, closed, phase, until, now>>
    BY DEF PopDeleted
  <1>2. TqTypeOK'
    BY <1>1, DelminHeap, SMTT(40) DEF Inv, TqTypeOK
  <1>3. \A r \in Reqs : timer[r] # None => timer[r] \in Nodes /\ timer[r] # pq[1]
    BY <1>1 DEF Inv, Links, TqTypeOK
  <1>4. \A n \in live : n \in Nodes
    BY KeyTypes DEF Inv
  <1>5. Links'
    <2>1. \A r \in Reqs : timer'[r] # None =>
            timer'[r] \in live' /\ ~deleted'[timer'[r]] /\ rq'[timer'[r]] = r
      BY <1>1, <1>3, DelminHeap DEF Inv, Links
    <2>2. \A n \in live' : ~deleted'[n] => rq'[n] \in Reqs /\ timer'[rq'[n]] = n
      BY <1>1, <1>4, DelminHeap DEF Inv, Links
    <2> QED
      BY <2>1, <2>2 DEF Links
  <1>6. Repairing' /\ NoOversleep'
    BY <1>1, DelminHeap DEF Repairing, NoOversleep
  <1> QED
    BY <1>1, <1>2, <1>5, <1>6, DelminHeap DEF Inv

\* The node of the request that is closed leaves with it.
LEMMA ExpireStep ==
    ASSUME Inv, Expire
    PROVE  Inv'
  <1>1. /\ op = "none" /\ phase = "expire" /\ pq # <<>> /\ ~deleted[pq[1]]
        /\ zv_pq_delmin /\ Free(pq[1])
        /\ timer' = [timer EXCEPT ![rq[pq[1]]] = None]
        /\ closed' = [closed EXCEPT ![rq[pq[1]]] = TRUE]
        /\ msec' = now /\ UNCHANGED <<phase, until, now>>
    BY DEF Expire
  <1>2. rq[pq[1]] \in Reqs /\ timer[rq[pq[1]]] = pq[1]
    BY <1>1, DelminHeap DEF Inv, Links
  <1>3. timer' \in [Reqs -> Nodes \cup {None}] /\ closed' \in [Reqs -> BOOLEAN]
    BY <1>1 DEF Inv, TqTypeOK
  <1>4. /\ timer'[rq[pq[1]]] = None
        /\ \A r \in Reqs : r # rq[pq[1]] => timer'[r] = timer[r]
    BY <1>1, <1>2 DEF Inv, TqTypeOK
  <1>5. TqTypeOK'
    <2>1. phase' = phase /\ until' = until /\ now' = now /\ msec' = now /\ TqTypeOK
      BY <1>1 DEF Inv
    <2>2. /\ phase' \in {"find", "wait", "run", "expire"} /\ until' \in Nat \cup {None}
          /\ now' \in 0..Horizon /\ msec' \in 0..now'
      BY <2>1 DEF TqTypeOK
    <2> QED
      BY <1>1, <1>3, <2>2, DelminHeap DEF TqTypeOK
  <1>6. \A n \in live : n \in Nodes
    BY KeyTypes DEF Inv
  <1>7. Links'
    <2>1. ASSUME NEW r \in Reqs, timer'[r] # None
          PROVE  timer'[r] \in live' /\ ~deleted'[timer'[r]] /\ rq'[timer'[r]] = r
      <3>1. r # rq[pq[1]] /\ timer'[r] = timer[r]
        BY <2>1, <1>4
      <3>2. timer[r] \in live /\ ~deleted[timer[r]] /\ rq[timer[r]] = r
        BY <2>1, <3>1 DEF Inv, Links
      <3>3. timer[r] # pq[1] /\ timer[r] \in Nodes
        BY <3>1, <3>2, <1>6
      <3> QED
        BY <1>1, <3>1, <3>2, <3>3, DelminHeap
    <2>2. ASSUME NEW n \in live', ~deleted'[n]
          PROVE  rq'[n] \in Reqs /\ timer'[rq'[n]] = n
      <3>1. n \in live /\ n # pq[1] /\ n \in Nodes
        BY <1>1, <1>6, DelminHeap
      <3>2. ~deleted[n] /\ rq'[n] = rq[n]
        BY <1>1, <2>2, <3>1, DelminHeap
      <3>3. rq[n] \in Reqs /\ timer[rq[n]] = n
        BY <3>1, <3>2 DEF Inv, Links
      <3> QED
        BY <1>2, <1>4, <3>1, <3>2, <3>3
    <2> QED
      BY <2>1, <2>2 DEF Links
  <1>8. Repairing' /\ NoOversleep'
    BY <1>1, DelminHeap DEF Repairing, NoOversleep
  <1> QED
    BY <1>1, <1>5, <1>7, <1>8, DelminHeap DEF Inv

\* A new node goes to the end of the heap and belongs to its request.
LEMMA AddStep ==
    ASSUME Inv, NEW r \in Reqs, NEW t \in Timeouts, NEW n \in Nodes, zv_add_timer(r, t, n)
    PROVE  Inv'
  <1>1. /\ op = "none" /\ phase = "run" /\ timer[r] = None /\ n \notin live /\ msec' = now
        /\ timer' = [timer EXCEPT ![r] = n] /\ key' = [key EXCEPT ![n] = now + t]
        /\ deleted' = [deleted EXCEPT ![n] = FALSE] /\ rq' = [rq EXCEPT ![n] = r]
        /\ live' = live \cup {n} /\ closed' = [closed EXCEPT ![r] = FALSE]
        /\ size' = IF Len(pq) + 1 = size THEN size * 2 ELSE size
        /\ pq' = Append(pq, n) /\ op' = "swim" /\ k' = Len(pq) + 1
        /\ UNCHANGED <<phase, until, now>>
    BY DEF zv_add_timer, zv_pq_insert
  <1>2. /\ TqTypeOK /\ pq \in Seq(Nodes) /\ Len(pq) \in Nat /\ size \in Nat /\ Len(pq) < size
        /\ \A x, y \in 1..Len(pq) : pq[x] = pq[y] => x = y
        /\ live = {pq[i] : i \in DOMAIN pq} /\ now \in Nat /\ t \in Nat
    BY KeyTypes, TimerAssumption DEF Inv, TqTypeOK, Distinct
  <1>3. /\ pq' \in Seq(Nodes) /\ Len(pq') = Len(pq) + 1
        /\ \A x \in 1..Len(pq) : pq'[x] = pq[x]
        /\ \A x, y \in 1..Len(pq') : pq'[x] = pq'[y] => x = y
        /\ live' = {pq'[i] : i \in DOMAIN pq'}
    <2> DEFINE a == Append(pq, n)
    <2>1. n \notin {pq[x] : x \in DOMAIN pq} /\ pq' = a /\ live' = {pq[x] : x \in DOMAIN pq} \cup {n}
      BY <1>1, <1>2
    <2>2. /\ a \in Seq(Nodes) /\ Len(a) = Len(pq) + 1
          /\ \A x \in 1..Len(pq) : a[x] = pq[x]
          /\ \A x, y \in 1..(Len(pq) + 1) : a[x] = a[y] => x = y
          /\ {a[x] : x \in DOMAIN a} = {pq[x] : x \in DOMAIN pq} \cup {n}
      BY <1>2, <2>1, AppendSame, SMTT(40)
    <2> HIDE DEF a
    <2> QED
      BY <2>1, <2>2, SMTT(40)
  <1>4. Cardinality(live') = Len(pq')
    BY <1>3, DistinctCount
  <1>5. /\ key' \in [Nodes -> Nat] /\ deleted' \in [Nodes -> BOOLEAN]
        /\ rq' \in [Nodes -> Reqs \cup {None}] /\ timer' \in [Reqs -> Nodes \cup {None}]
        /\ closed' \in [Reqs -> BOOLEAN]
    BY <1>1, <1>2 DEF TqTypeOK
  <1>6. /\ size' \in Nat /\ Len(pq') < size' /\ k' \in 1..Len(pq') /\ k' \in Nat
        /\ now' \in 0..Horizon /\ msec' \in 0..now'
    <2>1. Len(pq) + 1 < size'
      BY <1>1, <1>2
    <2> QED
      BY <1>1, <1>2, <1>3, <2>1 DEF TqTypeOK
  <1>7. TqTypeOK'
    <2>1. phase' = "run" /\ until' \in Nat \cup {None} /\ op' = "swim"
      BY <1>1, <1>2 DEF TqTypeOK
    <2> QED
      BY <1>3, <1>4, <1>5, <1>6, <2>1 DEF TqTypeOK
  <1>8. /\ deleted'[n] = FALSE /\ rq'[n] = r /\ timer'[r] = n
        /\ \A m \in Nodes : m # n =>
             key'[m] = key[m] /\ deleted'[m] = deleted[m] /\ rq'[m] = rq[m]
        /\ \A q \in Reqs : q # r => timer'[q] = timer[q]
    BY <1>1, <1>2 DEF TqTypeOK
  <1>9. \A m \in live : m \in Nodes /\ m # n
    BY <1>1, <1>2, KeyTypes
  <1>10. HeapOrder'
    <2> SUFFICES ASSUME NEW i \in 2..Len(pq'), i # Len(pq) + 1
                 PROVE  ~(key'[pq'[i]] < key'[pq'[i \div 2]])
      <3>1. \A i \in 2..Len(pq') : i \div 2 # Len(pq) + 1
        BY <1>2, <1>3, Half
      <3> QED
        BY <1>1, <3>1 DEF HeapOrder, Less
    <2> DEFINE h == i \div 2
    <2>1. i \in 2..Len(pq) /\ i \in 1..Len(pq) /\ h \in 1..Len(pq)
      BY <1>2, <1>3, Half
    <2>2. ~(key[pq[i]] < key[pq[h]])
      BY <1>1, <2>1 DEF Inv, HeapOrder, Less
    <2> HIDE DEF h
    <2>3. /\ pq'[i] = pq[i] /\ pq'[h] = pq[h] /\ pq[i] \in live /\ pq[h] \in live
      BY <1>2, <1>3, <2>1, KeyTypes
    <2>4. key'[pq'[i]] = key[pq[i]] /\ key'[pq'[h]] = key[pq[h]]
      BY <2>3, <1>8, <1>9
    <2> QED
      BY <2>2, <2>4 DEF h
  <1>11. Links'
    <2>1. ASSUME NEW q \in Reqs, timer'[q] # None
          PROVE  timer'[q] \in live' /\ ~deleted'[timer'[q]] /\ rq'[timer'[q]] = q
      <3>1. CASE q = r
        BY <3>1, <1>1, <1>8
      <3>2. CASE q # r
        <4>1. timer'[q] = timer[q]
          BY <3>2, <1>8
        <4>2. timer[q] \in live /\ ~deleted[timer[q]] /\ rq[timer[q]] = q
          BY <2>1, <4>1 DEF Inv, Links
        <4> QED
          BY <4>1, <4>2, <1>1, <1>8, <1>9
      <3> QED
        BY <3>1, <3>2
    <2>2. ASSUME NEW m \in live', ~deleted'[m]
          PROVE  rq'[m] \in Reqs /\ timer'[rq'[m]] = m
      <3>1. CASE m = n
        BY <3>1, <1>8
      <3>2. CASE m # n
        <4>1. m \in live /\ ~deleted[m] /\ rq'[m] = rq[m]
          BY <3>2, <2>2, <1>1, <1>8, <1>9
        <4>2. rq[m] \in Reqs /\ timer[rq[m]] = m
          BY <4>1 DEF Inv, Links
        <4>3. m # None
          BY <4>1, <1>9, TimerAssumption
        <4> QED
          BY <4>1, <4>2, <4>3, <1>1, <1>8
      <3> QED
        BY <3>1, <3>2
    <2> QED
      BY <2>1, <2>2 DEF Links
  <1>12. Repairing' /\ NoOversleep' /\ Distinct'
    BY <1>1, <1>3 DEF Repairing, NoOversleep, Distinct
  <1> QED
    BY <1>7, <1>10, <1>11, <1>12 DEF Inv

\* A request and its node forget each other.
LEMMA DelStep ==
    ASSUME Inv, NEW r \in Reqs, zv_del_timer(r)
    PROVE  Inv'
  <1>1. /\ op = "none" /\ phase = "run" /\ timer[r] # None /\ msec' = now
        /\ deleted' = [deleted EXCEPT ![timer[r]] = TRUE] /\ timer' = [timer EXCEPT ![r] = None]
        /\ UNCHANGED <<heapVars, key, rq, live, closed, phase, until, now>>
    BY DEF zv_del_timer
  <1>2. /\ timer[r] \in live /\ ~deleted[timer[r]] /\ rq[timer[r]] = r /\ timer[r] \in Nodes
    BY <1>1 DEF Inv, Links, TqTypeOK
  <1>3. /\ deleted'[timer[r]] = TRUE /\ timer'[r] = None
        /\ \A m \in Nodes : m # timer[r] => deleted'[m] = deleted[m]
        /\ \A q \in Reqs : q # r => timer'[q] = timer[q]
    BY <1>1, <1>2 DEF Inv, TqTypeOK
  <1>4. TqTypeOK'
    <2>1. deleted' \in [Nodes -> BOOLEAN] /\ timer' \in [Reqs -> Nodes \cup {None}]
      BY <1>1, <1>2 DEF Inv, TqTypeOK
    <2> QED
      BY <1>1, <2>1 DEF Inv, TqTypeOK, heapVars
  <1>5. Links'
    <2>1. \A m \in live : m \in Nodes
      BY KeyTypes DEF Inv
    <2>2. ASSUME NEW q \in Reqs, timer'[q] # None
          PROVE  timer'[q] \in live' /\ ~deleted'[timer'[q]] /\ rq'[timer'[q]] = q
      <3>1. q # r /\ timer'[q] = timer[q]
        BY <2>2, <1>3
      <3>2. timer[q] \in live /\ ~deleted[timer[q]] /\ rq[timer[q]] = q
        BY <2>2, <3>1 DEF Inv, Links
      <3> QED
        BY <3>1, <3>2, <1>1, <1>2, <1>3, <2>1
    <2>3. ASSUME NEW m \in live', ~deleted'[m]
          PROVE  rq'[m] \in Reqs /\ timer'[rq'[m]] = m
      <3>1. m \in live /\ m # timer[r] /\ ~deleted[m] /\ rq'[m] = rq[m]
        BY <2>1, <2>3, <1>1, <1>3
      <3>2. rq[m] \in Reqs /\ timer[rq[m]] = m
        BY <3>1 DEF Inv, Links
      <3> QED
        BY <3>1, <3>2, <1>3
    <2> QED
      BY <2>2, <2>3 DEF Links
  <1>6. HeapOrder' /\ Distinct' /\ Repairing' /\ NoOversleep'
    BY <1>1 DEF Inv, HeapOrder, Less, Distinct, Repairing, NoOversleep, heapVars
  <1> QED
    BY <1>4, <1>5, <1>6 DEF Inv

\* The steps that leave the heap and the timers alone.
LEMMA LoopStep ==
    ASSUME Inv, UNCHANGED <<heapVars, nodeVars, timer, closed>>
    PROVE  Distinct' /\ Links' /\ HeapOrder'
  BY DEF Inv, Distinct, Links, HeapOrder, Less, heapVars, nodeVars

\* epoll_wait gets the time to the top, which no timer is before.
LEMMA FindStep ==
    ASSUME Inv, FindTimer \/ FindNone
    PROVE  Inv'
  <1>1. Distinct' /\ Links' /\ HeapOrder'
    BY LoopStep DEF FindTimer, FindNone
  <1>2. op = "none" /\ op' = "none" /\ phase' = "wait" /\ timer' = timer /\ key' = key
    BY DEF FindTimer, FindNone, heapVars, nodeVars
  <1>3. CASE FindTimer
    <2>1. /\ pq # <<>> /\ msec' = now
          /\ until' = now + (IF key[pq[1]] > now THEN key[pq[1]] - now ELSE 0)
      BY <1>3 DEF FindTimer
    <2>2. key[pq[1]] \in Nat /\ now \in Nat
      BY <2>1, KeyTypes DEF Inv, TqTypeOK
    <2>3. until' \in Nat /\ (until' = key[pq[1]] \/ until' = msec')
      BY <2>1, <2>2
    <2>4. TqTypeOK'
      BY <1>3, <2>1, <2>3 DEF Inv, TqTypeOK, FindTimer, heapVars, nodeVars
    <2>5. NoOversleep'
      <3> SUFFICES ASSUME NEW r \in Reqs, timer[r] # None
                   PROVE  until' # None /\ (until' <= key[timer[r]] \/ until' = msec')
        BY <1>2 DEF NoOversleep
      <3>1. key[pq[1]] <= key[timer[r]]
        BY <1>2, TimersBelowTop
      <3> QED
        BY <2>3, <3>1, TimerAssumption
    <2> QED
      BY <1>1, <1>2, <2>4, <2>5 DEF Inv, Repairing
  <1>4. CASE FindNone
    <2>1. \A r \in Reqs : timer[r] = None
      BY <1>2, <1>4, TimersBelowTop DEF FindNone
    <2>2. TqTypeOK'
      BY <1>4 DEF Inv, TqTypeOK, FindNone, heapVars, nodeVars
    <2> QED
      BY <1>1, <1>2, <2>1, <2>2 DEF Inv, Repairing, NoOversleep
  <1> QED
    BY <1>3, <1>4

\* The rest of the event loop, and the clock.
LEMMA OtherStep ==
    ASSUME Inv, WaitEnd \/ RunEnd \/ ExpireEnd \/ Tick
    PROVE  Inv'
  <1>1. Distinct' /\ Links' /\ HeapOrder'
    BY LoopStep DEF WaitEnd, RunEnd, ExpireEnd, Tick
  <1>2. CASE WaitEnd
    BY <1>1, <1>2 DEF Inv, TqTypeOK, Repairing, NoOversleep, WaitEnd, heapVars, nodeVars
  <1>3. CASE RunEnd
    BY <1>1, <1>3 DEF Inv, TqTypeOK, Repairing, NoOversleep, RunEnd, heapVars, nodeVars
  <1>4. CASE ExpireEnd
    BY <1>1, <1>4 DEF Inv, TqTypeOK, Repairing, NoOversleep, ExpireEnd, heapVars, nodeVars
  <1>5. CASE Tick
    <2>1. now' \in 0..Horizon /\ msec' \in 0..now'
      BY <1>5, TimerAssumption DEF Inv, TqTypeOK, Tick
    <2> QED
      BY <1>1, <1>5, <2>1 DEF Inv, TqTypeOK, Repairing, NoOversleep, Tick, heapVars, nodeVars
  <1> QED
    BY <1>2, <1>3, <1>4, <1>5

\* The empty heap is in order.
LEMMA InitInv == Init => Inv
  <1> SUFFICES ASSUME Init PROVE Inv
    OBVIOUS
  <1>1. /\ pq \in Seq(Nodes) /\ Len(pq) = 0 /\ DOMAIN pq = {} /\ live = {} /\ Cardinality(live) = 0
    BY FS_EmptySet, EmptySeq DEF Init
  <1>2. {pq[i] : i \in DOMAIN pq} = {}
    BY <1>1
  <1>3. TqTypeOK
    BY <1>1, <1>2, TimerAssumption DEF Init, TqTypeOK
  <1> QED
    BY <1>1, <1>3 DEF Init, Inv, Distinct, Links, Repairing, HeapOrder, NoOversleep

\* Every step keeps the invariant.
LEMMA NextInv == Inv /\ [Next]_vars => Inv'
  <1> SUFFICES ASSUME Inv, [Next]_vars PROVE Inv'
    OBVIOUS
  <1>1. CASE UNCHANGED vars
    <2>1. Distinct' /\ Links' /\ HeapOrder'
      BY <1>1, LoopStep DEF vars
    <2> QED
      BY <1>1, <2>1 DEF Inv, TqTypeOK, Repairing, NoOversleep, vars, heapVars, nodeVars
  <1>2. CASE swim
    BY <1>2, SwimStep
  <1>3. CASE sink
    BY <1>3, SinkStep
  <1>4. CASE \E r \in Reqs : zv_del_timer(r)
    BY <1>4, DelStep
  <1>5. CASE \E r \in Reqs, t \in Timeouts, n \in Nodes : zv_add_timer(r, t, n)
    BY <1>5, AddStep
  <1>6. CASE PopDeleted
    BY <1>6, PopDeletedStep
  <1>7. CASE Expire
    BY <1>7, ExpireStep
  <1>8. CASE FindTimer \/ FindNone
    BY <1>8, FindStep
  <1>9. CASE WaitEnd \/ RunEnd \/ ExpireEnd \/ Tick
    BY <1>9, OtherStep
  <1> QED
    BY <1>1, <1>2, <1>3, <1>4, <1>5, <1>6, <1>7, <1>8, <1>9 DEF Next

-----------------------------------------------------------------------------
(* The theorems.                                                           *)

\* The inductive invariant holds in every state timer.c and priority_queue.c
\* reach.
THEOREM InvHolds == Spec => []Inv
  BY InitInv, NextInv, PTL DEF Spec

\* The array is always larger than the heap, through every doubling and halving
\* of priority_queue.c, and the allocated nodes are the nodes of the heap.
THEOREM TypeCorrect == Spec => []TqTypeOK
  <1>1. Inv => TqTypeOK
    BY DEF Inv
  <1> QED
    BY <1>1, InvHolds, PTL

\* swim and sink repair the heap, whatever its size and keys.
THEOREM HeapInOrder == Spec => []HeapOrder
  <1>1. Inv => HeapOrder
    BY DEF Inv
  <1> QED
    BY <1>1, InvHolds, PTL

\* epoll_wait never sleeps past a timer that is set.
THEOREM NeverOversleeps == Spec => []NoOversleep
  <1>1. Inv => NoOversleep
    BY DEF Inv
  <1> QED
    BY <1>1, InvHolds, PTL

\* zv_handle_expire_timers leaves no overdue timer behind: it returns with a
\* top that is not due, and no timer is before the top.
THEOREM NoneOverdue == Spec => ExpireComplete
  <1>1. Inv /\ [Next]_vars =>
          (phase = "expire" /\ phase' = "find" =>
             \A r \in Reqs : timer'[r] # None => key'[timer'[r]] > msec')
    <2> SUFFICES ASSUME Inv, [Next]_vars, phase = "expire", phase' = "find",
                        NEW r \in Reqs, timer'[r] # None
                 PROVE  key'[timer'[r]] > msec'
      OBVIOUS
    <2>1. ExpireEnd
      BY DEF Next, vars, heapVars, nodeVars, swim, sink, zv_add_timer, zv_del_timer, PopDeleted,
             FindTimer, FindNone, WaitEnd, RunEnd, Expire, Tick
    <2>2. op = "none" /\ timer' = timer /\ key' = key
      BY <2>1 DEF ExpireEnd, heapVars, nodeVars
    <2>3. pq # <<>> /\ key[pq[1]] <= key[timer[r]] /\ key[timer[r]] \in Nat
      BY <2>2, TimersBelowTop
    <2>4. msec' = now /\ key[pq[1]] > now /\ key[pq[1]] \in Nat /\ now \in Nat
      BY <2>1, <2>3, KeyTypes DEF ExpireEnd, Inv, TqTypeOK
    <2> QED
      BY <2>2, <2>3, <2>4
  <1> QED
    BY <1>1, InvHolds, PTL DEF Spec, ExpireComplete

-----------------------------------------------------------------------------
(* TimerQueue implements TimerSet.                                         *)

\* A request whose timer is set has not been closed by it.
OpenWhileSet == \A r \in Reqs : timer[r] # None => ~closed[r]

\* At the start no timer is set.
LEMMA OpenInit == Init => OpenWhileSet
  BY DEF Init, OpenWhileSet

\* A handler that closes its request takes the timer away.
LEMMA OpenStep == Inv /\ OpenWhileSet /\ [Next]_vars => OpenWhileSet'
  <1> SUFFICES ASSUME Inv, OpenWhileSet, [Next]_vars PROVE OpenWhileSet'
    OBVIOUS
  <1>1. timer \in [Reqs -> Nodes \cup {None}] /\ closed \in [Reqs -> BOOLEAN]
    BY DEF Inv, TqTypeOK
  <1>2. CASE \E r \in Reqs, t \in Timeouts, n \in Nodes : zv_add_timer(r, t, n)
    BY <1>1, <1>2 DEF OpenWhileSet, zv_add_timer
  <1>3. CASE \E r \in Reqs : zv_del_timer(r)
    BY <1>1, <1>3 DEF OpenWhileSet, zv_del_timer
  <1>4. CASE Expire
    BY <1>1, <1>4 DEF OpenWhileSet, Expire
  <1>5. CASE UNCHANGED <<timer, closed>>
    BY <1>5 DEF OpenWhileSet
  <1> QED
    BY <1>2, <1>3, <1>4, <1>5 DEF Next, vars, swim, sink, PopDeleted, FindTimer, FindNone,
       WaitEnd, RunEnd, ExpireEnd, Tick

\* A deadline of the abstract specification is a key of a node.
LEMMA PendingIsSet ==
    ASSUME Inv, NEW r \in Reqs
    PROVE  /\ TS!Pending(r) <=> timer[r] # None
           /\ timer[r] # None => deadline[r] = key[timer[r]] /\ deadline[r] \in Nat
  <1>1. timer[r] # None => deadline[r] = key[timer[r]] /\ key[timer[r]] \in Nat
    BY DEF Inv, TqTypeOK, deadline
  <1>2. timer[r] = None => deadline[r] \in {None, Fired}
    BY DEF deadline
  <1> QED
    BY <1>1, <1>2, TimerAssumption DEF TS!Pending

\* The deadlines only depend on the timers, their keys and the closed requests.
LEMMA SameDeadlines ==
    ASSUME UNCHANGED <<timer, closed>>,
           \A r \in Reqs : timer[r] # None => key'[timer[r]] = key[timer[r]]
    PROVE  deadline' = deadline
  BY DEF deadline

\* Setting a timer sets a deadline.
LEMMA AddSets ==
    ASSUME Inv, NEW r \in Reqs, NEW t \in Timeouts, NEW n \in Nodes, zv_add_timer(r, t, n)
    PROVE  TS!Set(r, t)
  <1>1. /\ timer[r] = None /\ n \notin live /\ now' = now
        /\ timer' = [timer EXCEPT ![r] = n] /\ key' = [key EXCEPT ![n] = now + t]
        /\ closed' = [closed EXCEPT ![r] = FALSE]
    BY DEF zv_add_timer
  <1>2. /\ key'[n] = now + t /\ timer'[r] = n /\ n # None
        /\ \A m \in Nodes : m # n => key'[m] = key[m]
        /\ \A q \in Reqs : q # r => timer'[q] = timer[q] /\ closed'[q] = closed[q]
    BY <1>1, TimerAssumption DEF Inv, TqTypeOK
  <1>3. \A q \in Reqs : timer[q] # None => timer[q] \in Nodes /\ timer[q] # n
    BY <1>1 DEF Inv, Links, TqTypeOK
  <1>4. \A q \in Reqs : deadline'[q] = IF q = r THEN now + t ELSE deadline[q]
    <2> SUFFICES ASSUME NEW q \in Reqs
                 PROVE  deadline'[q] = IF q = r THEN now + t ELSE deadline[q]
      OBVIOUS
    <2>1. deadline'[q] = IF timer'[q] # None THEN key'[timer'[q]]
                         ELSE IF closed'[q] THEN Fired ELSE None
      BY DEF deadline
    <2>2. deadline[q] = IF timer[q] # None THEN key[timer[q]]
                        ELSE IF closed[q] THEN Fired ELSE None
      BY DEF deadline
    <2> QED
      BY <1>2, <1>3, <2>1, <2>2
  <1>5. deadline' = [deadline EXCEPT ![r] = now + t]
    BY <1>4 DEF deadline
  <1> QED
    BY <1>1, <1>5, PendingIsSet DEF TS!Set

\* Cancelling a timer cancels the deadline, although the node stays.
LEMMA DelCancels ==
    ASSUME Inv, OpenWhileSet, NEW r \in Reqs, zv_del_timer(r)
    PROVE  TS!Cancel(r)
  <1>1. /\ timer[r] # None /\ UNCHANGED <<key, closed, now>>
        /\ timer' = [timer EXCEPT ![r] = None]
    BY DEF zv_del_timer
  <1>2. ~closed[r]
    BY <1>1 DEF OpenWhileSet
  <1>3. /\ timer'[r] = None /\ \A q \in Reqs : q # r => timer'[q] = timer[q]
    BY <1>1 DEF Inv, TqTypeOK
  <1>4. \A q \in Reqs : deadline'[q] = IF q = r THEN None ELSE deadline[q]
    BY <1>1, <1>2, <1>3 DEF deadline
  <1>5. deadline' = [deadline EXCEPT ![r] = None]
    BY <1>4 DEF deadline
  <1> QED
    BY <1>1, <1>5, PendingIsSet DEF TS!Cancel

\* The top is the earliest deadline, and it has passed.
LEMMA ExpireFires ==
    ASSUME Inv, Expire
    PROVE  \E r \in Reqs : TS!Fire(r)
  <1> DEFINE r == rq[pq[1]]
  <1>1. /\ op = "none" /\ pq # <<>> /\ ~deleted[pq[1]] /\ key[pq[1]] <= now /\ now' = now
        /\ timer' = [timer EXCEPT ![r] = None] /\ closed' = [closed EXCEPT ![r] = TRUE]
        /\ zv_pq_delmin /\ Free(pq[1])
    BY DEF Expire
  <1>2. /\ pq[1] \in live /\ pq[1] \in Nodes
        /\ \A n \in Nodes : n # pq[1] => key'[n] = key[n]
    BY <1>1, DelminHeap
  <1>3. r \in Reqs /\ timer[r] = pq[1] /\ pq[1] # None
    BY <1>1, <1>2, TimerAssumption DEF Inv, Links
  <1> HIDE DEF r
  <1>4. /\ timer'[r] = None /\ closed'[r] = TRUE
        /\ \A q \in Reqs : q # r => timer'[q] = timer[q] /\ closed'[q] = closed[q]
    BY <1>1, <1>3 DEF Inv, TqTypeOK
  <1>5. \A q \in Reqs : q # r /\ timer[q] # None => timer[q] \in Nodes /\ timer[q] # pq[1]
    BY <1>3 DEF Inv, Links, TqTypeOK
  <1>6. \A q \in Reqs : deadline'[q] = IF q = r THEN Fired ELSE deadline[q]
    <2> SUFFICES ASSUME NEW q \in Reqs
                 PROVE  deadline'[q] = IF q = r THEN Fired ELSE deadline[q]
      OBVIOUS
    <2>1. deadline'[q] = IF timer'[q] # None THEN key'[timer'[q]]
                         ELSE IF closed'[q] THEN Fired ELSE None
      BY DEF deadline
    <2>2. deadline[q] = IF timer[q] # None THEN key[timer[q]]
                        ELSE IF closed[q] THEN Fired ELSE None
      BY DEF deadline
    <2> QED
      BY <1>2, <1>4, <1>5, <2>1, <2>2
  <1>7. deadline' = [deadline EXCEPT ![r] = Fired]
    BY <1>6 DEF deadline
  <1>8. TS!Pending(r) /\ deadline[r] <= now
    BY <1>1, <1>3, PendingIsSet
  <1>9. \A q \in Reqs : TS!Pending(q) => deadline[r] <= deadline[q]
    BY <1>1, <1>3, PendingIsSet, TimersBelowTop
  <1>10. TS!Fire(r)
    BY <1>1, <1>7, <1>8, <1>9 DEF TS!Fire
  <1> QED
    BY <1>3, <1>10

\* At the start there is no deadline.
LEMMA RefInit == Init => TS!Init
  BY DEF Init, TS!Init, deadline

\* Every step of the heap is a step of the set of deadlines, or none.
LEMMA RefStep ==
    Inv /\ OpenWhileSet /\ [Next]_vars => [TS!Next]_<<deadline, now>>
  <1> SUFFICES ASSUME Inv, OpenWhileSet, [Next]_vars PROVE [TS!Next]_<<deadline, now>>
    OBVIOUS
  <1>1. CASE \E r \in Reqs, t \in Timeouts, n \in Nodes : zv_add_timer(r, t, n)
    BY <1>1, AddSets DEF TS!Next
  <1>2. CASE \E r \in Reqs : zv_del_timer(r)
    BY <1>2, DelCancels DEF TS!Next
  <1>3. CASE Expire
    BY <1>3, ExpireFires DEF TS!Next
  <1>4. CASE PopDeleted
    <2>1. /\ op = "none" /\ pq # <<>> /\ deleted[pq[1]] /\ zv_pq_delmin /\ Free(pq[1])
          /\ UNCHANGED <<timer, closed, now>>
      BY <1>4 DEF PopDeleted
    <2>2. \A r \in Reqs : timer[r] # None => timer[r] \in Nodes /\ timer[r] # pq[1]
      BY <2>1 DEF Inv, Links, TqTypeOK
    <2>3. \A r \in Reqs : timer[r] # None => key'[timer[r]] = key[timer[r]]
      BY <2>1, <2>2, DelminHeap
    <2> QED
      BY <2>1, <2>3, SameDeadlines
  <1>5. CASE Tick
    <2>1. deadline' = deadline /\ now' = now + 1
      BY <1>5, SameDeadlines DEF Tick, nodeVars
    <2> QED
      BY <2>1 DEF TS!Next, TS!Tick
  <1>6. CASE UNCHANGED <<key, timer, closed, now>>
    BY <1>6, SameDeadlines
  <1> QED
    BY <1>1, <1>2, <1>3, <1>4, <1>5, <1>6 DEF Next, vars, nodeVars, swim, sink, FindTimer,
       FindNone, WaitEnd, RunEnd, ExpireEnd

\* timer.c implements a set of deadlines: a cancelled timer never fires, none
\* fires early, and none before an earlier one.
THEOREM Refines == Spec => TimerSpec
  <1>1. Spec => [](Inv /\ OpenWhileSet)
    BY InvHolds, OpenInit, OpenStep, PTL DEF Spec
  <1> QED
    BY <1>1, RefInit, RefStep, PTL DEF Spec, TimerSpec, TS!Spec
=============================================================================
