-------------------------- MODULE CgiStreamProofs ---------------------------
(***************************************************************************)
(* Proofs about CgiStream, for any output of the child and any size of the *)
(* buffers.                                                                *)
(***************************************************************************)
EXTENDS CgiStream, FiniteSetTheorems, SequenceTheorems, TLAPS

-----------------------------------------------------------------------------
(* Recursion over the wire.                                                *)

\* A set of naturals that is not empty has a smallest element.
LEMMA SmallestOf ==
    ASSUME NEW T \in SUBSET Nat, T # {}
    PROVE  \E m \in T : \A n \in T : m <= n
  <1>1. PICK m \in T : \A n \in T : ~(<<n, m>> \in OpToRel(<, Nat))
    BY NatLessThanWellFounded, WFMin
  <1>2. \A n \in T : <<n, m>> \in OpToRel(<, Nat) <=> n < m
    BY DEF OpToRel
  <1>3. \A n \in T : ~(n < m)
    BY <1>1, <1>2, Zenon
  <1> QED
    BY <1>3

\* f is the state of the framing after every prefix of w of n units.
Framing(f, w, n) ==
    f = [k \in 0..n |-> IF k = 0 THEN <<"start", 0>> ELSE NextFrame(f[k - 1], w[k])]

\* There is such a function for every n: the smallest n without one would have
\* one before it, which the next unit extends.
LEMMA FramingExists ==
    ASSUME NEW w
    PROVE  \A n \in Nat : \E f : Framing(f, w, n)
  <1> DEFINE T == {n \in Nat : ~\E f : Framing(f, w, n)}
  <1>1. SUFFICES ASSUME T # {} PROVE FALSE
    OBVIOUS
  <1>2. PICK m \in T : \A n \in T : m <= n
    BY <1>1, SmallestOf
  <1>3. CASE m = 0
    <2> DEFINE f == [k \in 0..0 |-> <<"start", 0>>]
    <2>1. Framing(f, w, 0)
      BY DEF Framing
    <2> QED
      BY <1>3, <2>1
  <1>4. CASE m # 0
    <2>1. m - 1 \in Nat /\ m - 1 \notin T
      BY <1>2, <1>4
    <2>2. PICK g : Framing(g, w, m - 1)
      BY <2>1
    <2> DEFINE f == [k \in 0..m |-> IF k < m THEN g[k] ELSE NextFrame(g[m - 1], w[m])]
    <2>3. \A k \in 0..(m - 1) :
            g[k] = IF k = 0 THEN <<"start", 0>> ELSE NextFrame(g[k - 1], w[k])
      BY <2>2 DEF Framing
    <2>4. \A k \in 0..m :
            f[k] = IF k = 0 THEN <<"start", 0>> ELSE NextFrame(f[k - 1], w[k])
      <3> SUFFICES ASSUME NEW k \in 0..m
                   PROVE  f[k] = IF k = 0 THEN <<"start", 0>> ELSE NextFrame(f[k - 1], w[k])
        OBVIOUS
      <3>1. CASE k < m
        <4>1. f[k] = g[k] /\ (k # 0 => f[k - 1] = g[k - 1]) /\ k \in 0..(m - 1)
          BY <3>1, <2>1
        <4> HIDE DEF f
        <4> QED
          BY <4>1, <2>3
      <3>2. CASE k = m
        <4>1. f[k] = NextFrame(g[m - 1], w[m]) /\ f[k - 1] = g[m - 1]
          BY <3>2, <2>1
        <4> HIDE DEF f
        <4> QED
          BY <4>1, <3>2, <1>4
      <3> QED
        BY <3>1, <3>2
    <2>5. Framing(f, w, m)
      BY <2>4 DEF Framing
    <2> QED
      BY <2>5
  <1> QED
    BY <1>3, <1>4

\* Two of them agree as far as both go.
LEMMA FramingUnique ==
    ASSUME NEW w, NEW v, NEW n \in Nat, NEW l \in Nat, n <= l,
           \A k \in 1..n : w[k] = v[k],
           NEW f, NEW g, Framing(f, w, n), Framing(g, v, l)
    PROVE  \A k \in 0..n : f[k] = g[k]
  <1> DEFINE T == {k \in 0..n : f[k] # g[k]}
  <1>1. SUFFICES ASSUME T # {} PROVE FALSE
    OBVIOUS
  <1>2. PICK m \in T : \A k \in T : m <= k
    <2>1. T \in SUBSET Nat
      OBVIOUS
    <2> QED
      BY <1>1, <2>1, SmallestOf
  <1>3. /\ f[m] = IF m = 0 THEN <<"start", 0>> ELSE NextFrame(f[m - 1], w[m])
        /\ g[m] = IF m = 0 THEN <<"start", 0>> ELSE NextFrame(g[m - 1], v[m])
    <2>1. m \in 0..n /\ m \in 0..l
      OBVIOUS
    <2> QED
      BY <2>1 DEF Framing
  <1>4. m # 0
    BY <1>3
  <1>5. m - 1 \in 0..n /\ m - 1 \notin T /\ m \in 1..n
    BY <1>2, <1>4
  <1>6. f[m - 1] = g[m - 1] /\ w[m] = v[m]
    BY <1>5
  <1> QED
    BY <1>3, <1>4, <1>6

\* The framing of a wire, unit by unit.
LEMMA FrameStep ==
    /\ Frame(<<>>) = <<"start", 0>>
    /\ \A S : \A w \in Seq(S), u \in S : Frame(Append(w, u)) = NextFrame(Frame(w), u)
  <1>1. \A w : Frame(w) = (CHOOSE f : Framing(f, w, Len(w)))[Len(w)]
    BY DEF Frame, Framing
  <1>2. \A w : Len(w) \in Nat => Framing(CHOOSE f : Framing(f, w, Len(w)), w, Len(w))
    BY FramingExists
  <1>3. Frame(<<>>) = <<"start", 0>>
    <2> DEFINE f == CHOOSE f : Framing(f, <<>>, Len(<<>>))
    <2>1. Len(<<>>) = 0 /\ Frame(<<>>) = f[0]
      BY <1>1
    <2>2. Framing(f, <<>>, 0)
      BY <1>2, <2>1
    <2> HIDE DEF f
    <2>3. f[0] = <<"start", 0>>
      BY <2>2 DEF Framing
    <2> QED
      BY <2>1, <2>3
  <1>4. ASSUME NEW S, NEW w \in Seq(S), NEW u \in S
        PROVE  Frame(Append(w, u)) = NextFrame(Frame(w), u)
    <2> DEFINE v == Append(w, u)
               n == Len(w)
               f == CHOOSE f : Framing(f, w, Len(w))
               g == CHOOSE g : Framing(g, v, Len(v))
    <2>1. /\ n \in Nat /\ Len(v) = n + 1 /\ v[n + 1] = u /\ \A k \in 1..n : w[k] = v[k]
      BY AppendProperties, LenProperties
    <2>2. Framing(f, w, n) /\ Framing(g, v, Len(v))
      <3>1. Framing(f, w, Len(w))
        BY <1>2, <2>1
      <3> HIDE DEF v
      <3>2. Framing(g, v, Len(v))
        BY <1>2, <2>1
      <3> QED
        BY <3>1, <3>2
    <2>3. Frame(w) = f[n] /\ Frame(v) = g[Len(v)]
      BY <1>1
    <2> HIDE DEF f, g, v, n
    <2>4. f[n] = g[n]
      BY <2>1, <2>2, FramingUnique
    <2>5. g[n + 1] = NextFrame(g[n], v[n + 1])
      <3>1. n + 1 \in 0..Len(v) /\ n + 1 # 0 /\ (n + 1) - 1 = n
        BY <2>1
      <3>2. \A k \in 0..Len(v) : g[k] = IF k = 0 THEN <<"start", 0>> ELSE NextFrame(g[k - 1], v[k])
        BY <2>2 DEF Framing
      <3> QED
        BY <3>1, <3>2
    <2>6. Frame(v) = NextFrame(Frame(w), u)
      BY <2>1, <2>3, <2>4, <2>5
    <2> QED
      BY <2>6 DEF v
  <1> QED
    BY <1>3, <1>4

\* The data after one more unit.
NextData(data, u) == IF u[1] = "B" THEN Append(data, u[2]) ELSE data

\* f is the data decoded from every prefix of w of n units.
Decoding(f, w, n) ==
    f = [k \in 0..n |-> IF k = 0 THEN <<>> ELSE NextData(f[k - 1], w[k])]

\* There is such a function for every n.
LEMMA DecodingExists ==
    ASSUME NEW w
    PROVE  \A n \in Nat : \E f : Decoding(f, w, n)
  <1> DEFINE T == {n \in Nat : ~\E f : Decoding(f, w, n)}
  <1>1. SUFFICES ASSUME T # {} PROVE FALSE
    OBVIOUS
  <1>2. PICK m \in T : \A n \in T : m <= n
    BY <1>1, SmallestOf
  <1>3. CASE m = 0
    <2> DEFINE f == [k \in 0..0 |-> <<>>]
    <2>1. Decoding(f, w, 0)
      BY DEF Decoding
    <2> QED
      BY <1>3, <2>1
  <1>4. CASE m # 0
    <2>1. m - 1 \in Nat /\ m - 1 \notin T
      BY <1>2, <1>4
    <2>2. PICK g : Decoding(g, w, m - 1)
      BY <2>1
    <2> DEFINE f == [k \in 0..m |-> IF k < m THEN g[k] ELSE NextData(g[m - 1], w[m])]
    <2>3. \A k \in 0..(m - 1) :
            g[k] = IF k = 0 THEN <<>> ELSE NextData(g[k - 1], w[k])
      BY <2>2 DEF Decoding
    <2>4. \A k \in 0..m :
            f[k] = IF k = 0 THEN <<>> ELSE NextData(f[k - 1], w[k])
      <3> SUFFICES ASSUME NEW k \in 0..m
                   PROVE  f[k] = IF k = 0 THEN <<>> ELSE NextData(f[k - 1], w[k])
        OBVIOUS
      <3>1. CASE k < m
        <4>1. f[k] = g[k] /\ (k # 0 => f[k - 1] = g[k - 1]) /\ k \in 0..(m - 1)
          BY <3>1, <2>1
        <4> HIDE DEF f
        <4> QED
          BY <4>1, <2>3
      <3>2. CASE k = m
        <4>1. f[k] = NextData(g[m - 1], w[m]) /\ f[k - 1] = g[m - 1]
          BY <3>2, <2>1
        <4> HIDE DEF f
        <4> QED
          BY <4>1, <3>2, <1>4
      <3> QED
        BY <3>1, <3>2
    <2>5. Decoding(f, w, m)
      BY <2>4 DEF Decoding
    <2> QED
      BY <2>5
  <1> QED
    BY <1>3, <1>4

\* Two of them agree as far as both go.
LEMMA DecodingUnique ==
    ASSUME NEW w, NEW v, NEW n \in Nat, NEW l \in Nat, n <= l,
           \A k \in 1..n : w[k] = v[k],
           NEW f, NEW g, Decoding(f, w, n), Decoding(g, v, l)
    PROVE  \A k \in 0..n : f[k] = g[k]
  <1> DEFINE T == {k \in 0..n : f[k] # g[k]}
  <1>1. SUFFICES ASSUME T # {} PROVE FALSE
    OBVIOUS
  <1>2. PICK m \in T : \A k \in T : m <= k
    <2>1. T \in SUBSET Nat
      OBVIOUS
    <2> QED
      BY <1>1, <2>1, SmallestOf
  <1>3. /\ f[m] = IF m = 0 THEN <<>> ELSE NextData(f[m - 1], w[m])
        /\ g[m] = IF m = 0 THEN <<>> ELSE NextData(g[m - 1], v[m])
    <2>1. m \in 0..n /\ m \in 0..l
      OBVIOUS
    <2> QED
      BY <2>1 DEF Decoding
  <1>4. m # 0
    BY <1>3
  <1>5. m - 1 \in 0..n /\ m - 1 \notin T /\ m \in 1..n
    BY <1>2, <1>4
  <1>6. f[m - 1] = g[m - 1] /\ w[m] = v[m]
    BY <1>5
  <1> QED
    BY <1>3, <1>4, <1>6

\* The data decoded from a wire, unit by unit.
LEMMA DecodeStep ==
    /\ Decoded(<<>>) = <<>>
    /\ \A S : \A w \in Seq(S), u \in S : Decoded(Append(w, u)) = NextData(Decoded(w), u)
  <1>1. \A w : Decoded(w) = (CHOOSE f : Decoding(f, w, Len(w)))[Len(w)]
    BY DEF Decoded, Decoding, NextData
  <1>2. \A w : Len(w) \in Nat => Decoding(CHOOSE f : Decoding(f, w, Len(w)), w, Len(w))
    BY DecodingExists
  <1>3. Decoded(<<>>) = <<>>
    <2> DEFINE f == CHOOSE f : Decoding(f, <<>>, Len(<<>>))
    <2>1. Len(<<>>) = 0 /\ Decoded(<<>>) = f[0]
      BY <1>1
    <2>2. Decoding(f, <<>>, 0)
      BY <1>2, <2>1
    <2> HIDE DEF f
    <2>3. f[0] = <<>>
      BY <2>2 DEF Decoding
    <2> QED
      BY <2>1, <2>3
  <1>4. ASSUME NEW S, NEW w \in Seq(S), NEW u \in S
        PROVE  Decoded(Append(w, u)) = NextData(Decoded(w), u)
    <2> DEFINE v == Append(w, u)
               n == Len(w)
               f == CHOOSE f : Decoding(f, w, Len(w))
               g == CHOOSE g : Decoding(g, v, Len(v))
    <2>1. /\ n \in Nat /\ Len(v) = n + 1 /\ v[n + 1] = u /\ \A k \in 1..n : w[k] = v[k]
      BY AppendProperties, LenProperties
    <2>2. Decoding(f, w, n) /\ Decoding(g, v, Len(v))
      <3>1. Decoding(f, w, Len(w))
        BY <1>2, <2>1
      <3> HIDE DEF v
      <3>2. Decoding(g, v, Len(v))
        BY <1>2, <2>1
      <3> QED
        BY <3>1, <3>2
    <2>3. Decoded(w) = f[n] /\ Decoded(v) = g[Len(v)]
      BY <1>1
    <2> HIDE DEF f, g, v, n
    <2>4. f[n] = g[n]
      BY <2>1, <2>2, DecodingUnique
    <2>5. g[n + 1] = NextData(g[n], v[n + 1])
      <3>1. n + 1 \in 0..Len(v) /\ n + 1 # 0 /\ (n + 1) - 1 = n
        BY <2>1
      <3>2. \A k \in 0..Len(v) : g[k] = IF k = 0 THEN <<>> ELSE NextData(g[k - 1], v[k])
        BY <2>2 DEF Decoding
      <3> QED
        BY <3>1, <3>2
    <2>6. Decoded(v) = NextData(Decoded(w), u)
      BY <2>1, <2>3, <2>4, <2>5
    <2> QED
      BY <2>6 DEF v
  <1> QED
    BY <1>3, <1>4

-----------------------------------------------------------------------------
(* The inductive invariant: where the counters, the buffers and the wire   *)
(* stand, in this order.                                                   *)

\* The parts of a message go out in order, a chunk that is sent is forgotten,
\* and the final chunk comes last.
SendOrder ==
    /\ sent["P"] > 0 => sent["H"] = 2
    /\ sent["B"] > 0 => sent["P"] = 2
    /\ sent["S"] > 0 => sent["B"] = Len(body)
    /\ sent["F"] > 0 => sent["H"] = 2 /\ body = <<>> /\ eof
    /\ body = <<>> => sent["P"] = 0 /\ sent["B"] = 0 /\ sent["S"] = 0
    /\ body # <<>> => ~ChunkSent(sent)

\* Nothing is sent before the header is done; end of file is seen once, when
\* the child's output has been read.
Progress ==
    /\ ~hdone => /\ body = <<>> /\ wire = <<>> /\ ~eof /\ sent["H"] = 0
                 /\ at \in {"stdout", "reading", "aborted"}
    /\ ended => written = Len(script)
    /\ eof => rd = Len(script) /\ at \in {"client", "writing", "done", "aborted"}
    /\ at = "done" => eof /\ Iov = <<>>

\* The state of the framing that the counters c stand for.
FrameOf(c) ==
    IF c["H"] = 0 THEN <<"start", 0>>
    ELSE IF c["H"] = 1 THEN <<"header", 0>>
    ELSE IF body # <<>>
    THEN IF c["P"] = 0 \/ c["S"] = 2 THEN <<"between", 0>>
         ELSE IF c["P"] = 1 THEN <<"prefix", Len(body)>>
         ELSE IF c["S"] = 0 THEN <<"data", Len(body) - c["B"]>>
         ELSE <<"suffix", 0>>
    ELSE IF c["F"] = 0 THEN <<"between", 0>>
    ELSE IF c["F"] = 1 THEN <<"final", 0>> ELSE <<"end", 0>>

Units  == {"H", "P", "C", "B", "S", "F"} \X Nat
Framed == wire \in Seq(Units) /\ Frame(wire) = FrameOf(sent)

\* Before its end has been seen the header is what has been read.
HeaderSoFar ==
    ~hdone /\ at \in {"stdout", "reading"} =>
        ~dropped /\ hdr = Positions(1, rd) /\ BodyOffset(Classes(hdr)) = 0

\* The place in the output before the body; the error page stands for an
\* output of one byte.
Off == IF script = <<>> THEN 0 - 1 ELSE BodyOffset(script)

\* What is decoded and what is still to be sent of the chunk are positions in
\* ascending order, up to what has been read; without a gap, if nothing was
\* dropped.
Ascending ==
    LET d == Decoded(wire)
    IN  /\ d \in Seq(Nat)
        /\ \A i \in 1..Len(d) : d[i] <= rd
        /\ \A i \in 1..(Len(d) - 1) : d[i] < d[i + 1]
        /\ \A j \in 1..Len(body) : body[j] <= rd
        /\ \A j \in 1..(Len(body) - 1) : body[j] < body[j + 1]
        /\ \A i \in 1..Len(d) : \A j \in (sent["B"] + 1)..Len(body) : d[i] < body[j]

Gapless ==
    LET d    == Decoded(wire)
        last == Off + Len(d) - sent["B"]
    IN  hdone /\ ~dropped =>
            /\ \A i \in 1..Len(d) : d[i] = Off + i
            /\ \A j \in 1..Len(body) : body[j] = last + j
            /\ last + Len(body) <= rd
            /\ at # "aborted" => last + Len(body) = rd

Inv == /\ CgiTypeOK /\ ReadsOnlyWhenSent /\ SendOrder /\ Progress
       /\ Framed /\ HeaderSoFar /\ Ascending /\ Gapless

-----------------------------------------------------------------------------
(* The iovec and the counters.                                             *)

\* The units of the parts.
LEMMA PartUnits ==
    ASSUME CgiTypeOK
    PROVE  /\ Len(body) \in Nat /\ Len(script) \in Nat /\ (body # <<>> <=> Len(body) > 0)
           /\ \A j \in 1..Len(body) : body[j] \in Nat
           /\ HeaderUnits \in Seq(Units) /\ Len(HeaderUnits) = 2
           /\ HeaderUnits[1] = <<"H", 1>> /\ HeaderUnits[2] = <<"H", 2>>
           /\ PrefixUnits \in Seq(Units) /\ Len(PrefixUnits) = 2
           /\ PrefixUnits[1] = <<"P", Len(body)>> /\ PrefixUnits[2] = <<"C", 0>>
           /\ BodyUnits \in Seq(Units) /\ Len(BodyUnits) = Len(body)
           /\ \A j \in 1..Len(body) : BodyUnits[j] = <<"B", body[j]>>
           /\ SuffixUnits \in Seq(Units) /\ Len(SuffixUnits) = 2
           /\ SuffixUnits[1] = <<"S", 1>> /\ SuffixUnits[2] = <<"S", 2>>
           /\ FinalUnits \in Seq(Units) /\ Len(FinalUnits) = 2
           /\ FinalUnits[1] = <<"F", 1>> /\ FinalUnits[2] = <<"F", 2>>
  <1>1. /\ body \in Seq(0..Len(script)) /\ script \in Seq({"r", "n", "b"})
    BY CgiAssumption DEF CgiTypeOK
  <1>2. Len(script) \in Nat /\ Len(body) \in Nat /\ DOMAIN body = 1..Len(body)
    BY <1>1, LenProperties
  <1>3. \A j \in 1..Len(body) : body[j] \in Nat
    BY <1>1, <1>2, ElementOfSeq
  <1>4. body # <<>> <=> Len(body) > 0
    BY <1>1, <1>2, EmptySeq
  <1>5. /\ HeaderUnits \in Seq(Units) /\ Len(HeaderUnits) = 2
        /\ HeaderUnits[1] = <<"H", 1>> /\ HeaderUnits[2] = <<"H", 2>>
    BY DEF HeaderUnits, Units
  <1>6. /\ PrefixUnits \in Seq(Units) /\ Len(PrefixUnits) = 2
        /\ PrefixUnits[1] = <<"P", Len(body)>> /\ PrefixUnits[2] = <<"C", 0>>
    BY <1>2 DEF PrefixUnits, Units
  <1>7. /\ BodyUnits \in Seq(Units) /\ Len(BodyUnits) = Len(body)
        /\ \A j \in 1..Len(body) : BodyUnits[j] = <<"B", body[j]>>
    <2>1. BodyUnits = [j \in 1..Len(body) |-> <<"B", body[j]>>]
      BY <1>2 DEF BodyUnits
    <2>2. \A j \in 1..Len(body) : <<"B", body[j]>> \in Units
      BY <1>3 DEF Units
    <2> QED
      BY <1>2, <2>1, <2>2
  <1>8. /\ SuffixUnits \in Seq(Units) /\ Len(SuffixUnits) = 2
        /\ SuffixUnits[1] = <<"S", 1>> /\ SuffixUnits[2] = <<"S", 2>>
    BY DEF SuffixUnits, Units
  <1>9. /\ FinalUnits \in Seq(Units) /\ Len(FinalUnits) = 2
        /\ FinalUnits[1] = <<"F", 1>> /\ FinalUnits[2] = <<"F", 2>>
    BY DEF FinalUnits, Units
  <1> QED
    BY <1>2, <1>3, <1>4, <1>5, <1>6, <1>7, <1>8, <1>9

\* What is left of a part.
LEMMA UnsentProperties ==
    ASSUME NEW part, NEW units \in Seq(Units), NEW n \in Nat, Len(units) = n, sent[part] \in 0..n
    PROVE  /\ Unsent(part, units) \in Seq(Units)
           /\ Len(Unsent(part, units)) = n - sent[part]
           /\ \A x \in 1..(n - sent[part]) : Unsent(part, units)[x] = units[sent[part] + x]
  <1>1. \A x \in (sent[part] + 1)..n : units[x] \in Units
    BY ElementOfSeq
  <1> QED
    BY <1>1, SubSeqProperties, SMTT(40) DEF Unsent

\* Two sequences one after the other.
LEMMA ConcatAt ==
    ASSUME NEW S, NEW p \in Seq(S), NEW q \in Seq(S)
    PROVE  /\ p \o q \in Seq(S) /\ Len(p \o q) = Len(p) + Len(q)
           /\ \A x \in 1..Len(p) : (p \o q)[x] = p[x]
           /\ \A x \in 1..Len(q) : (p \o q)[Len(p) + x] = q[x]
  OBVIOUS

\* The iovec of a chunk.
LEMMA IovChunk ==
    ASSUME CgiTypeOK, body # <<>>
    PROVE  LET h == 2 - sent["H"]
               p == 2 - sent["P"]
               b == Len(body) - sent["B"]
               s == 2 - sent["S"]
           IN  /\ h \in 0..2 /\ p \in 0..2 /\ b \in Nat /\ s \in 0..2
               /\ Iov \in Seq(Units) /\ Len(Iov) = h + p + b + s
               /\ \A x \in 1..h : Iov[x] = HeaderUnits[sent["H"] + x]
               /\ \A x \in 1..p : Iov[h + x] = PrefixUnits[sent["P"] + x]
               /\ \A x \in 1..b : Iov[h + p + x] = BodyUnits[sent["B"] + x]
               /\ \A x \in 1..s : Iov[h + p + b + x] = SuffixUnits[sent["S"] + x]
  <1> DEFINE h == 2 - sent["H"]
             p == 2 - sent["P"]
             b == Len(body) - sent["B"]
             s == 2 - sent["S"]
             hu == Unsent("H", HeaderUnits)
             pu == Unsent("P", PrefixUnits)
             bu == Unsent("B", BodyUnits)
             su == Unsent("S", SuffixUnits)
  <1>1. /\ sent["H"] \in 0..2 /\ sent["P"] \in 0..2 /\ sent["S"] \in 0..2
        /\ sent["B"] \in 0..Len(body) /\ Len(body) \in Nat
    BY PartUnits DEF CgiTypeOK, Parts
  <1>2. h \in 0..2 /\ p \in 0..2 /\ b \in Nat /\ s \in 0..2
    BY <1>1
  <1>3. hu \in Seq(Units) /\ Len(hu) = h /\ \A x \in 1..h : hu[x] = HeaderUnits[sent["H"] + x]
    <2>1. HeaderUnits \in Seq(Units) /\ Len(HeaderUnits) = 2 /\ sent["H"] \in 0..2
      BY <1>1, PartUnits
    <2> QED
      BY <2>1, <1>1, UnsentProperties, ZenonT(60)
  <1>4. pu \in Seq(Units) /\ Len(pu) = p /\ \A x \in 1..p : pu[x] = PrefixUnits[sent["P"] + x]
    <2>1. PrefixUnits \in Seq(Units) /\ Len(PrefixUnits) = 2 /\ sent["P"] \in 0..2
      BY <1>1, PartUnits
    <2> QED
      BY <2>1, <1>1, UnsentProperties, ZenonT(60)
  <1>5. bu \in Seq(Units) /\ Len(bu) = b /\ \A x \in 1..b : bu[x] = BodyUnits[sent["B"] + x]
    <2>1. BodyUnits \in Seq(Units) /\ Len(BodyUnits) = Len(body) /\ sent["B"] \in 0..Len(body)
      BY <1>1, PartUnits
    <2> QED
      BY <2>1, <1>1, UnsentProperties
  <1>6. su \in Seq(Units) /\ Len(su) = s /\ \A x \in 1..s : su[x] = SuffixUnits[sent["S"] + x]
    <2>1. SuffixUnits \in Seq(Units) /\ Len(SuffixUnits) = 2 /\ sent["S"] \in 0..2
      BY <1>1, PartUnits
    <2> QED
      BY <2>1, <1>1, UnsentProperties, ZenonT(60)
  <1>7. Iov = hu \o pu \o bu \o su
    BY DEF Iov
  <1> HIDE DEF hu, pu, bu, su, h, p, b, s
  <1> DEFINE v == hu \o pu
             w == v \o bu
  <1>8. /\ v \in Seq(Units) /\ Len(v) = h + p
        /\ \A x \in 1..h : v[x] = hu[x]
        /\ \A x \in 1..p : v[h + x] = pu[x]
    BY <1>2, <1>3, <1>4
  <1> HIDE DEF v
  <1>9. /\ w \in Seq(Units) /\ Len(w) = h + p + b
        /\ \A x \in 1..(h + p) : w[x] = v[x]
        /\ \A x \in 1..b : w[h + p + x] = bu[x]
    BY <1>2, <1>5, <1>8, SMTT(40)
  <1>10. Iov = w \o su
    BY <1>7 DEF v
  <1> HIDE DEF w
  <1>11. /\ Iov \in Seq(Units) /\ Len(Iov) = h + p + b + s
         /\ \A x \in 1..(h + p + b) : Iov[x] = w[x]
         /\ \A x \in 1..s : Iov[h + p + b + x] = su[x]
    BY <1>2, <1>6, <1>9, <1>10, SMTT(40)
  <1>12. \A x \in 1..h : Iov[x] = HeaderUnits[sent["H"] + x]
    BY <1>2, <1>3, <1>8, <1>9, <1>11
  <1>13. \A x \in 1..p : Iov[h + x] = PrefixUnits[sent["P"] + x]
    BY <1>2, <1>4, <1>8, <1>9, <1>11
  <1>14. \A x \in 1..b : Iov[h + p + x] = BodyUnits[sent["B"] + x]
    <2>1. \A x \in 1..b : h + p + x \in 1..(h + p + b)
      BY <1>2
    <2> QED
      BY <2>1, <1>5, <1>9, <1>11
  <1> QED
    BY <1>2, <1>6, <1>11, <1>12, <1>13, <1>14 DEF h, p, b, s

\* The iovec of the final chunk.
LEMMA IovFinal ==
    ASSUME CgiTypeOK, body = <<>>, eof
    PROVE  LET h == 2 - sent["H"]
               f == 2 - sent["F"]
           IN  /\ h \in 0..2 /\ f \in 0..2
               /\ Iov \in Seq(Units) /\ Len(Iov) = h + f
               /\ \A x \in 1..h : Iov[x] = HeaderUnits[sent["H"] + x]
               /\ \A x \in 1..f : Iov[h + x] = FinalUnits[sent["F"] + x]
  <1> DEFINE h == 2 - sent["H"]
             f == 2 - sent["F"]
             hu == Unsent("H", HeaderUnits)
             fu == Unsent("F", FinalUnits)
  <1>1. sent["H"] \in 0..2 /\ sent["F"] \in 0..2
    BY DEF CgiTypeOK, Parts
  <1>2. h \in 0..2 /\ f \in 0..2
    BY <1>1
  <1>3. hu \in Seq(Units) /\ Len(hu) = h /\ \A x \in 1..h : hu[x] = HeaderUnits[sent["H"] + x]
    <2>1. HeaderUnits \in Seq(Units) /\ Len(HeaderUnits) = 2 /\ sent["H"] \in 0..2
      BY <1>1, PartUnits
    <2> QED
      BY <2>1, <1>1, UnsentProperties, ZenonT(60)
  <1>4. fu \in Seq(Units) /\ Len(fu) = f /\ \A x \in 1..f : fu[x] = FinalUnits[sent["F"] + x]
    <2>1. FinalUnits \in Seq(Units) /\ Len(FinalUnits) = 2 /\ sent["F"] \in 0..2
      BY <1>1, PartUnits
    <2> QED
      BY <2>1, <1>1, UnsentProperties, ZenonT(60)
  <1>5. Iov = hu \o fu
    BY DEF Iov
  <1> HIDE DEF hu, fu, h, f
  <1>6. /\ Iov \in Seq(Units) /\ Len(Iov) = h + f
        /\ \A x \in 1..h : Iov[x] = hu[x]
        /\ \A x \in 1..f : Iov[h + x] = fu[x]
    BY <1>2, <1>3, <1>4, <1>5
  <1> QED
    BY <1>2, <1>3, <1>4, <1>6 DEF h, f

\* The counters after n units, part by part.
IsMin(x, a, b) == x \in Int /\ x <= a /\ x <= b /\ (x = a \/ x = b)

Shares(n, h, p, b, s, f) ==
    /\ IsMin(h, n, 2 - sent["H"])
    /\ IsMin(p, n - h, 2 - sent["P"])
    /\ IsMin(b, n - h - p, Len(body) - sent["B"])
    /\ IsMin(s, n - h - p - b, 2 - sent["S"])
    /\ IsMin(f, n - h, 2 - sent["F"])

Counted(c, h, p, b, s, f) ==
    /\ DOMAIN c = Parts /\ c["H"] = sent["H"] + h
    /\ body # <<>> => /\ c["P"] = sent["P"] + p /\ c["B"] = sent["B"] + b
                      /\ c["S"] = sent["S"] + s /\ c["F"] = sent["F"]
    /\ body = <<>> => /\ c["P"] = sent["P"] /\ c["B"] = sent["B"]
                      /\ c["S"] = sent["S"] /\ c["F"] = sent["F"] + f

\* MinOf is the smaller of the two.
LEMMA MinOfIsMin ==
    ASSUME NEW a \in Int, NEW b \in Int
    PROVE  IsMin(MinOf(a, b), a, b)
  BY DEF MinOf, IsMin

\* What Consume counts for every part.
LEMMA ConsumeParts ==
    ASSUME CgiTypeOK, NEW n \in Nat
    PROVE  \E h, p, b, s, f \in Int : Shares(n, h, p, b, s, f) /\ Counted(Consume(n), h, p, b, s, f)
  <1> DEFINE h == MinOf(n, 2 - sent["H"])
             p == MinOf(n - h, 2 - sent["P"])
             b == MinOf(n - h - p, Len(body) - sent["B"])
             s == MinOf(n - h - p - b, 2 - sent["S"])
             f == MinOf(n - h, 2 - sent["F"])
  <1>1. Consume(n) = IF body # <<>>
                     THEN [sent EXCEPT !["H"] = @ + h, !["P"] = @ + p, !["B"] = @ + b, !["S"] = @ + s]
                     ELSE [sent EXCEPT !["H"] = @ + h, !["F"] = @ + f]
    BY DEF Consume
  <1>2. DOMAIN sent = {"H", "P", "B", "S", "F"}
    BY DEF CgiTypeOK, Parts
  <1>3. /\ sent["H"] \in 0..2 /\ sent["P"] \in 0..2 /\ sent["S"] \in 0..2 /\ sent["F"] \in 0..2
        /\ sent["B"] \in 0..Len(body) /\ Len(body) \in Nat
    BY PartUnits DEF CgiTypeOK, Parts
  <1>4. IsMin(h, n, 2 - sent["H"])
    BY <1>3, MinOfIsMin
  <1> HIDE DEF h
  <1>5. h \in Int
    BY <1>4 DEF IsMin
  <1>6. IsMin(p, n - h, 2 - sent["P"]) /\ IsMin(f, n - h, 2 - sent["F"])
    BY <1>3, <1>5, MinOfIsMin
  <1> HIDE DEF p, f
  <1>7. p \in Int /\ f \in Int
    BY <1>6 DEF IsMin
  <1>8. IsMin(b, n - h - p, Len(body) - sent["B"])
    BY <1>3, <1>5, <1>7, MinOfIsMin
  <1> HIDE DEF b
  <1>9. b \in Int
    BY <1>8 DEF IsMin
  <1>10. IsMin(s, n - h - p - b, 2 - sent["S"])
    BY <1>3, <1>5, <1>7, <1>9, MinOfIsMin
  <1> HIDE DEF s
  <1>11. s \in Int
    BY <1>10 DEF IsMin
  <1>12. Counted(Consume(n), h, p, b, s, f)
    BY <1>1, <1>2 DEF Parts, Counted
  <1> QED
    BY <1>4, <1>5, <1>6, <1>7, <1>8, <1>9, <1>10, <1>11, <1>12 DEF Shares

\* The unit a chunk goes on with when j units are gone, and the counter that
\* counts it.
LEMMA ChunkUnit ==
    ASSUME CgiTypeOK, SendOrder, body # <<>>, NEW j \in 0..(Len(Iov) - 1)
    PROVE  LET c == Consume(j)
               e == Consume(j + 1)
               u == Iov[j + 1]
           IN  /\ c["F"] = 0 /\ e["F"] = 0
               /\ \/ /\ c["H"] \in 0..1 /\ c["P"] = 0 /\ c["B"] = 0 /\ c["S"] = 0
                     /\ e["H"] = c["H"] + 1 /\ e["P"] = 0 /\ e["B"] = 0 /\ e["S"] = 0
                     /\ u = <<"H", c["H"] + 1>>
                  \/ /\ c["H"] = 2 /\ c["P"] \in 0..1 /\ c["B"] = 0 /\ c["S"] = 0
                     /\ e["H"] = 2 /\ e["P"] = c["P"] + 1 /\ e["B"] = 0 /\ e["S"] = 0
                     /\ u = IF c["P"] = 0 THEN <<"P", Len(body)>> ELSE <<"C", 0>>
                  \/ /\ c["H"] = 2 /\ c["P"] = 2 /\ c["B"] \in 0..(Len(body) - 1) /\ c["S"] = 0
                     /\ e["H"] = 2 /\ e["P"] = 2 /\ e["B"] = c["B"] + 1 /\ e["S"] = 0
                     /\ u = <<"B", body[c["B"] + 1]>>
                  \/ /\ c["H"] = 2 /\ c["P"] = 2 /\ c["B"] = Len(body) /\ c["S"] \in 0..1
                     /\ e["H"] = 2 /\ e["P"] = 2 /\ e["B"] = Len(body) /\ e["S"] = c["S"] + 1
                     /\ u = <<"S", c["S"] + 1>>
  <1> DEFINE h == 2 - sent["H"]
             p == 2 - sent["P"]
             b == Len(body) - sent["B"]
             s == 2 - sent["S"]
             L == Len(body)
             c == Consume(j)
             e == Consume(j + 1)
  <1>1. /\ L \in Nat /\ L > 0 /\ sent["H"] \in 0..2 /\ sent["P"] \in 0..2 /\ sent["S"] \in 0..2
        /\ sent["F"] \in 0..2 /\ sent["B"] \in 0..L
    BY PartUnits DEF CgiTypeOK, Parts
  <1>2. /\ h \in 0..2 /\ p \in 0..2 /\ b \in 0..L /\ s \in 0..2 /\ sent["F"] = 0
        /\ h > 0 => p = 2 /\ b = L /\ s = 2
        /\ p > 0 => b = L /\ s = 2
        /\ b > 0 => s = 2
    BY <1>1, SMTT(40) DEF SendOrder
  <1>3. /\ Len(Iov) = h + p + b + s
        /\ \A x \in 1..h : Iov[x] = HeaderUnits[sent["H"] + x]
        /\ \A x \in 1..p : Iov[h + x] = PrefixUnits[sent["P"] + x]
        /\ \A x \in 1..b : Iov[h + p + x] = BodyUnits[sent["B"] + x]
        /\ \A x \in 1..s : Iov[h + p + b + x] = SuffixUnits[sent["S"] + x]
    BY IovChunk
  <1>4. j \in Nat /\ j + 1 \in Nat /\ j + 1 <= h + p + b + s
    BY <1>2, <1>3
  <1>a. PICK h1, p1, b1, s1, f1 \in Int :
           Shares(j, h1, p1, b1, s1, f1) /\ Counted(c, h1, p1, b1, s1, f1)
    BY <1>4, ConsumeParts
  <1>b. PICK h2, p2, b2, s2, f2 \in Int :
           Shares(j + 1, h2, p2, b2, s2, f2) /\ Counted(e, h2, p2, b2, s2, f2)
    BY <1>4, ConsumeParts
  <1>7. sent["H"] = 2 - h /\ sent["P"] = 2 - p /\ sent["B"] = L - b /\ sent["S"] = 2 - s
    BY <1>1
  <1> HIDE DEF h, p, b, s, c, e
  <1>5. /\ IsMin(h1, j, h) /\ IsMin(p1, j - h1, p) /\ IsMin(b1, j - h1 - p1, b)
        /\ IsMin(s1, j - h1 - p1 - b1, s)
        /\ IsMin(h2, j + 1, h) /\ IsMin(p2, j + 1 - h2, p) /\ IsMin(b2, j + 1 - h2 - p2, b)
        /\ IsMin(s2, j + 1 - h2 - p2 - b2, s)
    BY <1>a, <1>b DEF Shares, h, p, b, s
  <1>c. /\ c["H"] = 2 - h + h1 /\ c["P"] = 2 - p + p1 /\ c["B"] = L - b + b1 /\ c["S"] = 2 - s + s1
        /\ e["H"] = 2 - h + h2 /\ e["P"] = 2 - p + p2 /\ e["B"] = L - b + b2 /\ e["S"] = 2 - s + s2
        /\ c["F"] = 0 /\ e["F"] = 0
    BY <1>a, <1>b, <1>7, <1>2 DEF Counted
  <1>6. c["F"] = 0 /\ e["F"] = 0
    BY <1>c
  <1>8. CASE j < h
    <2>1. /\ c["H"] = 2 - h + j /\ c["P"] = 0 /\ c["B"] = 0 /\ c["S"] = 0
          /\ e["H"] = 2 - h + j + 1 /\ e["P"] = 0 /\ e["B"] = 0 /\ e["S"] = 0
      <3>1. h1 = j /\ h2 = j + 1
        BY <1>2, <1>4, <1>5, <1>8 DEF IsMin
      <3>2. p1 = 0 /\ p2 = 0
        BY <1>2, <1>4, <1>5, <1>8, <3>1 DEF IsMin
      <3>3. b1 = 0 /\ b2 = 0
        BY <1>1, <1>2, <1>4, <1>5, <1>8, <3>1, <3>2 DEF IsMin
      <3>4. s1 = 0 /\ s2 = 0
        BY <1>1, <1>2, <1>4, <1>5, <1>8, <3>1, <3>2, <3>3 DEF IsMin
      <3> QED
        BY <1>1, <1>2, <1>4, <1>8, <1>c, <3>1, <3>2, <3>3, <3>4
    <2>2. j + 1 \in 1..h /\ 2 - h + (j + 1) \in 1..2
      BY <1>2, <1>4, <1>8
    <2>3. Iov[j + 1] = HeaderUnits[2 - h + (j + 1)]
      BY <1>3, <1>7, <2>2
    <2>4. Iov[j + 1] = <<"H", 2 - h + (j + 1)>>
      BY <2>2, <2>3, PartUnits
    <2>5. Iov[j + 1] = <<"H", c["H"] + 1>> /\ c["H"] \in 0..1 /\ e["H"] = c["H"] + 1
      BY <2>1, <2>4, <1>2, <1>4, <1>8
    <2> QED
      BY <2>1, <2>5, <1>6 DEF c, e
  <1>9. CASE j >= h /\ j < h + p
    <2>1. /\ c["H"] = 2 /\ c["P"] = 2 - p + (j - h) /\ c["B"] = 0 /\ c["S"] = 0
          /\ e["H"] = 2 /\ e["P"] = 2 - p + (j - h) + 1 /\ e["B"] = 0 /\ e["S"] = 0
      <3>1. h1 = h /\ h2 = h
        BY <1>2, <1>4, <1>5, <1>9 DEF IsMin
      <3>2. p1 = j - h /\ p2 = j + 1 - h
        BY <1>2, <1>4, <1>5, <1>9, <3>1 DEF IsMin
      <3>3. b1 = 0 /\ b2 = 0
        BY <1>1, <1>2, <1>4, <1>5, <1>9, <3>1, <3>2 DEF IsMin
      <3>4. s1 = 0 /\ s2 = 0
        BY <1>1, <1>2, <1>4, <1>5, <1>9, <3>1, <3>2, <3>3 DEF IsMin
      <3> QED
        BY <1>1, <1>2, <1>4, <1>9, <1>c, <3>1, <3>2, <3>3, <3>4
    <2>2. /\ j + 1 - h \in 1..p /\ 2 - p + (j + 1 - h) \in 1..2 /\ h + (j + 1 - h) = j + 1
          /\ c["P"] \in 0..1 /\ 2 - p + (j + 1 - h) = c["P"] + 1
      BY <1>2, <1>4, <1>9, <2>1
    <2>3. Iov[j + 1] = PrefixUnits[c["P"] + 1]
      BY <1>3, <1>7, <2>2
    <2>4. Iov[j + 1] = IF c["P"] = 0 THEN <<"P", Len(body)>> ELSE <<"C", 0>>
      <3>1. CASE c["P"] = 0
        BY <2>3, <3>1, PartUnits
      <3>2. CASE c["P"] = 1
        BY <2>3, <3>2, PartUnits
      <3> QED
        BY <2>2, <3>1, <3>2
    <2> QED
      BY <2>1, <2>2, <2>4, <1>6 DEF c, e
  <1>10. CASE j >= h + p /\ j < h + p + b
    <2>1. /\ c["H"] = 2 /\ c["P"] = 2 /\ c["B"] = L - b + (j - h - p) /\ c["S"] = 0
          /\ e["H"] = 2 /\ e["P"] = 2 /\ e["B"] = L - b + (j - h - p) + 1 /\ e["S"] = 0
      <3>1. h1 = h /\ h2 = h
        BY <1>2, <1>4, <1>5, <1>10 DEF IsMin
      <3>2. p1 = p /\ p2 = p
        BY <1>2, <1>4, <1>5, <1>10, <3>1 DEF IsMin
      <3>3. b1 = j - h - p /\ b2 = j + 1 - h - p
        BY <1>1, <1>2, <1>4, <1>5, <1>10, <3>1, <3>2 DEF IsMin
      <3>4. s1 = 0 /\ s2 = 0
        BY <1>1, <1>2, <1>4, <1>5, <1>10, <3>1, <3>2, <3>3 DEF IsMin
      <3> QED
        BY <1>1, <1>2, <1>4, <1>10, <1>c, <3>1, <3>2, <3>3, <3>4
    <2>2. /\ j + 1 - h - p \in 1..b /\ h + p + (j + 1 - h - p) = j + 1
          /\ c["B"] \in 0..(L - 1) /\ L - b + (j + 1 - h - p) = c["B"] + 1
      BY <1>1, <1>2, <1>4, <1>10, <2>1
    <2>3. Iov[j + 1] = BodyUnits[c["B"] + 1]
      BY <1>3, <1>7, <2>2, SMTT(40)
    <2>4. Iov[j + 1] = <<"B", body[c["B"] + 1]>>
      BY <1>1, <2>2, <2>3, PartUnits, SMTT(40)
    <2> QED
      BY <2>1, <2>2, <2>4, <1>6 DEF c, e
  <1>11. CASE j >= h + p + b
    <2>1. /\ c["H"] = 2 /\ c["P"] = 2 /\ c["B"] = L /\ c["S"] = 2 - s + (j - h - p - b)
          /\ e["H"] = 2 /\ e["P"] = 2 /\ e["B"] = L /\ e["S"] = 2 - s + (j - h - p - b) + 1
      <3>1. h1 = h /\ h2 = h
        BY <1>2, <1>4, <1>5, <1>11 DEF IsMin
      <3>2. p1 = p /\ p2 = p
        BY <1>2, <1>4, <1>5, <1>11, <3>1 DEF IsMin
      <3>3. b1 = b /\ b2 = b
        BY <1>1, <1>2, <1>4, <1>5, <1>11, <3>1, <3>2 DEF IsMin
      <3>4. s1 = j - h - p - b /\ s2 = j + 1 - h - p - b
        BY <1>1, <1>2, <1>4, <1>5, <1>11, <3>1, <3>2, <3>3 DEF IsMin
      <3> QED
        BY <1>1, <1>2, <1>4, <1>11, <1>c, <3>1, <3>2, <3>3, <3>4
    <2>2. /\ j + 1 - h - p - b \in 1..s /\ h + p + b + (j + 1 - h - p - b) = j + 1
          /\ c["S"] \in 0..1 /\ 2 - s + (j + 1 - h - p - b) = c["S"] + 1
      BY <1>1, <1>2, <1>4, <1>11, <2>1
    <2>3. Iov[j + 1] = SuffixUnits[c["S"] + 1]
      BY <1>3, <1>7, <2>2
    <2>4. Iov[j + 1] = <<"S", c["S"] + 1>>
      BY <2>2, <2>3, PartUnits
    <2> QED
      BY <2>1, <2>2, <2>4, <1>6 DEF c, e
  <1> QED
    BY <1>2, <1>4, <1>8, <1>9, <1>10, <1>11

\* The same for the final chunk.
LEMMA FinalUnit ==
    ASSUME CgiTypeOK, SendOrder, body = <<>>, eof, NEW j \in 0..(Len(Iov) - 1)
    PROVE  LET c == Consume(j)
               e == Consume(j + 1)
               u == Iov[j + 1]
           IN  /\ c["P"] = 0 /\ c["B"] = 0 /\ c["S"] = 0 /\ e["P"] = 0 /\ e["B"] = 0 /\ e["S"] = 0
               /\ \/ /\ c["H"] \in 0..1 /\ c["F"] = 0 /\ e["H"] = c["H"] + 1 /\ e["F"] = 0
                     /\ u = <<"H", c["H"] + 1>>
                  \/ /\ c["H"] = 2 /\ c["F"] \in 0..1 /\ e["H"] = 2 /\ e["F"] = c["F"] + 1
                     /\ u = <<"F", c["F"] + 1>>
  <1> DEFINE h == 2 - sent["H"]
             f == 2 - sent["F"]
             c == Consume(j)
             e == Consume(j + 1)
  <1>1. sent["H"] \in 0..2 /\ sent["F"] \in 0..2
    BY DEF CgiTypeOK, Parts
  <1>2. /\ h \in 0..2 /\ f \in 0..2 /\ (h > 0 => f = 2)
        /\ sent["P"] = 0 /\ sent["B"] = 0 /\ sent["S"] = 0
    BY <1>1 DEF SendOrder
  <1>3. /\ Len(Iov) = h + f
        /\ \A x \in 1..h : Iov[x] = HeaderUnits[sent["H"] + x]
        /\ \A x \in 1..f : Iov[h + x] = FinalUnits[sent["F"] + x]
    BY IovFinal
  <1>4. j \in Nat /\ j + 1 \in Nat /\ j + 1 <= h + f
    BY <1>2, <1>3
  <1>a. PICK h1, p1, b1, s1, f1 \in Int :
           Shares(j, h1, p1, b1, s1, f1) /\ Counted(c, h1, p1, b1, s1, f1)
    BY <1>4, ConsumeParts
  <1>b. PICK h2, p2, b2, s2, f2 \in Int :
           Shares(j + 1, h2, p2, b2, s2, f2) /\ Counted(e, h2, p2, b2, s2, f2)
    BY <1>4, ConsumeParts
  <1>5. sent["H"] = 2 - h /\ sent["F"] = 2 - f
    BY <1>1
  <1> HIDE DEF h, f, c, e
  <1>6. /\ IsMin(h1, j, h) /\ IsMin(f1, j - h1, f)
        /\ IsMin(h2, j + 1, h) /\ IsMin(f2, j + 1 - h2, f)
    BY <1>a, <1>b DEF Shares, h, f
  <1>7. /\ c["H"] = 2 - h + h1 /\ c["F"] = 2 - f + f1
        /\ e["H"] = 2 - h + h2 /\ e["F"] = 2 - f + f2
        /\ c["P"] = 0 /\ c["B"] = 0 /\ c["S"] = 0 /\ e["P"] = 0 /\ e["B"] = 0 /\ e["S"] = 0
    BY <1>a, <1>b, <1>5, <1>2 DEF Counted
  <1>8. CASE j < h
    <2>1. h1 = j /\ h2 = j + 1
      BY <1>2, <1>4, <1>6, <1>8 DEF IsMin
    <2>2. f1 = 0 /\ f2 = 0
      BY <1>2, <1>4, <1>6, <1>8, <2>1 DEF IsMin
    <2>3. /\ c["H"] \in 0..1 /\ c["F"] = 0 /\ e["H"] = c["H"] + 1 /\ e["F"] = 0
          /\ j + 1 \in 1..h /\ sent["H"] + (j + 1) = c["H"] + 1
      BY <1>2, <1>4, <1>5, <1>7, <1>8, <2>1, <2>2
    <2>4. Iov[j + 1] = HeaderUnits[c["H"] + 1]
      BY <1>3, <2>3
    <2>5. Iov[j + 1] = <<"H", c["H"] + 1>>
      BY <2>3, <2>4, PartUnits
    <2> QED
      BY <1>7, <2>3, <2>5 DEF c, e
  <1>9. CASE j >= h
    <2>1. h1 = h /\ h2 = h
      BY <1>2, <1>4, <1>6, <1>9 DEF IsMin
    <2>2. f1 = j - h /\ f2 = j + 1 - h
      BY <1>2, <1>4, <1>6, <1>9, <2>1 DEF IsMin
    <2>3. /\ c["H"] = 2 /\ c["F"] \in 0..1 /\ e["H"] = 2 /\ e["F"] = c["F"] + 1
          /\ j + 1 - h \in 1..f /\ sent["F"] + (j + 1 - h) = c["F"] + 1 /\ h + (j + 1 - h) = j + 1
      BY <1>2, <1>4, <1>5, <1>7, <1>9, <2>1, <2>2
    <2>4. Iov[j + 1] = FinalUnits[c["F"] + 1]
      BY <1>3, <2>3
    <2>5. Iov[j + 1] = <<"F", c["F"] + 1>>
      BY <2>3, <2>4, PartUnits
    <2> QED
      BY <1>7, <2>3, <2>5 DEF c, e
  <1> QED
    BY <1>2, <1>4, <1>8, <1>9

\* Nothing is counted for nothing.
LEMMA ConsumeNone ==
    ASSUME CgiTypeOK
    PROVE  \A p \in Parts : Consume(0)[p] = sent[p]
  <1>1. PICK h, p, b, s, f \in Int : Shares(0, h, p, b, s, f) /\ Counted(Consume(0), h, p, b, s, f)
    BY ConsumeParts
  <1>2. /\ sent["H"] \in 0..2 /\ sent["P"] \in 0..2 /\ sent["S"] \in 0..2 /\ sent["F"] \in 0..2
        /\ sent["B"] \in 0..Len(body) /\ Len(body) \in Nat
    BY PartUnits DEF CgiTypeOK, Parts
  <1>3. h = 0
    BY <1>1, <1>2 DEF Shares, IsMin
  <1>4. p = 0 /\ f = 0
    BY <1>1, <1>2, <1>3 DEF Shares, IsMin
  <1>5. b = 0
    BY <1>1, <1>2, <1>3, <1>4 DEF Shares, IsMin
  <1>6. s = 0
    BY <1>1, <1>2, <1>3, <1>4, <1>5 DEF Shares, IsMin
  <1> QED
    BY <1>1, <1>2, <1>3, <1>4, <1>5, <1>6 DEF Counted, Parts

\* A byte of a chunk.
LEMMA DataFrame ==
    ASSUME NEW m \in Nat, m > 0, NEW x
    PROVE  NextFrame(<<"data", m>>, <<"B", x>>) = <<"data", m - 1>>
  BY DEF NextFrame

\* A unit moves the framing to the state of the counters after it.
LEMMA UnitFrame ==
    ASSUME CgiTypeOK, SendOrder, NEW j \in 0..(Len(Iov) - 1), body # <<>> \/ eof
    PROVE  NextFrame(FrameOf(Consume(j)), Iov[j + 1]) = FrameOf(Consume(j + 1))
  <1> DEFINE c == Consume(j)
             e == Consume(j + 1)
             u == Iov[j + 1]
             L == Len(body)
  <1>1. L \in Nat /\ (body # <<>> => L > 0)
    BY PartUnits
  <1>2. CASE body # <<>>
    <2>1. /\ c["F"] = 0 /\ e["F"] = 0
          /\ \/ /\ c["H"] \in 0..1 /\ c["P"] = 0 /\ c["B"] = 0 /\ c["S"] = 0
                /\ e["H"] = c["H"] + 1 /\ e["P"] = 0 /\ e["B"] = 0 /\ e["S"] = 0
                /\ u = <<"H", c["H"] + 1>>
             \/ /\ c["H"] = 2 /\ c["P"] \in 0..1 /\ c["B"] = 0 /\ c["S"] = 0
                /\ e["H"] = 2 /\ e["P"] = c["P"] + 1 /\ e["B"] = 0 /\ e["S"] = 0
                /\ u = IF c["P"] = 0 THEN <<"P", L>> ELSE <<"C", 0>>
             \/ /\ c["H"] = 2 /\ c["P"] = 2 /\ c["B"] \in 0..(L - 1) /\ c["S"] = 0
                /\ e["H"] = 2 /\ e["P"] = 2 /\ e["B"] = c["B"] + 1 /\ e["S"] = 0
                /\ u = <<"B", body[c["B"] + 1]>>
             \/ /\ c["H"] = 2 /\ c["P"] = 2 /\ c["B"] = L /\ c["S"] \in 0..1
                /\ e["H"] = 2 /\ e["P"] = 2 /\ e["B"] = L /\ e["S"] = c["S"] + 1
                /\ u = <<"S", c["S"] + 1>>
      BY <1>2, ChunkUnit
    <2> HIDE DEF c, e, u
    <2>2. CASE c["H"] = 0 /\ u = <<"H", 1>> /\ e["H"] = 1
      <3>1. FrameOf(c) = <<"start", 0>> /\ FrameOf(e) = <<"header", 0>>
        BY <2>2 DEF FrameOf
      <3> QED
        BY <2>2, <3>1 DEF NextFrame, c, e, u
    <2>3. CASE c["H"] = 1 /\ u = <<"H", 2>> /\ e["H"] = 2 /\ e["P"] = 0
      <3>1. FrameOf(c) = <<"header", 0>> /\ FrameOf(e) = <<"between", 0>>
        BY <1>2, <2>3 DEF FrameOf
      <3> QED
        BY <2>3, <3>1 DEF NextFrame, c, e, u
    <2>4. CASE c["H"] = 2 /\ c["P"] = 0 /\ u = <<"P", L>> /\ e["H"] = 2 /\ e["P"] = 1 /\ e["S"] = 0
      <3>1. FrameOf(c) = <<"between", 0>> /\ FrameOf(e) = <<"prefix", L>>
        BY <1>2, <2>4 DEF FrameOf
      <3> QED
        BY <1>1, <1>2, <2>4, <3>1 DEF NextFrame, c, e, u
    <2>5. CASE /\ c["H"] = 2 /\ c["P"] = 1 /\ c["S"] = 0 /\ u = <<"C", 0>>
               /\ e["H"] = 2 /\ e["P"] = 2 /\ e["S"] = 0 /\ e["B"] = 0
      <3>1. FrameOf(c) = <<"prefix", L>> /\ FrameOf(e) = <<"data", L>>
        BY <1>1, <1>2, <2>5 DEF FrameOf
      <3> QED
        BY <1>1, <1>2, <2>5, <3>1 DEF NextFrame, c, e, u
    <2>6. CASE /\ c["H"] = 2 /\ c["P"] = 2 /\ c["B"] \in 0..(L - 1) /\ c["S"] = 0
               /\ e["H"] = 2 /\ e["P"] = 2 /\ e["B"] = c["B"] + 1 /\ e["S"] = 0
               /\ u = <<"B", body[c["B"] + 1]>>
      <3>1. FrameOf(c) = <<"data", L - c["B"]>> /\ FrameOf(e) = <<"data", L - c["B"] - 1>>
        BY <1>1, <1>2, <2>6 DEF FrameOf
      <3>2. L - c["B"] \in Nat /\ L - c["B"] > 0
        BY <1>1, <2>6
      <3>3. NextFrame(<<"data", L - c["B"]>>, <<"B", body[c["B"] + 1]>>) = <<"data", L - c["B"] - 1>>
        BY <3>2, DataFrame
      <3> QED
        BY <2>6, <3>1, <3>3 DEF c, e, u
    <2>7. CASE /\ c["H"] = 2 /\ c["P"] = 2 /\ c["B"] = L /\ c["S"] \in 0..1
               /\ e["H"] = 2 /\ e["P"] = 2 /\ e["B"] = L /\ e["S"] = c["S"] + 1
               /\ u = <<"S", c["S"] + 1>>
      <3>1. CASE c["S"] = 0
        <4>1. FrameOf(c) = <<"data", 0>> /\ FrameOf(e) = <<"suffix", 0>> /\ u = <<"S", 1>>
          BY <1>1, <1>2, <2>7, <3>1 DEF FrameOf
        <4> QED
          BY <4>1 DEF NextFrame, c, e, u
      <3>2. CASE c["S"] = 1
        <4>1. FrameOf(c) = <<"suffix", 0>> /\ FrameOf(e) = <<"between", 0>> /\ u = <<"S", 2>>
          BY <1>1, <1>2, <2>7, <3>2 DEF FrameOf
        <4> QED
          BY <4>1 DEF NextFrame, c, e, u
      <3> QED
        BY <2>7, <3>1, <3>2
    <2> QED
      BY <2>1, <2>2, <2>3, <2>4, <2>5, <2>6, <2>7
  <1>3. CASE body = <<>>
    <2>1. \/ /\ c["H"] \in 0..1 /\ c["F"] = 0 /\ e["H"] = c["H"] + 1 /\ e["F"] = 0
             /\ u = <<"H", c["H"] + 1>>
          \/ /\ c["H"] = 2 /\ c["F"] \in 0..1 /\ e["H"] = 2 /\ e["F"] = c["F"] + 1
             /\ u = <<"F", c["F"] + 1>>
      BY <1>3, FinalUnit
    <2> HIDE DEF c, e, u
    <2>2. CASE c["H"] = 0 /\ u = <<"H", 1>> /\ e["H"] = 1
      <3>1. FrameOf(c) = <<"start", 0>> /\ FrameOf(e) = <<"header", 0>>
        BY <2>2 DEF FrameOf
      <3> QED
        BY <2>2, <3>1 DEF NextFrame, c, e, u
    <2>3. CASE c["H"] = 1 /\ u = <<"H", 2>> /\ e["H"] = 2 /\ e["F"] = 0
      <3>1. FrameOf(c) = <<"header", 0>> /\ FrameOf(e) = <<"between", 0>>
        BY <1>3, <2>3 DEF FrameOf
      <3> QED
        BY <2>3, <3>1 DEF NextFrame, c, e, u
    <2>4. CASE c["H"] = 2 /\ c["F"] = 0 /\ u = <<"F", 1>> /\ e["H"] = 2 /\ e["F"] = 1
      <3>1. FrameOf(c) = <<"between", 0>> /\ FrameOf(e) = <<"final", 0>>
        BY <1>3, <2>4 DEF FrameOf
      <3> QED
        BY <2>4, <3>1 DEF NextFrame, c, e, u
    <2>5. CASE c["H"] = 2 /\ c["F"] = 1 /\ u = <<"F", 2>> /\ e["H"] = 2 /\ e["F"] = 2
      <3>1. FrameOf(c) = <<"final", 0>> /\ FrameOf(e) = <<"end", 0>>
        BY <1>3, <2>5 DEF FrameOf
      <3> QED
        BY <2>5, <3>1 DEF NextFrame, c, e, u
    <2> QED
      BY <2>1, <2>2, <2>3, <2>4, <2>5
  <1> QED
    BY <1>2, <1>3

\* A write of one unit more.
LEMMA OneMore ==
    ASSUME NEW w \in Seq(Units), NEW v \in Seq(Units), NEW n \in 0..(Len(v) - 1)
    PROVE  /\ w \o SubSeq(v, 1, n) \in Seq(Units) /\ v[n + 1] \in Units
           /\ w \o SubSeq(v, 1, n + 1) = Append(w \o SubSeq(v, 1, n), v[n + 1])
           /\ w \o SubSeq(v, 1, 0) = w
  <1>1. Len(w) \in Nat /\ Len(v) \in Nat /\ n \in Nat
    BY LenProperties
  <1>2. \A i \in 1..Len(v) : v[i] \in Units
    BY ElementOfSeq
  <1> DEFINE a == SubSeq(v, 1, n)
             b == SubSeq(v, 1, n + 1)
  <1>3. /\ a \in Seq(Units) /\ Len(a) = n /\ \A i \in 1..n : a[i] = v[i]
    <2>1. \A i \in 1..n : v[i] \in Units
      BY <1>1, <1>2
    <2> QED
      BY <1>1, <2>1, SubSeqProperties
  <1>4. /\ b \in Seq(Units) /\ Len(b) = n + 1 /\ \A i \in 1..(n + 1) : b[i] = v[i]
    <2>1. \A i \in 1..(n + 1) : v[i] \in Units
      BY <1>1, <1>2
    <2> QED
      BY <1>1, <2>1, SubSeqProperties
  <1>5. v[n + 1] \in Units
    BY <1>1, <1>2
  <1> HIDE DEF a, b
  <1>6. w \o b = Append(w \o a, v[n + 1])
    BY <1>1, <1>3, <1>4, <1>5, SMTT(40)
  <1>7. w \o SubSeq(v, 1, 0) = w
    BY SubSeqEmpty, ConcatEmptySeq
  <1> QED
    BY <1>3, <1>5, <1>6, <1>7, SMTT(40) DEF a, b

\* D is d followed by the bytes s + 1 .. t of b.
Grown(D, d, b, s, t) ==
    /\ D \in Seq(Nat) /\ t \in Nat /\ s <= t /\ t <= Len(b)
    /\ Len(D) = Len(d) + (t - s)
    /\ \A i \in 1..Len(d) : D[i] = d[i]
    /\ \A i \in 1..(t - s) : D[Len(d) + i] = b[s + i]

\* One byte more.
LEMMA GrowOne ==
    ASSUME NEW d \in Seq(Nat), NEW b \in Seq(Nat), NEW s \in Nat, NEW t \in Nat, NEW D,
           Grown(D, d, b, s, t), t < Len(b)
    PROVE  Grown(Append(D, b[t + 1]), d, b, s, t + 1)
  <1> DEFINE E == Append(D, b[t + 1])
             l == Len(d)
             k == Len(D)
             n == Len(b)
  <1>1. l \in Nat /\ n \in Nat /\ D \in Seq(Nat) /\ k \in Nat
    BY LenProperties DEF Grown
  <1>2. b[t + 1] \in Nat
    <2>1. t + 1 \in 1..Len(b)
      BY <1>1
    <2> QED
      BY <2>1, ElementOfSeq
  <1>3. /\ E \in Seq(Nat) /\ Len(E) = k + 1 /\ E[k + 1] = b[t + 1]
        /\ \A i \in 1..k : E[i] = D[i]
    BY <1>1, <1>2, AppendProperties
  <1>4. /\ s <= t /\ k = l + (t - s)
        /\ \A i \in 1..l : D[i] = d[i]
        /\ \A i \in 1..(t - s) : D[l + i] = b[s + i]
    BY DEF Grown
  <1> HIDE DEF E, l, k, n
  <1>5. \A i \in 1..l : E[i] = d[i]
    <2>1. \A i \in 1..l : i \in 1..k
      BY <1>1, <1>4
    <2> QED
      BY <1>3, <1>4, <2>1
  <1>6. \A i \in 1..(t + 1 - s) : E[l + i] = b[s + i]
    <2> SUFFICES ASSUME NEW i \in 1..(t + 1 - s) PROVE E[l + i] = b[s + i]
      OBVIOUS
    <2>1. CASE i <= t - s
      <3>1. l + i \in 1..k /\ i \in 1..(t - s)
        BY <1>1, <1>4, <2>1
      <3> QED
        BY <1>3, <1>4, <3>1
    <2>2. CASE i = t - s + 1
      <3>1. l + i = k + 1 /\ s + i = t + 1
        BY <1>1, <1>4, <2>2
      <3> QED
        BY <1>3, <3>1
    <2> QED
      BY <2>1, <2>2, <1>4
  <1>7. k + 1 = l + (t + 1 - s) /\ s <= t + 1 /\ t + 1 <= n /\ t + 1 \in Nat
    BY <1>1, <1>4 DEF n
  <1>8. Len(E) = l + (t + 1 - s)
    BY <1>1, <1>3, <1>7
  <1>9. Grown(E, d, b, s, t + 1)
    <2>1. E \in Seq(Nat) /\ t + 1 \in Nat /\ s <= t + 1 /\ t + 1 <= Len(b)
      BY <1>3, <1>7 DEF n
    <2>2. Len(E) = Len(d) + ((t + 1) - s)
      BY <1>8 DEF l
    <2>3. \A i \in 1..Len(d) : E[i] = d[i]
      BY <1>5 DEF l
    <2>4. \A i \in 1..((t + 1) - s) : E[Len(d) + i] = b[s + i]
      BY <1>6 DEF l
    <2> QED
      BY <2>1, <2>2, <2>3, <2>4, Zenon DEF Grown
  <1> QED
    BY <1>9 DEF E

\* What a writev of n units puts on the wire: the framing follows the counters,
\* and the data are the bytes of the chunk that are counted.
WriteOf(n) ==
    LET w == wire \o SubSeq(Iov, 1, n)
    IN  /\ w \in Seq(Units)
        /\ Frame(w) = FrameOf(Consume(n))
        /\ Grown(Decoded(w), Decoded(wire), body, sent["B"], Consume(n)["B"])

\* Every write is one of those.
LEMMA WriteUnits ==
    ASSUME CgiTypeOK, SendOrder, Framed, Decoded(wire) \in Seq(Nat), body # <<>> \/ eof
    PROVE  \A n \in 0..Len(Iov) : WriteOf(n)
  <1> DEFINE T == {n \in 0..Len(Iov) : ~WriteOf(n)}
             d == Decoded(wire)
  <1>1. SUFFICES ASSUME T # {} PROVE FALSE
    OBVIOUS
  <1>2. /\ Iov \in Seq(Units) /\ Len(Iov) \in Nat /\ wire \in Seq(Units) /\ Len(d) \in Nat
        /\ sent["B"] \in 0..Len(body) /\ sent["B"] \in Nat /\ Len(body) \in Nat
        /\ body \in Seq(Nat) /\ d \in Seq(Nat)
    <2>1. Iov \in Seq(Units)
      BY IovChunk, IovFinal
    <2>2. body \in Seq(Nat)
      <3>1. body \in Seq(0..Len(script))
        BY DEF CgiTypeOK
      <3> QED
        BY <3>1, PartUnits, SeqDef
    <2> QED
      BY <2>1, <2>2, PartUnits, LenProperties DEF Framed, CgiTypeOK
  <1>3. PICK m \in T : \A n \in T : m <= n
    <2>1. T \in SUBSET Nat
      BY <1>2
    <2> QED
      BY <1>1, <2>1, SmallestOf
  <1>4. m \in 0..Len(Iov) /\ ~WriteOf(m)
    OBVIOUS
  <1>5. CASE m = 0
    <2>1. wire \o SubSeq(Iov, 1, 0) = wire
      BY <1>2, SubSeqEmpty, ConcatEmptySeq
    <2>2. \A p \in Parts : Consume(0)[p] = sent[p]
      BY ConsumeNone
    <2>3. FrameOf(Consume(0)) = FrameOf(sent)
      BY <2>2 DEF FrameOf, Parts
    <2>4. Consume(0)["B"] = sent["B"]
      BY <2>2 DEF Parts
    <2>5. Grown(d, d, body, sent["B"], sent["B"])
      BY <1>2, SMTT(40) DEF Grown
    <2>6. WriteOf(0)
      <3>1. Frame(wire) = FrameOf(sent)
        BY DEF Framed
      <3> HIDE DEF d
      <3> QED
        BY <1>2, <2>1, <2>3, <2>4, <2>5, <3>1 DEF WriteOf, d
    <2> QED
      BY <1>4, <1>5, <2>6
  <1>6. CASE m # 0
    <2> DEFINE j == m - 1
               w == wire \o SubSeq(Iov, 1, j)
               u == Iov[j + 1]
               v == wire \o SubSeq(Iov, 1, j + 1)
               c == Consume(j)
               e == Consume(j + 1)
               D == Decoded(w)
               E == Decoded(v)
    <2>1. j \in 0..(Len(Iov) - 1) /\ j \in 0..Len(Iov) /\ j \notin T /\ j + 1 = m
      BY <1>2, <1>3, <1>4, <1>6
    <2>2. WriteOf(j)
      BY <2>1
    <2> HIDE DEF j
    <2>3. w \in Seq(Units) /\ u \in Units /\ v = Append(w, u)
      BY <1>2, <2>1, OneMore, ZenonT(60)
    <2>4. Frame(w) = FrameOf(c) /\ Grown(D, d, body, sent["B"], c["B"])
      BY <2>2 DEF WriteOf
    <2>5. Frame(v) = NextFrame(Frame(w), u) /\ E = NextData(D, u)
      BY <2>3, FrameStep, DecodeStep
    <2>6. Frame(v) = FrameOf(e)
      BY <2>1, <2>4, <2>5, UnitFrame
    <2>7. \/ u[1] = "B" /\ u[2] = body[c["B"] + 1] /\ e["B"] = c["B"] + 1 /\ c["B"] < Len(body)
          \/ u[1] # "B" /\ e["B"] = c["B"]
      <3>1. CASE body # <<>>
        <4>1. \/ c["B"] = 0 /\ e["B"] = 0 /\ u = <<"H", c["H"] + 1>>
              \/ c["B"] = 0 /\ e["B"] = 0 /\ u = IF c["P"] = 0 THEN <<"P", Len(body)>> ELSE <<"C", 0>>
              \/ c["B"] \in 0..(Len(body) - 1) /\ e["B"] = c["B"] + 1 /\ u = <<"B", body[c["B"] + 1]>>
              \/ c["B"] = Len(body) /\ e["B"] = Len(body) /\ u = <<"S", c["S"] + 1>>
          BY <2>1, <3>1, ChunkUnit
        <4> HIDE DEF c, e, u
        <4> QED
          BY <4>1, <1>2, SMTT(40)
      <3>2. CASE body = <<>>
        <4>1. /\ c["B"] = 0 /\ e["B"] = 0
              /\ u = <<"H", c["H"] + 1>> \/ u = <<"F", c["F"] + 1>>
          BY <2>1, <3>2, FinalUnit
        <4> HIDE DEF c, e, u
        <4> QED
          BY <4>1
      <3> QED
        BY <3>1, <3>2
    <2>8. v \in Seq(Units)
      BY <2>3, AppendProperties
    <2> HIDE DEF w, u, v, c, e, D, E, d
    <2>9. Grown(E, d, body, sent["B"], e["B"])
      <3>1. CASE u[1] = "B" /\ u[2] = body[c["B"] + 1] /\ e["B"] = c["B"] + 1 /\ c["B"] < Len(body)
        <4>1. E = Append(D, body[c["B"] + 1]) /\ c["B"] \in Nat
          BY <2>4, <2>5, <3>1 DEF NextData, Grown
        <4>2. Grown(Append(D, body[c["B"] + 1]), d, body, sent["B"], c["B"] + 1)
          BY <1>2, <2>4, <3>1, <4>1, GrowOne
        <4> QED
          BY <3>1, <4>1, <4>2
      <3>2. CASE u[1] # "B" /\ e["B"] = c["B"]
        BY <2>4, <2>5, <3>2 DEF NextData
      <3> QED
        BY <2>7, <3>1, <3>2
    <2>10. WriteOf(j + 1)
      BY <2>6, <2>8, <2>9 DEF WriteOf, v, e, E, d
    <2> QED
      BY <1>4, <2>1, <2>10
  <1> QED
    BY <1>5, <1>6

\* Data in ascending order stay so when they grow by bytes that are.
LEMMA GrownAscending ==
    ASSUME NEW d \in Seq(Nat), NEW b \in Seq(Nat), NEW s \in Nat, NEW t \in Nat, NEW D, NEW r \in Nat,
           Grown(D, d, b, s, t),
           \A i \in 1..Len(d) : d[i] <= r,
           \A i \in 1..(Len(d) - 1) : d[i] < d[i + 1],
           \A j \in 1..Len(b) : b[j] <= r,
           \A j \in 1..(Len(b) - 1) : b[j] < b[j + 1],
           \A i \in 1..Len(d) : \A j \in (s + 1)..Len(b) : d[i] < b[j]
    PROVE  /\ \A i \in 1..Len(D) : D[i] <= r
           /\ \A i \in 1..(Len(D) - 1) : D[i] < D[i + 1]
  <1> DEFINE l == Len(d)
             n == Len(b)
             k == Len(D)
  <1>1. l \in Nat /\ n \in Nat /\ D \in Seq(Nat) /\ k \in Nat
    BY LenProperties DEF Grown
  <1>2. /\ s <= t /\ t <= n /\ k = l + (t - s)
        /\ \A i \in 1..l : D[i] = d[i]
        /\ \A i \in 1..(t - s) : D[l + i] = b[s + i]
    BY DEF Grown
  <1>3. /\ \A i \in 1..l : d[i] <= r
        /\ \A i \in 1..(l - 1) : d[i] < d[i + 1]
        /\ \A j \in 1..n : b[j] <= r
        /\ \A j \in 1..(n - 1) : b[j] < b[j + 1]
        /\ \A i \in 1..l : \A j \in (s + 1)..n : d[i] < b[j]
    OBVIOUS
  <1> HIDE DEF l, n, k
  <1>4. \A i \in 1..k : i > l =>
            i - l \in 1..(t - s) /\ s + (i - l) \in 1..n /\ D[i] = b[s + (i - l)]
    <2> SUFFICES ASSUME NEW i \in 1..k, i > l
                 PROVE  i - l \in 1..(t - s) /\ s + (i - l) \in 1..n /\ D[i] = b[s + (i - l)]
      OBVIOUS
    <2>1. i - l \in 1..(t - s) /\ s + (i - l) \in 1..n /\ l + (i - l) = i
      BY <1>1, <1>2
    <2> QED
      BY <1>2, <2>1
  <1>5. ASSUME NEW i \in 1..k PROVE D[i] <= r
    <2>1. CASE i <= l
      <3>1. i \in 1..l
        BY <1>1, <2>1
      <3> QED
        BY <1>2, <1>3, <3>1
    <2>2. CASE i > l
      BY <1>3, <1>4, <2>2
    <2> QED
      BY <1>1, <2>1, <2>2
  <1>6. ASSUME NEW i \in 1..(k - 1) PROVE D[i] < D[i + 1]
    <2>1. i \in 1..k /\ i + 1 \in 1..k
      BY <1>1
    <2>2. CASE i < l
      <3>1. i \in 1..l /\ i + 1 \in 1..l /\ i \in 1..(l - 1)
        BY <1>1, <2>2
      <3> QED
        BY <1>2, <1>3, <3>1
    <2>3. CASE i = l
      <3>1. i \in 1..l /\ i + 1 > l
        BY <1>1, <2>3
      <3>2. D[i] = d[i] /\ D[i + 1] = b[s + (i + 1 - l)] /\ s + (i + 1 - l) \in (s + 1)..n
        <4> DEFINE y == i + 1
        <4>1. y \in 1..k /\ y > l
          BY <2>1, <3>1
        <4> HIDE DEF y
        <4>2. D[y] = b[s + (y - l)] /\ y - l \in 1..(t - s) /\ s + (y - l) \in 1..n
          BY <1>4, <4>1
        <4> QED
          BY <1>1, <1>2, <2>3, <3>1, <4>2 DEF y
      <3> QED
        BY <1>3, <3>1, <3>2
    <2>4. CASE i > l
      <3> DEFINE x == s + (i - l)
      <3>1. D[i] = b[x] /\ x \in 1..n
        BY <1>4, <2>1, <2>4
      <3>2. D[i + 1] = b[x + 1] /\ x + 1 \in 1..n
        <4> DEFINE y == i + 1
        <4>1. y \in 1..k /\ y > l /\ s + (y - l) = x + 1
          BY <1>1, <2>1, <2>4
        <4> HIDE DEF y
        <4>2. D[y] = b[s + (y - l)] /\ s + (y - l) \in 1..n
          BY <1>4, <4>1
        <4>3. D[y] = b[x + 1] /\ x + 1 \in 1..n
          BY <4>1, <4>2
        <4> QED
          BY <4>3 DEF y
      <3> HIDE DEF x
      <3>3. x \in 1..(n - 1)
        BY <1>1, <3>1, <3>2
      <3> QED
        BY <1>3, <3>1, <3>2, <3>3
    <2> QED
      BY <1>1, <2>2, <2>3, <2>4
  <1> QED
    BY <1>5, <1>6 DEF k

\* A sequence whose elements ascend one by one is ascending.
LEMMA AscendingFar ==
    ASSUME NEW b \in Seq(Nat), \A j \in 1..(Len(b) - 1) : b[j] < b[j + 1]
    PROVE  \A i, j \in 1..Len(b) : i < j => b[i] < b[j]
  <1> DEFINE n == Len(b)
  <1>1. n \in Nat /\ (\A j \in 1..n : b[j] \in Nat) /\ \A j \in 1..(n - 1) : b[j] < b[j + 1]
    BY LenProperties, ElementOfSeq
  <1> HIDE DEF n
  <1>2. SUFFICES ASSUME NEW i \in 1..n PROVE \A j \in 1..n : i < j => b[i] < b[j]
    BY DEF n
  <1> DEFINE T == {j \in 1..n : i < j /\ ~(b[i] < b[j])}
  <1>3. SUFFICES ASSUME T # {} PROVE FALSE
    OBVIOUS
  <1>4. PICK m \in T : \A j \in T : m <= j
    <2>1. T \in SUBSET Nat
      OBVIOUS
    <2> QED
      BY <1>3, <2>1, SmallestOf
  <1>5. m \in 1..n /\ i < m /\ ~(b[i] < b[m])
    OBVIOUS
  <1> DEFINE k == m - 1
  <1>6. k \in 1..(n - 1) /\ k \in 1..n /\ k + 1 = m /\ k \notin T
    BY <1>1, <1>4, <1>5
  <1>7. b[k] < b[m]
    <2> HIDE DEF k
    <2> QED
      BY <1>1, <1>6
  <1>8. CASE k = i
    BY <1>5, <1>7, <1>8
  <1>9. CASE k # i
    <2>1. i < k
      BY <1>1, <1>5, <1>9
    <2>2. b[i] < b[k]
      BY <1>6, <2>1
    <2>3. b[i] \in Nat /\ b[k] \in Nat /\ b[m] \in Nat
      BY <1>1, <1>5, <1>6
    <2> HIDE DEF k
    <2> QED
      BY <1>5, <1>7, <2>2, <2>3
  <1> QED
    BY <1>8, <1>9

\* They stay below the bytes that follow.
LEMMA GrownBelow ==
    ASSUME NEW d \in Seq(Nat), NEW b \in Seq(Nat), NEW s \in Nat, NEW t \in Nat, NEW D,
           Grown(D, d, b, s, t),
           \A j \in 1..(Len(b) - 1) : b[j] < b[j + 1],
           \A i \in 1..Len(d) : \A j \in (s + 1)..Len(b) : d[i] < b[j]
    PROVE  \A i \in 1..Len(D) : \A j \in (t + 1)..Len(b) : D[i] < b[j]
  <1> DEFINE l == Len(d)
             n == Len(b)
             k == Len(D)
  <1>1. l \in Nat /\ n \in Nat /\ D \in Seq(Nat) /\ k \in Nat
    BY LenProperties DEF Grown
  <1>2. /\ s <= t /\ t <= n /\ k = l + (t - s)
        /\ \A i \in 1..l : D[i] = d[i]
        /\ \A i \in 1..(t - s) : D[l + i] = b[s + i]
    BY DEF Grown
  <1>3. /\ \A i \in 1..l : \A j \in (s + 1)..n : d[i] < b[j]
        /\ \A i, j \in 1..n : i < j => b[i] < b[j]
    BY AscendingFar
  <1> HIDE DEF l, n, k
  <1>4. SUFFICES ASSUME NEW i \in 1..k, NEW j \in (t + 1)..n PROVE D[i] < b[j]
    BY DEF k, n
  <1>5. CASE i <= l
    <2>1. i \in 1..l /\ j \in (s + 1)..n
      BY <1>1, <1>2, <1>5
    <2> QED
      BY <1>2, <1>3, <2>1
  <1>6. CASE i > l
    <2> DEFINE x == s + (i - l)
    <2>1. i - l \in 1..(t - s) /\ l + (i - l) = i /\ x \in 1..n /\ j \in 1..n /\ x < j
      BY <1>1, <1>2, <1>6
    <2>2. D[i] = b[x]
      BY <1>2, <2>1
    <2> HIDE DEF x
    <2> QED
      BY <1>3, <2>1, <2>2
  <1> QED
    BY <1>1, <1>5, <1>6

\* d are the positions from o + 1 on, and b goes on with s bytes less than those.
Follows(d, b, s, o) ==
    /\ \A i \in 1..Len(d) : d[i] = o + i
    /\ \A j \in 1..Len(b) : b[j] = (o + Len(d) - s) + j

\* Data that grow by the bytes which follow them have no gap.
LEMMA GrownGapless ==
    ASSUME NEW d \in Seq(Nat), NEW b \in Seq(Nat), NEW s \in Nat, NEW t \in Nat, NEW D, NEW o \in Int,
           Grown(D, d, b, s, t), Follows(d, b, s, o)
    PROVE  /\ \A i \in 1..Len(D) : D[i] = o + i
           /\ o + Len(D) - t = o + Len(d) - s
  <1> DEFINE l == Len(d)
             n == Len(b)
             k == Len(D)
  <1>1. l \in Nat /\ n \in Nat /\ D \in Seq(Nat) /\ k \in Nat
    BY LenProperties DEF Grown
  <1>2. /\ s <= t /\ t <= n /\ k = l + (t - s)
        /\ \A i \in 1..l : D[i] = d[i]
        /\ \A i \in 1..(t - s) : D[l + i] = b[s + i]
    BY DEF Grown
  <1>3. (\A i \in 1..l : d[i] = o + i) /\ (\A j \in 1..n : b[j] = (o + l - s) + j)
    BY DEF Follows
  <1> HIDE DEF l, n, k
  <1>4. ASSUME NEW i \in 1..k PROVE D[i] = o + i
    <2>1. CASE i <= l
      <3>1. i \in 1..l
        BY <1>1, <2>1
      <3> QED
        BY <1>2, <1>3, <3>1
    <2>2. CASE i > l
      <3>1. i - l \in 1..(t - s) /\ s + (i - l) \in 1..n /\ l + (i - l) = i
        BY <1>1, <1>2, <2>2
      <3>2. D[i] = b[s + (i - l)]
        BY <1>2, <3>1
      <3>3. D[i] = (o + l - s) + (s + (i - l))
        BY <1>3, <3>1, <3>2
      <3> QED
        BY <1>1, <3>3
    <2> QED
      BY <1>1, <2>1, <2>2
  <1>5. o + k - t = o + l - s
    BY <1>1, <1>2
  <1> QED
    BY <1>4, <1>5 DEF k, l

-----------------------------------------------------------------------------
(* The end of the header.                                                  *)

\* The two marks, spelled out.
LEMMA Marks ==
    ASSUME NEW h, NEW i \in Nat \ {0}, Len(h) \in Nat
    PROVE  /\ Has(h, i, <<"n", "n">>) <=> i + 1 <= Len(h) /\ h[i] = "n" /\ h[i + 1] = "n"
           /\ Has(h, i, <<"r", "n", "r", "n">>) <=>
                  /\ i + 3 <= Len(h) /\ h[i] = "r" /\ h[i + 1] = "n"
                  /\ h[i + 2] = "r" /\ h[i + 3] = "n"
  <1>1. Has(h, i, <<"n", "n">>) <=> i + 1 <= Len(h) /\ h[i] = "n" /\ h[i + 1] = "n"
    <2> DEFINE m == <<"n", "n">>
    <2>1. DOMAIN m = {1, 2} /\ m[1] = "n" /\ m[2] = "n" /\ Len(m) = 2
      OBVIOUS
    <2> HIDE DEF m
    <2>2. Has(h, i, m) <=> i + 1 <= Len(h) /\ h[i] = "n" /\ h[i + 1] = "n"
      <3>1. i + 1 - 1 = i /\ i + 2 - 1 = i + 1
        OBVIOUS
      <3> QED
        BY <2>1, <3>1 DEF Has
    <2> QED
      BY <2>2 DEF m
  <1>2. Has(h, i, <<"r", "n", "r", "n">>) <=>
            /\ i + 3 <= Len(h) /\ h[i] = "r" /\ h[i + 1] = "n"
            /\ h[i + 2] = "r" /\ h[i + 3] = "n"
    <2> DEFINE m == <<"r", "n", "r", "n">>
    <2>1. /\ DOMAIN m = {1, 2, 3, 4} /\ Len(m) = 4
          /\ m[1] = "r" /\ m[2] = "n" /\ m[3] = "r" /\ m[4] = "n"
      OBVIOUS
    <2> HIDE DEF m
    <2>2. Has(h, i, m) <=> /\ i + 3 <= Len(h) /\ h[i] = "r" /\ h[i + 1] = "n"
                           /\ h[i + 2] = "r" /\ h[i + 3] = "n"
      <3>1. i + 1 - 1 = i /\ i + 2 - 1 = i + 1 /\ i + 3 - 1 = i + 2 /\ i + 4 - 1 = i + 3
        OBVIOUS
      <3> QED
        BY <2>1, <3>1 DEF Has
    <2> QED
      BY <2>2 DEF m
  <1> QED
    BY <1>1, <1>2

\* The offset is that of the first mark.
LEMMA FirstMark ==
    ASSUME NEW h, Len(h) \in Nat
    PROVE  /\ BodyOffset(h) \in 0..Len(h)
           /\ BodyOffset(h) # 0 =>
                \E i \in 1..Len(h) : /\ EndsAt(h, i) # 0 /\ BodyOffset(h) = EndsAt(h, i)
                                     /\ \A j \in 1..Len(h) : EndsAt(h, j) # 0 => i <= j
           /\ \A i \in 1..Len(h) :
                EndsAt(h, i) # 0 /\ (\A j \in 1..Len(h) : EndsAt(h, j) # 0 => i <= j)
                    => BodyOffset(h) = EndsAt(h, i)
  <1> DEFINE ends == {i \in 1..Len(h) : EndsAt(h, i) # 0}
             first == CHOOSE i \in ends : \A j \in ends : i <= j
  <1>1. BodyOffset(h) = IF ends = {} THEN 0 ELSE EndsAt(h, first)
    BY DEF BodyOffset
  <1>2. \A i \in 1..Len(h) : EndsAt(h, i) \in 0..Len(h)
    <2> SUFFICES ASSUME NEW i \in 1..Len(h) PROVE EndsAt(h, i) \in 0..Len(h)
      OBVIOUS
    <2>1. CASE Has(h, i, <<"n", "n">>)
      BY <2>1, Marks DEF EndsAt
    <2>2. CASE ~Has(h, i, <<"n", "n">>) /\ Has(h, i, <<"r", "n", "r", "n">>)
      BY <2>2, Marks DEF EndsAt
    <2>3. CASE ~Has(h, i, <<"n", "n">>) /\ ~Has(h, i, <<"r", "n", "r", "n">>)
      BY <2>3 DEF EndsAt
    <2> QED
      BY <2>1, <2>2, <2>3
  <1>3. CASE ends = {}
    BY <1>1, <1>3
  <1>4. CASE ends # {}
    <2>1. ends \in SUBSET Nat
      OBVIOUS
    <2>2. \E m \in ends : \A j \in ends : m <= j
      BY <1>4, <2>1, SmallestOf
    <2>3. first \in ends /\ \A j \in ends : first <= j
      BY <2>2
    <2>4. BodyOffset(h) = EndsAt(h, first)
      BY <1>1, <1>4
    <2> HIDE DEF first
    <2>5. first \in 1..Len(h) /\ EndsAt(h, first) # 0
      BY <2>3
    <2>6. \A j \in 1..Len(h) : EndsAt(h, j) # 0 => first <= j
      BY <2>3
    <2>7. \A i \in 1..Len(h) :
             EndsAt(h, i) # 0 /\ (\A j \in 1..Len(h) : EndsAt(h, j) # 0 => i <= j) => i = first
      BY <2>5, <2>6
    <2> QED
      BY <1>2, <2>4, <2>5, <2>6, <2>7
  <1> QED
    BY <1>3, <1>4

\* Wherever a read stops, the end of the header found in a prefix of the output
\* is the end of the header of the whole output.
LEMMA PrefixOffset ==
    ASSUME NEW h, Len(h) \in Nat, NEW p, NEW n \in 0..Len(h), Len(p) = n,
           \A k \in 1..n : p[k] = h[k], BodyOffset(p) # 0
    PROVE  BodyOffset(h) = BodyOffset(p)
  <1>1. PICK i \in 1..n : /\ EndsAt(p, i) # 0 /\ BodyOffset(p) = EndsAt(p, i)
                          /\ \A j \in 1..n : EndsAt(p, j) # 0 => i <= j
    <2>1. Len(p) \in Nat
      OBVIOUS
    <2> QED
      BY <2>1, FirstMark
  <1>2. \A j \in 1..n : /\ j \in Nat \ {0} /\ j \in 1..Len(h)
                        /\ (Has(p, j, <<"n", "n">>) <=> j + 1 <= n /\ p[j] = "n" /\ p[j + 1] = "n")
                        /\ (Has(p, j, <<"r", "n", "r", "n">>) <=>
                               /\ j + 3 <= n /\ p[j] = "r" /\ p[j + 1] = "n"
                               /\ p[j + 2] = "r" /\ p[j + 3] = "n")
    <2> SUFFICES ASSUME NEW j \in 1..n
                 PROVE  /\ j \in Nat \ {0} /\ j \in 1..Len(h)
                        /\ (Has(p, j, <<"n", "n">>) <=> j + 1 <= n /\ p[j] = "n" /\ p[j + 1] = "n")
                        /\ (Has(p, j, <<"r", "n", "r", "n">>) <=>
                               /\ j + 3 <= n /\ p[j] = "r" /\ p[j + 1] = "n"
                               /\ p[j + 2] = "r" /\ p[j + 3] = "n")
      OBVIOUS
    <2>1. j \in Nat \ {0} /\ j \in 1..Len(h) /\ Len(p) \in Nat /\ Len(p) = n
      OBVIOUS
    <2> QED
      BY <2>1, Marks, SMTT(40)
  <1>3. \A j \in 1..n : /\ (Has(h, j, <<"n", "n">>) <=> j + 1 <= Len(h) /\ h[j] = "n" /\ h[j + 1] = "n")
                        /\ (Has(h, j, <<"r", "n", "r", "n">>) <=>
                               /\ j + 3 <= Len(h) /\ h[j] = "r" /\ h[j + 1] = "n"
                               /\ h[j + 2] = "r" /\ h[j + 3] = "n")
    <2> SUFFICES ASSUME NEW j \in 1..n
                 PROVE  /\ (Has(h, j, <<"n", "n">>) <=> j + 1 <= Len(h) /\ h[j] = "n" /\ h[j + 1] = "n")
                        /\ (Has(h, j, <<"r", "n", "r", "n">>) <=>
                               /\ j + 3 <= Len(h) /\ h[j] = "r" /\ h[j + 1] = "n"
                               /\ h[j + 2] = "r" /\ h[j + 3] = "n")
      OBVIOUS
    <2>1. j \in Nat \ {0}
      OBVIOUS
    <2> QED
      BY <2>1, Marks
  <1>4. \A j \in 1..n : /\ p[j] = h[j]
                        /\ j + 1 <= n => p[j + 1] = h[j + 1]
                        /\ j + 3 <= n => p[j + 2] = h[j + 2] /\ p[j + 3] = h[j + 3]
    OBVIOUS
  <1>5. Has(p, i, <<"n", "n">>) \/ Has(p, i, <<"r", "n", "r", "n">>)
    BY <1>1 DEF EndsAt
  <1>6. EndsAt(h, i) = EndsAt(p, i)
    <2>1. CASE Has(p, i, <<"n", "n">>)
      <3>1. Has(h, i, <<"n", "n">>)
        BY <1>2, <1>3, <1>4, <2>1
      <3> QED
        BY <2>1, <3>1 DEF EndsAt
    <2>2. CASE ~Has(p, i, <<"n", "n">>)
      <3>1. Has(h, i, <<"r", "n", "r", "n">>) /\ ~Has(h, i, <<"n", "n">>)
        BY <1>2, <1>3, <1>4, <1>5, <2>2, SMTT(40)
      <3> QED
        BY <1>5, <2>2, <3>1 DEF EndsAt
    <2> QED
      BY <2>1, <2>2
  <1>7. ASSUME NEW j \in 1..Len(h), EndsAt(h, j) # 0, j < i PROVE FALSE
    <2>1. j \in 1..n /\ j + 1 \in 1..n /\ i + 1 <= n
      BY <1>2, <1>5, <1>7
    <2>2. EndsAt(p, j) = 0
      BY <1>1, <1>7, <2>1
    <2>3. ~Has(p, j, <<"n", "n">>) /\ ~Has(p, j, <<"r", "n", "r", "n">>)
      BY <2>1, <2>2 DEF EndsAt
    <2>4. Has(h, j, <<"n", "n">>) \/ Has(h, j, <<"r", "n", "r", "n">>)
      BY <1>7 DEF EndsAt
    <2>a. /\ p[j] = h[j] /\ p[j + 1] = h[j + 1]
          /\ j + 3 <= n => p[j + 2] = h[j + 2] /\ p[j + 3] = h[j + 3]
      BY <1>4, <2>1
    <2>b. /\ Has(p, j, <<"n", "n">>) <=> j + 1 <= n /\ p[j] = "n" /\ p[j + 1] = "n"
          /\ Has(p, j, <<"r", "n", "r", "n">>) <=>
                 /\ j + 3 <= n /\ p[j] = "r" /\ p[j + 1] = "n"
                 /\ p[j + 2] = "r" /\ p[j + 3] = "n"
      BY <1>2, <2>1
    <2>c. /\ Has(h, j, <<"n", "n">>) <=> j + 1 <= Len(h) /\ h[j] = "n" /\ h[j + 1] = "n"
          /\ Has(h, j, <<"r", "n", "r", "n">>) <=>
                 /\ j + 3 <= Len(h) /\ h[j] = "r" /\ h[j + 1] = "n"
                 /\ h[j + 2] = "r" /\ h[j + 3] = "n"
      BY <1>3, <2>1
    <2>5. ~Has(h, j, <<"n", "n">>)
      BY <2>1, <2>3, <2>a, <2>b, <2>c
    <2>6. Has(h, j, <<"r", "n", "r", "n">>) /\ j + 3 > n
      BY <2>1, <2>3, <2>4, <2>5, <2>a, <2>b, <2>c
    <2>7. j = i - 1 /\ i + 3 > n
      BY <1>7, <2>1, <2>6, SMTT(40)
    <2>8. h[j + 2] = "r" /\ j + 2 = i + 1
      BY <1>3, <2>1, <2>6, <2>7
    <2>9. Has(p, i, <<"n", "n">>)
      BY <1>2, <1>5, <2>7
    <2> QED
      BY <1>2, <1>4, <2>8, <2>9
  <1>8. i \in 1..Len(h) /\ EndsAt(h, i) # 0 /\ \A j \in 1..Len(h) : EndsAt(h, j) # 0 => i <= j
    BY <1>1, <1>2, <1>6, <1>7
  <1> QED
    BY <1>1, <1>6, <1>8, FirstMark

-----------------------------------------------------------------------------
(* Sequences of positions.                                                 *)

\* A sequence over a set is one over every larger set.
LEMMA SeqWiden ==
    ASSUME NEW S, NEW T, S \subseteq T, NEW s \in Seq(S)
    PROVE  s \in Seq(T)
  BY SeqDef

\* The positions a + 1 .. b.
LEMMA PositionsAre ==
    ASSUME NEW a \in Nat, NEW b \in Nat, a <= b
    PROVE  /\ Positions(a + 1, b) \in Seq((a + 1)..b)
           /\ Len(Positions(a + 1, b)) = b - a
           /\ \A k \in 1..(b - a) : Positions(a + 1, b)[k] = a + k
  <1> DEFINE n == b - a
  <1>1. n \in Nat /\ b + 1 - (a + 1) = n
    OBVIOUS
  <1>2. Positions(a + 1, b) = [k \in 1..n |-> a + 1 + k - 1]
    BY <1>1 DEF Positions
  <1>3. \A k \in 1..n : a + 1 + k - 1 = a + k /\ a + k \in (a + 1)..b
    OBVIOUS
  <1> HIDE DEF n
  <1>4. Positions(a + 1, b) = [k \in 1..n |-> a + k]
    BY <1>2, <1>3
  <1>5. /\ Positions(a + 1, b) \in Seq((a + 1)..b) /\ Len(Positions(a + 1, b)) = n
        /\ \A k \in 1..n : Positions(a + 1, b)[k] = a + k
    BY <1>1, <1>3, <1>4
  <1> QED
    BY <1>5 DEF n

\* A sequence of the positions 1 .. n is Positions(1, n).
LEMMA PositionsFrom1 ==
    ASSUME NEW n \in Nat
    PROVE  /\ Positions(1, n) \in Seq(1..n) /\ Len(Positions(1, n)) = n
           /\ DOMAIN Positions(1, n) = 1..n
           /\ \A k \in 1..n : Positions(1, n)[k] = k
           /\ \A S : \A p \in Seq(S) :
                Len(p) = n /\ (\A k \in 1..n : p[k] = k) => p = Positions(1, n)
  <1>1. n + 1 - 1 = n /\ \A k \in 1..n : 1 + k - 1 = k
    OBVIOUS
  <1>2. Positions(1, n) = [k \in 1..n |-> k]
    BY <1>1 DEF Positions
  <1>3. /\ Positions(1, n) \in Seq(1..n) /\ Len(Positions(1, n)) = n
        /\ DOMAIN Positions(1, n) = 1..n
        /\ \A k \in 1..n : Positions(1, n)[k] = k
    BY <1>2
  <1>4. ASSUME NEW S, NEW p \in Seq(S), Len(p) = n, \A k \in 1..n : p[k] = k
        PROVE  p = Positions(1, n)
    <2>1. p = [k \in 1..n |-> p[k]]
      BY <1>4
    <2> QED
      BY <1>2, <1>4, <2>1
  <1> QED
    BY <1>3, <1>4

\* What is read is appended to what has been read, as far as there is space.
LEMMA ReadJoins ==
    ASSUME NEW r \in Nat, NEW n \in Nat, NEW q \in 0..n
    PROVE  Positions(1, r) \o SubSeq(Positions(r + 1, r + n), 1, q) = Positions(1, r + q)
  <1> DEFINE a == Positions(1, r)
             b == Positions(r + 1, r + n)
             c == SubSeq(b, 1, q)
             S == 1..(r + n)
  <1>1. a \in Seq(1..r) /\ Len(a) = r /\ \A k \in 1..r : a[k] = k
    BY PositionsFrom1
  <1>2. b \in Seq((r + 1)..(r + n)) /\ Len(b) = n /\ \A k \in 1..n : b[k] = r + k
    <2> DEFINE m == r + n
    <2>1. m \in Nat /\ r <= m /\ m - r = n
      OBVIOUS
    <2> HIDE DEF m
    <2>2. /\ Positions(r + 1, m) \in Seq((r + 1)..m) /\ Len(Positions(r + 1, m)) = n
          /\ \A k \in 1..n : Positions(r + 1, m)[k] = r + k
      BY <2>1, PositionsAre
    <2> QED
      BY <2>2 DEF m
  <1> HIDE DEF a, b
  <1>3. c \in Seq((r + 1)..(r + n)) /\ Len(c) = q /\ \A k \in 1..q : c[k] = r + k
    <2>1. q \in Nat /\ \A k \in 1..q : k \in 1..n /\ b[k] \in (r + 1)..(r + n)
      BY <1>2, ElementOfSeq
    <2>2. c \in Seq((r + 1)..(r + n)) /\ Len(c) = q /\ \A k \in 1..q : c[k] = b[k]
      BY <1>2, <2>1, SubSeqProperties, SMTT(40)
    <2> QED
      BY <1>2, <2>1, <2>2
  <1> HIDE DEF c
  <1>4. a \in Seq(S) /\ c \in Seq(S)
    <2>1. 1..r \subseteq S /\ (r + 1)..(r + n) \subseteq S
      OBVIOUS
    <2> QED
      BY <1>1, <1>3, <2>1, SeqDef, SMTT(40)
  <1> HIDE DEF S
  <1> DEFINE z == a \o c
  <1>a. /\ z \in Seq(S) /\ Len(z) = Len(a) + Len(c)
        /\ \A k \in 1..Len(a) : z[k] = a[k]
        /\ \A k \in 1..Len(c) : z[Len(a) + k] = c[k]
    BY <1>4, ConcatAt
  <1> HIDE DEF z
  <1>5. /\ z \in Seq(S) /\ Len(z) = r + q
        /\ \A k \in 1..r : z[k] = a[k]
        /\ \A k \in 1..q : z[r + k] = c[k]
    BY <1>1, <1>3, <1>a
  <1>6. ASSUME NEW k \in 1..(r + q) PROVE z[k] = k
    <2>a. k \in Int /\ 1 <= k /\ k <= r + q
      OBVIOUS
    <2>1. CASE k <= r
      <3>1. k \in 1..r
        BY <2>1
      <3> QED
        BY <1>1, <1>5, <3>1
    <2>2. CASE k > r
      <3>1. k - r \in 1..q /\ r + (k - r) = k
        BY <2>2
      <3> QED
        BY <1>3, <1>5, <3>1
    <2> QED
      BY <2>a, <2>1, <2>2
  <1>7. r + q \in Nat
    OBVIOUS
  <1> QED
    BY <1>5, <1>6, <1>7, PositionsFrom1, ZenonT(60) DEF a, b, c, z

\* The tail of it.
LEMMA TailPositions ==
    ASSUME NEW n \in Nat, NEW o \in 0..n
    PROVE  /\ SubSeq(Positions(1, n), o + 1, n) \in Seq(1..n)
           /\ Len(SubSeq(Positions(1, n), o + 1, n)) = n - o
           /\ \A k \in 1..(n - o) : SubSeq(Positions(1, n), o + 1, n)[k] = o + k
  <1> DEFINE p == Positions(1, n)
  <1>1. p \in Seq(1..n) /\ Len(p) = n /\ \A k \in 1..n : p[k] = k
    BY PositionsFrom1
  <1> HIDE DEF p
  <1>2. \A k \in (o + 1)..n : p[k] \in 1..n
    BY <1>1
  <1>3. \A k \in 1..(n - o) : o + k \in 1..n
    OBVIOUS
  <1>4. /\ SubSeq(p, o + 1, n) \in Seq(1..n) /\ Len(SubSeq(p, o + 1, n)) = n - o
        /\ \A k \in 1..(n - o) : SubSeq(p, o + 1, n)[k] = p[o + k]
    <2> DEFINE m == o + 1
               q == SubSeq(p, m, n)
    <2>1. m \in Int /\ n \in Int /\ \A k \in m..n : p[k] \in 1..n
      BY <1>2
    <2>2. /\ q \in Seq(1..n) /\ Len(q) = IF m <= n THEN n - m + 1 ELSE 0
          /\ \A k \in 1..(n - m + 1) : q[k] = p[m + k - 1]
      <3> HIDE DEF m
      <3> QED
        BY <2>1, SubSeqProperties
    <2> HIDE DEF q
    <2>3. /\ n - m + 1 = n - o /\ (IF m <= n THEN n - m + 1 ELSE 0) = n - o
          /\ \A k \in 1..(n - o) : m + k - 1 = o + k
      OBVIOUS
    <2> QED
      BY <2>2, <2>3 DEF q
  <1> QED
    BY <1>1, <1>3, <1>4 DEF p

\* The end of the header in what has been read.
LEMMA OffsetRead ==
    ASSUME Len(script) \in Nat, script \in Seq({"r", "n", "b"}), NEW n \in 0..Len(script)
    PROVE  /\ BodyOffset(Classes(Positions(1, n))) \in 0..n
           /\ BodyOffset(Classes(Positions(1, n))) # 0 =>
                BodyOffset(script) = BodyOffset(Classes(Positions(1, n)))
           /\ n = Len(script) => BodyOffset(script) = BodyOffset(Classes(Positions(1, n)))
  <1> DEFINE p == Classes(Positions(1, n))
  <1>1. n \in Nat /\ DOMAIN Positions(1, n) = 1..n /\ \A k \in 1..n : Positions(1, n)[k] = k
    BY PositionsFrom1
  <1>2. p = [k \in 1..n |-> script[k]]
    BY <1>1 DEF Classes
  <1>3. Len(p) = n /\ \A k \in 1..n : p[k] = script[k]
    BY <1>1, <1>2
  <1>4. n = Len(script) => p = script
    BY <1>2
  <1> HIDE DEF p
  <1>5. BodyOffset(p) \in 0..n
    BY <1>1, <1>3, FirstMark
  <1>6. BodyOffset(p) # 0 => BodyOffset(script) = BodyOffset(p)
    BY <1>3, PrefixOffset
  <1> QED
    BY <1>4, <1>5, <1>6 DEF p

-----------------------------------------------------------------------------
(* The invariant, action by action.                                        *)

\* The types, part by part.
LEMMA Types ==
    ASSUME CgiTypeOK
    PROVE  /\ script \in Seq({"r", "n", "b"}) /\ Len(script) \in Nat
           /\ written \in 0..Len(script) /\ rd \in 0..written /\ rd \in Nat /\ written \in Nat
           /\ sent["H"] \in 0..2 /\ sent["P"] \in 0..2 /\ sent["S"] \in 0..2 /\ sent["F"] \in 0..2
           /\ sent["B"] \in 0..Len(body) /\ sent["B"] \in Nat
           /\ Len(body) \in Nat /\ body \in Seq(Nat) /\ Len(hdr) \in Nat
           /\ HdrCap \in Nat /\ BodyCap \in Nat
  <1>1. script \in Seq({"r", "n", "b"}) /\ Len(script) \in Nat
    BY CgiAssumption, LenProperties DEF CgiTypeOK
  <1>2. written \in 0..Len(script) /\ rd \in 0..written /\ rd \in Nat /\ written \in Nat
    BY <1>1 DEF CgiTypeOK
  <1>3. /\ sent["H"] \in 0..2 /\ sent["P"] \in 0..2 /\ sent["S"] \in 0..2 /\ sent["F"] \in 0..2
        /\ sent["B"] \in 0..Len(body)
    BY DEF CgiTypeOK, Parts
  <1>4. body \in Seq(0..Len(script)) /\ hdr \in Seq(1..Len(script))
    BY DEF CgiTypeOK
  <1>5. Len(body) \in Nat /\ Len(hdr) \in Nat /\ body \in Seq(Nat)
    BY <1>1, <1>4, LenProperties, SeqDef
  <1>6. HdrCap \in Nat /\ BodyCap \in Nat
    BY CgiAssumption
  <1> QED
    BY <1>1, <1>2, <1>3, <1>5, <1>6

\* The body is read from somewhere in the output.
LEMMA OffInt ==
    ASSUME CgiTypeOK
    PROVE  Off \in Int
  <1>1. BodyOffset(script) \in 0..Len(script) /\ Len(script) \in Nat
    BY Types, FirstMark
  <1> QED
    BY <1>1 DEF Off

\* The parts that a step which moves no data leaves alone.
LEMMA QuietStep ==
    ASSUME Inv, UNCHANGED <<script, rd, hdr, hdone, body, eof, sent, wire, dropped>>,
           at' = "aborted" \/ at # "aborted"
    PROVE  /\ SendOrder' /\ Framed' /\ Ascending' /\ Gapless' /\ Iov' = Iov
           /\ BodyOffset(Classes(hdr))' = BodyOffset(Classes(hdr))
  <1>1. SendOrder'
    BY DEF Inv, SendOrder, ChunkSent
  <1>2. Framed'
    BY DEF Inv, Framed, FrameOf
  <1>3. Ascending'
    BY DEF Inv, Ascending
  <1>4. Off' = Off
    BY DEF Off
  <1>5. Gapless'
    BY <1>4 DEF Inv, Gapless
  <1>6. Iov' = Iov
    BY DEF Iov, Unsent, HeaderUnits, PrefixUnits, BodyUnits, SuffixUnits, FinalUnits
  <1>7. BodyOffset(Classes(hdr))' = BodyOffset(Classes(hdr))
    BY DEF Classes
  <1> QED
    BY <1>1, <1>2, <1>3, <1>5, <1>6, <1>7

\* The child writes.
LEMMA ChildWriteInv ==
    ASSUME Inv, NEW k \in 1..Len(script), ChildWrite(k)
    PROVE  Inv'
  <1>1. /\ UNCHANGED <<script, ended, rd, at, hdr, hdone, body, eof, sent, wire, dropped>>
        /\ ~ended /\ written' = written + k /\ written + k <= Len(script)
    BY DEF ChildWrite
  <1>2. /\ SendOrder' /\ Framed' /\ Ascending' /\ Gapless' /\ Iov' = Iov
        /\ BodyOffset(Classes(hdr))' = BodyOffset(Classes(hdr))
    BY <1>1, QuietStep
  <1>3. CgiTypeOK'
    BY <1>1, Types DEF Inv, CgiTypeOK
  <1>4. ReadsOnlyWhenSent' /\ Progress'
    BY <1>1, <1>2 DEF Inv, ReadsOnlyWhenSent, Progress
  <1>5. HeaderSoFar'
    BY <1>1, <1>2 DEF Inv, HeaderSoFar
  <1> QED
    BY <1>2, <1>3, <1>4, <1>5 DEF Inv

\* The child closes its output.
LEMMA ChildCloseInv ==
    ASSUME Inv, ChildClose
    PROVE  Inv'
  <1>1. /\ UNCHANGED <<script, written, rd, at, hdr, hdone, body, eof, sent, wire, dropped>>
        /\ ended' = TRUE /\ written = Len(script)
    BY DEF ChildClose
  <1>2. /\ SendOrder' /\ Framed' /\ Ascending' /\ Gapless' /\ Iov' = Iov
        /\ BodyOffset(Classes(hdr))' = BodyOffset(Classes(hdr))
    BY <1>1, QuietStep
  <1>3. CgiTypeOK'
    BY <1>1 DEF Inv, CgiTypeOK
  <1>4. ReadsOnlyWhenSent' /\ Progress'
    BY <1>1, <1>2 DEF Inv, ReadsOnlyWhenSent, Progress
  <1>5. HeaderSoFar'
    BY <1>1, <1>2 DEF Inv, HeaderSoFar
  <1> QED
    BY <1>2, <1>3, <1>4, <1>5 DEF Inv

\* An iovec with nothing in it: the chunk has been sent, and at end of file
\* the final chunk too.
LEMMA NothingLeft ==
    ASSUME Inv, Iov = <<>>
    PROVE  body = <<>> /\ (eof => sent["H"] = 2 /\ sent["F"] = 2)
  <1>1. CgiTypeOK /\ SendOrder
    BY DEF Inv
  <1>2. Len(Iov) = 0
    OBVIOUS
  <1>3. CASE body # <<>>
    <2> DEFINE h == 2 - sent["H"]
               p == 2 - sent["P"]
               b == Len(body) - sent["B"]
               s == 2 - sent["S"]
    <2>1. h \in Nat /\ p \in Nat /\ b \in Nat /\ s \in Nat /\ Len(Iov) = h + p + b + s
      BY <1>1, <1>3, IovChunk
    <2>2. sent["P"] \in 0..2 /\ sent["S"] \in 0..2 /\ sent["B"] \in 0..Len(body) /\ Len(body) \in Nat
      BY <1>1, Types
    <2> HIDE DEF h, p, b, s
    <2>3. p = 0 /\ b = 0 /\ s = 0
      BY <1>2, <2>1
    <2>4. sent["P"] = 2 /\ sent["B"] = Len(body) /\ sent["S"] = 2
      BY <2>2, <2>3 DEF p, b, s
    <2> QED
      BY <1>1, <1>3, <2>4 DEF SendOrder, ChunkSent
  <1>4. CASE body = <<>> /\ eof
    <2>1. Len(Iov) = (2 - sent["H"]) + (2 - sent["F"])
      BY <1>1, <1>4, IovFinal
    <2> QED
      BY <1>1, <1>2, <1>4, <2>1, Types
  <1> QED
    BY <1>3, <1>4

\* The steps that only change which registration is armed, or close.
LEMMA ArmInv ==
    ASSUME Inv, StdoutEvent \/ ReadAgain \/ ClientEvent \/ WriteBlock \/ WriteEnd \/ Abort
    PROVE  Inv'
  <1>1. /\ UNCHANGED <<script, written, ended, rd, hdr, hdone, body, eof, sent, wire, dropped>>
        /\ \/ at = "stdout" /\ at' = "reading"
           \/ at = "reading" /\ at' = "stdout"
           \/ at = "client" /\ at' = "writing"
           \/ at = "writing" /\ at' = "client"
           \/ at = "writing" /\ Iov = <<>> /\ eof /\ at' = "done"
           \/ at = "writing" /\ Iov = <<>> /\ ~eof /\ at' = "stdout"
           \/ at \notin {"done", "aborted"} /\ at' = "aborted"
    BY DEF StdoutEvent, ReadAgain, ClientEvent, WriteBlock, WriteEnd, Abort, childVars
  <1>2. /\ SendOrder' /\ Framed' /\ Ascending' /\ Gapless' /\ Iov' = Iov
        /\ BodyOffset(Classes(hdr))' = BodyOffset(Classes(hdr))
    BY <1>1, QuietStep
  <1>3. CgiTypeOK'
    BY <1>1 DEF Inv, CgiTypeOK
  <1>4. ReadsOnlyWhenSent'
    BY <1>1, NothingLeft DEF Inv, ReadsOnlyWhenSent
  <1>5. Progress'
    BY <1>1, <1>2 DEF Inv, Progress
  <1>6. HeaderSoFar'
    BY <1>1, <1>2 DEF Inv, HeaderSoFar, Progress
  <1> QED
    BY <1>2, <1>3, <1>4, <1>5, <1>6 DEF Inv

\* The start.
LEMMA InitInv == Init => Inv
  <1> SUFFICES ASSUME Init PROVE Inv
    OBVIOUS
  <1>1. /\ script \in Scripts /\ written = 0 /\ rd = 0 /\ ended = FALSE /\ at = "stdout"
        /\ hdr = <<>> /\ hdone = FALSE /\ body = <<>> /\ eof = FALSE
        /\ DOMAIN sent = Parts /\ (\A p \in Parts : sent[p] = 0)
        /\ wire = <<>> /\ dropped = FALSE
    BY DEF Init
  <1>2. script \in Seq({"r", "n", "b"}) /\ Len(script) \in Nat
    BY <1>1, CgiAssumption, LenProperties
  <1>3. sent["H"] = 0 /\ sent["P"] = 0 /\ sent["B"] = 0 /\ sent["S"] = 0 /\ sent["F"] = 0
    BY <1>1 DEF Parts
  <1>4. CgiTypeOK
    <2>1. /\ <<>> \in Seq(1..Len(script)) /\ <<>> \in Seq(0..Len(script)) /\ Len(<<>>) = 0
          /\ 0 \in 0..Len(script) /\ 0 <= HdrCap /\ 0 <= BodyCap /\ 0 \in 0..0
      BY <1>2, CgiAssumption
    <2>2. \A p \in Parts \ {"B"} : sent[p] \in 0..2
      BY <1>1
    <2>3. hdr \in Seq(1..Len(script)) /\ Len(hdr) <= HdrCap
      BY <1>1, <2>1
    <2>4. body \in Seq(0..Len(script)) /\ Len(body) <= BodyCap /\ sent["B"] \in 0..Len(body)
      BY <1>1, <1>3, <2>1
    <2>5. written \in 0..Len(script) /\ rd \in 0..written
      BY <1>1, <2>1
    <2> QED
      BY <1>1, <2>2, <2>3, <2>4, <2>5 DEF CgiTypeOK
  <1>5. ReadsOnlyWhenSent /\ SendOrder /\ Progress
    BY <1>1, <1>3 DEF ReadsOnlyWhenSent, SendOrder, Progress
  <1>6. Framed
    BY <1>1, <1>3, FrameStep DEF Framed, FrameOf
  <1>7. HeaderSoFar
    <2>1. Positions(1, 0) = <<>>
      <3>1. <<>> \in Seq({}) /\ Len(<<>>) = 0
        OBVIOUS
      <3> QED
        BY <3>1, PositionsFrom1
    <2>2. BodyOffset(Classes(Positions(1, 0))) \in 0..0
      BY <1>2, OffsetRead
    <2> QED
      BY <1>1, <2>1, <2>2 DEF HeaderSoFar
  <1>8. Decoded(wire) = <<>>
    BY <1>1, DecodeStep
  <1>9. Ascending
    <2>1. <<>> \in Seq(Nat) /\ Len(<<>>) = 0 /\ 1..0 = {} /\ 1..(0 - 1) = {}
      OBVIOUS
    <2>2. Len(Decoded(wire)) = 0 /\ Len(body) = 0 /\ Decoded(wire) \in Seq(Nat)
      BY <1>1, <1>8, <2>1
    <2> QED
      BY <2>1, <2>2 DEF Ascending
  <1>10. Gapless
    BY <1>1 DEF Gapless
  <1> QED
    BY <1>4, <1>5, <1>6, <1>7, <1>9, <1>10 DEF Inv

\* A read starts a chunk at its beginning: the counters and the framing stand
\* between two chunks.
LEMMA FreshChunk ==
    ASSUME Inv, at = "reading", sent' = sent \/ sent' = NewChunk, wire' = wire,
           Len(body') \in Nat
    PROVE  /\ body = <<>> /\ Len(body) = 0 /\ ~eof
           /\ sent["B"] = 0 /\ sent'["B"] = 0 /\ sent'["H"] = sent["H"]
           /\ DOMAIN sent' = Parts /\ (\A p \in Parts \ {"B"} : sent'[p] \in 0..2)
           /\ SendOrder' /\ Framed'
  <1>1. body = <<>> /\ ~eof /\ Len(body) = 0
    BY DEF Inv, ReadsOnlyWhenSent, Progress
  <1>2. sent["P"] = 0 /\ sent["B"] = 0 /\ sent["S"] = 0 /\ ~(sent["F"] > 0)
    BY <1>1 DEF Inv, SendOrder
  <1>3. /\ sent["H"] \in 0..2 /\ sent["F"] \in 0..2
        /\ DOMAIN sent = Parts /\ \A p \in Parts \ {"B"} : sent[p] \in 0..2
    BY DEF Inv, CgiTypeOK, Parts
  <1>4. sent["F"] = 0
    BY <1>2, <1>3
  <1>5. /\ sent'["P"] = 0 /\ sent'["B"] = 0 /\ sent'["S"] = 0
        /\ sent'["H"] = sent["H"] /\ sent'["F"] = 0
        /\ DOMAIN sent' = Parts /\ \A p \in Parts \ {"B"} : sent'[p] \in 0..2
    BY <1>2, <1>3, <1>4 DEF NewChunk, Parts
  <1>6. SendOrder'
    BY <1>5 DEF SendOrder, ChunkSent
  <1>7. FrameOf(sent)' = FrameOf(sent)
    BY <1>1, <1>2, <1>3, <1>4, <1>5 DEF FrameOf
  <1>8. Framed'
    BY <1>7 DEF Inv, Framed
  <1> QED
    BY <1>1, <1>2, <1>5, <1>6, <1>8

\* A read before the end of the header has been seen.
LEMMA ReadHeaderInv ==
    ASSUME Inv, at = "reading", ~hdone, NEW n \in 1..BodyCap, rd + n <= written, rd' = rd + n,
           ReadHeader(Positions(rd + 1, rd + n)), UNCHANGED <<childVars, eof, wire>>
    PROVE  Inv'
  <1> DEFINE bytes == Positions(rd + 1, rd + n)
             q   == MinOf(Len(bytes), HdrCap - Len(hdr))
             new == hdr \o SubSeq(bytes, 1, q)
             off == BodyOffset(Classes(new))
             l   == rd + q
  <1>1. /\ script \in Seq({"r", "n", "b"}) /\ Len(script) \in Nat /\ rd \in Nat /\ written \in 0..Len(script)
        /\ HdrCap \in Nat /\ BodyCap \in Nat /\ HdrCap < BodyCap
        /\ script' = script /\ written' = written /\ ended' = ended /\ eof' = eof /\ wire' = wire
        /\ script \in Scripts /\ ended \in BOOLEAN /\ dropped \in BOOLEAN
    BY Types, CgiAssumption DEF Inv, CgiTypeOK, childVars
  <1>2. /\ hdr = Positions(1, rd) /\ ~dropped /\ wire = <<>> /\ ~eof /\ body = <<>>
        /\ Len(hdr) = rd /\ rd <= HdrCap
    BY <1>1, PositionsFrom1 DEF Inv, HeaderSoFar, Progress, CgiTypeOK
  <1>3. Len(bytes) = n
    <2> DEFINE m == rd + n
    <2>1. m \in Nat /\ rd <= m /\ m - rd = n
      BY <1>1
    <2> HIDE DEF m
    <2>2. Len(Positions(rd + 1, m)) = n
      BY <1>1, <2>1, PositionsAre
    <2> QED
      BY <2>2 DEF m
  <1>4. q \in 0..n /\ l <= HdrCap /\ l \in 0..Len(script) /\ l <= rd + n /\ (l < HdrCap => q = n)
        /\ (q # n => l < rd + n) /\ (l < rd + n \/ q = n) /\ l \in Nat
    BY <1>1, <1>2, <1>3, SMTT(40) DEF MinOf
  <1>5. new = Positions(1, l)
    <2> HIDE DEF q
    <2>1. rd \in Nat /\ n \in Nat /\ q \in 0..n
      BY <1>1, <1>4
    <2>2. Positions(1, rd) \o SubSeq(Positions(rd + 1, rd + n), 1, q) = Positions(1, rd + q)
      BY <2>1, ReadJoins
    <2> QED
      BY <1>2, <2>2
  <1>6. new \in Seq(1..l) /\ Len(new) = l
    <2> HIDE DEF l, new
    <2> QED
      BY <1>4, <1>5, PositionsFrom1
  <1>7. off \in 0..l /\ (off # 0 => BodyOffset(script) = off)
    <2> HIDE DEF l, new
    <2> QED
      BY <1>1, <1>4, <1>5, OffsetRead
  <1>8. /\ dropped' = (dropped \/ Len(new) < Len(hdr) + Len(bytes))
        /\ \/ /\ off # 0 /\ hdone' = TRUE /\ hdr' = <<>> /\ body' = SubSeq(new, off + 1, Len(new))
              /\ sent' = NewChunk /\ at' = "client"
           \/ at' = "aborted" /\ hdr' = new /\ UNCHANGED <<hdone, body, sent>>
           \/ /\ off = 0 /\ at' = "reading" /\ Len(new) < HdrCap /\ hdr' = new
              /\ UNCHANGED <<hdone, body, sent>>
    <2>1. /\ dropped' = (dropped \/ Len(new) < Len(hdr) + Len(bytes))
          /\ \/ /\ off # 0 /\ ~LineTooLong(Classes(SubSeq(new, 1, off)))
                /\ hdone' = TRUE /\ hdr' = <<>> /\ body' = SubSeq(new, off + 1, Len(new))
                /\ sent' = NewChunk /\ at' = "client"
             \/ /\ off # 0 /\ LineTooLong(Classes(SubSeq(new, 1, off)))
                /\ at' = "aborted" /\ hdr' = new /\ UNCHANGED <<hdone, body, sent>>
             \/ /\ off = 0 /\ at' = IF Len(new) >= HdrCap THEN "aborted" ELSE "reading"
                /\ hdr' = new /\ UNCHANGED <<hdone, body, sent>>
      BY DEF ReadHeader
    <2> HIDE DEF off, new, bytes, l
    <2> QED
      BY <1>1, <1>4, <1>6, <2>1
  <1>9. (dropped' <=> l < rd + n) /\ dropped' \in BOOLEAN
    BY <1>1, <1>2, <1>3, <1>6, <1>8
  <1> HIDE DEF bytes, q, new, off, l
  <1>10. Decoded(wire) = <<>> /\ Decoded(wire') = <<>> /\ Len(<<>>) = 0 /\ <<>> \in Seq(Nat)
    BY <1>1, <1>2, DecodeStep
  <1>11. CASE /\ off # 0 /\ hdone' = TRUE /\ hdr' = <<>> /\ body' = SubSeq(new, off + 1, Len(new))
              /\ sent' = NewChunk /\ at' = "client"
    <2>1. body' \in Seq(1..l) /\ Len(body') = l - off /\ \A k \in 1..(l - off) : body'[k] = off + k
      BY <1>4, <1>5, <1>6, <1>7, <1>11, TailPositions, ZenonT(60)
    <2>2. Len(body') \in Nat
      BY <1>4, <1>7, <2>1
    <2>3. /\ SendOrder' /\ Framed' /\ sent'["B"] = 0
          /\ DOMAIN sent' = Parts /\ \A p \in Parts \ {"B"} : sent'[p] \in 0..2
      BY <1>1, <1>11, <2>2, FreshChunk
    <2>4. CgiTypeOK'
      <3>1. body' \in Seq(0..Len(script)) /\ Len(body') <= BodyCap
        <4>1. 1..l \subseteq 0..Len(script)
          BY <1>1, <1>4
        <4>2. body' \in Seq(0..Len(script))
          BY <2>1, <4>1, SeqWiden
        <4>3. Len(body') <= BodyCap
          BY <1>1, <1>4, <1>7, <2>1
        <4> QED
          BY <4>2, <4>3
      <3>2. <<>> \in Seq(1..Len(script)) /\ Len(<<>>) <= HdrCap
        BY <1>1
      <3>3. rd' \in 0..written
        BY <1>1
      <3>4. sent'["B"] \in 0..Len(body')
        BY <2>2, <2>3
      <3>5. dropped' \in BOOLEAN /\ eof \in BOOLEAN
        BY <1>9 DEF Inv, CgiTypeOK
      <3> QED
        BY <1>1, <1>11, <2>3, <3>1, <3>2, <3>3, <3>4, <3>5 DEF CgiTypeOK
    <2>5. ReadsOnlyWhenSent' /\ HeaderSoFar'
      BY <1>11 DEF ReadsOnlyWhenSent, HeaderSoFar
    <2>6. Progress'
      BY <1>1, <1>2, <1>11 DEF Inv, Progress
    <2>7. Ascending'
      <3>1. /\ \A k \in 1..(l - off) : body'[k] <= rd'
            /\ \A k \in 1..(l - off - 1) : body'[k] < body'[k + 1]
        <4>1. ASSUME NEW k \in 1..(l - off) PROVE body'[k] <= rd'
          BY <1>1, <1>4, <1>7, <2>1
        <4>2. ASSUME NEW k \in 1..(l - off - 1) PROVE body'[k] < body'[k + 1]
          <5>1. k \in 1..(l - off) /\ k + 1 \in 1..(l - off)
            BY <1>4, <1>7
          <5>2. body'[k] = off + k /\ body'[k + 1] = off + (k + 1)
            BY <2>1, <5>1
          <5> QED
            BY <1>7, <5>2
        <4> QED
          BY <4>1, <4>2
      <3>2. 1..0 = {} /\ 1..(0 - 1) = {}
        OBVIOUS
      <3> QED
        BY <1>10, <2>1, <3>1, <3>2 DEF Ascending
    <2>8. Gapless'
      <3>1. SUFFICES ASSUME ~dropped' PROVE Gapless'
        BY DEF Gapless
      <3>2. l = rd' /\ rd' \in Nat
        BY <1>1, <1>4, <1>9, <3>1
      <3>3. Off' = off
        <4>1. script # <<>>
          BY <1>1, <1>4, <1>7, <1>11
        <4> QED
          BY <1>1, <1>7, <1>11, <4>1 DEF Off
      <3>4. /\ Off' + 0 - 0 = off
            /\ off + Len(body') = rd'
        BY <1>4, <1>7, <2>1, <3>2, <3>3
      <3>5. 1..0 = {}
        OBVIOUS
      <3>6. /\ \A i \in 1..Len(Decoded(wire')) : Decoded(wire')[i] = Off' + i
            /\ \A j \in 1..Len(body') : body'[j] = off + j
            /\ Off' + Len(Decoded(wire')) - sent'["B"] = off
        BY <1>10, <2>1, <2>3, <3>4, <3>5
      <3> QED
        BY <3>2, <3>4, <3>6 DEF Gapless
    <2> QED
      BY <2>3, <2>4, <2>5, <2>6, <2>7, <2>8 DEF Inv
  <1>12. CASE /\ \/ at' = "aborted" /\ hdr' = new
                 \/ off = 0 /\ at' = "reading" /\ Len(new) < HdrCap /\ hdr' = new
              /\ UNCHANGED <<hdone, body, sent>>
    <2>1. /\ SendOrder' /\ Framed' /\ sent'["B"] = 0
          /\ DOMAIN sent' = Parts /\ \A p \in Parts \ {"B"} : sent'[p] \in 0..2
      <3>1. Len(body') \in Nat
        BY <1>12, Types DEF Inv
      <3> QED
        BY <1>1, <1>12, <3>1, FreshChunk
    <2>2. CgiTypeOK'
      <3>1. hdr' \in Seq(1..Len(script)) /\ Len(hdr') <= HdrCap
        <4>1. 1..l \subseteq 1..Len(script)
          BY <1>1, <1>4
        <4>2. hdr' \in Seq(1..Len(script))
          BY <1>6, <1>12, <4>1, SeqWiden
        <4> QED
          BY <1>4, <1>6, <1>12, <4>2
      <3>2. rd' \in 0..written
        BY <1>1
      <3>3. dropped' \in BOOLEAN
        BY <1>9
      <3> QED
        BY <1>1, <1>12, <3>1, <3>2, <3>3 DEF Inv, CgiTypeOK
    <2>3. ReadsOnlyWhenSent'
      BY <1>2, <1>12 DEF ReadsOnlyWhenSent
    <2>4. Progress'
      BY <1>1, <1>2, <1>12 DEF Inv, Progress
    <2>5. HeaderSoFar'
      <3>1. SUFFICES ASSUME at' = "reading" PROVE HeaderSoFar'
        BY <1>12 DEF HeaderSoFar
      <3>2. off = 0 /\ Len(new) < HdrCap /\ hdr' = new
        BY <1>12, <3>1
      <3>3. l = rd'
        BY <1>4, <1>6, <3>2 DEF l
      <3>4. ~dropped'
        BY <1>1, <1>9, <3>3
      <3>5. BodyOffset(Classes(hdr))' = off
        BY <1>1, <3>2 DEF off, Classes
      <3> QED
        BY <1>5, <3>2, <3>3, <3>4, <3>5 DEF HeaderSoFar
    <2>6. Ascending'
      <3>1. 1..0 = {} /\ 1..(0 - 1) = {} /\ Len(body') = 0
        BY <1>2, <1>12
      <3> QED
        BY <1>10, <3>1 DEF Ascending
    <2>7. Gapless'
      BY <1>12 DEF Gapless
    <2> QED
      BY <2>1, <2>2, <2>3, <2>4, <2>5, <2>6, <2>7 DEF Inv
  <1> QED
    BY <1>8, <1>11, <1>12

\* A read of the body, and a read beyond the limit of the output.
LEMMA ReadBodyInv ==
    ASSUME Inv, at = "reading", NEW n \in 1..BodyCap, rd + n <= written, rd' = rd + n,
           \/ /\ at' = "aborted" /\ UNCHANGED <<hdr, hdone, body, sent, dropped>>
           \/ /\ hdone /\ body' = Positions(rd + 1, rd + n) /\ sent' = NewChunk /\ at' = "client"
              /\ UNCHANGED <<hdr, hdone, dropped>>,
           UNCHANGED <<childVars, eof, wire>>
    PROVE  Inv'
  <1> DEFINE d == Decoded(wire)
  <1>1. /\ Len(script) \in Nat /\ rd \in Nat /\ written \in 0..Len(script)
        /\ HdrCap \in Nat /\ BodyCap \in Nat /\ Len(body) \in Nat
        /\ script' = script /\ written' = written /\ ended' = ended /\ eof' = eof /\ wire' = wire
    BY Types, CgiAssumption DEF Inv, CgiTypeOK, childVars
  <1>2. body = <<>> /\ Len(body) = 0 /\ ~eof /\ sent["B"] = 0
    <2>1. body = <<>> /\ ~eof
      BY DEF Inv, ReadsOnlyWhenSent, Progress
    <2> QED
      BY <2>1 DEF Inv, SendOrder
  <1>3. /\ d \in Seq(Nat) /\ Len(d) \in Nat /\ \A i \in 1..Len(d) : d[i] \in Nat
        /\ \A i \in 1..Len(d) : d[i] <= rd
        /\ \A i \in 1..(Len(d) - 1) : d[i] < d[i + 1]
    BY ElementOfSeq, LenProperties DEF Inv, Ascending
  <1>4. Off' = Off /\ Off \in Int
    BY <1>1, OffInt DEF Off, Inv
  <1>5. hdone /\ ~dropped => (\A i \in 1..Len(d) : d[i] = Off + i) /\ Off + Len(d) = rd
    <2> SUFFICES ASSUME hdone /\ ~dropped
                 PROVE  (\A i \in 1..Len(d) : d[i] = Off + i) /\ Off + Len(d) = rd
      OBVIOUS
    <2>1. /\ \A i \in 1..Len(d) : d[i] = Off + i
          /\ (Off + Len(d) - sent["B"]) + Len(body) = rd
      BY DEF Inv, Gapless
    <2> HIDE DEF d
    <2> QED
      BY <1>2, <1>3, <1>4, <2>1
  <1> HIDE DEF d
  <1>6. rd' \in 0..written /\ rd' \in Nat
    BY <1>1
  <1>7. CASE at' = "aborted" /\ UNCHANGED <<hdr, hdone, body, sent, dropped>>
    <2>1. SendOrder' /\ Framed'
      BY <1>1, <1>7, FreshChunk
    <2>2. CgiTypeOK'
      BY <1>1, <1>6, <1>7 DEF Inv, CgiTypeOK
    <2>3. ReadsOnlyWhenSent' /\ HeaderSoFar'
      BY <1>7 DEF ReadsOnlyWhenSent, HeaderSoFar
    <2>4. Progress'
      BY <1>1, <1>2, <1>7 DEF Inv, Progress
    <2>5. Ascending'
      <3>1. \A i \in 1..Len(d) : d[i] <= rd'
        BY <1>1, <1>3
      <3>2. 1..0 = {} /\ 1..(0 - 1) = {} /\ Len(body') = 0
        BY <1>2, <1>7
      <3> QED
        BY <1>1, <1>2, <1>3, <1>7, <3>1, <3>2 DEF Ascending, d
    <2>6. Gapless'
      <3>1. SUFFICES ASSUME hdone, ~dropped PROVE Gapless'
        BY <1>7 DEF Gapless
      <3>2. Off' + Len(d) - sent'["B"] + Len(body') <= rd' /\ Len(body') = 0
        BY <1>1, <1>2, <1>3, <1>4, <1>5, <1>7, <3>1
      <3>3. 1..0 = {} /\ \A i \in 1..Len(d) : d[i] = Off' + i
        BY <1>4, <1>5, <3>1
      <3> QED
        BY <1>1, <1>7, <3>2, <3>3 DEF Gapless, d
    <2> QED
      BY <2>1, <2>2, <2>3, <2>4, <2>5, <2>6 DEF Inv
  <1>8. CASE /\ hdone /\ body' = Positions(rd + 1, rd + n) /\ sent' = NewChunk /\ at' = "client"
             /\ UNCHANGED <<hdr, hdone, dropped>>
    <2>1. /\ body' \in Seq((rd + 1)..(rd + n)) /\ Len(body') = n
          /\ \A k \in 1..n : body'[k] = rd + k
      <3> DEFINE m == rd + n
      <3>1. m \in Nat /\ rd <= m /\ m - rd = n
        BY <1>1
      <3> HIDE DEF m
      <3>2. /\ Positions(rd + 1, m) \in Seq((rd + 1)..m) /\ Len(Positions(rd + 1, m)) = n
            /\ \A k \in 1..n : Positions(rd + 1, m)[k] = rd + k
        BY <1>1, <3>1, PositionsAre
      <3> QED
        BY <1>8, <3>2 DEF m
    <2>2. /\ SendOrder' /\ Framed' /\ sent'["B"] = 0
          /\ DOMAIN sent' = Parts /\ \A p \in Parts \ {"B"} : sent'[p] \in 0..2
      BY <1>1, <1>8, <2>1, FreshChunk
    <2>3. CgiTypeOK'
      <3>1. body' \in Seq(0..Len(script)) /\ Len(body') <= BodyCap
        <4>1. (rd + 1)..(rd + n) \subseteq 0..Len(script)
          BY <1>1
        <4> QED
          BY <1>1, <2>1, <4>1, SeqWiden
      <3>2. sent'["B"] \in 0..Len(body')
        BY <2>1, <2>2
      <3> QED
        BY <1>1, <1>6, <1>8, <2>2, <3>1, <3>2 DEF Inv, CgiTypeOK
    <2>4. ReadsOnlyWhenSent' /\ HeaderSoFar'
      BY <1>8 DEF ReadsOnlyWhenSent, HeaderSoFar
    <2>5. Progress'
      BY <1>1, <1>2, <1>8 DEF Inv, Progress
    <2>6. Ascending'
      <3>1. \A i \in 1..Len(d) : d[i] <= rd'
        BY <1>1, <1>3
      <3>2. \A k \in 1..n : body'[k] <= rd'
        BY <1>1, <2>1
      <3>3. \A k \in 1..(n - 1) : body'[k] < body'[k + 1]
        <4> SUFFICES ASSUME NEW k \in 1..(n - 1) PROVE body'[k] < body'[k + 1]
          OBVIOUS
        <4>1. body'[k] = rd + k /\ body'[k + 1] = rd + (k + 1)
          BY <2>1
        <4> QED
          BY <1>1, <4>1
      <3>4. \A i \in 1..Len(d) : \A k \in 1..n : d[i] < body'[k]
        BY <1>1, <1>3, <2>1, SMTT(40)
      <3>5. 0 + 1 = 1
        OBVIOUS
      <3> QED
        BY <1>1, <1>3, <2>1, <2>2, <3>1, <3>2, <3>3, <3>4, <3>5, SMTT(30) DEF Ascending, d
    <2>7. Gapless'
      <3>1. SUFFICES ASSUME ~dropped PROVE Gapless'
        BY <1>8 DEF Gapless
      <3>2. /\ Off' + Len(d) - sent'["B"] = rd /\ rd + Len(body') = rd'
            /\ \A i \in 1..Len(d) : d[i] = Off' + i
        <4>1. Off + Len(d) = rd /\ \A i \in 1..Len(d) : d[i] = Off + i
          BY <1>5, <1>8, <3>1
        <4>2. rd + Len(body') = rd'
          BY <1>1, <2>1
        <4>3. Off + Len(d) - 0 = rd
          BY <1>3, <1>4, <4>1
        <4> QED
          BY <1>4, <2>2, <4>1, <4>2, <4>3
      <3>3. \A j \in 1..Len(body') : body'[j] = rd + j
        BY <2>1
      <3>4. rd + Len(body') <= rd'
        BY <1>6, <3>2
      <3> QED
        BY <1>1, <3>2, <3>3, <3>4 DEF Gapless, d
    <2> QED
      BY <2>2, <2>3, <2>4, <2>5, <2>6, <2>7 DEF Inv
  <1> QED
    BY <1>7, <1>8

\* A read of the pipe.
LEMMA ReadDataInv ==
    ASSUME Inv, ReadData
    PROVE  Inv'
  <1> DEFINE n == MinOf(written - rd, BodyCap)
  <1>1. /\ at = "reading" /\ rd < written /\ rd' = rd + n
        /\ \/ at' = "aborted" /\ UNCHANGED <<hdr, hdone, body, sent, dropped>>
           \/ ~hdone /\ ReadHeader(Positions(rd + 1, rd + n))
           \/ /\ hdone /\ body' = Positions(rd + 1, rd + n) /\ sent' = NewChunk /\ at' = "client"
              /\ UNCHANGED <<hdr, hdone, dropped>>
        /\ UNCHANGED <<childVars, eof, wire>>
    BY DEF ReadData
  <1>2. n \in 1..BodyCap /\ rd + n <= written
    <2>1. rd \in Nat /\ written \in Nat /\ BodyCap \in Nat /\ BodyCap > 0
      BY Types, CgiAssumption DEF Inv
    <2> QED
      BY <1>1, <2>1 DEF MinOf
  <1> HIDE DEF n
  <1> QED
    BY <1>1, <1>2, ReadHeaderInv, ReadBodyInv

\* End of file.
LEMMA ReadEofInv ==
    ASSUME Inv, ReadEof
    PROVE  Inv'
  <1> DEFINE d == Decoded(wire)
  <1>1. /\ at = "reading" /\ rd = written /\ ended /\ eof' = TRUE /\ at' = "client"
        /\ \/ hdone /\ UNCHANGED <<hdr, hdone, body, sent>>
           \/ /\ ~hdone /\ body' = (IF hdr # <<>> THEN hdr ELSE <<Msg>>) /\ sent' = NewChunk
              /\ hdone' = TRUE /\ hdr' = <<>>
        /\ UNCHANGED <<script, written, ended, rd, wire, dropped>>
    BY DEF ReadEof, childVars
  <1>2. /\ script \in Seq({"r", "n", "b"}) /\ Len(script) \in Nat /\ rd \in Nat
        /\ HdrCap \in Nat /\ BodyCap \in Nat /\ 2 <= HdrCap /\ HdrCap < BodyCap
        /\ Len(body) \in Nat /\ Len(hdr) \in Nat /\ rd = Len(script)
    BY <1>1, Types, CgiAssumption DEF Inv, Progress
  <1>3. Off' = Off
    BY <1>1 DEF Off
  <1>4. CASE hdone /\ UNCHANGED <<hdr, hdone, body, sent>>
    <2>1. SendOrder' /\ Framed'
      BY <1>1, <1>2, <1>4, FreshChunk
    <2>2. CgiTypeOK'
      BY <1>1, <1>4 DEF Inv, CgiTypeOK
    <2>3. ReadsOnlyWhenSent' /\ HeaderSoFar'
      BY <1>1 DEF ReadsOnlyWhenSent, HeaderSoFar
    <2>4. Progress'
      BY <1>1, <1>2, <1>4 DEF Inv, Progress
    <2>5. Ascending'
      BY <1>1, <1>4 DEF Inv, Ascending
    <2>6. Gapless'
      BY <1>1, <1>3, <1>4 DEF Inv, Gapless
    <2> QED
      BY <2>1, <2>2, <2>3, <2>4, <2>5, <2>6 DEF Inv
  <1>5. CASE /\ ~hdone /\ body' = (IF hdr # <<>> THEN hdr ELSE <<Msg>>) /\ sent' = NewChunk
             /\ hdone' = TRUE /\ hdr' = <<>>
    <2>1. /\ hdr = Positions(1, rd) /\ wire = <<>> /\ BodyOffset(script) = 0
      <3>1. hdr = Positions(1, rd) /\ BodyOffset(Classes(hdr)) = 0 /\ wire = <<>>
        BY <1>1, <1>5 DEF Inv, HeaderSoFar, Progress
      <3>2. BodyOffset(script) = BodyOffset(Classes(Positions(1, rd)))
        BY <1>2, OffsetRead
      <3> QED
        BY <3>1, <3>2
    <2>2. Len(hdr) = rd /\ \A k \in 1..rd : hdr[k] = k
      BY <1>2, <2>1, PositionsFrom1
    <2>3. /\ body' \in Seq(0..Len(script)) /\ Len(body') \in Nat /\ Len(body') <= BodyCap
          /\ Off + Len(body') = rd /\ Off \in Int
          /\ \A j \in 1..Len(body') : body'[j] = Off + j
      <3>1. CASE hdr # <<>>
        <4>1. body' = hdr /\ Off = 0
          <5>1. script # <<>>
            BY <1>2, <2>2, <3>1, EmptySeq DEF Inv, CgiTypeOK
          <5> QED
            BY <1>5, <2>1, <3>1, <5>1 DEF Off
        <4>2. hdr \in Seq(0..Len(script)) /\ Len(hdr) <= HdrCap
          <5>1. hdr \in Seq(1..Len(script)) /\ Len(hdr) <= HdrCap
            BY DEF Inv, CgiTypeOK
          <5>2. 1..Len(script) \subseteq 0..Len(script)
            BY <1>2
          <5> QED
            BY <5>1, <5>2, SeqWiden
        <4>3. \A j \in 1..Len(hdr) : hdr[j] = 0 + j
          BY <1>2, <2>2
        <4> QED
          BY <1>2, <2>2, <4>1, <4>2, <4>3
      <3>2. CASE hdr = <<>>
        <4>1. rd = 0 /\ script = <<>>
          <5>1. rd = 0
            BY <2>2, <3>2
          <5> QED
            BY <1>2, <5>1, EmptySeq
        <4>2. body' = <<0>> /\ Off = 0 - 1
          BY <1>5, <3>2, <4>1 DEF Off, Msg
        <4>3. <<0>> \in Seq(0..0) /\ Len(<<0>>) = 1 /\ \A j \in 1..1 : <<0>>[j] = (0 - 1) + j
          OBVIOUS
        <4>4. Len(script) = 0
          BY <1>2, <4>1
        <4> QED
          BY <1>2, <4>1, <4>2, <4>3, <4>4
      <3> QED
        BY <3>1, <3>2
    <2>4. /\ SendOrder' /\ Framed' /\ sent'["B"] = 0
          /\ DOMAIN sent' = Parts /\ \A p \in Parts \ {"B"} : sent'[p] \in 0..2
      BY <1>1, <1>5, <2>3, FreshChunk
    <2>5. CgiTypeOK'
      <3>1. <<>> \in Seq(1..Len(script)) /\ Len(<<>>) <= HdrCap
        BY <1>2
      <3>2. sent'["B"] \in 0..Len(body')
        BY <2>3, <2>4
      <3> QED
        BY <1>1, <1>5, <2>3, <2>4, <3>1, <3>2 DEF Inv, CgiTypeOK
    <2>6. ReadsOnlyWhenSent' /\ HeaderSoFar'
      BY <1>1 DEF ReadsOnlyWhenSent, HeaderSoFar
    <2>7. Progress'
      BY <1>1, <1>2, <1>5 DEF Inv, Progress
    <2>8. Decoded(wire') = <<>> /\ Len(<<>>) = 0 /\ <<>> \in Seq(Nat)
      BY <1>1, <2>1, DecodeStep
    <2>9. Ascending'
      <3>1. \A j \in 1..Len(body') : body'[j] <= rd'
        BY <1>1, <1>2, <2>3
      <3>2. \A j \in 1..(Len(body') - 1) : body'[j] < body'[j + 1]
        <4> SUFFICES ASSUME NEW j \in 1..(Len(body') - 1) PROVE body'[j] < body'[j + 1]
          OBVIOUS
        <4>1. j \in 1..Len(body') /\ j + 1 \in 1..Len(body')
          BY <2>3
        <4>2. body'[j] = Off + j /\ body'[j + 1] = Off + (j + 1)
          BY <2>3, <4>1
        <4> QED
          BY <2>3, <4>2
      <3>3. 1..0 = {} /\ 1..(0 - 1) = {}
        OBVIOUS
      <3> QED
        BY <2>8, <3>1, <3>2, <3>3 DEF Ascending
    <2>10. Gapless'
      <3>1. Off' + Len(Decoded(wire')) - sent'["B"] = Off
        BY <1>3, <2>3, <2>4, <2>8
      <3>2. 1..0 = {} /\ Off + Len(body') = rd' /\ Off + Len(body') <= rd'
        BY <1>1, <1>2, <2>3
      <3> QED
        BY <2>3, <2>8, <3>1, <3>2 DEF Gapless
    <2> QED
      BY <2>4, <2>5, <2>6, <2>7, <2>9, <2>10 DEF Inv
  <1> QED
    BY <1>1, <1>4, <1>5

\* The counters after a writev are in order.
LEMMA CountersInOrder ==
    ASSUME CgiTypeOK, SendOrder, body # <<>> \/ eof, NEW n \in 1..Len(Iov)
    PROVE  LET c == Consume(n)
           IN  /\ DOMAIN c = Parts
               /\ c["H"] \in 0..2 /\ c["P"] \in 0..2 /\ c["S"] \in 0..2 /\ c["F"] \in 0..2
               /\ c["B"] \in 0..Len(body)
               /\ c["P"] > 0 => c["H"] = 2
               /\ c["B"] > 0 => c["P"] = 2
               /\ c["S"] > 0 => c["B"] = Len(body) /\ c["H"] = 2
               /\ c["F"] > 0 => c["H"] = 2 /\ body = <<>> /\ eof
               /\ body = <<>> => c["P"] = 0 /\ c["B"] = 0 /\ c["S"] = 0
  <1> DEFINE c == Consume(n)
             j == n - 1
  <1>1. Len(body) \in Nat /\ (body # <<>> => Len(body) > 0) /\ Len(Iov) \in Nat
    <2>1. Iov \in Seq(Units)
      BY IovChunk, IovFinal
    <2> QED
      BY <2>1, PartUnits, LenProperties
  <1>2. j \in 0..(Len(Iov) - 1) /\ j + 1 = n
    BY <1>1
  <1>3. DOMAIN c = Parts
    <2>1. n \in Nat
      BY <1>1
    <2> QED
      BY <2>1, ConsumeParts DEF Counted
  <1> HIDE DEF j
  <1>4. CASE body # <<>>
    <2>1. LET e == Consume(j + 1)
          IN  /\ e["F"] = 0
              /\ \/ e["H"] \in 0..2 /\ e["P"] = 0 /\ e["B"] = 0 /\ e["S"] = 0
                 \/ e["H"] = 2 /\ e["P"] \in 0..2 /\ e["B"] = 0 /\ e["S"] = 0
                 \/ e["H"] = 2 /\ e["P"] = 2 /\ e["B"] \in 0..Len(body) /\ e["S"] = 0
                 \/ e["H"] = 2 /\ e["P"] = 2 /\ e["B"] = Len(body) /\ e["S"] \in 0..2
      <3> DEFINE a == Consume(j)
                 e == Consume(j + 1)
      <3>1. /\ e["F"] = 0
            /\ \/ a["H"] \in 0..1 /\ e["H"] = a["H"] + 1 /\ e["P"] = 0 /\ e["B"] = 0 /\ e["S"] = 0
               \/ a["P"] \in 0..1 /\ e["H"] = 2 /\ e["P"] = a["P"] + 1 /\ e["B"] = 0 /\ e["S"] = 0
               \/ /\ a["B"] \in 0..(Len(body) - 1)
                  /\ e["H"] = 2 /\ e["P"] = 2 /\ e["B"] = a["B"] + 1 /\ e["S"] = 0
               \/ /\ a["S"] \in 0..1
                  /\ e["H"] = 2 /\ e["P"] = 2 /\ e["B"] = Len(body) /\ e["S"] = a["S"] + 1
        BY <1>2, <1>4, ChunkUnit
      <3> HIDE DEF a, e
      <3>2. /\ e["F"] = 0
            /\ \/ e["H"] \in 0..2 /\ e["P"] = 0 /\ e["B"] = 0 /\ e["S"] = 0
               \/ e["H"] = 2 /\ e["P"] \in 0..2 /\ e["B"] = 0 /\ e["S"] = 0
               \/ e["H"] = 2 /\ e["P"] = 2 /\ e["B"] \in 0..Len(body) /\ e["S"] = 0
               \/ e["H"] = 2 /\ e["P"] = 2 /\ e["B"] = Len(body) /\ e["S"] \in 0..2
        BY <1>1, <3>1
      <3> QED
        BY <3>2 DEF e
    <2>2. Consume(j + 1) = c
      BY <1>2
    <2> HIDE DEF c
    <2>3. /\ c["F"] = 0
          /\ \/ c["H"] \in 0..2 /\ c["P"] = 0 /\ c["B"] = 0 /\ c["S"] = 0
             \/ c["H"] = 2 /\ c["P"] \in 0..2 /\ c["B"] = 0 /\ c["S"] = 0
             \/ c["H"] = 2 /\ c["P"] = 2 /\ c["B"] \in 0..Len(body) /\ c["S"] = 0
             \/ c["H"] = 2 /\ c["P"] = 2 /\ c["B"] = Len(body) /\ c["S"] \in 0..2
      BY <2>1, <2>2
    <2>4. /\ c["H"] \in 0..2 /\ c["P"] \in 0..2 /\ c["S"] \in 0..2 /\ c["F"] \in 0..2
          /\ c["B"] \in 0..Len(body)
          /\ c["P"] > 0 => c["H"] = 2
          /\ c["B"] > 0 => c["P"] = 2
          /\ c["S"] > 0 => c["B"] = Len(body) /\ c["H"] = 2
          /\ ~(c["F"] > 0)
      BY <1>1, <2>3
    <2> QED
      BY <1>3, <1>4, <2>4 DEF c
  <1>5. CASE body = <<>>
    <2>1. LET e == Consume(j + 1)
          IN  /\ e["P"] = 0 /\ e["B"] = 0 /\ e["S"] = 0
              /\ \/ e["H"] \in 0..2 /\ e["F"] = 0
                 \/ e["H"] = 2 /\ e["F"] \in 0..2
      <3> DEFINE a == Consume(j)
                 e == Consume(j + 1)
      <3>1. /\ e["P"] = 0 /\ e["B"] = 0 /\ e["S"] = 0
            /\ \/ a["H"] \in 0..1 /\ e["H"] = a["H"] + 1 /\ e["F"] = 0
               \/ a["F"] \in 0..1 /\ e["H"] = 2 /\ e["F"] = a["F"] + 1
        BY <1>2, <1>5, FinalUnit
      <3> HIDE DEF a, e
      <3>2. /\ e["P"] = 0 /\ e["B"] = 0 /\ e["S"] = 0
            /\ \/ e["H"] \in 0..2 /\ e["F"] = 0
               \/ e["H"] = 2 /\ e["F"] \in 0..2
        BY <3>1
      <3> QED
        BY <3>2 DEF e
    <2>2. Consume(j + 1) = c
      BY <1>2
    <2> HIDE DEF c
    <2>3. /\ c["P"] = 0 /\ c["B"] = 0 /\ c["S"] = 0
          /\ \/ c["H"] \in 0..2 /\ c["F"] = 0
             \/ c["H"] = 2 /\ c["F"] \in 0..2
      BY <2>1, <2>2
    <2>4. /\ c["H"] \in 0..2 /\ c["P"] \in 0..2 /\ c["S"] \in 0..2 /\ c["F"] \in 0..2
          /\ c["B"] \in 0..Len(body) /\ (c["F"] > 0 => c["H"] = 2)
      BY <1>1, <2>3
    <2> QED
      BY <1>3, <1>5, <2>3, <2>4 DEF c
  <1> QED
    BY <1>4, <1>5

\* A write, to the end of the chunk or not.
LEMMA WritevInv ==
    ASSUME Inv, NEW n \in 1..Len(Iov), Writev(n)
    PROVE  Inv'
  <1> DEFINE c == Consume(n)
             d == Decoded(wire)
             D == Decoded(wire')
             s == sent["B"]
             t == c["B"]
  <1>1. /\ at = "writing" /\ wire' = wire \o SubSeq(Iov, 1, n)
        /\ UNCHANGED <<script, written, ended, rd, at, hdr, hdone, eof, dropped>>
        /\ \/ /\ body # <<>> /\ ChunkSent(c) /\ body' = <<>>
              /\ sent' = [c EXCEPT !["P"] = 0, !["B"] = 0, !["S"] = 0]
           \/ /\ ~(body # <<>> /\ ChunkSent(c)) /\ sent' = c /\ body' = body
    BY DEF Writev, childVars
  <1>2. CgiTypeOK /\ SendOrder /\ Framed /\ hdone /\ Decoded(wire) \in Seq(Nat)
    BY <1>1 DEF Inv, Progress, Ascending
  <1>3. body # <<>> \/ eof
    <2>1. CASE body = <<>> /\ ~eof
      <3>1. Iov = <<>>
        BY <2>1 DEF Iov
      <3>2. Len(<<>>) = 0
        OBVIOUS
      <3> QED
        BY <3>1, <3>2
    <2> QED
      BY <2>1
  <1>4. /\ Len(body) \in Nat /\ (body # <<>> => Len(body) > 0) /\ rd \in Nat /\ body \in Seq(Nat)
        /\ s \in Nat /\ s \in 0..Len(body) /\ d \in Seq(Nat) /\ Len(d) \in Nat
    BY <1>2, Types, PartUnits, LenProperties
  <1>5. /\ DOMAIN c = Parts
        /\ c["H"] \in 0..2 /\ c["P"] \in 0..2 /\ c["S"] \in 0..2 /\ c["F"] \in 0..2
        /\ c["B"] \in 0..Len(body)
        /\ c["P"] > 0 => c["H"] = 2
        /\ c["B"] > 0 => c["P"] = 2
        /\ c["S"] > 0 => c["B"] = Len(body) /\ c["H"] = 2
        /\ c["F"] > 0 => c["H"] = 2 /\ body = <<>> /\ eof
        /\ body = <<>> => c["P"] = 0 /\ c["B"] = 0 /\ c["S"] = 0
    BY <1>2, <1>3, CountersInOrder
  <1>6. wire' \in Seq(Units) /\ Frame(wire') = FrameOf(c) /\ Grown(D, d, body, s, t)
    <2>1. Len(Iov) \in Nat
      <3>1. Iov \in Seq(Units)
        BY <1>2, <1>3, IovChunk, IovFinal
      <3> QED
        BY <3>1, LenProperties
    <2>2. n \in 0..Len(Iov)
      BY <2>1
    <2>3. WriteOf(n)
      BY <1>2, <1>3, <2>2, WriteUnits
    <2> QED
      BY <1>1, <2>3 DEF WriteOf
  <1>7. t \in Nat /\ t <= Len(body)
    BY <1>4, <1>5
  <1>8. Off' = Off /\ Off \in Int
    BY <1>1, <1>2, OffInt DEF Off
  <1>9. /\ \A i \in 1..Len(d) : d[i] <= rd
        /\ \A i \in 1..(Len(d) - 1) : d[i] < d[i + 1]
        /\ \A j \in 1..Len(body) : body[j] <= rd
        /\ \A j \in 1..(Len(body) - 1) : body[j] < body[j + 1]
        /\ \A i \in 1..Len(d) : \A j \in (s + 1)..Len(body) : d[i] < body[j]
    BY DEF Inv, Ascending
  <1> HIDE DEF d, D, s, t, c
  <1>10. /\ \A i \in 1..Len(D) : D[i] <= rd
         /\ \A i \in 1..(Len(D) - 1) : D[i] < D[i + 1]
    BY <1>4, <1>6, <1>7, <1>9, GrownAscending
  <1>11. ~dropped =>
            /\ \A i \in 1..Len(d) : d[i] = Off + i
            /\ \A j \in 1..Len(body) : body[j] = (Off + Len(d) - s) + j
            /\ (Off + Len(d) - s) + Len(body) <= rd
            /\ (Off + Len(d) - s) + Len(body) = rd
    BY <1>1, <1>2 DEF Inv, Gapless, d, s
  <1>12. ~dropped => (\A i \in 1..Len(D) : D[i] = Off + i) /\ Off + Len(D) - t = Off + Len(d) - s
    <2> SUFFICES ASSUME ~dropped
                 PROVE  (\A i \in 1..Len(D) : D[i] = Off + i) /\ Off + Len(D) - t = Off + Len(d) - s
      OBVIOUS
    <2>1. Follows(d, body, s, Off)
      BY <1>11 DEF Follows
    <2> QED
      BY <1>4, <1>6, <1>7, <1>8, <2>1, GrownGapless, SMTT(40)
  <1>13. D \in Seq(Nat) /\ Len(D) \in Nat
    BY <1>6, LenProperties DEF Grown
  <1>14. ReadsOnlyWhenSent' /\ HeaderSoFar'
    BY <1>1 DEF ReadsOnlyWhenSent, HeaderSoFar
  <1>15. Progress'
    BY <1>1, <1>2 DEF Inv, Progress
  <1>16. CASE /\ body # <<>> /\ ChunkSent(c) /\ body' = <<>>
              /\ sent' = [c EXCEPT !["P"] = 0, !["B"] = 0, !["S"] = 0]
    <2>1. /\ c["P"] = 2 /\ t = Len(body) /\ c["S"] = 2 /\ c["H"] = 2 /\ c["F"] = 0
      <3>1. c["P"] = 2 /\ t = Len(body) /\ c["S"] = 2
        BY <1>16 DEF ChunkSent, t
      <3>2. ~(c["F"] > 0)
        BY <1>5, <1>16
      <3> QED
        BY <1>5, <3>1, <3>2
    <2>2. /\ sent'["H"] = 2 /\ sent'["P"] = 0 /\ sent'["B"] = 0 /\ sent'["S"] = 0 /\ sent'["F"] = 0
          /\ DOMAIN sent' = Parts /\ Len(body') = 0
      BY <1>5, <1>16, <2>1 DEF Parts
    <2>3. CgiTypeOK'
      <3>1. \A p \in Parts \ {"B"} : sent'[p] \in 0..2
        BY <2>2 DEF Parts
      <3>2. body' \in Seq(0..Len(script)) /\ Len(body') <= BodyCap /\ sent'["B"] \in 0..Len(body')
        <4>1. <<>> \in Seq(0..Len(script)) /\ 0 <= BodyCap /\ 0 \in 0..0
          BY CgiAssumption
        <4> QED
          BY <1>16, <2>2, <4>1
      <3> QED
        BY <1>1, <1>2, <2>2, <3>1, <3>2 DEF CgiTypeOK
    <2>4. SendOrder'
      BY <1>16, <2>2 DEF SendOrder
    <2>5. Framed'
      <3>1. FrameOf(c) = <<"between", 0>>
        BY <1>16, <2>1 DEF FrameOf
      <3>2. FrameOf(sent)' = <<"between", 0>>
        BY <1>16, <2>2 DEF FrameOf
      <3> QED
        BY <1>6, <3>1, <3>2 DEF Framed
    <2>6. Ascending'
      <3>1. 1..0 = {} /\ 1..(0 - 1) = {} /\ (0 + 1)..0 = {}
        OBVIOUS
      <3> QED
        BY <1>1, <1>10, <1>13, <2>2, <3>1 DEF Ascending, D
    <2>7. Gapless'
      <3>1. SUFFICES ASSUME ~dropped PROVE Gapless'
        BY <1>1 DEF Gapless
      <3>2. (Off + Len(D) - 0) + 0 = rd
        <4>1. Off + Len(D) - t = Off + Len(d) - s /\ (Off + Len(d) - s) + Len(body) = rd
          BY <1>11, <1>12, <3>1
        <4>2. (Off + Len(D) - t) + t = rd
          BY <2>1, <4>1
        <4>3. ASSUME NEW o \in Int, NEW x \in Int, NEW y \in Int, (o + x - y) + y = rd
              PROVE  (o + x - 0) + 0 = rd
          BY <4>3
        <4>4. Off \in Int /\ Len(D) \in Int /\ t \in Int
          BY <1>7, <1>8, <1>13
        <4> QED
          BY <4>2, <4>3, <4>4
      <3>3. (Off + Len(D) - 0) + 0 <= rd /\ 1..0 = {}
        BY <1>4, <3>2
      <3> QED
        BY <1>1, <1>8, <1>12, <2>2, <3>1, <3>2, <3>3 DEF Gapless, D
    <2> QED
      BY <1>14, <1>15, <2>3, <2>4, <2>5, <2>6, <2>7 DEF Inv
  <1>17. CASE ~(body # <<>> /\ ChunkSent(c)) /\ sent' = c /\ body' = body
    <2>1. CgiTypeOK'
      <3>1. DOMAIN sent' = Parts /\ \A p \in Parts \ {"B"} : sent'[p] \in 0..2
        BY <1>5, <1>17 DEF Parts
      <3>2. sent'["B"] \in 0..Len(body')
        BY <1>5, <1>17
      <3> QED
        BY <1>1, <1>2, <1>17, <3>1, <3>2 DEF CgiTypeOK
    <2>2. SendOrder'
      BY <1>1, <1>5, <1>17 DEF SendOrder, ChunkSent
    <2>3. Framed'
      <3>1. FrameOf(sent)' = FrameOf(c)
        BY <1>17 DEF FrameOf
      <3> QED
        BY <1>6, <3>1 DEF Framed
    <2>4. Ascending'
      <3>1. \A i \in 1..Len(D) : \A j \in (t + 1)..Len(body) : D[i] < body[j]
        BY <1>4, <1>6, <1>7, <1>9, GrownBelow
      <3> QED
        BY <1>1, <1>9, <1>10, <1>13, <1>17, <3>1 DEF Ascending, D, t
    <2>5. Gapless'
      BY <1>1, <1>8, <1>11, <1>12, <1>17 DEF Gapless, D, t
    <2> QED
      BY <1>14, <1>15, <2>1, <2>2, <2>3, <2>4, <2>5 DEF Inv
  <1> QED
    BY <1>1, <1>16, <1>17

-----------------------------------------------------------------------------
(* The theorems.                                                           *)

\* Every step preserves the invariant.
LEMMA NextInv == Inv /\ [Next]_vars => Inv'
  <1> SUFFICES ASSUME Inv, [Next]_vars PROVE Inv'
    OBVIOUS
  <1>1. ASSUME NEW k \in 1..Len(script), ChildWrite(k) PROVE Inv'
    BY <1>1, ChildWriteInv
  <1>2. CASE ChildClose
    BY <1>2, ChildCloseInv
  <1>3. CASE StdoutEvent \/ ReadAgain \/ ClientEvent \/ WriteBlock \/ WriteEnd \/ Abort
    BY <1>3, ArmInv
  <1>4. CASE ReadData
    BY <1>4, ReadDataInv
  <1>5. CASE ReadEof
    BY <1>5, ReadEofInv
  <1>6. ASSUME NEW n \in 1..Len(Iov), Writev(n) PROVE Inv'
    BY <1>6, WritevInv
  <1>7. CASE UNCHANGED vars
    <2>1. UNCHANGED <<script, written, ended, rd, at, hdr, hdone, body, eof, sent, wire, dropped>>
      BY <1>7 DEF vars, childVars
    <2>2. Iov' = Iov /\ Off' = Off /\ FrameOf(sent)' = FrameOf(sent)
      BY <2>1 DEF Iov, Unsent, HeaderUnits, PrefixUnits, BodyUnits, SuffixUnits, FinalUnits, Off, FrameOf
    <2>3. CgiTypeOK' /\ ReadsOnlyWhenSent'
      BY <2>1 DEF Inv, CgiTypeOK, ReadsOnlyWhenSent
    <2>4. SendOrder' /\ Progress'
      BY <2>1, <2>2 DEF Inv, SendOrder, ChunkSent, Progress
    <2>5. Framed' /\ HeaderSoFar'
      BY <2>1, <2>2 DEF Inv, Framed, HeaderSoFar, Classes
    <2>6. Ascending' /\ Gapless'
      BY <2>1, <2>2 DEF Inv, Ascending, Gapless
    <2> QED
      BY <2>3, <2>4, <2>5, <2>6 DEF Inv
  <1> QED
    BY <1>1, <1>2, <1>3, <1>4, <1>5, <1>6, <1>7 DEF Next, Child, Reader, Writer, Send

\* The counters, the buffers and the wire agree in every reachable state.
THEOREM InvHolds == Spec => []Inv
  BY InitInv, NextInv, PTL DEF Spec

\* The copies into cgi_hdr_buf and cgi_body_buf and the offsets of the partial
\* writes stay within the buffers, whatever their sizes and the child's output
\* (cgi.c:309-315, 364-370).
THEOREM TypeCorrect == Spec => []CgiTypeOK
  <1>1. Inv => CgiTypeOK
    BY DEF Inv
  <1> QED
    BY <1>1, InvHolds, PTL

\* The pipe is read only when the chunk before has been sent to its last byte
\* (cgi.c:291-298, 639-645).
THEOREM BackPressured == Spec => []ReadsOnlyWhenSent
  <1>1. Inv => ReadsOnlyWhenSent
    BY DEF Inv
  <1> QED
    BY <1>1, InvHolds, PTL

\* The client sees one header, chunks of the announced length and, in a response
\* that is closed as finished, the final chunk (cgi.c:518-637).
THEOREM FramedWell == Spec => []WellFramed
  <1>1. Inv => WellFramed
    <2> SUFFICES ASSUME Inv PROVE WellFramed
      OBVIOUS
    <2>1. Frame(wire) = FrameOf(sent)
      BY DEF Inv, Framed
    <2>2. FrameOf(sent)[1] # "x"
      BY DEF FrameOf
    <2>3. ASSUME at = "done" PROVE FrameOf(sent)[1] = "end"
      <3>1. eof /\ Iov = <<>>
        BY <2>3 DEF Inv, Progress
      <3>2. body = <<>> /\ sent["H"] = 2 /\ sent["F"] = 2
        BY <3>1, NothingLeft
      <3> QED
        BY <3>2 DEF FrameOf
    <2> QED
      BY <2>1, <2>2, <2>3 DEF WellFramed
  <1> QED
    BY <1>1, InvHolds, PTL

\* The body of the output, by position.
LEMMA ExpectedIs ==
    ASSUME CgiTypeOK
    PROVE  /\ Expected \in Seq(Nat) /\ Len(Expected) = Len(script) - Off /\ Off \in Int
           /\ Len(Expected) \in Nat /\ \A k \in 1..Len(Expected) : Expected[k] = Off + k
  <1>1. /\ Len(script) \in Nat /\ script \in Seq({"r", "n", "b"})
        /\ BodyOffset(script) \in 0..Len(script)
    BY Types, FirstMark
  <1>2. CASE script = <<>>
    <2>1. Expected = <<0>> /\ Off = 0 - 1 /\ Len(script) = 0
      BY <1>2 DEF Expected, Off, Msg
    <2>2. <<0>> \in Seq(Nat) /\ Len(<<0>>) = 1 /\ \A k \in 1..1 : <<0>>[k] = (0 - 1) + k
      OBVIOUS
    <2> QED
      BY <2>1, <2>2
  <1>3. CASE script # <<>>
    <2> DEFINE o == BodyOffset(script)
               n == Len(script)
    <2>1. Expected = Positions(o + 1, n) /\ Off = o
      BY <1>3 DEF Expected, Off
    <2>2. o \in Nat /\ n \in Nat /\ o <= n
      BY <1>1
    <2> HIDE DEF o, n
    <2>3. /\ Positions(o + 1, n) \in Seq((o + 1)..n) /\ Len(Positions(o + 1, n)) = n - o
          /\ \A k \in 1..(n - o) : Positions(o + 1, n)[k] = o + k
      BY <2>2, PositionsAre
    <2>4. Expected \in Seq(Nat)
      <3>1. (o + 1)..n \subseteq Nat
        BY <2>2
      <3> DEFINE S == (o + 1)..n
                 p == Positions(o + 1, n)
      <3>2. p \in Seq(S) /\ S \subseteq Nat
        BY <2>3, <3>1
      <3> HIDE DEF S, p
      <3>3. p \in Seq(Nat)
        BY <3>2, SeqWiden
      <3> QED
        BY <2>1, <3>3 DEF p
    <2> QED
      BY <2>1, <2>2, <2>3, <2>4 DEF n
  <1> QED
    BY <1>2, <1>3

\* What is decoded is the beginning of it.
LEMMA DecodedIs ==
    ASSUME Inv, ~dropped
    PROVE  /\ Len(Decoded(wire)) <= Len(Expected)
           /\ \A i \in 1..Len(Decoded(wire)) : Decoded(wire)[i] = Expected[i]
  <1> DEFINE d == Decoded(wire)
  <1>1. d \in Seq(Nat) /\ Len(d) \in Nat
    BY LenProperties DEF Inv, Ascending
  <1>2. /\ Expected \in Seq(Nat) /\ Len(Expected) = Len(script) - Off /\ Off \in Int
        /\ Len(Expected) \in Nat /\ \A k \in 1..Len(Expected) : Expected[k] = Off + k
    BY ExpectedIs DEF Inv
  <1>3. CASE ~hdone
    <2>1. d = <<>> /\ Len(d) = 0
      BY <1>3, DecodeStep DEF Inv, Progress
    <2> QED
      BY <1>2, <2>1
  <1>4. CASE hdone
    <2>1. /\ \A i \in 1..Len(d) : d[i] = Off + i
          /\ (Off + Len(d) - sent["B"]) + Len(body) <= rd
      BY <1>4 DEF Inv, Gapless
    <2>2. sent["B"] \in 0..Len(body) /\ Len(body) \in Nat /\ rd \in Nat /\ rd <= Len(script) /\ Len(script) \in Nat
      BY Types DEF Inv
    <2> HIDE DEF d
    <2>3. Len(d) <= Len(Expected)
      <3> DEFINE x == Len(d)
                 y == Len(body)
                 z == Len(script)
                 s == sent["B"]
                 o == Off
                 e == Len(Expected)
      <3>1. /\ x \in Nat /\ y \in Nat /\ z \in Nat /\ s \in 0..y /\ o \in Int /\ rd \in Nat /\ rd <= z
            /\ e = z - o /\ (o + x - s) + y <= rd
        BY <1>1, <1>2, <2>1, <2>2
      <3> HIDE DEF x, y, z, s, o, e
      <3>2. x <= e
        BY <3>1
      <3> QED
        BY <3>2 DEF x, e
    <2>4. \A i \in 1..Len(d) : i \in 1..Len(Expected)
      BY <1>1, <1>2, <2>3
    <2>5. \A i \in 1..Len(d) : d[i] = Expected[i]
      BY <1>2, <2>1, <2>4
    <2> QED
      BY <2>3, <2>5 DEF d
  <1> QED
    BY <1>3, <1>4

\* The client decodes the child's body in order, without a byte of its header,
\* doubled or skipped, wherever the reads split the header and the writes stop
\* (cgi.c:305-379).
THEOREM DeliveredInOrder == Spec => []Delivered
  <1>1. Inv => Delivered
    <2> SUFFICES ASSUME Inv PROVE Delivered
      OBVIOUS
    <2> DEFINE d == Decoded(wire)
    <2>1. d \in Seq(Nat) /\ Len(d) \in Nat /\ \A i \in 1..(Len(d) - 1) : d[i] < d[i + 1]
      BY LenProperties DEF Inv, Ascending
    <2>2. ASSUME ~dropped PROVE IsPrefix(d, Expected)
      <3>1. Len(d) <= Len(Expected) /\ \A i \in 1..Len(d) : d[i] = Expected[i]
        BY <2>2, DecodedIs
      <3>2. Expected \in Seq(Nat) /\ Len(Expected) \in Nat
        BY ExpectedIs DEF Inv
      <3> HIDE DEF d
      <3>3. \A i \in 1..Len(d) : d[i] \in Nat /\ Expected[i] \in Nat
        BY <2>1, <3>1, ElementOfSeq
      <3>4. SubSeq(d, 1, Len(d)) = [i \in 1..Len(d) |-> d[i]]
        BY <2>1
      <3>5. SubSeq(Expected, 1, Len(d)) = [i \in 1..Len(d) |-> Expected[i]]
        BY <2>1, <3>2
      <3>6. SubSeq(d, 1, Len(d)) = SubSeq(Expected, 1, Len(d))
        BY <3>1, <3>4, <3>5
      <3> QED
        BY <3>1, <3>6 DEF IsPrefix
    <2> HIDE DEF d
    <2> QED
      BY <2>1, <2>2 DEF Delivered, d
  <1> QED
    BY <1>1, InvHolds, PTL

\* A finished response holds the whole body (cgi.c:423-492, 628-637).
THEOREM Complete == Spec => []CompleteWhenDone
  <1>1. Inv => CompleteWhenDone
    <2> SUFFICES ASSUME Inv, at = "done", ~dropped PROVE Decoded(wire) = Expected
      BY DEF CompleteWhenDone
    <2> DEFINE d == Decoded(wire)
    <2>1. eof /\ Iov = <<>> /\ hdone /\ rd = Len(script)
      BY DEF Inv, Progress
    <2>2. body = <<>> /\ Len(body) = 0 /\ sent["B"] = 0
      <3>1. body = <<>>
        BY <2>1, NothingLeft
      <3> QED
        BY <3>1 DEF Inv, SendOrder
    <2>3. d \in Seq(Nat) /\ Len(d) \in Nat
      BY LenProperties DEF Inv, Ascending
    <2>4. /\ Expected \in Seq(Nat) /\ Len(Expected) = Len(script) - Off /\ Off \in Int
          /\ Len(Expected) \in Nat
      BY ExpectedIs DEF Inv
    <2>5. \A i \in 1..Len(d) : d[i] = Expected[i]
      BY DecodedIs
    <2>6. (Off + Len(d) - 0) + 0 = rd
      BY <2>1, <2>2 DEF Inv, Gapless
    <2> HIDE DEF d
    <2>7. Len(d) = Len(Expected)
      BY <2>1, <2>3, <2>4, <2>6
    <2>8. d = Expected
      BY <2>3, <2>4, <2>5, <2>7, SeqEqual
    <2> QED
      BY <2>8 DEF d
  <1> QED
    BY <1>1, InvHolds, PTL
=============================================================================
