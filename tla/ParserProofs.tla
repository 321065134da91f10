---------------------------- MODULE ParserProofs ----------------------------
(***************************************************************************)
(* The parsers of Exchange take from the stream the requests that the      *)
(* reference finds in it.  The invariant says, in every state of the two   *)
(* parsers, what the stream has between the start of the buffer and the    *)
(* byte they are at, and which pointers stand where.  Then the path of a   *)
(* URI: normalize_abs_path writes its normal form.  The last part is about *)
(* the answers: each one is what its request calls for.                    *)
(***************************************************************************)
EXTENDS ParserLemmas
-----------------------------------------------------------------------------
(* The parsers at work.  t is the stream, b the place of the buffer in it,  *)
(* at the bytes of the buffer that are parsed, q the pointers, w the        *)
(* version, c the header being parsed and l the list.                       *)

Pointer == [request_start : Nat, method_end : Nat, uri_start : Nat, uri_end : Nat, request_end : Nat]
Numbers == [major : Nat, minor : Nat]

\* The pointers that the parser has not come to are null.
LaterNull(at, st, q) ==
    /\ q.request_end = Null
    /\ st = "start" => q.request_start <= at
    /\ st \in {"start", "method"} => q.method_end = Null
    /\ st \in {"start", "method", "spaces_before_uri"} => q.uri_start = Null
    /\ st \in {"start", "method", "spaces_before_uri", "after_slash_in_uri"} => q.uri_end = Null

InLine(t, b, at, st, q, w) ==
    /\ LineAt(t, b, st, b + at, b + q.request_start, b + q.method_end, b + q.uri_start, b + q.uri_end, w)
    /\ LaterNull(at, st, q)

\* Where the request line ends in the stream.  request_end is at its CR or LF.
LineEnd(t, b, q) == b + q.request_end + IF t[b + q.request_end] = CR THEN 1 ELSE 0

\* The line is read.
Line(t, b, at, q, w) ==
    /\ q.request_end > 0 /\ t[b + q.request_end] \in {CR, LF} /\ LineEnd(t, b, q) <= b + at
    /\ t[b + q.request_end] = LF => t[(b + q.request_end) - 1] # CR
    /\ LineRead(t, b, b + q.request_start, b + q.method_end, b + q.uri_start, b + q.uri_end, w, LineEnd(t, b, q))

InHeaders(t, b, at, st, q, c, l) ==
    HeaderAt(t, LineEnd(t, b, q) + 1, st, b + at, NextAt(b, LineEnd(t, b, q) + 1, l, 1),
             b + c.ks, b + c.ke, b + c.vs, b + c.ve)

\* Where the parsers are: ls and hs are their states.
Parser(t, b, at, phase, ls, hs, q, w, c, l) ==
    /\ phase = 0 => InLine(t, b, at, ls, q, w) /\ hs = "start"
    /\ phase # 0 => Line(t, b, at, q, w) /\ Chain(t, b, LineEnd(t, b, q) + 1, l, b + at)
    /\ phase = 1 => InHeaders(t, b, at, hs, q, c, l)
-----------------------------------------------------------------------------
(* A byte of the line.                                                      *)

\* The version with one more byte x, as Version has it.
VersionWith(st, x, w) ==
    CASE st = "first_major_digit"            -> [w EXCEPT !.major = DigitVal[x]]
      [] st = "major_digit" /\ x \in Digit   -> [w EXCEPT !.major = 10 * @ + DigitVal[x]]
      [] st = "first_minor_digit"            -> [w EXCEPT !.minor = DigitVal[x]]
      [] st = "minor_digit" /\ x \in Digit   -> [w EXCEPT !.minor = 10 * @ + DigitVal[x]]
      [] OTHER                               -> w

\* Behind an edge of the table: the line is complete, or read as far as the next
\* state says.
LineBehind(t, b, st, x, next, n, a, m, u, v, w) ==
    IF next = "done"
      THEN LineRead(t, b, a, m, u, v, w, n + 1) /\ x = LF /\ st \in {"minor_digit", "spaces_after_digit", "almost_done"}
      ELSE LineAt(t, b, next, n + 1, IF st = "start" THEN n + 1 ELSE a, IF st = "method" /\ x = SP THEN n + 1 ELSE m,
                  IF st = "spaces_before_uri" /\ x = "/" THEN n + 1 ELSE u,
                  IF st = "after_slash_in_uri" /\ x = SP THEN n + 1 ELSE v, VersionWith(st, x, w))

\* From start.
LEMMA EdgeStart ==
    ASSUME NEW t \in Seq(Byte), NEW b \in Nat, NEW n \in Nat, NEW a \in Nat, NEW m \in Nat, NEW u \in Nat, NEW v \in Nat,
           NEW w \in Numbers, b <= n, n < Len(t), NEW x, x = t[n + 1], NEW rule \in LineRules, x \in rule[2],
           rule[1] = "start", LineAt(t, b, "start", n, a, m, u, v, w)
    PROVE  LineBehind(t, b, "start", x, rule[3], n, a, m, u, v, w)
  <1> USE DEF Numbers
  <1>1. CASE rule[2] = {CR, LF} /\ rule[3] = "start"
    <2>1. x \in {CR, LF}
      BY <1>1
    <2>2. LineAt(t, b, "start", n + 1, n + 1, m, u, v, w)
      BY <2>1, StepStart
    <2>3. /\ (IF "start" = "start" THEN n + 1 ELSE a) = n + 1
          /\ (IF "start" = "method" /\ x = SP THEN n + 1 ELSE m) = m
          /\ (IF "start" = "spaces_before_uri" /\ x = "/" THEN n + 1 ELSE u) = u
          /\ (IF "start" = "after_slash_in_uri" /\ x = SP THEN n + 1 ELSE v) = v
      BY <2>1, Bytes
    <2>4. VersionWith("start", x, w) = w
      BY <2>1, Bytes DEF VersionWith
    <2> QED
      BY <1>1, <2>2, <2>3, <2>4 DEF LineBehind
  <1>2. CASE rule[2] = Upper /\ rule[3] = "method"
    <2>1. x \in Upper
      BY <1>2
    <2>2. LineAt(t, b, "method", n + 1, n + 1, m, u, v, w)
      BY <2>1, StepStart
    <2>3. /\ (IF "start" = "start" THEN n + 1 ELSE a) = n + 1
          /\ (IF "start" = "method" /\ x = SP THEN n + 1 ELSE m) = m
          /\ (IF "start" = "spaces_before_uri" /\ x = "/" THEN n + 1 ELSE u) = u
          /\ (IF "start" = "after_slash_in_uri" /\ x = SP THEN n + 1 ELSE v) = v
      BY <2>1, Bytes
    <2>4. VersionWith("start", x, w) = w
      BY <2>1, Bytes DEF VersionWith
    <2> QED
      BY <1>2, <2>2, <2>3, <2>4 DEF LineBehind
  <1> QED
    BY <1>1, <1>2, LineEdges

\* From method.
LEMMA EdgeMethod ==
    ASSUME NEW t \in Seq(Byte), NEW b \in Nat, NEW n \in Nat, NEW a \in Nat, NEW m \in Nat, NEW u \in Nat, NEW v \in Nat,
           NEW w \in Numbers, b <= n, n < Len(t), NEW x, x = t[n + 1], NEW rule \in LineRules, x \in rule[2],
           rule[1] = "method", LineAt(t, b, "method", n, a, m, u, v, w)
    PROVE  LineBehind(t, b, "method", x, rule[3], n, a, m, u, v, w)
  <1> USE DEF Numbers
  <1>1. CASE rule[2] = Upper /\ rule[3] = "method"
    <2>1. x \in Upper
      BY <1>1
    <2>2. LineAt(t, b, "method", n + 1, a, m, u, v, w)
      BY <2>1, StepMethod
    <2>3. /\ (IF "method" = "start" THEN n + 1 ELSE a) = a
          /\ (IF "method" = "method" /\ x = SP THEN n + 1 ELSE m) = m
          /\ (IF "method" = "spaces_before_uri" /\ x = "/" THEN n + 1 ELSE u) = u
          /\ (IF "method" = "after_slash_in_uri" /\ x = SP THEN n + 1 ELSE v) = v
      BY <2>1, Bytes
    <2>4. VersionWith("method", x, w) = w
      BY <2>1, Bytes DEF VersionWith
    <2> QED
      BY <1>1, <2>2, <2>3, <2>4 DEF LineBehind
  <1>2. CASE rule[2] = {SP} /\ rule[3] = "spaces_before_uri"
    <2>1. x = SP
      BY <1>2
    <2>2. LineAt(t, b, "spaces_before_uri", n + 1, a, n + 1, u, v, w)
      BY <2>1, StepMethod
    <2>3. /\ (IF "method" = "start" THEN n + 1 ELSE a) = a
          /\ (IF "method" = "method" /\ x = SP THEN n + 1 ELSE m) = n + 1
          /\ (IF "method" = "spaces_before_uri" /\ x = "/" THEN n + 1 ELSE u) = u
          /\ (IF "method" = "after_slash_in_uri" /\ x = SP THEN n + 1 ELSE v) = v
      BY <2>1, Bytes
    <2>4. VersionWith("method", x, w) = w
      BY <2>1, Bytes DEF VersionWith
    <2> QED
      BY <1>2, <2>2, <2>3, <2>4 DEF LineBehind
  <1> QED
    BY <1>1, <1>2, LineEdges

\* From spaces_before_uri.
LEMMA EdgeBeforeUri ==
    ASSUME NEW t \in Seq(Byte), NEW b \in Nat, NEW n \in Nat, NEW a \in Nat, NEW m \in Nat, NEW u \in Nat, NEW v \in Nat,
           NEW w \in Numbers, b <= n, n < Len(t), NEW x, x = t[n + 1], NEW rule \in LineRules, x \in rule[2],
           rule[1] = "spaces_before_uri", LineAt(t, b, "spaces_before_uri", n, a, m, u, v, w)
    PROVE  LineBehind(t, b, "spaces_before_uri", x, rule[3], n, a, m, u, v, w)
  <1> USE DEF Numbers
  <1>1. CASE rule[2] = {SP} /\ rule[3] = "spaces_before_uri"
    <2>1. x = SP
      BY <1>1
    <2>2. LineAt(t, b, "spaces_before_uri", n + 1, a, m, u, v, w)
      BY <2>1, StepBeforeUri
    <2>3. /\ (IF "spaces_before_uri" = "start" THEN n + 1 ELSE a) = a
          /\ (IF "spaces_before_uri" = "method" /\ x = SP THEN n + 1 ELSE m) = m
          /\ (IF "spaces_before_uri" = "spaces_before_uri" /\ x = "/" THEN n + 1 ELSE u) = u
          /\ (IF "spaces_before_uri" = "after_slash_in_uri" /\ x = SP THEN n + 1 ELSE v) = v
      BY <2>1, Bytes
    <2>4. VersionWith("spaces_before_uri", x, w) = w
      BY <2>1, Bytes DEF VersionWith
    <2> QED
      BY <1>1, <2>2, <2>3, <2>4 DEF LineBehind
  <1>2. CASE rule[2] = {"/"} /\ rule[3] = "after_slash_in_uri"
    <2>1. x = "/"
      BY <1>2
    <2>2. LineAt(t, b, "after_slash_in_uri", n + 1, a, m, n + 1, v, w)
      BY <2>1, StepBeforeUri
    <2>3. /\ (IF "spaces_before_uri" = "start" THEN n + 1 ELSE a) = a
          /\ (IF "spaces_before_uri" = "method" /\ x = SP THEN n + 1 ELSE m) = m
          /\ (IF "spaces_before_uri" = "spaces_before_uri" /\ x = "/" THEN n + 1 ELSE u) = n + 1
          /\ (IF "spaces_before_uri" = "after_slash_in_uri" /\ x = SP THEN n + 1 ELSE v) = v
      BY <2>1, Bytes
    <2>4. VersionWith("spaces_before_uri", x, w) = w
      BY <2>1, Bytes DEF VersionWith
    <2> QED
      BY <1>2, <2>2, <2>3, <2>4 DEF LineBehind
  <1> QED
    BY <1>1, <1>2, LineEdges

\* From after_slash_in_uri.
LEMMA EdgeUri ==
    ASSUME NEW t \in Seq(Byte), NEW b \in Nat, NEW n \in Nat, NEW a \in Nat, NEW m \in Nat, NEW u \in Nat, NEW v \in Nat,
           NEW w \in Numbers, b <= n, n < Len(t), NEW x, x = t[n + 1], NEW rule \in LineRules, x \in rule[2],
           rule[1] = "after_slash_in_uri", LineAt(t, b, "after_slash_in_uri", n, a, m, u, v, w)
    PROVE  LineBehind(t, b, "after_slash_in_uri", x, rule[3], n, a, m, u, v, w)
  <1> USE DEF Numbers
  <1>1. CASE rule[2] = Byte \ {SP} /\ rule[3] = "after_slash_in_uri"
    <2>1. x # SP
      BY <1>1
    <2>2. LineAt(t, b, "after_slash_in_uri", n + 1, a, m, u, v, w)
      BY <2>1, StepUri
    <2>3. /\ (IF "after_slash_in_uri" = "start" THEN n + 1 ELSE a) = a
          /\ (IF "after_slash_in_uri" = "method" /\ x = SP THEN n + 1 ELSE m) = m
          /\ (IF "after_slash_in_uri" = "spaces_before_uri" /\ x = "/" THEN n + 1 ELSE u) = u
          /\ (IF "after_slash_in_uri" = "after_slash_in_uri" /\ x = SP THEN n + 1 ELSE v) = v
      BY <2>1, Bytes
    <2>4. VersionWith("after_slash_in_uri", x, w) = w
      BY <2>1, Bytes DEF VersionWith
    <2> QED
      BY <1>1, <2>2, <2>3, <2>4 DEF LineBehind
  <1>2. CASE rule[2] = {SP} /\ rule[3] = "http"
    <2>1. x = SP
      BY <1>2
    <2>2. LineAt(t, b, "http", n + 1, a, m, u, n + 1, w)
      BY <2>1, StepUri
    <2>3. /\ (IF "after_slash_in_uri" = "start" THEN n + 1 ELSE a) = a
          /\ (IF "after_slash_in_uri" = "method" /\ x = SP THEN n + 1 ELSE m) = m
          /\ (IF "after_slash_in_uri" = "spaces_before_uri" /\ x = "/" THEN n + 1 ELSE u) = u
          /\ (IF "after_slash_in_uri" = "after_slash_in_uri" /\ x = SP THEN n + 1 ELSE v) = n + 1
      BY <2>1, Bytes
    <2>4. VersionWith("after_slash_in_uri", x, w) = w
      BY <2>1, Bytes DEF VersionWith
    <2> QED
      BY <1>2, <2>2, <2>3, <2>4 DEF LineBehind
  <1> QED
    BY <1>1, <1>2, LineEdges

\* From http.
LEMMA EdgeHttp ==
    ASSUME NEW t \in Seq(Byte), NEW b \in Nat, NEW n \in Nat, NEW a \in Nat, NEW m \in Nat, NEW u \in Nat, NEW v \in Nat,
           NEW w \in Numbers, b <= n, n < Len(t), NEW x, x = t[n + 1], NEW rule \in LineRules, x \in rule[2],
           rule[1] = "http", LineAt(t, b, "http", n, a, m, u, v, w)
    PROVE  LineBehind(t, b, "http", x, rule[3], n, a, m, u, v, w)
  <1> USE DEF Numbers
  <1>1. CASE rule[2] = {SP} /\ rule[3] = "http"
    <2>1. x = SP
      BY <1>1
    <2>2. LineAt(t, b, "http", n + 1, a, m, u, v, w)
      BY <2>1, StepHttp
    <2>3. /\ (IF "http" = "start" THEN n + 1 ELSE a) = a
          /\ (IF "http" = "method" /\ x = SP THEN n + 1 ELSE m) = m
          /\ (IF "http" = "spaces_before_uri" /\ x = "/" THEN n + 1 ELSE u) = u
          /\ (IF "http" = "after_slash_in_uri" /\ x = SP THEN n + 1 ELSE v) = v
      BY <2>1, Bytes
    <2>4. VersionWith("http", x, w) = w
      BY <2>1, Bytes DEF VersionWith
    <2> QED
      BY <1>1, <2>2, <2>3, <2>4 DEF LineBehind
  <1>2. CASE rule[2] = {"H"} /\ rule[3] = "http_H"
    <2>1. x = "H"
      BY <1>2
    <2>2. LineAt(t, b, "http_H", n + 1, a, m, u, v, w)
      BY <2>1, StepHttp
    <2>3. /\ (IF "http" = "start" THEN n + 1 ELSE a) = a
          /\ (IF "http" = "method" /\ x = SP THEN n + 1 ELSE m) = m
          /\ (IF "http" = "spaces_before_uri" /\ x = "/" THEN n + 1 ELSE u) = u
          /\ (IF "http" = "after_slash_in_uri" /\ x = SP THEN n + 1 ELSE v) = v
      BY <2>1, Bytes
    <2>4. VersionWith("http", x, w) = w
      BY <2>1, Bytes DEF VersionWith
    <2> QED
      BY <1>2, <2>2, <2>3, <2>4 DEF LineBehind
  <1> QED
    BY <1>1, <1>2, LineEdges

\* From http_H.
LEMMA EdgeH ==
    ASSUME NEW t \in Seq(Byte), NEW b \in Nat, NEW n \in Nat, NEW a \in Nat, NEW m \in Nat, NEW u \in Nat, NEW v \in Nat,
           NEW w \in Numbers, b <= n, n < Len(t), NEW x, x = t[n + 1], NEW rule \in LineRules, x \in rule[2],
           rule[1] = "http_H", LineAt(t, b, "http_H", n, a, m, u, v, w)
    PROVE  LineBehind(t, b, "http_H", x, rule[3], n, a, m, u, v, w)
  <1> USE DEF Numbers
  <1>1. CASE rule[2] = {"T"} /\ rule[3] = "http_HT"
    <2>1. x = "T"
      BY <1>1
    <2>2. LineAt(t, b, "http_HT", n + 1, a, m, u, v, w)
      BY <2>1, StepH
    <2>3. /\ (IF "http_H" = "start" THEN n + 1 ELSE a) = a
          /\ (IF "http_H" = "method" /\ x = SP THEN n + 1 ELSE m) = m
          /\ (IF "http_H" = "spaces_before_uri" /\ x = "/" THEN n + 1 ELSE u) = u
          /\ (IF "http_H" = "after_slash_in_uri" /\ x = SP THEN n + 1 ELSE v) = v
      BY <2>1, Bytes
    <2>4. VersionWith("http_H", x, w) = w
      BY <2>1, Bytes DEF VersionWith
    <2> QED
      BY <1>1, <2>2, <2>3, <2>4 DEF LineBehind
  <1> QED
    BY <1>1, LineEdges

\* From http_HT.
LEMMA EdgeHT ==
    ASSUME NEW t \in Seq(Byte), NEW b \in Nat, NEW n \in Nat, NEW a \in Nat, NEW m \in Nat, NEW u \in Nat, NEW v \in Nat,
           NEW w \in Numbers, b <= n, n < Len(t), NEW x, x = t[n + 1], NEW rule \in LineRules, x \in rule[2],
           rule[1] = "http_HT", LineAt(t, b, "http_HT", n, a, m, u, v, w)
    PROVE  LineBehind(t, b, "http_HT", x, rule[3], n, a, m, u, v, w)
  <1> USE DEF Numbers
  <1>1. CASE rule[2] = {"T"} /\ rule[3] = "http_HTT"
    <2>1. x = "T"
      BY <1>1
    <2>2. LineAt(t, b, "http_HTT", n + 1, a, m, u, v, w)
      BY <2>1, StepHT
    <2>3. /\ (IF "http_HT" = "start" THEN n + 1 ELSE a) = a
          /\ (IF "http_HT" = "method" /\ x = SP THEN n + 1 ELSE m) = m
          /\ (IF "http_HT" = "spaces_before_uri" /\ x = "/" THEN n + 1 ELSE u) = u
          /\ (IF "http_HT" = "after_slash_in_uri" /\ x = SP THEN n + 1 ELSE v) = v
      BY <2>1, Bytes
    <2>4. VersionWith("http_HT", x, w) = w
      BY <2>1, Bytes DEF VersionWith
    <2> QED
      BY <1>1, <2>2, <2>3, <2>4 DEF LineBehind
  <1> QED
    BY <1>1, LineEdges

\* From http_HTT.
LEMMA EdgeHTT ==
    ASSUME NEW t \in Seq(Byte), NEW b \in Nat, NEW n \in Nat, NEW a \in Nat, NEW m \in Nat, NEW u \in Nat, NEW v \in Nat,
           NEW w \in Numbers, b <= n, n < Len(t), NEW x, x = t[n + 1], NEW rule \in LineRules, x \in rule[2],
           rule[1] = "http_HTT", LineAt(t, b, "http_HTT", n, a, m, u, v, w)
    PROVE  LineBehind(t, b, "http_HTT", x, rule[3], n, a, m, u, v, w)
  <1> USE DEF Numbers
  <1>1. CASE rule[2] = {"P"} /\ rule[3] = "http_HTTP"
    <2>1. x = "P"
      BY <1>1
    <2>2. LineAt(t, b, "http_HTTP", n + 1, a, m, u, v, w)
      BY <2>1, StepHTT
    <2>3. /\ (IF "http_HTT" = "start" THEN n + 1 ELSE a) = a
          /\ (IF "http_HTT" = "method" /\ x = SP THEN n + 1 ELSE m) = m
          /\ (IF "http_HTT" = "spaces_before_uri" /\ x = "/" THEN n + 1 ELSE u) = u
          /\ (IF "http_HTT" = "after_slash_in_uri" /\ x = SP THEN n + 1 ELSE v) = v
      BY <2>1, Bytes
    <2>4. VersionWith("http_HTT", x, w) = w
      BY <2>1, Bytes DEF VersionWith
    <2> QED
      BY <1>1, <2>2, <2>3, <2>4 DEF LineBehind
  <1> QED
    BY <1>1, LineEdges

\* From http_HTTP.
LEMMA EdgeHTTP ==
    ASSUME NEW t \in Seq(Byte), NEW b \in Nat, NEW n \in Nat, NEW a \in Nat, NEW m \in Nat, NEW u \in Nat, NEW v \in Nat,
           NEW w \in Numbers, b <= n, n < Len(t), NEW x, x = t[n + 1], NEW rule \in LineRules, x \in rule[2],
           rule[1] = "http_HTTP", LineAt(t, b, "http_HTTP", n, a, m, u, v, w)
    PROVE  LineBehind(t, b, "http_HTTP", x, rule[3], n, a, m, u, v, w)
  <1> USE DEF Numbers
  <1>1. CASE rule[2] = {"/"} /\ rule[3] = "first_major_digit"
    <2>1. x = "/"
      BY <1>1
    <2>2. LineAt(t, b, "first_major_digit", n + 1, a, m, u, v, w)
      BY <2>1, StepHTTP
    <2>3. /\ (IF "http_HTTP" = "start" THEN n + 1 ELSE a) = a
          /\ (IF "http_HTTP" = "method" /\ x = SP THEN n + 1 ELSE m) = m
          /\ (IF "http_HTTP" = "spaces_before_uri" /\ x = "/" THEN n + 1 ELSE u) = u
          /\ (IF "http_HTTP" = "after_slash_in_uri" /\ x = SP THEN n + 1 ELSE v) = v
      BY <2>1, Bytes
    <2>4. VersionWith("http_HTTP", x, w) = w
      BY <2>1, Bytes DEF VersionWith
    <2> QED
      BY <1>1, <2>2, <2>3, <2>4 DEF LineBehind
  <1> QED
    BY <1>1, LineEdges

\* From first_major_digit.
LEMMA EdgeFirstMajor ==
    ASSUME NEW t \in Seq(Byte), NEW b \in Nat, NEW n \in Nat, NEW a \in Nat, NEW m \in Nat, NEW u \in Nat, NEW v \in Nat,
           NEW w \in Numbers, b <= n, n < Len(t), NEW x, x = t[n + 1], NEW rule \in LineRules, x \in rule[2],
           rule[1] = "first_major_digit", LineAt(t, b, "first_major_digit", n, a, m, u, v, w)
    PROVE  LineBehind(t, b, "first_major_digit", x, rule[3], n, a, m, u, v, w)
  <1> USE DEF Numbers
  <1>1. CASE rule[2] = Digit \ {"0"} /\ rule[3] = "major_digit"
    <2>1. x \in Digit \ {"0"}
      BY <1>1
    <2>2. LineAt(t, b, "major_digit", n + 1, a, m, u, v, [w EXCEPT !.major = DigitVal[x]])
      BY <2>1, StepFirstMajor
    <2>3. /\ (IF "first_major_digit" = "start" THEN n + 1 ELSE a) = a
          /\ (IF "first_major_digit" = "method" /\ x = SP THEN n + 1 ELSE m) = m
          /\ (IF "first_major_digit" = "spaces_before_uri" /\ x = "/" THEN n + 1 ELSE u) = u
          /\ (IF "first_major_digit" = "after_slash_in_uri" /\ x = SP THEN n + 1 ELSE v) = v
      BY <2>1, Bytes
    <2>4. VersionWith("first_major_digit", x, w) = [w EXCEPT !.major = DigitVal[x]]
      BY <2>1, Bytes DEF VersionWith
    <2> QED
      BY <1>1, <2>2, <2>3, <2>4 DEF LineBehind
  <1> QED
    BY <1>1, LineEdges

\* From major_digit.
LEMMA EdgeMajor ==
    ASSUME NEW t \in Seq(Byte), NEW b \in Nat, NEW n \in Nat, NEW a \in Nat, NEW m \in Nat, NEW u \in Nat, NEW v \in Nat,
           NEW w \in Numbers, b <= n, n < Len(t), NEW x, x = t[n + 1], NEW rule \in LineRules, x \in rule[2],
           rule[1] = "major_digit", LineAt(t, b, "major_digit", n, a, m, u, v, w)
    PROVE  LineBehind(t, b, "major_digit", x, rule[3], n, a, m, u, v, w)
  <1> USE DEF Numbers
  <1>1. CASE rule[2] = Digit /\ rule[3] = "major_digit"
    <2>1. x \in Digit
      BY <1>1
    <2>2. LineAt(t, b, "major_digit", n + 1, a, m, u, v, [w EXCEPT !.major = 10 * @ + DigitVal[x]])
      BY <2>1, StepMajor
    <2>3. /\ (IF "major_digit" = "start" THEN n + 1 ELSE a) = a
          /\ (IF "major_digit" = "method" /\ x = SP THEN n + 1 ELSE m) = m
          /\ (IF "major_digit" = "spaces_before_uri" /\ x = "/" THEN n + 1 ELSE u) = u
          /\ (IF "major_digit" = "after_slash_in_uri" /\ x = SP THEN n + 1 ELSE v) = v
      BY <2>1, Bytes
    <2>4. VersionWith("major_digit", x, w) = [w EXCEPT !.major = 10 * @ + DigitVal[x]]
      BY <2>1, Bytes DEF VersionWith
    <2> QED
      BY <1>1, <2>2, <2>3, <2>4 DEF LineBehind
  <1>2. CASE rule[2] = {"."} /\ rule[3] = "first_minor_digit"
    <2>1. x = "."
      BY <1>2
    <2>2. LineAt(t, b, "first_minor_digit", n + 1, a, m, u, v, w)
      BY <2>1, StepMajor
    <2>3. /\ (IF "major_digit" = "start" THEN n + 1 ELSE a) = a
          /\ (IF "major_digit" = "method" /\ x = SP THEN n + 1 ELSE m) = m
          /\ (IF "major_digit" = "spaces_before_uri" /\ x = "/" THEN n + 1 ELSE u) = u
          /\ (IF "major_digit" = "after_slash_in_uri" /\ x = SP THEN n + 1 ELSE v) = v
      BY <2>1, Bytes
    <2>4. VersionWith("major_digit", x, w) = w
      BY <2>1, Bytes DEF VersionWith
    <2> QED
      BY <1>2, <2>2, <2>3, <2>4 DEF LineBehind
  <1> QED
    BY <1>1, <1>2, LineEdges

\* From first_minor_digit.
LEMMA EdgeFirstMinor ==
    ASSUME NEW t \in Seq(Byte), NEW b \in Nat, NEW n \in Nat, NEW a \in Nat, NEW m \in Nat, NEW u \in Nat, NEW v \in Nat,
           NEW w \in Numbers, b <= n, n < Len(t), NEW x, x = t[n + 1], NEW rule \in LineRules, x \in rule[2],
           rule[1] = "first_minor_digit", LineAt(t, b, "first_minor_digit", n, a, m, u, v, w)
    PROVE  LineBehind(t, b, "first_minor_digit", x, rule[3], n, a, m, u, v, w)
  <1> USE DEF Numbers
  <1>1. CASE rule[2] = Digit /\ rule[3] = "minor_digit"
    <2>1. x \in Digit
      BY <1>1
    <2>2. LineAt(t, b, "minor_digit", n + 1, a, m, u, v, [w EXCEPT !.minor = DigitVal[x]])
      BY <2>1, StepFirstMinor
    <2>3. /\ (IF "first_minor_digit" = "start" THEN n + 1 ELSE a) = a
          /\ (IF "first_minor_digit" = "method" /\ x = SP THEN n + 1 ELSE m) = m
          /\ (IF "first_minor_digit" = "spaces_before_uri" /\ x = "/" THEN n + 1 ELSE u) = u
          /\ (IF "first_minor_digit" = "after_slash_in_uri" /\ x = SP THEN n + 1 ELSE v) = v
      BY <2>1, Bytes
    <2>4. VersionWith("first_minor_digit", x, w) = [w EXCEPT !.minor = DigitVal[x]]
      BY <2>1, Bytes DEF VersionWith
    <2> QED
      BY <1>1, <2>2, <2>3, <2>4 DEF LineBehind
  <1> QED
    BY <1>1, LineEdges

\* From minor_digit.
LEMMA EdgeMinor ==
    ASSUME NEW t \in Seq(Byte), NEW b \in Nat, NEW n \in Nat, NEW a \in Nat, NEW m \in Nat, NEW u \in Nat, NEW v \in Nat,
           NEW w \in Numbers, b <= n, n < Len(t), NEW x, x = t[n + 1], NEW rule \in LineRules, x \in rule[2],
           rule[1] = "minor_digit", LineAt(t, b, "minor_digit", n, a, m, u, v, w)
    PROVE  LineBehind(t, b, "minor_digit", x, rule[3], n, a, m, u, v, w)
  <1> USE DEF Numbers
  <1>1. CASE rule[2] = Digit /\ rule[3] = "minor_digit"
    <2>1. x \in Digit
      BY <1>1
    <2>2. LineAt(t, b, "minor_digit", n + 1, a, m, u, v, [w EXCEPT !.minor = 10 * @ + DigitVal[x]])
      BY <2>1, StepMinor
    <2>3. /\ (IF "minor_digit" = "start" THEN n + 1 ELSE a) = a
          /\ (IF "minor_digit" = "method" /\ x = SP THEN n + 1 ELSE m) = m
          /\ (IF "minor_digit" = "spaces_before_uri" /\ x = "/" THEN n + 1 ELSE u) = u
          /\ (IF "minor_digit" = "after_slash_in_uri" /\ x = SP THEN n + 1 ELSE v) = v
      BY <2>1, Bytes
    <2>4. VersionWith("minor_digit", x, w) = [w EXCEPT !.minor = 10 * @ + DigitVal[x]]
      BY <2>1, Bytes DEF VersionWith
    <2> QED
      BY <1>1, <2>2, <2>3, <2>4 DEF LineBehind
  <1>2. CASE rule[2] = {SP} /\ rule[3] = "spaces_after_digit"
    <2>1. x = SP
      BY <1>2
    <2>2. LineAt(t, b, "spaces_after_digit", n + 1, a, m, u, v, w)
      BY <2>1, StepMinor
    <2>3. /\ (IF "minor_digit" = "start" THEN n + 1 ELSE a) = a
          /\ (IF "minor_digit" = "method" /\ x = SP THEN n + 1 ELSE m) = m
          /\ (IF "minor_digit" = "spaces_before_uri" /\ x = "/" THEN n + 1 ELSE u) = u
          /\ (IF "minor_digit" = "after_slash_in_uri" /\ x = SP THEN n + 1 ELSE v) = v
      BY <2>1, Bytes
    <2>4. VersionWith("minor_digit", x, w) = w
      BY <2>1, Bytes DEF VersionWith
    <2> QED
      BY <1>2, <2>2, <2>3, <2>4 DEF LineBehind
  <1>3. CASE rule[2] = {CR} /\ rule[3] = "almost_done"
    <2>1. x = CR
      BY <1>3
    <2>2. LineAt(t, b, "almost_done", n + 1, a, m, u, v, w)
      BY <2>1, StepMinor
    <2>3. /\ (IF "minor_digit" = "start" THEN n + 1 ELSE a) = a
          /\ (IF "minor_digit" = "method" /\ x = SP THEN n + 1 ELSE m) = m
          /\ (IF "minor_digit" = "spaces_before_uri" /\ x = "/" THEN n + 1 ELSE u) = u
          /\ (IF "minor_digit" = "after_slash_in_uri" /\ x = SP THEN n + 1 ELSE v) = v
      BY <2>1, Bytes
    <2>4. VersionWith("minor_digit", x, w) = w
      BY <2>1, Bytes DEF VersionWith
    <2> QED
      BY <1>3, <2>2, <2>3, <2>4 DEF LineBehind
  <1>4. CASE rule[2] = {LF} /\ rule[3] = "done"
    <2>1. x = LF
      BY <1>4
    <2>2. LineRead(t, b, a, m, u, v, w, n + 1)
      BY <2>1, StepMinor
    <2> QED
      BY <1>4, <2>1, <2>2, Zenon DEF LineBehind
  <1> QED
    BY <1>1, <1>2, <1>3, <1>4, LineEdges

\* From spaces_after_digit.
LEMMA EdgeAfterDigit ==
    ASSUME NEW t \in Seq(Byte), NEW b \in Nat, NEW n \in Nat, NEW a \in Nat, NEW m \in Nat, NEW u \in Nat, NEW v \in Nat,
           NEW w \in Numbers, b <= n, n < Len(t), NEW x, x = t[n + 1], NEW rule \in LineRules, x \in rule[2],
           rule[1] = "spaces_after_digit", LineAt(t, b, "spaces_after_digit", n, a, m, u, v, w)
    PROVE  LineBehind(t, b, "spaces_after_digit", x, rule[3], n, a, m, u, v, w)
  <1> USE DEF Numbers
  <1>1. CASE rule[2] = {SP} /\ rule[3] = "spaces_after_digit"
    <2>1. x = SP
      BY <1>1
    <2>2. LineAt(t, b, "spaces_after_digit", n + 1, a, m, u, v, w)
      BY <2>1, StepAfterDigit
    <2>3. /\ (IF "spaces_after_digit" = "start" THEN n + 1 ELSE a) = a
          /\ (IF "spaces_after_digit" = "method" /\ x = SP THEN n + 1 ELSE m) = m
          /\ (IF "spaces_after_digit" = "spaces_before_uri" /\ x = "/" THEN n + 1 ELSE u) = u
          /\ (IF "spaces_after_digit" = "after_slash_in_uri" /\ x = SP THEN n + 1 ELSE v) = v
      BY <2>1, Bytes
    <2>4. VersionWith("spaces_after_digit", x, w) = w
      BY <2>1, Bytes DEF VersionWith
    <2> QED
      BY <1>1, <2>2, <2>3, <2>4 DEF LineBehind
  <1>2. CASE rule[2] = {CR} /\ rule[3] = "almost_done"
    <2>1. x = CR
      BY <1>2
    <2>2. LineAt(t, b, "almost_done", n + 1, a, m, u, v, w)
      BY <2>1, StepAfterDigit
    <2>3. /\ (IF "spaces_after_digit" = "start" THEN n + 1 ELSE a) = a
          /\ (IF "spaces_after_digit" = "method" /\ x = SP THEN n + 1 ELSE m) = m
          /\ (IF "spaces_after_digit" = "spaces_before_uri" /\ x = "/" THEN n + 1 ELSE u) = u
          /\ (IF "spaces_after_digit" = "after_slash_in_uri" /\ x = SP THEN n + 1 ELSE v) = v
      BY <2>1, Bytes
    <2>4. VersionWith("spaces_after_digit", x, w) = w
      BY <2>1, Bytes DEF VersionWith
    <2> QED
      BY <1>2, <2>2, <2>3, <2>4 DEF LineBehind
  <1>3. CASE rule[2] = {LF} /\ rule[3] = "done"
    <2>1. x = LF
      BY <1>3
    <2>2. LineRead(t, b, a, m, u, v, w, n + 1)
      BY <2>1, StepAfterDigit
    <2> QED
      BY <1>3, <2>1, <2>2, Zenon DEF LineBehind
  <1> QED
    BY <1>1, <1>2, <1>3, LineEdges

\* From almost_done.
LEMMA EdgeAlmostDone ==
    ASSUME NEW t \in Seq(Byte), NEW b \in Nat, NEW n \in Nat, NEW a \in Nat, NEW m \in Nat, NEW u \in Nat, NEW v \in Nat,
           NEW w \in Numbers, b <= n, n < Len(t), NEW x, x = t[n + 1], NEW rule \in LineRules, x \in rule[2],
           rule[1] = "almost_done", LineAt(t, b, "almost_done", n, a, m, u, v, w)
    PROVE  LineBehind(t, b, "almost_done", x, rule[3], n, a, m, u, v, w)
  <1> USE DEF Numbers
  <1>1. CASE rule[2] = {LF} /\ rule[3] = "done"
    <2>1. x = LF
      BY <1>1
    <2>2. LineRead(t, b, a, m, u, v, w, n + 1)
      BY <2>1, StepAlmostDone
    <2> QED
      BY <1>1, <2>1, <2>2, Zenon DEF LineBehind
  <1> QED
    BY <1>1, LineEdges

\* From any state.
LEMMA LineEdge ==
    ASSUME NEW t \in Seq(Byte), NEW b \in Nat, NEW n \in Nat, NEW a \in Nat, NEW m \in Nat, NEW u \in Nat, NEW v \in Nat,
           NEW w \in Numbers, b <= n, n < Len(t), NEW x, x = t[n + 1], NEW rule \in LineRules, x \in rule[2],
           NEW st, rule[1] = st, LineAt(t, b, st, n, a, m, u, v, w)
    PROVE  LineBehind(t, b, st, x, rule[3], n, a, m, u, v, w)
  <1>1. st \in LineStates
    BY DEF LineStates
  <1>2. CASE st = "start"
    <2>1. rule[1] = "start" /\ LineAt(t, b, "start", n, a, m, u, v, w)
      BY <1>2
    <2>2. LineBehind(t, b, "start", x, rule[3], n, a, m, u, v, w)
      BY <2>1, EdgeStart, Zenon
    <2> QED
      BY <1>2, <2>2
  <1>3. CASE st = "method"
    <2>1. rule[1] = "method" /\ LineAt(t, b, "method", n, a, m, u, v, w)
      BY <1>3
    <2>2. LineBehind(t, b, "method", x, rule[3], n, a, m, u, v, w)
      BY <2>1, EdgeMethod, Zenon
    <2> QED
      BY <1>3, <2>2
  <1>4. CASE st = "spaces_before_uri"
    <2>1. rule[1] = "spaces_before_uri" /\ LineAt(t, b, "spaces_before_uri", n, a, m, u, v, w)
      BY <1>4
    <2>2. LineBehind(t, b, "spaces_before_uri", x, rule[3], n, a, m, u, v, w)
      BY <2>1, EdgeBeforeUri, Zenon
    <2> QED
      BY <1>4, <2>2
  <1>5. CASE st = "after_slash_in_uri"
    <2>1. rule[1] = "after_slash_in_uri" /\ LineAt(t, b, "after_slash_in_uri", n, a, m, u, v, w)
      BY <1>5
    <2>2. LineBehind(t, b, "after_slash_in_uri", x, rule[3], n, a, m, u, v, w)
      BY <2>1, EdgeUri, Zenon
    <2> QED
      BY <1>5, <2>2
  <1>6. CASE st = "http"
    <2>1. rule[1] = "http" /\ LineAt(t, b, "http", n, a, m, u, v, w)
      BY <1>6
    <2>2. LineBehind(t, b, "http", x, rule[3], n, a, m, u, v, w)
      BY <2>1, EdgeHttp, Zenon
    <2> QED
      BY <1>6, <2>2
  <1>7. CASE st = "http_H"
    <2>1. rule[1] = "http_H" /\ LineAt(t, b, "http_H", n, a, m, u, v, w)
      BY <1>7
    <2>2. LineBehind(t, b, "http_H", x, rule[3], n, a, m, u, v, w)
      BY <2>1, EdgeH, Zenon
    <2> QED
      BY <1>7, <2>2
  <1>8. CASE st = "http_HT"
    <2>1. rule[1] = "http_HT" /\ LineAt(t, b, "http_HT", n, a, m, u, v, w)
      BY <1>8
    <2>2. LineBehind(t, b, "http_HT", x, rule[3], n, a, m, u, v, w)
      BY <2>1, EdgeHT, Zenon
    <2> QED
      BY <1>8, <2>2
  <1>9. CASE st = "http_HTT"
    <2>1. rule[1] = "http_HTT" /\ LineAt(t, b, "http_HTT", n, a, m, u, v, w)
      BY <1>9
    <2>2. LineBehind(t, b, "http_HTT", x, rule[3], n, a, m, u, v, w)
      BY <2>1, EdgeHTT, Zenon
    <2> QED
      BY <1>9, <2>2
  <1>10. CASE st = "http_HTTP"
    <2>1. rule[1] = "http_HTTP" /\ LineAt(t, b, "http_HTTP", n, a, m, u, v, w)
      BY <1>10
    <2>2. LineBehind(t, b, "http_HTTP", x, rule[3], n, a, m, u, v, w)
      BY <2>1, EdgeHTTP, Zenon
    <2> QED
      BY <1>10, <2>2
  <1>11. CASE st = "first_major_digit"
    <2>1. rule[1] = "first_major_digit" /\ LineAt(t, b, "first_major_digit", n, a, m, u, v, w)
      BY <1>11
    <2>2. LineBehind(t, b, "first_major_digit", x, rule[3], n, a, m, u, v, w)
      BY <2>1, EdgeFirstMajor, Zenon
    <2> QED
      BY <1>11, <2>2
  <1>12. CASE st = "major_digit"
    <2>1. rule[1] = "major_digit" /\ LineAt(t, b, "major_digit", n, a, m, u, v, w)
      BY <1>12
    <2>2. LineBehind(t, b, "major_digit", x, rule[3], n, a, m, u, v, w)
      BY <2>1, EdgeMajor, Zenon
    <2> QED
      BY <1>12, <2>2
  <1>13. CASE st = "first_minor_digit"
    <2>1. rule[1] = "first_minor_digit" /\ LineAt(t, b, "first_minor_digit", n, a, m, u, v, w)
      BY <1>13
    <2>2. LineBehind(t, b, "first_minor_digit", x, rule[3], n, a, m, u, v, w)
      BY <2>1, EdgeFirstMinor, Zenon
    <2> QED
      BY <1>13, <2>2
  <1>14. CASE st = "minor_digit"
    <2>1. rule[1] = "minor_digit" /\ LineAt(t, b, "minor_digit", n, a, m, u, v, w)
      BY <1>14
    <2>2. LineBehind(t, b, "minor_digit", x, rule[3], n, a, m, u, v, w)
      BY <2>1, EdgeMinor, Zenon
    <2> QED
      BY <1>14, <2>2
  <1>15. CASE st = "spaces_after_digit"
    <2>1. rule[1] = "spaces_after_digit" /\ LineAt(t, b, "spaces_after_digit", n, a, m, u, v, w)
      BY <1>15
    <2>2. LineBehind(t, b, "spaces_after_digit", x, rule[3], n, a, m, u, v, w)
      BY <2>1, EdgeAfterDigit, Zenon
    <2> QED
      BY <1>15, <2>2
  <1>16. CASE st = "almost_done"
    <2>1. rule[1] = "almost_done" /\ LineAt(t, b, "almost_done", n, a, m, u, v, w)
      BY <1>16
    <2>2. LineBehind(t, b, "almost_done", x, rule[3], n, a, m, u, v, w)
      BY <2>1, EdgeAlmostDone, Zenon
    <2> QED
      BY <1>16, <2>2
  <1> QED
    BY <1>1, <1>2, <1>3, <1>4, <1>5, <1>6, <1>7, <1>8, <1>9, <1>10, <1>11, <1>12, <1>13, <1>14, <1>15, <1>16, LineStatesAre

\* The pointers with one more byte x, as MarkLine has them.
PointersWith(at, st, x, q) ==
    [request_start |-> IF st = "start" THEN at + 1 ELSE q.request_start,
     method_end    |-> IF st = "method" /\ x = SP THEN at + 1 ELSE q.method_end,
     uri_start     |-> IF st = "spaces_before_uri" /\ x = "/" THEN at + 1 ELSE q.uri_start,
     uri_end       |-> IF st = "after_slash_in_uri" /\ x = SP THEN at + 1 ELSE q.uri_end,
     request_end   |-> IF st = "almost_done" THEN (at + 1) - 1 ELSE q.request_end]

\* They are positions.
LEMMA PointersTyped ==
    ASSUME NEW at \in Nat, NEW st, NEW x, NEW q \in Pointer
    PROVE  PointersWith(at, st, x, q) \in Pointer
  <1>1. /\ q.request_start \in Nat /\ q.method_end \in Nat /\ q.uri_start \in Nat /\ q.uri_end \in Nat /\ q.request_end \in Nat
        /\ at + 1 \in Nat /\ (at + 1) - 1 \in Nat
    BY DEF Pointer
  <1> QED
    BY <1>1 DEF PointersWith, Pointer

\* A byte that does not end the line.
LEMMA LineStep ==
    ASSUME NEW t \in Seq(Byte), NEW b \in Nat, NEW at \in Nat, NEW n, n = b + at, n < Len(t), NEW q \in Pointer, NEW w \in Numbers,
           NEW st, InLine(t, b, at, st, q, w), NEW x, x = t[n + 1], NEW rule \in LineRules, x \in rule[2], rule[1] = st,
           rule[3] # "done"
    PROVE  InLine(t, b, at + 1, rule[3], PointersWith(at, st, x, q), VersionWith(st, x, w))
  <1> DEFINE r == PointersWith(at, st, x, q)
             a == b + q.request_start
             m == b + q.method_end
             u == b + q.uri_start
             v == b + q.uri_end
             k == at + 1
  <1>1. /\ q.request_start \in Nat /\ q.method_end \in Nat /\ q.uri_start \in Nat /\ q.uri_end \in Nat
    BY DEF Pointer
  <1>2. n \in Nat /\ b <= n /\ n + 1 = b + k
    OBVIOUS
  <1>8. \A i \in Nat : b + i \in Nat
    OBVIOUS
  <1>9. a \in Nat /\ m \in Nat /\ u \in Nat /\ v \in Nat
    BY <1>1, <1>8, Zenon
  <1>3. LineAt(t, b, st, n, a, m, u, v, w) /\ LaterNull(at, st, q)
    BY Zenon DEF InLine
  <1> HIDE DEF k
  <1>4. /\ b + r.request_start = IF st = "start" THEN n + 1 ELSE a
        /\ b + r.method_end = IF st = "method" /\ x = SP THEN n + 1 ELSE m
        /\ b + r.uri_start = IF st = "spaces_before_uri" /\ x = "/" THEN n + 1 ELSE u
        /\ b + r.uri_end = IF st = "after_slash_in_uri" /\ x = SP THEN n + 1 ELSE v
    BY <1>2 DEF PointersWith, k
  <1> HIDE DEF a, m, u, v
  <1>5. LineBehind(t, b, st, x, rule[3], n, a, m, u, v, w)
    BY <1>2, <1>3, <1>9, LineEdge, Zenon
  <1> HIDE DEF r
  <1>6. LineAt(t, b, rule[3], b + k, b + r.request_start, b + r.method_end, b + r.uri_start, b + r.uri_end, VersionWith(st, x, w))
    BY <1>2, <1>4, <1>5 DEF LineBehind
  <1>7. LaterNull(k, rule[3], r)
    <2>1. st \in LineStates
      BY DEF LineStates
    <2>2. st # "almost_done"
      BY LineEdges
    <2>3. r.request_end = Null
      BY <1>3, <2>2 DEF r, PointersWith, LaterNull
    <2>4. rule[3] = "start" => r.request_start <= k
      <3>1. rule[3] = "start" => st = "start"
        BY <2>1, LineEdges, LineStatesAre
      <3> QED
        BY <3>1 DEF r, k, PointersWith
    <2>5. rule[3] \in {"start", "method"} => r.method_end = Null
      <3>1. rule[3] \in {"start", "method"} => st \in {"start", "method"} /\ x # SP
        BY <2>1, LineEdges, LineStatesAre, Bytes
      <3> QED
        BY <1>3, <3>1 DEF r, PointersWith, LaterNull
    <2>6. rule[3] \in {"start", "method", "spaces_before_uri"} => r.uri_start = Null
      <3>1. rule[3] \in {"start", "method", "spaces_before_uri"} =>
              st \in {"start", "method", "spaces_before_uri"} /\ (st = "spaces_before_uri" => x # "/")
        BY <2>1, LineEdges, LineStatesAre, Bytes
      <3> QED
        BY <1>3, <3>1 DEF r, PointersWith, LaterNull
    <2>7. rule[3] \in {"start", "method", "spaces_before_uri", "after_slash_in_uri"} => r.uri_end = Null
      <3>1. rule[3] \in {"start", "method", "spaces_before_uri", "after_slash_in_uri"} =>
              st \in {"start", "method", "spaces_before_uri", "after_slash_in_uri"} /\ (st = "after_slash_in_uri" => x # SP)
        BY <2>1, LineEdges, LineStatesAre, Bytes
      <3> QED
        BY <1>3, <3>1 DEF r, PointersWith, LaterNull
    <2> QED
      BY <2>3, <2>4, <2>5, <2>6, <2>7 DEF LaterNull
  <1> QED
    BY <1>6, <1>7, Zenon DEF InLine, r, k

\* The pointers at the end of the line, as LineDone has them.
PointersAtEnd(at, st, x, q) == [PointersWith(at, st, x, q) EXCEPT !.request_end = IF @ = Null THEN at + 1 ELSE @]

\* The line is read and nothing behind it.
LineJust(t, b, at, q, w) == Line(t, b, at, q, w) /\ LineEnd(t, b, q) = b + at

\* The line feed that ends it.
LEMMA LineEnds ==
    ASSUME NEW t \in Seq(Byte), NEW b \in Nat, NEW at \in Nat, NEW n, n = b + at, n < Len(t), NEW q \in Pointer, NEW w \in Numbers,
           NEW st, InLine(t, b, at, st, q, w), NEW x, x = t[n + 1], NEW rule \in LineRules, x \in rule[2], rule[1] = st,
           rule[3] = "done", NEW r \in Pointer,
           r = PointersAtEnd(at, st, x, q)
    PROVE  LineJust(t, b, at + 1, r, w)
  <1> DEFINE a == b + q.request_start
             m == b + q.method_end
             u == b + q.uri_start
             v == b + q.uri_end
             k == at + 1
  <1>1. /\ q.request_start \in Nat /\ q.method_end \in Nat /\ q.uri_start \in Nat /\ q.uri_end \in Nat
    BY DEF Pointer
  <1>2. n \in Nat /\ b <= n /\ n + 1 = b + k /\ k \in Nat /\ k > 0
    BY SMTT(40)
  <1>8. \A i \in Nat : b + i \in Nat
    OBVIOUS
  <1>9. a \in Nat /\ m \in Nat /\ u \in Nat /\ v \in Nat
    BY <1>1, <1>8, Zenon
  <1>3. LineAt(t, b, st, n, a, m, u, v, w) /\ LaterNull(at, st, q)
    BY Zenon DEF InLine
  <1>4. LineBehind(t, b, st, x, rule[3], n, a, m, u, v, w)
    <2> HIDE DEF a, m, u, v, k
    <2> QED
      BY <1>2, <1>3, <1>9, LineEdge, Zenon
  <1>5. LineRead(t, b, a, m, u, v, w, n + 1) /\ x = LF /\ st \in {"minor_digit", "spaces_after_digit", "almost_done"}
    BY <1>4, Zenon DEF LineBehind
  <1>6. r.request_start = q.request_start /\ r.method_end = q.method_end /\ r.uri_start = q.uri_start /\ r.uri_end = q.uri_end
    BY <1>5 DEF PointersWith, PointersAtEnd
  <1>7. /\ r.request_end \in Nat /\ r.request_end > 0 /\ t[b + r.request_end] \in {CR, LF} /\ LineEnd(t, b, r) = b + k
        /\ t[b + r.request_end] = LF => t[(b + r.request_end) - 1] # CR
    <2>1. CASE st = "almost_done"
      <3>1. MethodUri(t, b, a, m, u, v) /\ v <= n /\ t[n] = CR
        <4> HIDE DEF a, m, u, v
        <4> QED
          BY <1>3, <2>1, LineAtIs, SMTT(40)
      <3>2. b < a /\ a < m /\ m < u /\ u < v
        BY <3>1 DEF MethodUri, WordAt, WordTo, UriAt, UriTo
      <3>3. b < n
        <4> HIDE DEF a, m, u, v
        <4> QED
          BY <1>2, <1>9, <3>1, <3>2, SMTT(40)
      <3>4. at > 0 /\ (at + 1) - 1 = at /\ at # Null
        BY <3>3 DEF Null
      <3>5. r.request_end = at
        BY <2>1, <3>4 DEF PointersWith, PointersAtEnd
      <3>6. b + at + 1 = b + k
        OBVIOUS
      <3>7. LineEnd(t, b, r) = b + at + 1
        BY <3>1, <3>5 DEF LineEnd
      <3> QED
        BY <3>1, <3>4, <3>5, <3>6, <3>7, Bytes
    <2>2. CASE st # "almost_done"
      <3>1. r.request_end = k
        BY <1>3, <2>2 DEF PointersWith, PointersAtEnd, LaterNull
      <3> HIDE DEF k
      <3>4. t[b + k] = LF
        BY <1>2, <1>5
      <3>2. t[b + k] = LF /\ LF # CR /\ b + k + 0 = b + k
        BY <1>2, <3>4, Bytes
      <3>3. LineEnd(t, b, r) = b + k + 0
        BY <3>1, <3>2 DEF LineEnd
      <3>5. t[n] # CR
        <4> HIDE DEF a, m, u, v
        <4>1. CASE st = "minor_digit"
          <5>1. \E h, d \in v..n : MinorTo(t, d, n + 1)
            BY <1>3, <4>1, LineAtIs
          <5>2. PICK d \in v..n : MinorTo(t, d, n + 1)
            BY <5>1
          <5>3. d + 1 < n + 1 /\ AllOf(t, d + 1, (n + 1) - 1, Digit)
            BY <5>2 DEF MinorTo
          <5>4. n \in (d + 1)..((n + 1) - 1)
            BY <1>2, <1>9, <5>3
          <5> QED
            BY <5>3, <5>4, Bytes DEF AllOf
        <4>2. CASE st = "spaces_after_digit"
          <5>0. LineAt(t, b, "spaces_after_digit", n, a, m, u, v, w)
            BY <1>3, <4>2
          <5>1. \E h, d, z \in v..n :
                  DotAt(t, v, h, d) /\ MajorIs(t, w, h, d) /\ MinorTo(t, d, z) /\ MinorIs(t, w, d, n) /\ AllOf(t, z, n, {SP})
            BY <5>0, Zenon DEF LineAt
          <5>2. PICK z \in v..n : AllOf(t, z, n, {SP})
            BY <5>1
          <5>3. n \in z..n
            BY <1>2, <1>9, <5>2
          <5> QED
            BY <5>2, <5>3, Bytes DEF AllOf
        <4> QED
          BY <1>5, <2>2, <4>1, <4>2
      <3>6. (b + k) - 1 = n
        BY <1>2
      <3> QED
        BY <1>2, <3>1, <3>2, <3>3, <3>5, <3>6
    <2> QED
      BY <2>1, <2>2
  <1>10. b + r.request_start = a /\ b + r.method_end = m /\ b + r.uri_start = u /\ b + r.uri_end = v
    BY <1>6
  <1> HIDE DEF a, m, u, v, k
  <1>11. LineEnd(t, b, r) <= b + k
    BY <1>2, <1>7
  <1>12. LineRead(t, b, b + r.request_start, b + r.method_end, b + r.uri_start, b + r.uri_end, w, LineEnd(t, b, r))
    BY <1>2, <1>5, <1>7, <1>10
  <1>13. Line(t, b, k, r, w)
    BY <1>7, <1>11, <1>12, Zenon DEF Line
  <1> QED
    BY <1>7, <1>13 DEF k, LineJust
-----------------------------------------------------------------------------
(* A byte of the header lines.                                              *)

\* The header with one more byte x, as MarkHeader has it.
HeaderWith(at, st, x, c) ==
    [ks |-> IF st \in {"start", "crlf"} /\ x # CR THEN at + 1 ELSE c.ks,
     ke |-> IF st = "key" /\ x \in {SP, ":"} THEN at + 1 ELSE c.ke,
     vs |-> IF st = "spaces_after_colon" /\ x # SP THEN at + 1 ELSE c.vs,
     ve |-> IF st = "value" /\ x = CR THEN at + 1 ELSE c.ve]

\* It is one.
LEMMA HeaderTyped ==
    ASSUME NEW at \in Nat, NEW st, NEW x, NEW c \in Header
    PROVE  HeaderWith(at, st, x, c) \in Header
  <1>1. c.ks \in Nat /\ c.ke \in Nat /\ c.vs \in Nat /\ c.ve \in Nat /\ at + 1 \in Nat
    BY DEF Header
  <1> QED
    BY <1>1 DEF HeaderWith, Header

\* Behind an edge of the table that stays in the line.
HeaderBehind(t, from, st, x, next, k, p, ks, ke, vs, ve) ==
    HeaderAt(t, from, next, k, p, IF st \in {"start", "crlf"} /\ x # CR THEN k ELSE ks,
             IF st = "key" /\ x \in {SP, ":"} THEN k ELSE ke, IF st = "spaces_after_colon" /\ x # SP THEN k ELSE vs,
             IF st = "value" /\ x = CR THEN k ELSE ve)

\* From start.
LEMMA BehindStart ==
    ASSUME NEW t \in Seq(Byte), NEW from \in Nat, NEW n \in Nat, NEW p \in Nat, NEW ks \in Nat, NEW ke \in Nat, NEW vs \in Nat,
           NEW ve \in Nat, NEW k \in Nat, k = n + 1, n < Len(t), NEW x, x = t[k], NEW rule \in HeaderRules, x \in rule[2],
           rule[1] = "start", HeaderAt(t, from, "start", n, p, ks, ke, vs, ve)
    PROVE  HeaderBehind(t, from, "start", x, rule[3], k, p, ks, ke, vs, ve)
  <1>1. CASE rule[2] = {CR} /\ rule[3] = "crlfcr"
    <2>1. x = CR
      BY <1>1
    <2>2. HeaderAt(t, from, "crlfcr", k, p, ks, ke, vs, ve)
      BY <2>1, HeaderStart
    <2>3. /\ (IF "start" \in {"start", "crlf"} /\ x # CR THEN k ELSE ks) = ks
          /\ (IF "start" = "key" /\ x \in {SP, ":"} THEN k ELSE ke) = ke
          /\ (IF "start" = "spaces_after_colon" /\ x # SP THEN k ELSE vs) = vs
          /\ (IF "start" = "value" /\ x = CR THEN k ELSE ve) = ve
      BY <2>1, Bytes
    <2> QED
      BY <1>1, <2>2, <2>3 DEF HeaderBehind
  <1>2. CASE rule[2] = Byte \ {CR, LF} /\ rule[3] = "key"
    <2>1. x # CR /\ x # LF /\ x \notin {CR, LF}
      BY <1>2
    <2>2. HeaderAt(t, from, "key", k, p, k, ke, vs, ve)
      BY <2>1, HeaderStart
    <2>3. /\ (IF "start" \in {"start", "crlf"} /\ x # CR THEN k ELSE ks) = k
          /\ (IF "start" = "key" /\ x \in {SP, ":"} THEN k ELSE ke) = ke
          /\ (IF "start" = "spaces_after_colon" /\ x # SP THEN k ELSE vs) = vs
          /\ (IF "start" = "value" /\ x = CR THEN k ELSE ve) = ve
      BY <2>1, Bytes
    <2> QED
      BY <1>2, <2>2, <2>3 DEF HeaderBehind
  <1> QED
    BY <1>1, <1>2, HeaderEdges

\* From crlf.
LEMMA BehindNext ==
    ASSUME NEW t \in Seq(Byte), NEW from \in Nat, NEW n \in Nat, NEW p \in Nat, NEW ks \in Nat, NEW ke \in Nat, NEW vs \in Nat,
           NEW ve \in Nat, NEW k \in Nat, k = n + 1, n < Len(t), NEW x, x = t[k], NEW rule \in HeaderRules, x \in rule[2],
           rule[1] = "crlf", HeaderAt(t, from, "crlf", n, p, ks, ke, vs, ve)
    PROVE  HeaderBehind(t, from, "crlf", x, rule[3], k, p, ks, ke, vs, ve)
  <1>1. CASE rule[2] = {CR} /\ rule[3] = "crlfcr"
    <2>1. x = CR
      BY <1>1
    <2>2. HeaderAt(t, from, "crlfcr", k, p, ks, ke, vs, ve)
      BY <2>1, HeaderNext
    <2>3. /\ (IF "crlf" \in {"start", "crlf"} /\ x # CR THEN k ELSE ks) = ks
          /\ (IF "crlf" = "key" /\ x \in {SP, ":"} THEN k ELSE ke) = ke
          /\ (IF "crlf" = "spaces_after_colon" /\ x # SP THEN k ELSE vs) = vs
          /\ (IF "crlf" = "value" /\ x = CR THEN k ELSE ve) = ve
      BY <2>1, Bytes
    <2> QED
      BY <1>1, <2>2, <2>3 DEF HeaderBehind
  <1>2. CASE rule[2] = Byte \ {CR} /\ rule[3] = "key"
    <2>1. x # CR
      BY <1>2
    <2>2. HeaderAt(t, from, "key", k, p, k, ke, vs, ve)
      BY <2>1, HeaderNext
    <2>3. /\ (IF "crlf" \in {"start", "crlf"} /\ x # CR THEN k ELSE ks) = k
          /\ (IF "crlf" = "key" /\ x \in {SP, ":"} THEN k ELSE ke) = ke
          /\ (IF "crlf" = "spaces_after_colon" /\ x # SP THEN k ELSE vs) = vs
          /\ (IF "crlf" = "value" /\ x = CR THEN k ELSE ve) = ve
      BY <2>1, Bytes
    <2> QED
      BY <1>2, <2>2, <2>3 DEF HeaderBehind
  <1> QED
    BY <1>1, <1>2, HeaderEdges

\* From key.
LEMMA BehindKey ==
    ASSUME NEW t \in Seq(Byte), NEW from \in Nat, NEW n \in Nat, NEW p \in Nat, NEW ks \in Nat, NEW ke \in Nat, NEW vs \in Nat,
           NEW ve \in Nat, NEW k \in Nat, k = n + 1, n < Len(t), NEW x, x = t[k], NEW rule \in HeaderRules, x \in rule[2],
           rule[1] = "key", HeaderAt(t, from, "key", n, p, ks, ke, vs, ve)
    PROVE  HeaderBehind(t, from, "key", x, rule[3], k, p, ks, ke, vs, ve)
  <1>1. CASE rule[2] = {SP} /\ rule[3] = "spaces_before_colon"
    <2>1. x = SP
      BY <1>1
    <2>2. HeaderAt(t, from, "spaces_before_colon", k, p, ks, k, vs, ve)
      BY <2>1, HeaderKey
    <2>3. /\ (IF "key" \in {"start", "crlf"} /\ x # CR THEN k ELSE ks) = ks
          /\ (IF "key" = "key" /\ x \in {SP, ":"} THEN k ELSE ke) = k
          /\ (IF "key" = "spaces_after_colon" /\ x # SP THEN k ELSE vs) = vs
          /\ (IF "key" = "value" /\ x = CR THEN k ELSE ve) = ve
      BY <2>1, Bytes
    <2> QED
      BY <1>1, <2>2, <2>3 DEF HeaderBehind
  <1>2. CASE rule[2] = {":"} /\ rule[3] = "spaces_after_colon"
    <2>1. x = ":"
      BY <1>2
    <2>2. HeaderAt(t, from, "spaces_after_colon", k, p, ks, k, vs, ve)
      BY <2>1, HeaderKey
    <2>3. /\ (IF "key" \in {"start", "crlf"} /\ x # CR THEN k ELSE ks) = ks
          /\ (IF "key" = "key" /\ x \in {SP, ":"} THEN k ELSE ke) = k
          /\ (IF "key" = "spaces_after_colon" /\ x # SP THEN k ELSE vs) = vs
          /\ (IF "key" = "value" /\ x = CR THEN k ELSE ve) = ve
      BY <2>1, Bytes
    <2> QED
      BY <1>2, <2>2, <2>3 DEF HeaderBehind
  <1>3. CASE rule[2] = Byte \ {SP, ":"} /\ rule[3] = "key"
    <2>1. x \notin {SP, ":"} /\ x # SP /\ x # ":"
      BY <1>3
    <2>2. HeaderAt(t, from, "key", k, p, ks, ke, vs, ve)
      BY <2>1, HeaderKey
    <2>3. /\ (IF "key" \in {"start", "crlf"} /\ x # CR THEN k ELSE ks) = ks
          /\ (IF "key" = "key" /\ x \in {SP, ":"} THEN k ELSE ke) = ke
          /\ (IF "key" = "spaces_after_colon" /\ x # SP THEN k ELSE vs) = vs
          /\ (IF "key" = "value" /\ x = CR THEN k ELSE ve) = ve
      BY <2>1, Bytes
    <2> QED
      BY <1>3, <2>2, <2>3 DEF HeaderBehind
  <1> QED
    BY <1>1, <1>2, <1>3, HeaderEdges

\* From spaces_before_colon.
LEMMA BehindBeforeColon ==
    ASSUME NEW t \in Seq(Byte), NEW from \in Nat, NEW n \in Nat, NEW p \in Nat, NEW ks \in Nat, NEW ke \in Nat, NEW vs \in Nat,
           NEW ve \in Nat, NEW k \in Nat, k = n + 1, n < Len(t), NEW x, x = t[k], NEW rule \in HeaderRules, x \in rule[2],
           rule[1] = "spaces_before_colon", HeaderAt(t, from, "spaces_before_colon", n, p, ks, ke, vs, ve)
    PROVE  HeaderBehind(t, from, "spaces_before_colon", x, rule[3], k, p, ks, ke, vs, ve)
  <1>1. CASE rule[2] = {SP} /\ rule[3] = "spaces_before_colon"
    <2>1. x = SP
      BY <1>1
    <2>2. HeaderAt(t, from, "spaces_before_colon", k, p, ks, ke, vs, ve)
      BY <2>1, HeaderBeforeColon
    <2>3. /\ (IF "spaces_before_colon" \in {"start", "crlf"} /\ x # CR THEN k ELSE ks) = ks
          /\ (IF "spaces_before_colon" = "key" /\ x \in {SP, ":"} THEN k ELSE ke) = ke
          /\ (IF "spaces_before_colon" = "spaces_after_colon" /\ x # SP THEN k ELSE vs) = vs
          /\ (IF "spaces_before_colon" = "value" /\ x = CR THEN k ELSE ve) = ve
      BY <2>1, Bytes
    <2> QED
      BY <1>1, <2>2, <2>3 DEF HeaderBehind
  <1>2. CASE rule[2] = {":"} /\ rule[3] = "spaces_after_colon"
    <2>1. x = ":"
      BY <1>2
    <2>2. HeaderAt(t, from, "spaces_after_colon", k, p, ks, ke, vs, ve)
      BY <2>1, HeaderBeforeColon
    <2>3. /\ (IF "spaces_before_colon" \in {"start", "crlf"} /\ x # CR THEN k ELSE ks) = ks
          /\ (IF "spaces_before_colon" = "key" /\ x \in {SP, ":"} THEN k ELSE ke) = ke
          /\ (IF "spaces_before_colon" = "spaces_after_colon" /\ x # SP THEN k ELSE vs) = vs
          /\ (IF "spaces_before_colon" = "value" /\ x = CR THEN k ELSE ve) = ve
      BY <2>1, Bytes
    <2> QED
      BY <1>2, <2>2, <2>3 DEF HeaderBehind
  <1> QED
    BY <1>1, <1>2, HeaderEdges

\* From spaces_after_colon.
LEMMA BehindAfterColon ==
    ASSUME NEW t \in Seq(Byte), NEW from \in Nat, NEW n \in Nat, NEW p \in Nat, NEW ks \in Nat, NEW ke \in Nat, NEW vs \in Nat,
           NEW ve \in Nat, NEW k \in Nat, k = n + 1, n < Len(t), NEW x, x = t[k], NEW rule \in HeaderRules, x \in rule[2],
           rule[1] = "spaces_after_colon", HeaderAt(t, from, "spaces_after_colon", n, p, ks, ke, vs, ve)
    PROVE  HeaderBehind(t, from, "spaces_after_colon", x, rule[3], k, p, ks, ke, vs, ve)
  <1>1. CASE rule[2] = {SP} /\ rule[3] = "spaces_after_colon"
    <2>1. x = SP
      BY <1>1
    <2>2. HeaderAt(t, from, "spaces_after_colon", k, p, ks, ke, vs, ve)
      BY <2>1, HeaderAfterColon
    <2>3. /\ (IF "spaces_after_colon" \in {"start", "crlf"} /\ x # CR THEN k ELSE ks) = ks
          /\ (IF "spaces_after_colon" = "key" /\ x \in {SP, ":"} THEN k ELSE ke) = ke
          /\ (IF "spaces_after_colon" = "spaces_after_colon" /\ x # SP THEN k ELSE vs) = vs
          /\ (IF "spaces_after_colon" = "value" /\ x = CR THEN k ELSE ve) = ve
      BY <2>1, Bytes
    <2> QED
      BY <1>1, <2>2, <2>3 DEF HeaderBehind
  <1>2. CASE rule[2] = Byte \ {SP} /\ rule[3] = "value"
    <2>1. x # SP
      BY <1>2
    <2>2. HeaderAt(t, from, "value", k, p, ks, ke, k, ve)
      BY <2>1, HeaderAfterColon
    <2>3. /\ (IF "spaces_after_colon" \in {"start", "crlf"} /\ x # CR THEN k ELSE ks) = ks
          /\ (IF "spaces_after_colon" = "key" /\ x \in {SP, ":"} THEN k ELSE ke) = ke
          /\ (IF "spaces_after_colon" = "spaces_after_colon" /\ x # SP THEN k ELSE vs) = k
          /\ (IF "spaces_after_colon" = "value" /\ x = CR THEN k ELSE ve) = ve
      BY <2>1, Bytes
    <2> QED
      BY <1>2, <2>2, <2>3 DEF HeaderBehind
  <1> QED
    BY <1>1, <1>2, HeaderEdges

\* From value.
LEMMA BehindValue ==
    ASSUME NEW t \in Seq(Byte), NEW from \in Nat, NEW n \in Nat, NEW p \in Nat, NEW ks \in Nat, NEW ke \in Nat, NEW vs \in Nat,
           NEW ve \in Nat, NEW k \in Nat, k = n + 1, n < Len(t), NEW x, x = t[k], NEW rule \in HeaderRules, x \in rule[2],
           rule[1] = "value", HeaderAt(t, from, "value", n, p, ks, ke, vs, ve)
    PROVE  HeaderBehind(t, from, "value", x, rule[3], k, p, ks, ke, vs, ve)
  <1>1. CASE rule[2] = {CR} /\ rule[3] = "cr"
    <2>1. x = CR
      BY <1>1
    <2>2. HeaderAt(t, from, "cr", k, p, ks, ke, vs, k)
      BY <2>1, HeaderValue
    <2>3. /\ (IF "value" \in {"start", "crlf"} /\ x # CR THEN k ELSE ks) = ks
          /\ (IF "value" = "key" /\ x \in {SP, ":"} THEN k ELSE ke) = ke
          /\ (IF "value" = "spaces_after_colon" /\ x # SP THEN k ELSE vs) = vs
          /\ (IF "value" = "value" /\ x = CR THEN k ELSE ve) = k
      BY <2>1, Bytes
    <2> QED
      BY <1>1, <2>2, <2>3 DEF HeaderBehind
  <1>2. CASE rule[2] = Byte \ {CR, LF} /\ rule[3] = "value"
    <2>1. x # CR /\ x # LF /\ x \notin {CR, LF}
      BY <1>2
    <2>2. HeaderAt(t, from, "value", k, p, ks, ke, vs, ve)
      BY <2>1, HeaderValue
    <2>3. /\ (IF "value" \in {"start", "crlf"} /\ x # CR THEN k ELSE ks) = ks
          /\ (IF "value" = "key" /\ x \in {SP, ":"} THEN k ELSE ke) = ke
          /\ (IF "value" = "spaces_after_colon" /\ x # SP THEN k ELSE vs) = vs
          /\ (IF "value" = "value" /\ x = CR THEN k ELSE ve) = ve
      BY <2>1, Bytes
    <2> QED
      BY <1>2, <2>2, <2>3 DEF HeaderBehind
  <1> QED
    BY <1>1, <1>2, HeaderEdges

\* From any state, but for the line feeds.
LEMMA HeaderEdge ==
    ASSUME NEW t \in Seq(Byte), NEW from \in Nat, NEW n \in Nat, NEW p \in Nat, NEW ks \in Nat, NEW ke \in Nat, NEW vs \in Nat,
           NEW ve \in Nat, NEW k \in Nat, k = n + 1, n < Len(t), NEW x, x = t[k], NEW rule \in HeaderRules, x \in rule[2],
           NEW st, rule[1] = st, st # "cr", rule[3] # "done", HeaderAt(t, from, st, n, p, ks, ke, vs, ve)
    PROVE  HeaderBehind(t, from, st, x, rule[3], k, p, ks, ke, vs, ve)
  <1>1. st \in HeaderStates
    BY DEF HeaderStates
  <1>2. st # "crlfcr"
    BY HeaderEdges
  <1>3. CASE st = "start"
    <2>1. rule[1] = "start" /\ HeaderAt(t, from, "start", n, p, ks, ke, vs, ve)
      BY <1>3
    <2>2. HeaderBehind(t, from, "start", x, rule[3], k, p, ks, ke, vs, ve)
      BY <2>1, BehindStart, Zenon
    <2> QED
      BY <1>3, <2>2
  <1>4. CASE st = "crlf"
    <2>1. rule[1] = "crlf" /\ HeaderAt(t, from, "crlf", n, p, ks, ke, vs, ve)
      BY <1>4
    <2>2. HeaderBehind(t, from, "crlf", x, rule[3], k, p, ks, ke, vs, ve)
      BY <2>1, BehindNext, Zenon
    <2> QED
      BY <1>4, <2>2
  <1>5. CASE st = "key"
    <2>1. rule[1] = "key" /\ HeaderAt(t, from, "key", n, p, ks, ke, vs, ve)
      BY <1>5
    <2>2. HeaderBehind(t, from, "key", x, rule[3], k, p, ks, ke, vs, ve)
      BY <2>1, BehindKey, Zenon
    <2> QED
      BY <1>5, <2>2
  <1>6. CASE st = "spaces_before_colon"
    <2>1. rule[1] = "spaces_before_colon" /\ HeaderAt(t, from, "spaces_before_colon", n, p, ks, ke, vs, ve)
      BY <1>6
    <2>2. HeaderBehind(t, from, "spaces_before_colon", x, rule[3], k, p, ks, ke, vs, ve)
      BY <2>1, BehindBeforeColon, Zenon
    <2> QED
      BY <1>6, <2>2
  <1>7. CASE st = "spaces_after_colon"
    <2>1. rule[1] = "spaces_after_colon" /\ HeaderAt(t, from, "spaces_after_colon", n, p, ks, ke, vs, ve)
      BY <1>7
    <2>2. HeaderBehind(t, from, "spaces_after_colon", x, rule[3], k, p, ks, ke, vs, ve)
      BY <2>1, BehindAfterColon, Zenon
    <2> QED
      BY <1>7, <2>2
  <1>8. CASE st = "value"
    <2>1. rule[1] = "value" /\ HeaderAt(t, from, "value", n, p, ks, ke, vs, ve)
      BY <1>8
    <2>2. HeaderBehind(t, from, "value", x, rule[3], k, p, ks, ke, vs, ve)
      BY <2>1, BehindValue, Zenon
    <2> QED
      BY <1>8, <2>2
  <1> QED
    BY <1>1, <1>2, <1>3, <1>4, <1>5, <1>6, <1>7, <1>8, HeaderStatesAre

\* A byte that does not end a header line.
LEMMA HeaderStep ==
    ASSUME NEW t \in Seq(Byte), NEW b \in Nat, NEW at \in Nat, NEW n, n = b + at, n < Len(t), NEW from \in Nat, NEW p \in Nat,
           NEW c \in Header, NEW st, HeaderAt(t, from, st, b + at, p, b + c.ks, b + c.ke, b + c.vs, b + c.ve),
           NEW x, x = t[n + 1], NEW rule \in HeaderRules, x \in rule[2], rule[1] = st, st # "cr", rule[3] # "done",
           NEW d, d = HeaderWith(at, st, x, c)
    PROVE  HeaderAt(t, from, rule[3], b + (at + 1), p, b + d.ks, b + d.ke, b + d.vs, b + d.ve)
  <1> DEFINE ks == b + c.ks
             ke == b + c.ke
             vs == b + c.vs
             ve == b + c.ve
             k == b + (at + 1)
  <1>1. c.ks \in Nat /\ c.ke \in Nat /\ c.vs \in Nat /\ c.ve \in Nat
    BY DEF Header
  <1>2. n \in Nat /\ k \in Nat /\ k = n + 1
    OBVIOUS
  <1>3. \A i \in Nat : b + i \in Nat
    OBVIOUS
  <1>4. ks \in Nat /\ ke \in Nat /\ vs \in Nat /\ ve \in Nat
    BY <1>1, <1>3, Zenon
  <1>5. /\ b + d.ks = IF st \in {"start", "crlf"} /\ x # CR THEN k ELSE ks
        /\ b + d.ke = IF st = "key" /\ x \in {SP, ":"} THEN k ELSE ke
        /\ b + d.vs = IF st = "spaces_after_colon" /\ x # SP THEN k ELSE vs
        /\ b + d.ve = IF st = "value" /\ x = CR THEN k ELSE ve
    BY DEF HeaderWith
  <1>6. HeaderAt(t, from, st, n, p, ks, ke, vs, ve)
    OBVIOUS
  <1> HIDE DEF ks, ke, vs, ve, k
  <1>7. x = t[k]
    BY <1>2
  <1>8. HeaderBehind(t, from, st, x, rule[3], k, p, ks, ke, vs, ve)
    BY <1>2, <1>4, <1>6, <1>7, HeaderEdge, ZenonT(60)
  <1> QED
    BY <1>5, <1>8 DEF HeaderBehind, k

\* The line feed that ends one: the header is put before the list.
LEMMA HeaderAdded ==
    ASSUME NEW t \in Seq(Byte), NEW b \in Nat, NEW n \in Nat, NEW k \in Nat, k = n + 1, n < Len(t), NEW from \in Nat, from <= k,
           NEW l \in Seq(Header), Chain(t, b, from, l, n), NEW c \in Header,
           NEW p \in Nat, p = NextAt(b, from, l, 1),
           HeaderAt(t, from, "cr", n, p, b + c.ks, b + c.ke, b + c.vs, b + c.ve), t[k] = LF, NEW g, g = <<c>> \o l
    PROVE  /\ g \in Seq(Header) /\ Chain(t, b, from, g, k)
           /\ \A ks, ke, vs, ve : HeaderAt(t, from, "crlf", k, NextAt(b, from, g, 1), ks, ke, vs, ve)
  <1> DEFINE L == Len(l)
             ks == b + c.ks
             ke == b + c.ke
             vs == b + c.vs
             ve == b + c.ve
  <1>1. c.ks \in Nat /\ c.ke \in Nat /\ c.vs \in Nat /\ c.ve \in Nat
    BY DEF Header
  <1>2. n \in Nat /\ k \in Nat /\ k = n + 1 /\ L \in Nat
    BY LenProperties
  <1>3. \A i \in Nat : b + i \in Nat
    OBVIOUS
  <1>4. ks \in Nat /\ ke \in Nat /\ vs \in Nat /\ ve \in Nat
    BY <1>1, <1>3, Zenon
  <1>5. HeaderAt(t, from, "cr", n, p, ks, ke, vs, ve)
    OBVIOUS
  <1>7. HeaderRead(t, from, ks, ke, vs, ve) /\ ks = p /\ k = ve + 1
    <2> HIDE DEF ks, ke, vs, ve
    <2>1. KeyAt(t, from, p) /\ ks = p /\ KeyTo(t, p, ke)
      BY <1>5, Zenon DEF HeaderAt
    <2>2. (\E d \in ke..vs : ColonAt(t, ke, d) /\ ValueAt(t, d, vs)) /\ ve = n /\ ValueTo(t, vs, ve)
      BY <1>5, Zenon DEF HeaderAt
    <2>3. k = ve + 1
      BY <1>2, <2>2
    <2>4. HeaderRead(t, from, p, ke, vs, ve)
      BY <2>1, <2>2, <2>3, Zenon DEF HeaderRead
    <2> QED
      BY <2>1, <2>3, <2>4
  <1>8. /\ g \in Seq(Header) /\ Len(g) = L + 1 /\ g[1] = c
        /\ \A i \in 1..L : g[i + 1] = l[i]
    <2> DEFINE y == <<c>>
    <2>1. y \in Seq(Header) /\ Len(y) = 1 /\ y[1] = c
      OBVIOUS
    <2> HIDE DEF y
    <2>2. /\ y \o l \in Seq(Header) /\ Len(y \o l) = Len(y) + L
          /\ \A i \in 1..(Len(y) + L) : (y \o l)[i] = IF i <= Len(y) THEN y[i] ELSE l[i - Len(y)]
      BY <2>1, ConcatProperties
    <2>3. g = y \o l
      BY DEF y
    <2> HIDE DEF L
    <2>4. /\ g \in Seq(Header) /\ Len(g) = 1 + L
          /\ \A i \in 1..(1 + L) : g[i] = IF i <= 1 THEN y[i] ELSE l[i - 1]
      BY <2>1, <2>2, <2>3
    <2>5. \A i \in 1..L : i + 1 \in 1..(1 + L) /\ ~(i + 1 <= 1) /\ (i + 1) - 1 = i
      BY <1>2
    <2>6. 1 \in 1..(1 + L) /\ 1 + L = L + 1
      BY <1>2
    <2>7. g[1] = c
      BY <2>1, <2>4, <2>6
    <2>8. \A i \in 1..L : g[i + 1] = l[i]
      BY <2>4, <2>5
    <2> QED
      BY <2>4, <2>6, <2>7, <2>8
  <1>9. \A i \in 1..(L + 1) : NextAt(b, from, g, i + 1) = NextAt(b, from, l, i)
    <2> TAKE i \in 1..(L + 1)
    <2>1. CASE i = L + 1
      <3>1. i + 1 > L + 1 /\ i > L
        BY <1>2, <2>1, SMTT(40)
      <3> QED
        BY <1>8, <3>1 DEF NextAt
    <2>2. CASE i # L + 1
      <3>1. i \in 1..L /\ ~(i + 1 > L + 1) /\ ~(i > L)
        BY <1>2, <2>2, SMTT(40)
      <3> QED
        BY <1>8, <3>1 DEF NextAt
    <2> QED
      BY <2>1, <2>2
  <1>10. NextAt(b, from, g, 1) = ve + 2
    <2>1. ~(1 > L + 1)
      BY <1>2
    <2> QED
      BY <1>8, <2>1 DEF NextAt
  <1>11. Chain(t, b, from, g, k)
    <2>1. ASSUME NEW i \in 1..Len(g)
          PROVE  /\ b + g[i].ks = NextAt(b, from, g, i + 1)
                 /\ HeaderRead(t, from, b + g[i].ks, b + g[i].ke, b + g[i].vs, b + g[i].ve)
                 /\ b + g[i].ve < k
      <3>1. CASE i = 1
        <4>1. 1 \in 1..(L + 1)
          BY <1>2
        <4>2. NextAt(b, from, g, 1 + 1) = p
          BY <1>9, <4>1
        <4>3. ve < k
          <5> HIDE DEF ve
          <5> QED
            BY <1>2, <1>4, <1>7
        <4> QED
          BY <1>7, <1>8, <3>1, <4>2, <4>3
      <3>2. CASE i # 1
        <4> DEFINE j == i - 1
        <4>1. j \in 1..L /\ j + 1 = i /\ j + 1 \in 1..(L + 1)
          BY <1>2, <1>8, <3>2, SMTT(40)
        <4> HIDE DEF j
        <4>2. g[i] = l[j]
          BY <1>8, <4>1
        <4>3. NextAt(b, from, g, i + 1) = NextAt(b, from, l, j + 1)
          BY <1>9, <4>1
        <4>4. /\ b + l[j].ks = NextAt(b, from, l, j + 1)
              /\ HeaderRead(t, from, b + l[j].ks, b + l[j].ke, b + l[j].vs, b + l[j].ve)
              /\ b + l[j].ve < n
          BY <4>1 DEF Chain
        <4>6. l[j] \in Header
          BY <4>1, ElementOfSeq
        <4> DEFINE y == l[j].ve
        <4>5. b + y < k
          <5>1. y \in Nat /\ b + y < n
            BY <4>4, <4>6 DEF Header
          <5> HIDE DEF y
          <5> QED
            BY <1>2, <5>1
        <4> QED
          BY <4>2, <4>3, <4>4, <4>5
      <3> QED
        BY <3>1, <3>2
    <2> QED
      BY <2>1 DEF Chain
  <1>12. k = (ve + 2) - 1 /\ ve + 2 # from
    <2> HIDE DEF ve
    <2> QED
      BY <1>2, <1>4, <1>7, SMTT(40)
  <1> HIDE DEF ve, L, ks, ke, vs
  <1>13. \A ks1, ke1, vs1, ve1 : HeaderAt(t, from, "crlf", k, ve + 2, ks1, ke1, vs1, ve1)
    <2> TAKE ks1, ke1, vs1, ve1
    <2> DEFINE y == ve + 2
    <2>1. k = y - 1 /\ y # from
      BY <1>12
    <2> HIDE DEF y
    <2>2. HeaderAt(t, from, "crlf", k, y, ks1, ke1, vs1, ve1)
      BY <2>1, Zenon DEF HeaderAt
    <2> QED
      BY <2>2 DEF y
  <1> QED
    BY <1>8, <1>10, <1>11, <1>13

\* The list is as long behind more bytes.
LEMMA ChainLater ==
    ASSUME NEW t, NEW b \in Nat, NEW from, NEW l \in Seq(Header), NEW n \in Nat, NEW k \in Nat, n <= k, Chain(t, b, from, l, n)
    PROVE  Chain(t, b, from, l, k)
  <1>1. ASSUME NEW i \in 1..Len(l) PROVE b + l[i].ve < k
    <2>1. l[i] \in Header
      BY ElementOfSeq
    <2> DEFINE y == l[i].ve
    <2>2. y \in Nat /\ b + y < n
      BY <2>1 DEF Chain, Header
    <2> HIDE DEF y
    <2>3. b + y < k
      BY <2>2
    <2> QED
      BY <2>3 DEF y
  <1> QED
    BY <1>1 DEF Chain
-----------------------------------------------------------------------------
(* The invariant of the parsers, in every state of the connection.          *)

\* How much of the buffer is parsed, and the states of the two parsers.
At     == IF pc \in {"line", "hdr"} THEN pi ELSE parse_pos
LineSt == IF pc = "line" THEN sw ELSE request_line_state
HdrSt  == IF pc = "hdr" THEN sw ELSE header_state

PtrTypes  == ptr \in Pointer /\ cur \in Header /\ list \in Seq(Header)
ParserAt  == pc # "closed" => Parser(client.bytes, Base, At, parse_phase, LineSt, HdrSt, ptr, version, cur, list)
CauseNone == pc # "closed" => cause = "none"

\* What is refused is no request, or one that is too long.
NoneRefused ==
    /\ cause = "bad" => ~Request(client.bytes, Base).ok
    /\ OverflowOnlyTooLong

\* A request the reference finds has been taken for what it is.
SameAs(q, f) ==
    /\ f.ok
    /\ q.end = f.end /\ q.method = f.method /\ q.uri = f.uri
    /\ q.v11 = f.v11 /\ q.headers = f.headers
Found == pc = "handle" => SameAs(Last(reqs), Request(client.bytes, Last(reqs).begin))

PInv == PtrTypes /\ ParserAt /\ CauseNone /\ NoneRefused /\ Found

\* A byte of the buffer is one of the stream.
LEMMA BufAt ==
    ASSUME Inv, NEW k \in 1..Len(buf)
    PROVE  buf[k] = client.bytes[Base + k]
  <1> DEFINE s == client.bytes
             b == Base
             m == b + 1
             l == Len(buf)
  <1>1. s \in Seq(Byte) /\ b \in Nat /\ taken \in Nat /\ taken <= Len(s) /\ l \in Nat /\ taken = b + l /\ Len(s) \in Nat
    BY Sizes DEF Base
  <1>2. buf = SubSeq(s, m, taken)
    BY DEF Inv, BufferIsStream
  <1> HIDE DEF s, b
  <1>3. m \in Nat /\ 1 <= m /\ m <= taken + 1 /\ taken - m + 1 = l /\ k \in 1..l /\ m + k - 1 = b + k
    BY <1>1
  <1> HIDE DEF m, l
  <1>4. \A i \in 1..(taken - m + 1) : SubSeq(s, m, taken)[i] = s[m + i - 1]
    BY <1>1, <1>3, Part
  <1>5. SubSeq(s, m, taken)[k] = s[b + k]
    BY <1>3, <1>4
  <1> QED
    BY <1>2, <1>5 DEF s, b

\* A text in the buffer is one in the stream.
LEMMA TextIs ==
    ASSUME Inv, NEW i \in Nat, NEW j \in Nat, 1 <= i, i <= j, j <= Len(buf) + 1
    PROVE  Text(i, j) = SubSeq(client.bytes, Base + i, (Base + j) - 1)
  <1> DEFINE s == client.bytes
             b == Base
             l == Len(buf)
             e == j - 1
             c == b + i
             d == (b + j) - 1
             x == SubSeq(buf, i, e)
             y == SubSeq(s, c, d)
  <1>1. /\ s \in Seq(Byte) /\ b \in Nat /\ taken \in Nat /\ taken <= Len(s) /\ l \in Nat /\ taken = b + l
        /\ Len(s) \in Nat /\ buf \in Seq(Byte)
    BY Sizes, SMTT(40) DEF Base
  <1>2. \A k \in 1..l : buf[k] = s[b + k]
    BY BufAt
  <1>3. /\ e \in Nat /\ i <= e + 1 /\ e <= l /\ c \in Nat /\ d \in Nat /\ 1 <= c /\ c <= d + 1 /\ d <= Len(s)
        /\ e - i + 1 = d - c + 1
        /\ \A k \in 1..(e - i + 1) : i + k - 1 \in 1..l /\ b + (i + k - 1) = c + k - 1
    BY <1>1
  <1> HIDE DEF s, b, l, e, c, d
  <1>4. /\ x \in Seq(Byte) /\ Len(x) = e - i + 1
        /\ \A k \in 1..(e - i + 1) : x[k] = buf[i + k - 1]
    BY <1>1, <1>3, Part, SMTT(40) DEF l
  <1>5. /\ y \in Seq(Byte) /\ Len(y) = d - c + 1
        /\ \A k \in 1..(d - c + 1) : y[k] = s[c + k - 1]
    BY <1>1, <1>3, Part
  <1> HIDE DEF x, y
  <1>6. \A k \in 1..Len(x) : x[k] = y[k]
    BY <1>2, <1>3, <1>4, <1>5, SMTT(40)
  <1>7. x = y
    BY <1>3, <1>4, <1>5, <1>6, SeqEqual
  <1> QED
    BY <1>7 DEF x, y, e, c, d, s, b, Text

\* Header k of the list is behind the line, in order, and behind the one before it.
HeaderInOrder(b, from, l, n, k) ==
    /\ l[k] \in Header /\ from <= b + l[k].ks /\ l[k].ks < l[k].ke /\ l[k].ke < l[k].vs /\ l[k].vs < l[k].ve
    /\ b + l[k].ve < n
    /\ k > 1 => l[k].ve < l[k - 1].ks

\* So are the headers of a list that is read.
LEMMA ChainInOrder ==
    ASSUME NEW t \in Seq(Byte), NEW b \in Nat, NEW from \in Nat, b < from, NEW l \in Seq(Header), NEW n \in Nat,
           n <= Len(t), Chain(t, b, from, l, n)
    PROVE  \A k \in 1..Len(l) : HeaderInOrder(b, from, l, n, k)
  <1> DEFINE L == Len(l)
  <1>1. L \in Nat /\ Len(t) \in Nat
    BY LenProperties
  <1>2. \A k \in 1..L : /\ l[k] \in Header /\ l[k].ks \in Nat /\ l[k].ke \in Nat /\ l[k].vs \in Nat /\ l[k].ve \in Nat
    <2> TAKE k \in 1..L
    <2>1. l[k] \in Header
      BY ElementOfSeq
    <2> QED
      BY <2>1 DEF Header
  <1>3. \A k \in 1..L : b + l[k].ks = IF k + 1 > L THEN from ELSE b + l[k + 1].ve + 2
    BY DEF Chain, NextAt
  <1>4. \A k \in 1..L : b + l[k].ks >= 1
    <2> TAKE k \in 1..L
    <2>1. CASE k + 1 > L
      BY <1>1, <1>2, <1>3, <2>1
    <2>2. CASE ~(k + 1 > L)
      <3>1. k + 1 \in 1..L
        BY <1>1, <2>2
      <3> DEFINE y == l[k + 1].ve
                 z == l[k].ks
      <3>2. y \in Nat /\ z \in Nat /\ b + z = b + y + 2
        BY <1>2, <1>3, <2>2, <3>1
      <3> HIDE DEF y, z
      <3>3. b + z >= 1
        BY <3>2
      <3> QED
        BY <3>3 DEF z
    <2> QED
      BY <2>1, <2>2
  <1>5. \A k \in 1..L : b + l[k].ve < n
    BY DEF Chain
  <1>6. \A k \in 1..L : l[k].ks < l[k].ke /\ l[k].ke < l[k].vs /\ l[k].vs < l[k].ve
    <2> TAKE k \in 1..L
    <2> DEFINE ks == b + l[k].ks
               ke == b + l[k].ke
               vs == b + l[k].vs
               ve == b + l[k].ve
               cks == l[k].ks
               cke == l[k].ke
               cvs == l[k].vs
               cve == l[k].ve
    <2>1. HeaderRead(t, from, ks, ke, vs, ve) /\ ks >= 1 /\ ve < n
      BY <1>4, <1>5 DEF Chain
    <2>2. cks \in Nat /\ cke \in Nat /\ cvs \in Nat /\ cve \in Nat
      BY <1>2
    <2>3. ks = b + cks /\ ke = b + cke /\ vs = b + cvs /\ ve = b + cve
      OBVIOUS
    <2> HIDE DEF ks, ke, vs, ve, cks, cke, cvs, cve
    <2>4. ks \in Nat /\ ke \in Nat /\ vs \in Nat /\ ve \in Nat /\ 1 <= ks /\ ve < Len(t)
      BY <1>1, <2>1, <2>2, <2>3
    <2>5. ks < ke /\ ke < vs /\ vs < ve
      BY <2>1, <2>4, HeaderOfShape
    <2>6. cks < cke /\ cke < cvs /\ cvs < cve
      BY <2>2, <2>3, <2>5
    <2> QED
      BY <2>6 DEF cks, cke, cvs, cve
  <1>7. \A k \in 1..L : from <= b + l[k].ks
    <2> DEFINE T == {k \in 1..L : ~(from <= b + l[k].ks)}
    <2> SUFFICES ASSUME T # {} PROVE FALSE
      OBVIOUS
    <2>1. T \in SUBSET (1..L)
      OBVIOUS
    <2>2. Max(T) \in T /\ \A i \in T : i <= Max(T)
      <3> HIDE DEF T, L
      <3> QED
        BY <1>1, <2>1, MaxIsMax
    <2> DEFINE k == Max(T)
    <2>3. k \in 1..L /\ ~(from <= b + l[k].ks) /\ \A i \in T : i <= k
      BY <2>2
    <2> HIDE DEF k
    <2>4. k + 1 <= L
      BY <1>1, <1>3, <2>3, SMTT(40)
    <2>5. k + 1 \in 1..L /\ k + 1 \notin T
      BY <1>1, <2>3, <2>4
    <2> DEFINE x == l[k].ks
               y == l[k + 1].ks
               z == l[k + 1].ve
               v == l[k + 1].vs
               u == l[k + 1].ke
    <2>6. /\ x \in Nat /\ y \in Nat /\ z \in Nat /\ v \in Nat /\ u \in Nat /\ b + x = b + z + 2
          /\ from <= b + y /\ y < u /\ u < v /\ v < z /\ ~(from <= b + x)
      BY <1>2, <1>3, <1>6, <2>3, <2>4, <2>5, SMTT(40)
    <2> HIDE DEF x, y, z, v, u
    <2> QED
      BY <2>6
  <1>8. \A k \in 1..L : k > 1 => l[k].ve < l[k - 1].ks
    <2> SUFFICES ASSUME NEW k \in 1..L, k > 1 PROVE l[k].ve < l[k - 1].ks
      OBVIOUS
    <2> DEFINE j == k - 1
    <2>1. j \in 1..L /\ j + 1 = k /\ ~(j + 1 > L)
      BY <1>1
    <2> HIDE DEF j
    <2> DEFINE x == l[j].ks
               z == l[k].ve
    <2>2. x \in Nat /\ z \in Nat /\ b + x = b + z + 2
      BY <1>2, <1>3, <2>1
    <2> HIDE DEF x, z
    <2>3. z < x
      BY <2>2
    <2> QED
      BY <2>3 DEF x, z, j
  <1> QED
    BY <1>2, <1>5, <1>6, <1>7, <1>8 DEF HeaderInOrder

\* What of the state the invariant is about.
LEMMA Where ==
    ASSUME Inv, pc # "closed"
    PROVE  At \in Nat /\ At <= Len(buf) /\ parse_pos <= At /\ LineSt \in LineStates /\ HdrSt \in HeaderStates
  <1>1. /\ parse_pos \in Nat /\ parse_pos <= Len(buf)
        /\ pc \in {"line", "hdr"} => pi \in Nat /\ parse_pos <= pi /\ pi <= Len(buf)
    BY Sizes
  <1>2. request_line_state \in LineStates /\ header_state \in HeaderStates
    BY DEF Inv, CoreOK
  <1>3. (pc = "line" => sw \in LineStates) /\ (pc = "hdr" => sw \in HeaderStates)
    BY DEF Inv, InPhase
  <1>4. At \in Nat /\ At <= Len(buf) /\ parse_pos <= At
    BY <1>1 DEF At
  <1> QED
    BY <1>2, <1>3, <1>4 DEF LineSt, HdrSt

\* A step that leaves the parsers where they are; the headers may be given back
\* when they are all read.
LEMMA ParserKept ==
    ASSUME Inv, PInv, pc # "closed", pc' # "handle", client' = client, Base' = Base, At' = At,
           parse_phase' = parse_phase, LineSt' = LineSt, HdrSt' = HdrSt, ptr' = ptr, version' = version, cur' = cur,
           cause' = cause, list' = list \/ (parse_phase # 1 /\ list' = <<>>)
    PROVE  PInv'
  <1>1. PtrTypes'
    <2>1. <<>> \in Seq(Header)
      OBVIOUS
    <2>2. list' \in Seq(Header)
      BY <2>1 DEF PInv, PtrTypes
    <2> QED
      BY <2>2 DEF PInv, PtrTypes
  <1>2. cause' = "none"
    BY DEF PInv, CauseNone
  <1>3. CauseNone' /\ NoneRefused' /\ Found'
    BY <1>2 DEF CauseNone, NoneRefused, OverflowOnlyTooLong, Found
  <1>4. Parser(client.bytes, Base, At, parse_phase, LineSt, HdrSt, ptr, version, cur, list)
    BY DEF PInv, ParserAt
  <1>5. Parser(client.bytes, Base, At, parse_phase, LineSt, HdrSt, ptr, version, cur, list')
    <2>1. CASE list' = list
      BY <1>4, <2>1
    <2>2. CASE parse_phase # 1 /\ list' = <<>>
      <3> DEFINE none == <<>>
      <3>1. \A t, b, from, n : Chain(t, b, from, none, n)
        BY DEF Chain
      <3>2. list' = none
        BY <2>2
      <3> HIDE DEF none
      <3> QED
        BY <1>4, <2>2, <3>1, <3>2, Zenon DEF Parser
    <2> QED
      BY <2>1, <2>2
  <1>6. ParserAt'
    <2>1. Parser(client'.bytes, Base', At', parse_phase', LineSt', HdrSt', ptr', version', cur', list')
      BY <1>5
    <2> QED
      BY <2>1, Zenon DEF ParserAt
  <1> QED
    BY <1>1, <1>3, <1>6 DEF PInv

\* The connection is closed, and not because of what the client sent.
LEMMA ClosedOther ==
    ASSUME PInv, pc' = "closed", cause' \notin {"bad", "overflow"}, ptr' = ptr \/ ptr' = NullPtr, cur' = cur, list' = <<>>
    PROVE  PInv'
  <1>1. PtrTypes'
    BY DEF PInv, PtrTypes, NullPtr, Pointer, Null
  <1> QED
    BY <1>1 DEF PInv, ParserAt, CauseNone, NoneRefused, OverflowOnlyTooLong, Found

\* CloseConn does that.
LEMMA CloseKeeps ==
    ASSUME PInv, NEW why, CloseConn(why), why \notin {"bad", "overflow"}
    PROVE  PInv'
  <1>1. pc' = "closed" /\ cause' = why /\ ptr' = ptr /\ cur' = cur /\ list' = <<>>
    BY DEF CloseConn, FreeHeaders, lineVars
  <1> QED
    BY <1>1, ClosedOther

\* At the start of a request nothing is read of it.
LEMMA AtStart ==
    ASSUME NEW t, NEW b \in Nat, NEW w, NEW c, NEW l
    PROVE  Parser(t, b, 0, 0, "start", "start", NullPtr, w, c, l)
  <1> DEFINE q == NullPtr
             at == 0
  <1>1. LaterNull(at, "start", q)
    BY DEF LaterNull, NullPtr, Null
  <1>2. AllOf(t, b + 1, b + at, {CR, LF})
    <2>1. b + at < b + 1
      OBVIOUS
    <2>2. \A k \in (b + 1)..(b + at) : FALSE
      BY <2>1
    <2> QED
      BY <2>2 DEF AllOf
  <1> HIDE DEF at, q
  <1>3. \A n, a, m, u, v : AllOf(t, b + 1, n, {CR, LF}) => LineAt(t, b, "start", n, a, m, u, v, w)
    BY LineAtIs
  <1>4. LineAt(t, b, "start", b + at, b + q.request_start, b + q.method_end, b + q.uri_start, b + q.uri_end, w)
    BY <1>2, <1>3
  <1>5. InLine(t, b, at, "start", q, w)
    BY <1>1, <1>4, Zenon DEF InLine
  <1> DEFINE phase == 0
  <1>6. phase = 0
    OBVIOUS
  <1> HIDE DEF phase
  <1>7. Parser(t, b, at, phase, "start", "start", q, w, c, l)
    BY <1>5, <1>6 DEF Parser
  <1> QED
    BY <1>7 DEF at, phase, q

\* request_done: the parsers are at the start of the next request.
LEMMA DoneKeeps ==
    ASSUME Inv, PInv, RequestDone, parse_phase = 2, UNCHANGED <<client, taken, version, cur, list, cause>>,
           list = <<>>, pc # "closed", pc' \in {"wait", "top"}, Inv'
    PROVE  PInv'
  <1>1. parse_pos' = 0 /\ parse_phase' = 0 /\ request_line_state' = "start" /\ header_state' = "start" /\ ptr' = NullPtr
    BY DEF RequestDone
  <1>2. PtrTypes'
    BY <1>1 DEF PInv, PtrTypes, NullPtr, Pointer, Null
  <1>3. cause' = "none"
    BY DEF PInv, CauseNone
  <1>4. CauseNone' /\ NoneRefused' /\ Found'
    BY <1>3 DEF CauseNone, NoneRefused, OverflowOnlyTooLong, Found
  <1>5. At' = 0 /\ LineSt' = "start" /\ HdrSt' = "start"
    BY <1>1 DEF At, LineSt, HdrSt
  <1>6. Base' \in Nat
    <2>1. buf' \in Seq(Byte) /\ Len(buf') <= taken'
      BY DEF Inv, Shapes
    <2>2. Len(buf') \in Nat
      BY <2>1, LenProperties
    <2>3. taken' \in Nat
      BY Sizes
    <2> QED
      BY <2>1, <2>2, <2>3 DEF Base
  <1>8. Parser(client'.bytes, Base', 0, 0, "start", "start", NullPtr, version', cur', list')
    BY <1>6, AtStart
  <1>9. ParserAt'
    <2>1. Parser(client'.bytes, Base', At', parse_phase', LineSt', HdrSt', ptr', version', cur', list')
      BY <1>1, <1>5, <1>8
    <2> QED
      BY <2>1, Zenon DEF ParserAt
  <1> QED
    BY <1>2, <1>4, <1>9 DEF PInv
-----------------------------------------------------------------------------
(* Where a parser is, and a request is in the stream: the request goes on.  *)

GoesOn(t, b, n, rules, st) == n < Len(t) /\ n < Request(t, b).end /\ Accepts(rules, st, t[n + 1])

\* In the line.
LEMMA LineGoesOn ==
    ASSUME NEW t \in Seq(Byte), NEW b \in Nat, NEW at \in Nat, NEW n \in Nat, n = b + at, n <= Len(t), NEW q \in Pointer, NEW w,
           NEW st \in LineStates, InLine(t, b, at, st, q, w), Request(t, b).ok
    PROVE  GoesOn(t, b, n, LineRules, st)
  <1> DEFINE k == n + 1
             a == b + q.request_start
             m == b + q.method_end
             u == b + q.uri_start
             v == b + q.uri_end
  <1>1. q.request_start \in Nat /\ q.method_end \in Nat /\ q.uri_start \in Nat /\ q.uri_end \in Nat
    BY DEF Pointer
  <1>2. \A i \in Nat : b + i \in Nat /\ b <= b + i
    OBVIOUS
  <1>3. a \in Nat /\ m \in Nat /\ u \in Nat /\ v \in Nat /\ b <= n
    BY <1>1, <1>2, Zenon
  <1>4. LineAt(t, b, st, n, a, m, u, v, w) /\ k = n + 1
    BY DEF InLine
  <1> HIDE DEF k, a, m, u, v
  <1>5. n < Len(t) /\ n < Request(t, b).end /\ Accepts(LineRules, st, t[k])
    BY <1>3, <1>4, LineGoes, Zenon
  <1> QED
    BY <1>5 DEF GoesOn, k

\* The end of the line is a position behind b.
LEMMA LineEndTyped ==
    ASSUME NEW t, NEW b \in Nat, NEW q \in Pointer, q.request_end > 0
    PROVE  LineEnd(t, b, q) \in Nat /\ b < LineEnd(t, b, q) /\ b + q.request_end <= LineEnd(t, b, q)
  <1> DEFINE r == q.request_end
             y == t[b + r]
  <1>1. r \in Nat /\ r > 0
    BY DEF Pointer
  <1>2. LineEnd(t, b, q) = b + r + IF y = CR THEN 1 ELSE 0
    BY DEF LineEnd
  <1> HIDE DEF r, y
  <1>3. LineEnd(t, b, q) \in Nat /\ b < LineEnd(t, b, q) /\ b + r <= LineEnd(t, b, q)
    BY <1>1, <1>2
  <1> QED
    BY <1>3 DEF r

\* So is the start of the next header line.
LEMMA NextAtTyped ==
    ASSUME NEW b \in Nat, NEW from \in Nat, NEW l \in Seq(Header)
    PROVE  NextAt(b, from, l, 1) \in Nat
  <1>1. CASE 1 > Len(l)
    BY <1>1 DEF NextAt
  <1>2. CASE ~(1 > Len(l))
    <2>1. Len(l) \in Nat
      BY LenProperties
    <2>2. 1 \in 1..Len(l)
      BY <1>2, <2>1
    <2>3. l[1] \in Header
      BY <2>2, ElementOfSeq
    <2> DEFINE y == l[1].ve
    <2>4. y \in Nat /\ NextAt(b, from, l, 1) = b + y + 2
      BY <1>2, <2>3 DEF Header, NextAt
    <2> HIDE DEF y
    <2> QED
      BY <2>4
  <1> QED
    BY <1>1, <1>2

\* In the headers.
LEMMA HeadersGoOn ==
    ASSUME NEW t \in Seq(Byte), NEW b \in Nat, NEW at \in Nat, NEW n \in Nat, n = b + at, n <= Len(t), NEW q \in Pointer, NEW w,
           NEW c \in Header, NEW l \in Seq(Header), NEW st \in HeaderStates, Line(t, b, at, q, w),
           Chain(t, b, LineEnd(t, b, q) + 1, l, n), InHeaders(t, b, at, st, q, c, l), Request(t, b).ok
    PROVE  GoesOn(t, b, n, HeaderRules, st)
  <1> DEFINE k == n + 1
             a == b + q.request_start
             m == b + q.method_end
             u == b + q.uri_start
             v == b + q.uri_end
             e == LineEnd(t, b, q)
             from == e + 1
             p == NextAt(b, from, l, 1)
             ks == b + c.ks
             ke == b + c.ke
             vs == b + c.vs
             ve == b + c.ve
  <1>1. /\ q.request_start \in Nat /\ q.method_end \in Nat /\ q.uri_start \in Nat /\ q.uri_end \in Nat
        /\ c.ks \in Nat /\ c.ke \in Nat /\ c.vs \in Nat /\ c.ve \in Nat
    BY DEF Pointer, Header
  <1>2. \A i \in Nat : b + i \in Nat /\ b <= b + i
    OBVIOUS
  <1>3. a \in Nat /\ m \in Nat /\ u \in Nat /\ v \in Nat /\ b <= n /\ ks \in Nat /\ ke \in Nat /\ vs \in Nat /\ ve \in Nat
    BY <1>1, <1>2, Zenon
  <1>4. LineRead(t, b, a, m, u, v, w, e) /\ e <= n /\ e \in Nat
    <2>1. LineRead(t, b, a, m, u, v, w, e) /\ e <= n /\ q.request_end > 0
      BY DEF Line
    <2> QED
      BY <2>1, LineEndTyped
  <1>5. HeaderAt(t, from, st, n, p, ks, ke, vs, ve) /\ Chain(t, b, from, l, n) /\ from = e + 1 /\ p = NextAt(b, from, l, 1) /\ k = n + 1
    BY DEF InHeaders
  <1> HIDE DEF k, a, m, u, v, e, from, p, ks, ke, vs, ve
  <1>6. n < Len(t) /\ n < Request(t, b).end /\ Accepts(HeaderRules, st, t[k])
    BY <1>3, <1>4, <1>5, HeadersGo, ZenonT(60)
  <1> QED
    BY <1>6 DEF GoesOn, k

\* A request ends at a position of the stream.
LEMMA RequestEnd ==
    ASSUME NEW t \in Seq(Byte), NEW b \in Nat, b <= Len(t), Request(t, b).ok
    PROVE  Request(t, b).end \in Nat /\ Request(t, b).end <= Len(t)
  <1>1. \E a, m, u, v, h, d, z, e \in Nat :
             /\ Shape(t, b, a, m, u, v, h, d, z, e)
             /\ HeaderBlock(t, e + 1).ok /\ Request(t, b).end = HeaderBlock(t, e + 1).end
    BY ShapeOfRequest
  <1>2. PICK a, m, u, v, h, d, z, e \in Nat :
             /\ Shape(t, b, a, m, u, v, h, d, z, e)
             /\ HeaderBlock(t, e + 1).ok /\ Request(t, b).end = HeaderBlock(t, e + 1).end
    BY <1>1
  <1>3. e + 1 \in 1..(Len(t) + 1)
    <2>1. e <= Len(t)
      BY <1>2, Zenon DEF Shape
    <2> QED
      BY <2>1, LenProperties
  <1> DEFINE f == e + 1
  <1> HIDE DEF f
  <1>4. f \in 1..(Len(t) + 1) /\ Block(t, f)[f].ok
    BY <1>2, <1>3, HeaderBlockIs DEF f
  <1>5. Block(t, f)[f].end \in Nat /\ Block(t, f)[f].end <= Len(t)
    BY <1>4, BlockFields
  <1> QED
    BY <1>2, <1>5, HeaderBlockIs DEF f
-----------------------------------------------------------------------------
(* The bytes of the line.                                                   *)

\* The byte at pi is the next of the stream.
LEMMA NextByte ==
    ASSUME Inv, pc \in {"line", "hdr"}, InBuf
    PROVE  /\ client.bytes \in Seq(Byte) /\ Base \in Nat /\ pi \in Nat /\ Base + pi < Len(client.bytes)
           /\ Ch = client.bytes[Base + pi + 1]
  <1> DEFINE s == client.bytes
             b == Base
             l == Len(buf)
             k == pi + 1
  <1>1. /\ s \in Seq(Byte) /\ b \in Nat /\ taken \in Nat /\ taken <= Len(s) /\ l \in Nat /\ taken = b + l /\ Len(s) \in Nat
        /\ pi \in Nat /\ pi < l
    BY Sizes, SMTT(40) DEF Base, InBuf
  <1> HIDE DEF s, b
  <1>2. k \in 1..l /\ b + k = b + pi + 1 /\ b + pi < Len(s)
    BY <1>1
  <1> HIDE DEF k, l
  <1>3. buf[k] = s[b + k]
    BY <1>2, BufAt DEF s, b, l
  <1>4. buf[k] = s[b + pi + 1]
    BY <1>2, <1>3
  <1> QED
    BY <1>1, <1>2, <1>4 DEF Ch, s, b, k

\* Where the line parser is.
LEMMA InLineNow ==
    ASSUME Inv, PInv, pc = "line"
    PROVE  /\ parse_phase = 0 /\ ptr \in Pointer /\ version \in Numbers /\ sw \in LineStates /\ header_state = "start"
           /\ InLine(client.bytes, Base, pi, sw, ptr, version)
  <1>1. parse_phase = 0 /\ sw \in LineStates
    BY DEF Inv, InPhase
  <1>2. Parser(client.bytes, Base, At, parse_phase, LineSt, HdrSt, ptr, version, cur, list)
    BY DEF PInv, ParserAt
  <1>3. At = pi /\ LineSt = sw /\ HdrSt = header_state
    BY DEF At, LineSt, HdrSt
  <1>4. InLine(client.bytes, Base, pi, sw, ptr, version) /\ header_state = "start"
    BY <1>1, <1>2, <1>3 DEF Parser
  <1>5. version \in Numbers
    BY DEF Inv, CoreOK, Numbers
  <1> QED
    BY <1>1, <1>4, <1>5 DEF PInv, PtrTypes

\* A byte of the line.
LEMMA LineByteKeeps ==
    ASSUME Inv, PInv, LineByte
    PROVE  PInv'
  <1>1. /\ pc = "line" /\ InBuf /\ pc' = "line" /\ pi' = pi + 1 /\ ptr' = MarkLine /\ version' = Version
        /\ sw' \in NextState(LineRules) /\ sw' # "done"
        /\ UNCHANGED <<client, taken, request_line_state, header_state, cur, list, buf, parse_pos, parse_phase, cause>>
    BY DEF LineByte, netVars, hdrVars, bufVars, histVars
  <1>2. /\ client.bytes \in Seq(Byte) /\ Base \in Nat /\ pi \in Nat /\ Base + pi < Len(client.bytes)
        /\ Ch = client.bytes[Base + pi + 1]
    BY <1>1, NextByte, SMTT(40)
  <1>3. /\ parse_phase = 0 /\ ptr \in Pointer /\ version \in Numbers /\ header_state = "start"
        /\ InLine(client.bytes, Base, pi, sw, ptr, version)
    BY <1>1, InLineNow
  <1>4. PICK rule \in LineRules : rule[1] = sw /\ Ch \in rule[2] /\ sw' = rule[3]
    BY <1>1 DEF NextState
  <1>5. ptr' = PointersWith(pi, sw, Ch, ptr) /\ version' = VersionWith(sw, Ch, version)
    BY <1>1, SMTT(40) DEF MarkLine, PointersWith, Version, VersionWith
  <1>6. InLine(client.bytes, Base, pi + 1, sw', ptr', version')
    <2> DEFINE t == client.bytes
               b == Base
               n == b + pi
               x == Ch
    <2>1. t \in Seq(Byte) /\ b \in Nat /\ n = b + pi /\ n < Len(t) /\ x = t[n + 1] /\ InLine(t, b, pi, sw, ptr, version)
      BY <1>2, <1>3
    <2>2. rule[3] # "done" /\ x \in rule[2]
      BY <1>1, <1>4
    <2> HIDE DEF t, b, n, x
    <2>3. InLine(t, b, pi + 1, rule[3], PointersWith(pi, sw, x, ptr), VersionWith(sw, x, version))
      BY <1>2, <1>3, <1>4, <2>1, <2>2, LineStep, ZenonT(60)
    <2> QED
      BY <1>4, <1>5, <2>3 DEF t, b, x
  <1>7. PtrTypes'
    <2>1. ptr' \in Pointer
      BY <1>2, <1>3, <1>5, PointersTyped
    <2> QED
      BY <1>1, <2>1 DEF PInv, PtrTypes
  <1>8. CauseNone' /\ NoneRefused' /\ Found'
    BY <1>1 DEF PInv, CauseNone, NoneRefused, OverflowOnlyTooLong, Found
  <1>9. Base' = Base /\ At' = pi + 1 /\ LineSt' = sw' /\ HdrSt' = header_state
    BY <1>1 DEF Base, At, LineSt, HdrSt
  <1>10. Parser(client.bytes, Base, pi + 1, 0, sw', header_state, ptr', version', cur', list')
    BY <1>3, <1>6 DEF Parser
  <1>11. ParserAt'
    <2>1. Parser(client'.bytes, Base', At', parse_phase', LineSt', HdrSt', ptr', version', cur', list')
      BY <1>1, <1>3, <1>9, <1>10
    <2> QED
      BY <2>1, Zenon DEF ParserAt
  <1> QED
    BY <1>7, <1>8, <1>11 DEF PInv

\* The end of the line: the header parser is at the start of the first header.
LEMMA LineDoneKeeps ==
    ASSUME Inv, PInv, LineDone
    PROVE  PInv'
  <1>1. /\ pc = "line" /\ InBuf /\ pc' = "hdr" /\ pi' = pi + 1 /\ sw' = header_state /\ parse_phase' = 1
        /\ ptr' = [MarkLine EXCEPT !.request_end = IF @ = Null THEN pi + 1 ELSE @]
        /\ NextState(LineRules) = {"done"}
        /\ UNCHANGED <<client, taken, version, header_state, cur, list, buf, cause>>
    BY DEF LineDone, netVars, hdrVars, bufVars, histVars
  <1>2. /\ client.bytes \in Seq(Byte) /\ Base \in Nat /\ pi \in Nat /\ Base + pi < Len(client.bytes)
        /\ Ch = client.bytes[Base + pi + 1]
    BY <1>1, NextByte
  <1>3. /\ parse_phase = 0 /\ ptr \in Pointer /\ version \in Numbers /\ header_state = "start"
        /\ InLine(client.bytes, Base, pi, sw, ptr, version)
    BY <1>1, InLineNow
  <1>4. PICK rule \in LineRules : rule[1] = sw /\ Ch \in rule[2] /\ rule[3] = "done"
    BY <1>1 DEF NextState
  <1>5. MarkLine = PointersWith(pi, sw, Ch, ptr) /\ MarkLine \in Pointer
    <2>1. MarkLine = PointersWith(pi, sw, Ch, ptr)
      BY <1>1 DEF MarkLine, PointersWith
    <2> QED
      BY <1>2, <1>3, <2>1, PointersTyped
  <1>6. ptr' \in Pointer
    <2> DEFINE m == MarkLine
    <2>1. m \in Pointer /\ pi + 1 \in Nat
      BY <1>2, <1>5
    <2> HIDE DEF m
    <2>2. [m EXCEPT !.request_end = IF @ = Null THEN pi + 1 ELSE @] \in Pointer
      BY <2>1 DEF Pointer
    <2> QED
      BY <1>1, <2>2 DEF m
  <1> DEFINE t == client.bytes
             b == Base
             n == b + pi
             x == Ch
             r == ptr'
             k == pi + 1
  <1>7. Line(t, b, k, r, version) /\ LineEnd(t, b, r) = b + k
    <2>1. t \in Seq(Byte) /\ b \in Nat /\ n = b + pi /\ n < Len(t) /\ x = t[n + 1] /\ InLine(t, b, pi, sw, ptr, version)
      BY <1>2, <1>3
    <2>2. rule[3] = "done" /\ x \in rule[2] /\ r \in Pointer
      BY <1>4, <1>6
    <2>3. r = PointersAtEnd(pi, sw, x, ptr)
      BY <1>1, <1>5 DEF PointersAtEnd
    <2> HIDE DEF t, b, n, x, r
    <2>4. LineJust(t, b, pi + 1, r, version)
      BY <1>2, <1>3, <1>4, <2>1, <2>2, <2>3, LineEnds, Zenon
    <2> QED
      BY <2>4 DEF LineJust
  <1>8. list = <<>>
    BY <1>3 DEF Inv, NothingLeaks
  <1> DEFINE l == list
             c == cur
  <1>9. \A from, j : Chain(t, b, from, l, j) /\ NextAt(b, from, l, 1) = from
    BY <1>8 DEF Chain, NextAt
  <1>10. Parser(t, b, k, 1, request_line_state', "start", r, version, c, l)
    <2>1. b + k \in Nat
      BY <1>2
    <2> DEFINE z == b + k
               y == z + 1
    <2>2. z = y - 1
      BY <2>1
    <2> HIDE DEF t, b, n, x, r, l, c, k, z, y
    <2>3. \A ks, ke, vs, ve : HeaderAt(t, y, "start", z, y, ks, ke, vs, ve)
      BY <2>2 DEF HeaderAt
    <2>4. LineEnd(t, b, r) + 1 = y /\ b + k = z
      BY <1>7 DEF y, z
    <2>5. InHeaders(t, b, k, "start", r, c, l)
      BY <1>9, <2>3, <2>4 DEF InHeaders
    <2> QED
      BY <1>7, <1>9, <2>5 DEF Parser
  <1>11. PtrTypes'
    BY <1>1, <1>6 DEF PInv, PtrTypes
  <1>12. CauseNone' /\ NoneRefused' /\ Found'
    BY <1>1 DEF PInv, CauseNone, NoneRefused, OverflowOnlyTooLong, Found
  <1>13. Base' = b /\ At' = k /\ LineSt' = request_line_state' /\ HdrSt' = "start"
    BY <1>1, <1>3 DEF Base, At, LineSt, HdrSt
  <1>14. ParserAt'
    <2>1. Parser(client'.bytes, Base', At', parse_phase', LineSt', HdrSt', ptr', version', cur', list')
      BY <1>1, <1>10, <1>13
    <2> QED
      BY <2>1, Zenon DEF ParserAt
  <1> QED
    BY <1>11, <1>12, <1>14 DEF PInv

\* A byte without an edge: no request is there.
LEMMA LineBadKeeps ==
    ASSUME Inv, PInv, LineBad
    PROVE  PInv'
  <1>1. /\ pc = "line" /\ InBuf /\ pc' = "closed" /\ NextState(LineRules) = {} /\ cause' = "bad" /\ list' = <<>>
        /\ UNCHANGED <<client, taken, ptr, cur, buf>>
    BY DEF LineBad, CloseConn, FreeHeaders, netVars, lineVars, bufVars
  <1>2. /\ client.bytes \in Seq(Byte) /\ Base \in Nat /\ pi \in Nat /\ Base + pi < Len(client.bytes)
        /\ Ch = client.bytes[Base + pi + 1]
    BY <1>1, NextByte
  <1>3. /\ ptr \in Pointer /\ version \in Numbers /\ sw \in LineStates
        /\ InLine(client.bytes, Base, pi, sw, ptr, version)
    BY <1>1, InLineNow
  <1>4. ~Accepts(LineRules, sw, Ch)
    BY <1>1 DEF NextState, Accepts
  <1>5. ~Request(client.bytes, Base).ok
    <2> DEFINE t == client.bytes
               b == Base
               n == b + pi
               k == n + 1
               x == Ch
    <2>1. t \in Seq(Byte) /\ b \in Nat /\ n \in Nat /\ n <= Len(t) /\ k = n + 1 /\ x = t[k] /\ InLine(t, b, pi, sw, ptr, version)
      <3>1. Len(t) \in Nat
        BY <1>2, LenProperties
      <3> QED
        BY <1>2, <1>3, <3>1
    <2>2. n = b + pi
      OBVIOUS
    <2>3. ~Accepts(LineRules, sw, t[k])
      BY <1>4, <2>1
    <2> HIDE DEF t, b, n, k, x
    <2>4. Request(t, b).ok => GoesOn(t, b, n, LineRules, sw)
      BY <1>2, <1>3, <2>1, <2>2, LineGoesOn, Zenon
    <2>5. ~Request(t, b).ok
      BY <2>1, <2>3, <2>4 DEF GoesOn
    <2> QED
      BY <2>5 DEF t, b
  <1>6. PtrTypes'
    BY <1>1 DEF PInv, PtrTypes
  <1>7. Base' = Base
    BY <1>1 DEF Base
  <1>8. NoneRefused'
    BY <1>1, <1>5, <1>7 DEF NoneRefused, OverflowOnlyTooLong
  <1> QED
    BY <1>1, <1>6, <1>8 DEF PInv, ParserAt, CauseNone, Found
-----------------------------------------------------------------------------
(* The bytes of the headers.                                                *)

\* A line that is read stays so.
LEMMA LineLater ==
    ASSUME NEW t, NEW b \in Nat, NEW at \in Nat, NEW q \in Pointer, NEW w, Line(t, b, at, q, w)
    PROVE  Line(t, b, at + 1, q, w)
  <1>1. LineEnd(t, b, q) \in Nat
    BY LineEndTyped DEF Line
  <1>2. LineEnd(t, b, q) <= b + at
    BY DEF Line
  <1>3. LineEnd(t, b, q) <= b + (at + 1)
    <2> DEFINE e == LineEnd(t, b, q)
    <2>1. e \in Nat /\ e <= b + at
      BY <1>1, <1>2
    <2> HIDE DEF e
    <2>2. e <= b + (at + 1)
      BY <2>1
    <2> QED
      BY <2>2 DEF e
  <1> QED
    BY <1>3 DEF Line

\* Where the header parser is.
LEMMA InHeadersNow ==
    ASSUME Inv, PInv, pc = "hdr"
    PROVE  /\ parse_phase = 1 /\ ptr \in Pointer /\ version \in Numbers /\ cur \in Header /\ list \in Seq(Header)
           /\ sw \in HeaderStates
           /\ Line(client.bytes, Base, pi, ptr, version)
           /\ Chain(client.bytes, Base, LineEnd(client.bytes, Base, ptr) + 1, list, Base + pi)
           /\ InHeaders(client.bytes, Base, pi, sw, ptr, cur, list)
  <1>1. parse_phase = 1 /\ sw \in HeaderStates
    BY DEF Inv, InPhase
  <1>2. Parser(client.bytes, Base, At, parse_phase, LineSt, HdrSt, ptr, version, cur, list)
    BY DEF PInv, ParserAt
  <1>3. At = pi /\ HdrSt = sw
    BY DEF At, HdrSt
  <1>4. /\ Line(client.bytes, Base, pi, ptr, version)
        /\ Chain(client.bytes, Base, LineEnd(client.bytes, Base, ptr) + 1, list, Base + pi)
        /\ InHeaders(client.bytes, Base, pi, sw, ptr, cur, list)
    BY <1>1, <1>2, <1>3 DEF Parser
  <1>5. version \in Numbers
    BY DEF Inv, CoreOK, Numbers
  <1> QED
    BY <1>1, <1>4, <1>5 DEF PInv, PtrTypes

\* A byte of the headers.
LEMMA HdrByteKeeps ==
    ASSUME Inv, PInv, HdrByte
    PROVE  PInv'
  <1>1. /\ pc = "hdr" /\ InBuf /\ pc' = "hdr" /\ pi' = pi + 1 /\ cur' = MarkHeader
        /\ list' = IF sw = "cr" THEN <<cur>> \o list ELSE list
        /\ sw' \in NextState(HeaderRules) /\ sw' # "done"
        /\ UNCHANGED <<client, taken, ptr, version, buf, parse_pos, parse_phase, cause>>
    BY DEF HdrByte, netVars, lineVars, bufVars, histVars
  <1>2. /\ client.bytes \in Seq(Byte) /\ Base \in Nat /\ pi \in Nat /\ Base + pi < Len(client.bytes)
        /\ Ch = client.bytes[Base + pi + 1]
    BY <1>1, NextByte
  <1> DEFINE t == client.bytes
             b == Base
             n == b + pi
             k == b + (pi + 1)
             x == Ch
             q == ptr
             w == version
             c == cur
             l == list
             from == LineEnd(t, b, q) + 1
             p == NextAt(b, from, l, 1)
  <1>3. /\ parse_phase = 1 /\ q \in Pointer /\ c \in Header /\ l \in Seq(Header)
        /\ Line(t, b, pi, q, w) /\ Chain(t, b, from, l, n)
        /\ HeaderAt(t, from, sw, n, p, b + c.ks, b + c.ke, b + c.vs, b + c.ve)
    BY <1>1, InHeadersNow DEF InHeaders
  <1>4. PICK rule \in HeaderRules : rule[1] = sw /\ Ch \in rule[2] /\ sw' = rule[3]
    BY <1>1 DEF NextState
  <1>5. cur' = HeaderWith(pi, sw, Ch, cur)
    BY <1>1 DEF MarkHeader, HeaderWith
  <1>6. t \in Seq(Byte) /\ b \in Nat /\ n \in Nat /\ k \in Nat /\ k = n + 1 /\ n < Len(t) /\ x = t[k] /\ n = b + pi /\ n <= k
    BY <1>2, SMTT(40)
  <1>7. from \in Nat /\ p \in Nat /\ from <= k
    <2>1. LineEnd(t, b, q) \in Nat
      BY <1>3, <1>6, LineEndTyped DEF Line
    <2>2. LineEnd(t, b, q) <= n
      BY <1>3 DEF Line
    <2>3. from \in Nat
      BY <2>1
    <2>4. from <= k
      <3> DEFINE e == LineEnd(t, b, q)
      <3>1. e \in Nat /\ e <= n /\ from = e + 1
        BY <2>1, <2>2
      <3> HIDE DEF e, from, k, n
      <3> QED
        BY <1>6, <3>1
    <2>5. p \in Nat
      <3> HIDE DEF from, b, l
      <3> QED
        BY <1>3, <1>6, <2>3, NextAtTyped
    <2> QED
      BY <2>3, <2>4, <2>5
  <1>8. Line(t, b, pi + 1, q, w)
    <2> HIDE DEF t, b, q, w
    <2> QED
      BY <1>2, <1>3, <1>6, LineLater
  <1>9. /\ cur' \in Header
    BY <1>2, <1>3, <1>5, HeaderTyped
  <1>10. /\ list' \in Seq(Header) /\ Chain(t, b, from, list', k)
         /\ HeaderAt(t, from, sw', k, NextAt(b, from, list', 1), b + (cur').ks, b + (cur').ke, b + (cur').vs, b + (cur').ve)
    <2>1. CASE sw = "cr"
      <3>1. sw' = "crlf" /\ x = LF
        <4>1. rule[1] = "cr"
          BY <1>4, <2>1
        <4>2. rule[2] = {LF} /\ rule[3] = "crlf"
          BY <4>1, HeaderEdges
        <4> QED
          BY <1>4, <4>2
      <3>2. t[k] = LF /\ HeaderAt(t, from, "cr", n, p, b + c.ks, b + c.ke, b + c.vs, b + c.ve)
        BY <1>3, <1>6, <2>1, <3>1
      <3> DEFINE g == list'
      <3>3. g = <<c>> \o l /\ p = NextAt(b, from, l, 1)
        BY <1>1, <2>1
      <3>4. /\ g \in Seq(Header) /\ Chain(t, b, from, g, k)
            /\ \A ks, ke, vs, ve : HeaderAt(t, from, "crlf", k, NextAt(b, from, g, 1), ks, ke, vs, ve)
        <4> HIDE DEF t, b, n, k, x, q, w, c, l, from, p, g
        <4> QED
          BY <1>3, <1>6, <1>7, <3>2, <3>3, HeaderAdded
      <3> QED
        BY <3>1, <3>4
    <2>2. CASE sw # "cr"
      <3>1. list' = l
        BY <1>1, <2>2
      <3> DEFINE d == cur'
                 st == sw
                 nx == sw'
      <3>2. d = HeaderWith(pi, st, x, c) /\ rule[1] = st /\ rule[3] # "done" /\ x \in rule[2] /\ rule[3] = nx /\ st # "cr"
        BY <1>1, <1>4, <1>5, <2>2
      <3>3. x = t[n + 1] /\ HeaderAt(t, from, st, b + pi, p, b + c.ks, b + c.ke, b + c.vs, b + c.ve)
        BY <1>3, <1>6
      <3>4. HeaderAt(t, from, rule[3], b + (pi + 1), p, b + d.ks, b + d.ke, b + d.vs, b + d.ve)
        <4> HIDE DEF t, b, n, k, x, q, w, c, l, from, p, d, st
        <4> QED
          BY <1>2, <1>3, <1>4, <1>6, <1>7, <3>2, <3>3, HeaderStep, ZenonT(60)
      <3>5. Chain(t, b, from, l, k)
        <4> HIDE DEF t, b, n, k, x, q, w, c, l, from, p
        <4> QED
          BY <1>3, <1>6, ChainLater
      <3> QED
        BY <1>3, <3>1, <3>2, <3>4, <3>5
    <2> QED
      BY <2>1, <2>2
  <1>11. Parser(t, b, pi + 1, 1, request_line_state', sw', q, w, cur', list')
    <2>1. InHeaders(t, b, pi + 1, sw', q, cur', list')
      BY <1>10 DEF InHeaders
    <2> QED
      BY <1>8, <1>10, <2>1 DEF Parser
  <1>12. PtrTypes'
    BY <1>1, <1>3, <1>9, <1>10 DEF PtrTypes
  <1>13. CauseNone' /\ NoneRefused' /\ Found'
    BY <1>1 DEF PInv, CauseNone, NoneRefused, OverflowOnlyTooLong, Found
  <1>14. Base' = b /\ At' = pi + 1 /\ LineSt' = request_line_state' /\ HdrSt' = sw'
    BY <1>1 DEF Base, At, LineSt, HdrSt
  <1>15. ParserAt'
    <2>1. Parser(client'.bytes, Base', At', parse_phase', LineSt', HdrSt', ptr', version', cur', list')
      BY <1>1, <1>3, <1>11, <1>14
    <2> QED
      BY <2>1, Zenon DEF ParserAt
  <1> QED
    BY <1>12, <1>13, <1>15 DEF PInv

\* A byte without an edge: no request is there.
LEMMA HdrBadKeeps ==
    ASSUME Inv, PInv, HdrBad
    PROVE  PInv'
  <1>1. /\ pc = "hdr" /\ InBuf /\ pc' = "closed" /\ NextState(HeaderRules) = {} /\ cause' = "bad" /\ list' = <<>>
        /\ UNCHANGED <<client, taken, ptr, cur, buf>>
    BY DEF HdrBad, CloseConn, FreeHeaders, netVars, lineVars, bufVars
  <1>2. /\ client.bytes \in Seq(Byte) /\ Base \in Nat /\ pi \in Nat /\ Base + pi < Len(client.bytes)
        /\ Ch = client.bytes[Base + pi + 1]
    BY <1>1, NextByte
  <1>3. /\ ptr \in Pointer /\ cur \in Header /\ list \in Seq(Header) /\ sw \in HeaderStates
        /\ Line(client.bytes, Base, pi, ptr, version)
        /\ Chain(client.bytes, Base, LineEnd(client.bytes, Base, ptr) + 1, list, Base + pi)
        /\ InHeaders(client.bytes, Base, pi, sw, ptr, cur, list)
    BY <1>1, InHeadersNow
  <1>4. ~Accepts(HeaderRules, sw, Ch)
    BY <1>1 DEF NextState, Accepts
  <1>5. ~Request(client.bytes, Base).ok
    <2> DEFINE t == client.bytes
               b == Base
               n == b + pi
               k == n + 1
               x == Ch
    <2>1. /\ t \in Seq(Byte) /\ b \in Nat /\ n \in Nat /\ n <= Len(t) /\ k = n + 1 /\ x = t[k] /\ n = b + pi
      <3>1. Len(t) \in Nat
        BY <1>2, LenProperties
      <3> QED
        BY <1>2, <3>1
    <2>2. /\ Line(t, b, pi, ptr, version) /\ Chain(t, b, LineEnd(t, b, ptr) + 1, list, n)
          /\ InHeaders(t, b, pi, sw, ptr, cur, list)
      BY <1>3
    <2>3. ~Accepts(HeaderRules, sw, t[k])
      BY <1>4, <2>1
    <2> HIDE DEF t, b, n, k, x
    <2>4. Request(t, b).ok => GoesOn(t, b, n, HeaderRules, sw)
      BY <1>2, <1>3, <2>1, <2>2, HeadersGoOn, ZenonT(60)
    <2>5. ~Request(t, b).ok
      BY <2>1, <2>3, <2>4 DEF GoesOn
    <2> QED
      BY <2>5 DEF t, b
  <1>6. PtrTypes'
    BY <1>1 DEF PInv, PtrTypes
  <1>7. Base' = Base
    BY <1>1 DEF Base
  <1>8. NoneRefused'
    BY <1>1, <1>5, <1>7 DEF NoneRefused, OverflowOnlyTooLong
  <1> QED
    BY <1>1, <1>6, <1>8 DEF PInv, ParserAt, CauseNone, Found

\* Everything that is there is parsed: a request in the stream ends behind it.
LEMMA EndsBehind ==
    ASSUME Inv, PInv, pc \in {"top", "wait"}, Parsed, parse_phase # 2, Request(client.bytes, Base).ok
    PROVE  Base + Len(buf) < Request(client.bytes, Base).end
  <1>1. /\ Parser(client.bytes, Base, At, parse_phase, LineSt, HdrSt, ptr, version, cur, list)
        /\ ptr \in Pointer /\ cur \in Header /\ list \in Seq(Header)
    BY DEF PInv, ParserAt, PtrTypes
  <1>2. LineSt \in LineStates /\ HdrSt \in HeaderStates
    BY Where
  <1> DEFINE t == client.bytes
             b == Base
             at == At
             n == b + at
             ls == LineSt
             hs == HdrSt
  <1>3. /\ t \in Seq(Byte) /\ b \in Nat /\ at \in Nat /\ at = Len(buf) /\ n \in Nat /\ n <= Len(t) /\ n = b + at
    <2>1. /\ t \in Seq(Byte) /\ b \in Nat /\ parse_pos \in Nat /\ parse_pos <= Len(buf) /\ Len(buf) \in Nat
          /\ taken \in Nat /\ taken <= Len(t) /\ Len(t) \in Nat
      BY Sizes
    <2>2. parse_pos = Len(buf)
      BY <2>1 DEF Parsed
    <2>3. at = Len(buf) /\ b = taken - Len(buf)
      BY <2>2 DEF At, Base
    <2> HIDE DEF t, b, at
    <2> QED
      BY <2>1, <2>3
  <1>4. parse_phase \in {0, 1}
    BY Sizes
  <1>5. Request(t, b).ok /\ ls \in LineStates /\ hs \in HeaderStates
    BY <1>2
  <1>6. n < Request(t, b).end
    <2>1. CASE parse_phase = 0
      <3>1. InLine(t, b, at, ls, ptr, version)
        BY <1>1, <2>1 DEF Parser
      <3> HIDE DEF t, b, at, n, ls, hs
      <3>2. GoesOn(t, b, n, LineRules, ls)
        BY <1>1, <1>3, <1>5, <3>1, LineGoesOn, Zenon
      <3> QED
        BY <3>2 DEF GoesOn
    <2>2. CASE parse_phase = 1
      <3>1. /\ Line(t, b, at, ptr, version) /\ Chain(t, b, LineEnd(t, b, ptr) + 1, list, n)
            /\ InHeaders(t, b, at, hs, ptr, cur, list)
        BY <1>1, <2>2 DEF Parser
      <3> HIDE DEF t, b, at, n, ls, hs
      <3>2. GoesOn(t, b, n, HeaderRules, hs)
        BY <1>1, <1>3, <1>5, <3>1, HeadersGoOn, ZenonT(60)
      <3> QED
        BY <3>2 DEF GoesOn
    <2> QED
      BY <1>4, <2>1, <2>2
  <1> QED
    BY <1>3, <1>6

\* The buffer is full: what is in it is the beginning of a request that is too
\* long, or of none.
LEMMA OverflowKeeps ==
    ASSUME Inv, PInv, Overflow
    PROVE  PInv'
  <1>1. /\ pc = "top" /\ Parsed /\ Len(buf) >= MaxBuf - 1 /\ pc' = "closed" /\ cause' = "overflow" /\ list' = <<>>
        /\ UNCHANGED <<client, taken, ptr, cur, buf>>
    BY DEF Overflow, CloseConn, FreeHeaders, netVars, lineVars, bufVars
  <1>2. parse_phase # 2
    BY <1>1 DEF Inv, InPhase
  <1>3. Base' = Base
    BY <1>1 DEF Base
  <1>4. Request(client.bytes, Base).ok => Request(client.bytes, Base).end - Base > MaxBuf - 1
    <2> SUFFICES ASSUME Request(client.bytes, Base).ok PROVE Request(client.bytes, Base).end - Base > MaxBuf - 1
      OBVIOUS
    <2> DEFINE f == Request(client.bytes, Base).end
               b == Base
               l == Len(buf)
    <2>1. b + l < f /\ b \in Nat /\ l \in Nat /\ MaxBuf \in Nat /\ l >= MaxBuf - 1
      BY <1>1, <1>2, EndsBehind, Sizes
    <2>2. f \in Int
      <3>1. client.bytes \in Seq(Byte) /\ Base \in Nat /\ Base <= Len(client.bytes)
        BY Sizes DEF Base
      <3> QED
        BY <3>1, RequestEnd
    <2> HIDE DEF f, b, l
    <2>3. f - b > MaxBuf - 1
      BY <2>1, <2>2
    <2> QED
      BY <2>3 DEF f, b
  <1>5. NoneRefused'
    BY <1>1, <1>3, <1>4 DEF NoneRefused, OverflowOnlyTooLong
  <1>6. PtrTypes'
    BY <1>1 DEF PInv, PtrTypes
  <1> QED
    BY <1>1, <1>5, <1>6 DEF PInv, ParserAt, CauseNone, Found
-----------------------------------------------------------------------------
(* The request is complete.                                                 *)

\* The pointers of a line are in order, and at what they stand for.
LineInOrder(t, b, at, q) ==
    /\ 1 <= q.request_start /\ q.request_start < q.method_end /\ q.method_end < q.uri_start
    /\ q.uri_start < q.uri_end /\ q.uri_end < q.request_end /\ q.request_end <= at
    /\ t[b + q.method_end] = SP /\ t[b + q.uri_start] = "/" /\ t[b + q.uri_end] = SP
    /\ t[b + q.request_end] \in {CR, LF} /\ NoneOf(t, b + q.uri_end, (b + q.request_end) - 1, {CR, LF})

\* So are those of a line that is read.
LEMMA LineOrdered ==
    ASSUME NEW t, NEW b \in Nat, NEW at \in Nat, NEW q \in Pointer, NEW w, Line(t, b, at, q, w)
    PROVE  LineInOrder(t, b, at, q)
  <1> DEFINE rs == q.request_start
             me == q.method_end
             us == q.uri_start
             ue == q.uri_end
             re == q.request_end
             a == b + rs
             m == b + me
             u == b + us
             v == b + ue
             y == b + re
             e == LineEnd(t, b, q)
  <1>1. rs \in Nat /\ me \in Nat /\ us \in Nat /\ ue \in Nat /\ re \in Nat
    BY DEF Pointer
  <1>2. /\ re > 0 /\ t[y] \in {CR, LF} /\ e <= b + at /\ (t[y] = LF => t[y - 1] # CR)
        /\ LineRead(t, b, a, m, u, v, w, e)
    BY DEF Line
  <1>3. e = y + IF t[y] = CR THEN 1 ELSE 0
    BY DEF LineEnd
  <1>4. a \in Nat /\ m \in Nat /\ u \in Nat /\ v \in Nat /\ y \in Nat
    BY <1>1
  <1> HIDE DEF a, m, u, v, y, e
  <1>5. b < a /\ a < m /\ m < u /\ u < v /\ t[m] = SP /\ t[u] = "/" /\ t[v] = SP
    BY <1>2 DEF LineRead, MethodUri, WordAt, WordTo, UriAt, UriTo
  <1>6. e \in Nat /\ (e = y \/ e = y + 1) /\ (e = y => t[y] # CR /\ t[y] = LF) /\ (e = y + 1 => t[y] = CR)
    <2>1. CASE t[y] = CR
      <3>1. e = y + 1
        BY <1>3, <2>1
      <3> QED
        BY <1>4, <2>1, <3>1
    <2>2. CASE t[y] # CR
      <3>1. e = y + 0
        BY <1>3, <2>2
      <3> QED
        BY <1>2, <1>4, <2>2, <3>1
    <2> QED
      BY <2>1, <2>2
  <1>7. PICK h \in v..e, d \in v..e, z \in v..e : DotAt(t, v, h, d) /\ MinorTo(t, d, z) /\ LineTo(t, z, e)
    <2>1. \E h, d, z \in v..e :
         DotAt(t, v, h, d) /\ MajorIs(t, w, h, d) /\ MinorTo(t, d, z) /\ MinorIs(t, w, d, e) /\ LineTo(t, z, e)
      BY <1>2, Zenon DEF LineRead
    <2> QED
      BY <2>1, Zenon
  <1>8. h \in Nat /\ d \in Nat /\ z \in Nat
    BY <1>4, <1>6, <1>7
  <1>9. /\ v < h /\ AllOf(t, v, h - 1, {SP}) /\ h + 5 < d /\ AllOf(t, h + 5, d - 1, Digit) /\ t[d] = "."
        /\ t[h] = "H" /\ t[h + 1] = "T" /\ t[h + 2] = "T" /\ t[h + 3] = "P" /\ t[h + 4] = "/"
        /\ d + 1 < z /\ AllOf(t, d + 1, z - 1, Digit) /\ z <= e
    BY <1>7 DEF DotAt, SpacesTo, HttpAt, MajorTo, MinorTo, LineTo
  <1>10. v < y
    BY <1>4, <1>6, <1>8, <1>9
  <1>11. \A i \in Nat : v <= i /\ i < y => t[i] \notin {CR, LF}
    <2> SUFFICES ASSUME NEW i \in Nat, v <= i, i < y PROVE t[i] \notin {CR, LF}
      OBVIOUS
    <2>1. CASE i < h
      <3>1. i \in v..(h - 1)
        BY <1>4, <1>8, <2>1
      <3> QED
        BY <1>9, <3>1, Bytes DEF AllOf
    <2>2. CASE h <= i /\ i < h + 5
      <3>1. i = h \/ i = h + 1 \/ i = h + 2 \/ i = h + 3 \/ i = h + 4
        BY <1>8, <2>2
      <3> QED
        BY <1>9, <3>1, Bytes
    <2>3. CASE h + 5 <= i /\ i < d
      <3>1. i \in (h + 5)..(d - 1)
        BY <1>8, <2>3
      <3> QED
        BY <1>9, <3>1, Bytes DEF AllOf
    <2>4. CASE i = d
      BY <1>9, <2>4, Bytes
    <2>5. CASE d < i /\ i < z
      <3>1. i \in (d + 1)..(z - 1)
        BY <1>8, <2>5
      <3> QED
        BY <1>9, <3>1, Bytes DEF AllOf
    <2>6. CASE z <= i
      <3>1. i <= e /\ i # e
        BY <1>4, <1>6
      <3>2. t[i] = LF => i = e
        BY <1>6, <1>7, <1>8, <2>6, <3>1, LineToBytes
      <3>3. t[i] = CR => i + 1 = e
        BY <1>6, <1>7, <1>8, <2>6, <3>1, LineToBytes
      <3>4. i + 1 = e => e = y /\ i = y - 1
        BY <1>4, <1>6
      <3>5. t[i] # CR
        BY <1>2, <1>6, <3>3, <3>4
      <3> QED
        BY <3>1, <3>2, <3>5
    <2> QED
      BY <1>8, <2>1, <2>2, <2>3, <2>4, <2>5, <2>6
  <1>12. NoneOf(t, v, y - 1, {CR, LF})
    <2>1. \A i \in v..(y - 1) : i \in Nat /\ v <= i /\ i < y
      BY <1>4
    <2> QED
      BY <1>11, <2>1 DEF NoneOf
  <1>13. y <= e
    BY <1>4, <1>6
  <1>14. 1 <= rs /\ rs < me /\ me < us /\ us < ue /\ ue < re /\ re <= at
    <2>1. a = b + rs /\ m = b + me /\ u = b + us /\ v = b + ue /\ y = b + re
      BY DEF a, m, u, v, y
    <2> HIDE DEF rs, me, us, ue, re
    <2> QED
      BY <1>1, <1>2, <1>5, <1>6, <1>10, <1>13, <2>1
  <1> QED
    BY <1>2, <1>5, <1>12, <1>14 DEF LineInOrder, a, m, u, v, y

\* The headers of the list, as texts, are those of the stream, oldest first.
LEMMA HeadersAre ==
    ASSUME Inv, list \in Seq(Header), NEW from \in Nat, Base < from, NEW at \in Nat, at <= Len(buf),
           Chain(client.bytes, Base, from, list, Base + at)
    PROVE  Reverse([k \in DOMAIN list |-> [key |-> Text(list[k].ks, list[k].ke), val |-> Text(list[k].vs, list[k].ve)]])
             = HeadersOf(client.bytes, Base, list, Len(list))
  <1> DEFINE t == client.bytes
             b == Base
             n == b + at
             l == list
             L == Len(list)
             T(k) == [key |-> Text(l[k].ks, l[k].ke), val |-> Text(l[k].vs, l[k].ve)]
             f == [k \in DOMAIN l |-> T(k)]
  <1>1. L \in Nat /\ DOMAIN l = 1..L
    BY LenProperties
  <1>2. t \in Seq(Byte) /\ b \in Nat /\ n \in Nat /\ n <= Len(t) /\ Len(buf) \in Nat
    <2>1. taken \in Nat /\ taken <= Len(t) /\ Len(t) \in Nat /\ t \in Seq(Byte) /\ b \in Nat /\ Len(buf) \in Nat
      BY Sizes
    <2>2. taken = b + Len(buf)
      BY <2>1 DEF Base
    <2> HIDE DEF t, b
    <2> QED
      BY <2>1, <2>2
  <1>3. \A k \in 1..L : HeaderInOrder(b, from, l, n, k)
    <2>1. b < from /\ l \in Seq(Header) /\ Chain(t, b, from, l, n)
      OBVIOUS
    <2> HIDE DEF t, b, n, l
    <2> QED
      BY <1>2, <2>1, ChainInOrder DEF L, l
  <1>4. \A k \in 1..L : T(k) = HeaderText(t, b, l[k])
    <2> SUFFICES ASSUME NEW k \in 1..L PROVE T(k) = HeaderText(t, b, l[k])
      OBVIOUS
    <2> DEFINE ks == l[k].ks
               ke == l[k].ke
               vs == l[k].vs
               ve == l[k].ve
    <2>1. /\ l[k] \in Header /\ from <= b + ks /\ ks < ke /\ ke < vs /\ vs < ve /\ b + ve < n
      BY <1>3 DEF HeaderInOrder
    <2>2. ks \in Nat /\ ke \in Nat /\ vs \in Nat /\ ve \in Nat
      BY <2>1 DEF Header
    <2>3. T(k) = [key |-> Text(ks, ke), val |-> Text(vs, ve)]
      OBVIOUS
    <2>4. HeaderText(t, b, l[k]) = [key |-> SubSeq(t, b + ks, (b + ke) - 1), val |-> SubSeq(t, b + vs, (b + ve) - 1)]
      BY DEF HeaderText
    <2>8. b < from /\ n = b + at
      OBVIOUS
    <2> HIDE DEF ks, ke, vs, ve, T, b, n
    <2>5. 1 <= ks /\ ks <= ke /\ ke <= Len(buf) + 1 /\ 1 <= vs /\ vs <= ve /\ ve <= Len(buf) + 1
      BY <1>2, <2>1, <2>2, <2>8
    <2>6. Text(ks, ke) = SubSeq(t, b + ks, (b + ke) - 1)
      BY <2>2, <2>5, TextIs DEF b
    <2>7. Text(vs, ve) = SubSeq(t, b + vs, (b + ve) - 1)
      BY <2>2, <2>5, TextIs DEF b
    <2> QED
      BY <2>3, <2>4, <2>6, <2>7
  <1> HIDE DEF T, t, b, n
  <1>5. f \in Seq({T(k) : k \in 1..L}) /\ Len(f) = L
    <2>1. f \in [1..L -> {T(k) : k \in 1..L}]
      BY <1>1
    <2> QED
      BY <1>1, <2>1
  <1>6. \A k \in 1..L : f[k] = HeaderText(t, b, l[k])
    BY <1>1, <1>4
  <1> HIDE DEF f, L, l
  <1>7. \A i \in 1..L : (L - i) + 1 \in 1..L /\ L + 1 - i = (L - i) + 1
    BY <1>1
  <1>8. \A i \in 1..L : f[(L - i) + 1] = HeaderText(t, b, l[L + 1 - i])
    BY <1>6, <1>7
  <1>9. Reverse(f) = [i \in 1..L |-> f[(L - i) + 1]]
    BY <1>5 DEF Reverse
  <1>10. Reverse(f) = HeadersOf(t, b, l, L)
    BY <1>8, <1>9 DEF HeadersOf
  <1> QED
    BY <1>10 DEF f, l, L, T, t, b

\* The empty line: what is taken for a request is the one that is there.
LEMMA HdrDoneKeeps ==
    ASSUME Inv, PInv, HdrDone
    PROVE  PInv'
  <1>1. /\ pc = "hdr" /\ InBuf /\ pc' = "handle" /\ parse_pos' = pi + 1 /\ parse_phase' = 2 /\ NextState(HeaderRules) = {"done"}
        /\ UNCHANGED <<client, taken, ptr, version, cur, list, buf, cause>>
    BY DEF HdrDone, netVars, lineVars, histVars
  <1>2. /\ client.bytes \in Seq(Byte) /\ Base \in Nat /\ pi \in Nat /\ Base + pi < Len(client.bytes)
        /\ Ch = client.bytes[Base + pi + 1]
    BY <1>1, NextByte
  <1> DEFINE t == client.bytes
             b == Base
             n == b + pi
             k == b + (pi + 1)
             w == version
             l == list
             a == b + ptr.request_start
             m == b + ptr.method_end
             u == b + ptr.uri_start
             v == b + ptr.uri_end
             e == LineEnd(t, b, ptr)
             from == e + 1
             p == NextAt(b, from, l, 1)
  <1>3. /\ ptr \in Pointer /\ cur \in Header /\ l \in Seq(Header) /\ w \in Numbers
        /\ Line(t, b, pi, ptr, w) /\ Chain(t, b, from, l, n)
        /\ HeaderAt(t, from, sw, n, p, b + cur.ks, b + cur.ke, b + cur.vs, b + cur.ve)
    BY <1>1, InHeadersNow DEF InHeaders
  <1>4. PICK rule \in HeaderRules : rule[1] = sw /\ Ch \in rule[2] /\ rule[3] = "done"
    BY <1>1 DEF NextState
  <1>5. sw = "crlfcr" /\ Ch = LF
    <2>1. rule[1] \in HeaderStates
      BY DEF HeaderStates
    <2>2. rule[1] = "crlfcr"
      BY <1>4, <2>1, HeaderStatesAre, HeaderEdges
    <2>3. rule[2] = {LF}
      BY <2>2, HeaderEdges
    <2> QED
      BY <1>4, <2>2, <2>3
  <1>6. t \in Seq(Byte) /\ b \in Nat /\ n \in Nat /\ k \in Nat /\ k = n + 1 /\ n < Len(t) /\ t[k] = LF /\ n <= k
    <2>1. k = Base + pi + 1
      BY <1>2
    <2>2. t[k] = LF
      BY <1>2, <1>5, <2>1
    <2> QED
      BY <1>2, <2>2
  <1>7. n = p /\ t[p] = CR
    BY <1>3, <1>5 DEF HeaderAt
  <1>8. LineRead(t, b, a, m, u, v, w, e) /\ e \in Nat /\ e <= n /\ b < e
    <2>1. LineRead(t, b, a, m, u, v, w, e) /\ e <= n /\ ptr.request_end > 0
      BY <1>3 DEF Line
    <2> QED
      BY <1>3, <1>6, <2>1, LineEndTyped
  <1>9. LineInOrder(t, b, pi, ptr)
    <2> HIDE DEF t, b, w
    <2> QED
      BY <1>2, <1>3, <1>6, LineOrdered
  <1>10. /\ ptr.request_start \in Nat /\ ptr.method_end \in Nat /\ ptr.uri_start \in Nat /\ ptr.uri_end \in Nat
         /\ ptr.request_end \in Nat
    BY <1>3 DEF Pointer
  <1>11. a \in Nat /\ m \in Nat /\ u \in Nat /\ v \in Nat
    <2>1. \A i \in Nat : b + i \in Nat
      BY <1>6
    <2> QED
      BY <1>10, <2>1, Zenon
  <1>12. Complete(t, b, a, m, u, v, w, l, k)
    <2>1. w \in [major : Nat, minor : Nat] /\ from = e + 1 /\ p = NextAt(b, from, l, 1)
      BY <1>3 DEF Numbers
    <2> HIDE DEF t, b, n, k, w, l, a, m, u, v, e, from, p
    <2> QED
      BY <1>3, <1>6, <1>7, <1>8, <1>11, <2>1, DoneIs
  <1>13. Len(buf) \in Nat /\ pi < Len(buf)
    BY <1>1, Sizes DEF InBuf
  <1>14. /\ Text(ptr.request_start, ptr.method_end) = SubSeq(t, a, m - 1)
         /\ Text(ptr.uri_start, ptr.uri_end) = SubSeq(t, u, v - 1)
    <2> DEFINE rs == ptr.request_start
               me == ptr.method_end
               us == ptr.uri_start
               ue == ptr.uri_end
               re == ptr.request_end
    <2>1. /\ rs \in Nat /\ me \in Nat /\ us \in Nat /\ ue \in Nat /\ re \in Nat
          /\ 1 <= rs /\ rs < me /\ me < us /\ us < ue /\ ue < re /\ re <= pi
      BY <1>9, <1>10 DEF LineInOrder
    <2> HIDE DEF rs, me, us, ue, re
    <2>2. rs <= me /\ me <= Len(buf) + 1 /\ 1 <= us /\ us <= ue /\ ue <= Len(buf) + 1
      BY <1>2, <1>13, <2>1
    <2>3. Text(rs, me) = SubSeq(client.bytes, Base + rs, (Base + me) - 1)
      BY <2>1, <2>2, TextIs
    <2>4. Text(us, ue) = SubSeq(client.bytes, Base + us, (Base + ue) - 1)
      BY <2>1, <2>2, TextIs
    <2> QED
      BY <2>3, <2>4 DEF rs, me, us, ue
  <1> DEFINE hs == Reverse([i \in DOMAIN list |-> [key |-> Text(list[i].ks, list[i].ke), val |-> Text(list[i].vs, list[i].ve)]])
  <1>15. hs = HeadersOf(t, b, l, Len(l))
    <2>1. list \in Seq(Header) /\ from \in Nat /\ Base < from /\ pi \in Nat /\ pi <= Len(buf)
          /\ Chain(client.bytes, Base, from, list, Base + pi)
      <3>1. e \in Nat /\ b < e /\ b \in Nat
        BY <1>6, <1>8
      <3>2. from \in Nat /\ b < from
        <4> HIDE DEF e, b
        <4> QED
          BY <3>1
      <3> QED
        BY <1>2, <1>3, <1>13, <3>2
    <2> HIDE DEF from
    <2>2. hs = HeadersOf(client.bytes, Base, list, Len(list))
      BY <2>1, HeadersAre
    <2> QED
      BY <2>2
  <1> HIDE DEF hs
  <1> DEFINE q == [begin   |-> taken - Len(buf), end |-> taken - Len(buf) + pi + 1,
                   method  |-> Text(ptr.request_start, ptr.method_end), uri |-> Uri,
                   v11     |-> version.major > 1 \/ version.minor >= 1,
                   headers |-> hs]
  <1>16. Last(reqs') = q
    <2>1. reqs' = Append(reqs, q)
      BY DEF HdrDone, hs
    <2> HIDE DEF q
    <2>2. Len(reqs) \in Nat /\ Len(reqs') = Len(reqs) + 1 /\ reqs'[Len(reqs) + 1] = q
      BY <2>1, AppendAny DEF Inv, Shapes
    <2> QED
      BY <2>2 DEF Last
  <1>17. /\ q.begin = b /\ q.end = k /\ q.method = SubSeq(t, a, m - 1) /\ q.uri = SubSeq(t, u, v - 1)
         /\ q.v11 = (w.major > 1 \/ w.minor >= 1) /\ q.headers = HeadersOf(t, b, l, Len(l))
    <2>1. q.begin = b /\ q.end = b + pi + 1
      BY DEF Base
    <2>2. b + pi + 1 = k
      BY <1>6
    <2>3. q.method = SubSeq(t, a, m - 1) /\ q.uri = SubSeq(t, u, v - 1)
      BY <1>14 DEF Uri
    <2>4. q.v11 = (w.major > 1 \/ w.minor >= 1) /\ q.headers = hs
      OBVIOUS
    <2> QED
      BY <1>15, <2>1, <2>2, <2>3, <2>4
  <1>18. Found'
    <2> HIDE DEF q, t, b, n, k, w, l, a, m, u, v
    <2>1. SameAs(q, Request(t, q.begin))
      BY <1>12, <1>17 DEF SameAs, Complete
    <2>2. client'.bytes = t
      BY <1>1 DEF t
    <2>3. SameAs(Last(reqs'), Request(client'.bytes, Last(reqs').begin))
      BY <1>16, <2>1, <2>2
    <2> HIDE DEF Last, SameAs
    <2> QED
      BY <2>3, Zenon DEF Found
  <1>19. PtrTypes'
    BY <1>1 DEF PInv, PtrTypes
  <1>20. CauseNone' /\ NoneRefused'
    BY <1>1 DEF PInv, CauseNone, NoneRefused, OverflowOnlyTooLong
  <1>21. Line(t, b, pi + 1, ptr, w) /\ Chain(t, b, from, l, k)
    <2>1. Line(t, b, pi + 1, ptr, w)
      <3> HIDE DEF t, b, w
      <3> QED
        BY <1>2, <1>3, <1>6, LineLater
    <2>2. Chain(t, b, from, l, k)
      <3> HIDE DEF t, b, n, k, l, from
      <3> QED
        BY <1>3, <1>6, ChainLater
    <2> QED
      BY <2>1, <2>2
  <1>22. Parser(t, b, pi + 1, 2, request_line_state', header_state', ptr, w, cur, l)
    BY <1>21 DEF Parser
  <1>23. Base' = b /\ At' = pi + 1 /\ LineSt' = request_line_state' /\ HdrSt' = header_state'
    BY <1>1 DEF Base, At, LineSt, HdrSt
  <1>24. ParserAt'
    <2>1. Parser(client'.bytes, Base', At', parse_phase', LineSt', HdrSt', ptr', version', cur', list')
      BY <1>1, <1>22, <1>23
    <2> QED
      BY <2>1, Zenon DEF ParserAt
  <1> QED
    BY <1>18, <1>19, <1>20, <1>24 DEF PInv
-----------------------------------------------------------------------------
(* Every step keeps the invariant.                                          *)

\* Reading and the ends of the parsers: the state of a parser is saved and taken
\* up again.
LEMMA ReadingKeeps ==
    ASSUME Inv, PInv, Inv', \/ InputEvent \/ Resume \/ ReadAgain \/ LineAgain \/ HdrAgain
                            \/ \E n \in 1..(Len(client.bytes) - taken) : Read(n)
    PROVE  PInv'
  <1>1. CASE InputEvent
    <2>1. /\ pc = "wait" /\ pc' = "top"
          /\ UNCHANGED <<client, taken, buf, parse_pos, parse_phase, sw, pi, request_line_state, header_state, ptr, version,
                         cur, list, cause>>
      BY <1>1 DEF InputEvent, netVars, lineVars, hdrVars, bufVars, histVars
    <2>2. Base' = Base /\ At' = At /\ LineSt' = LineSt /\ HdrSt' = HdrSt
      BY <2>1 DEF Base, At, LineSt, HdrSt
    <2> QED
      BY <2>1, <2>2, ParserKept
  <1>2. CASE Resume
    <2>1. /\ pc = "top" /\ pc' = (IF parse_phase = 0 THEN "line" ELSE "hdr")
          /\ sw' = (IF parse_phase = 0 THEN request_line_state ELSE header_state) /\ pi' = parse_pos
          /\ UNCHANGED <<client, taken, buf, parse_pos, parse_phase, request_line_state, header_state, ptr, version,
                         cur, list, cause>>
      BY <1>2 DEF Resume, EnterParser, netVars, lineVars, hdrVars, bufVars, histVars
    <2>2. Base' = Base /\ At' = At /\ LineSt' = LineSt /\ HdrSt' = HdrSt
      BY <2>1 DEF Base, At, LineSt, HdrSt
    <2>3. pc' # "handle"
      BY <2>1
    <2> QED
      BY <2>1, <2>2, <2>3, ParserKept
  <1>3. CASE ReadAgain
    <2>1. /\ pc = "top" /\ pc' = "wait"
          /\ UNCHANGED <<client, taken, buf, parse_pos, parse_phase, sw, pi, request_line_state, header_state, ptr, version,
                         cur, list, cause>>
      BY <1>3 DEF ReadAgain, Return, netVars, lineVars, hdrVars, bufVars, histVars
    <2>2. Base' = Base /\ At' = At /\ LineSt' = LineSt /\ HdrSt' = HdrSt
      BY <2>1 DEF Base, At, LineSt, HdrSt
    <2> QED
      BY <2>1, <2>2, ParserKept
  <1>4. CASE LineAgain
    <2>1. /\ pc = "line" /\ pc' = "top" /\ parse_pos' = pi /\ request_line_state' = sw
          /\ UNCHANGED <<client, taken, buf, parse_phase, sw, pi, header_state, ptr, version, cur, list, cause>>
      BY <1>4 DEF LineAgain, netVars, hdrVars, histVars
    <2>2. Base' = Base /\ At' = At /\ LineSt' = LineSt /\ HdrSt' = HdrSt
      BY <2>1 DEF Base, At, LineSt, HdrSt
    <2> QED
      BY <2>1, <2>2, ParserKept
  <1>5. CASE HdrAgain
    <2>1. /\ pc = "hdr" /\ pc' = "top" /\ parse_pos' = pi /\ header_state' = sw
          /\ UNCHANGED <<client, taken, buf, parse_phase, sw, pi, request_line_state, ptr, version, cur, list, cause>>
      BY <1>5 DEF HdrAgain, netVars, lineVars, histVars
    <2>2. Base' = Base /\ At' = At /\ LineSt' = LineSt /\ HdrSt' = HdrSt
      BY <2>1 DEF Base, At, LineSt, HdrSt
    <2> QED
      BY <2>1, <2>2, ParserKept
  <1>6. ASSUME NEW n \in 1..(Len(client.bytes) - taken), Read(n)
        PROVE  PInv'
    <2>1. /\ pc = "top" /\ pc' = (IF parse_phase = 0 THEN "line" ELSE "hdr")
          /\ sw' = (IF parse_phase = 0 THEN request_line_state ELSE header_state) /\ pi' = parse_pos
          /\ UNCHANGED <<client, parse_pos, parse_phase, request_line_state, header_state, ptr, version,
                         cur, list, cause, reqs>>
      BY <1>6 DEF Read, EnterParser, lineVars, hdrVars, histVars
    <2>2. Base' = Base
      <3>1. parse_phase # 2
        BY <2>1 DEF Inv, InPhase
      <3>2. Base = IF reqs = <<>> THEN 0 ELSE Last(reqs).end
        BY <3>1, Zenon DEF Inv, BufferIsStream
      <3>3. BufferIsStream' /\ parse_phase' # 2
        BY <2>1, <3>1 DEF Inv
      <3>4. Base' = IF reqs' = <<>> THEN 0 ELSE Last(reqs').end
        BY <3>3, Zenon DEF BufferIsStream
      <3> QED
        BY <2>1, <3>2, <3>4
    <2>3. At' = At /\ LineSt' = LineSt /\ HdrSt' = HdrSt
      BY <2>1 DEF At, LineSt, HdrSt
    <2>4. pc' # "handle"
      BY <2>1
    <2> QED
      BY <2>1, <2>2, <2>3, <2>4, ParserKept
  <1> QED
    BY <1>1, <1>2, <1>3, <1>4, <1>5, <1>6

\* What follows a complete request leaves the parsers alone, but for the headers
\* that are given back.
LEMMA HandlingKeeps ==
    ASSUME Inv, PInv, \/ HandleEarly \/ HandlePath \/ Resolve \/ Locate \/ CgiStart \/ CgiError
                      \/ StaticInvalid \/ StaticError \/ \E modified \in BOOLEAN : StaticFile(modified)
    PROVE  PInv'
  <1>1. /\ pc \in {"handle", "resolve", "file"} /\ pc' \in {"send", "resolve", "file", "cgi"}
        /\ list' = list \/ list' = <<>>
        /\ UNCHANGED <<client, taken, buf, parse_pos, parse_phase, sw, pi, request_line_state, header_state, ptr, version,
                       cur, cause>>
    <2>1. CASE HandleEarly
      BY <2>1 DEF HandleEarly, FreeHeaders, KeepHeaders, prepare_error, Begin, netVars, lineVars, bufVars
    <2>2. CASE HandlePath
      BY <2>2 DEF HandlePath, FreeHeaders, KeepHeaders, netVars, lineVars, bufVars, histVars
    <2>3. CASE Resolve
      BY <2>3 DEF Resolve, netVars, lineVars, hdrVars, bufVars, histVars
    <2>4. CASE Locate
      BY <2>4 DEF Locate, netVars, lineVars, hdrVars, bufVars, histVars
    <2>5. CASE CgiStart
      BY <2>5 DEF CgiStart, CgiFile, netVars, lineVars, hdrVars, bufVars
    <2>6. CASE CgiError
      BY <2>6 DEF CgiError, CgiFile, prepare_error, Begin, netVars, lineVars, hdrVars, bufVars
    <2>7. CASE StaticInvalid
      BY <2>7 DEF StaticInvalid, StaticPath, prepare_error, Begin, netVars, lineVars, hdrVars, bufVars
    <2>8. CASE StaticError
      BY <2>8 DEF StaticError, StaticPath, FreeHeaders, prepare_error, Begin, netVars, lineVars, bufVars
    <2>9. ASSUME NEW modified \in BOOLEAN, StaticFile(modified)
          PROVE  /\ pc \in {"handle", "resolve", "file"} /\ pc' \in {"send", "resolve", "file", "cgi"}
                 /\ list' = list \/ list' = <<>>
                 /\ UNCHANGED <<client, taken, buf, parse_pos, parse_phase, sw, pi, request_line_state, header_state, ptr,
                                version, cur, cause>>
      BY <2>9 DEF StaticFile, StaticPath, FreeHeaders, prepare_static, Begin, netVars, lineVars, bufVars
    <2> QED
      BY <2>1, <2>2, <2>3, <2>4, <2>5, <2>6, <2>7, <2>8, <2>9
  <1>2. parse_phase = 2
    BY <1>1 DEF Inv, InPhase
  <1>3. Base' = Base /\ At' = At /\ LineSt' = LineSt /\ HdrSt' = HdrSt
    BY <1>1 DEF Base, At, LineSt, HdrSt
  <1> QED
    BY <1>1, <1>2, <1>3, ParserKept

\* Sending leaves them alone as well, until the response is out.
LEMMA SendingKeeps ==
    ASSUME Inv, PInv, \/ \E n \in 1..(HeaderLen + PageLen) : Writev(n)
                      \/ \E n \in 1..out.size : Sendfile(n)
                      \/ WriteEvent \/ Truncate
    PROVE  PInv'
  <1>1. /\ pc \in {"send", "wait"} /\ pc' \in {"send", "wait"}
        /\ UNCHANGED <<client, taken, buf, parse_pos, parse_phase, sw, pi, request_line_state, header_state, ptr, version,
                       cur, list, cause>>
    <2>1. ASSUME NEW n, Writev(n)
          PROVE  /\ pc = "send" /\ pc' = pc
                 /\ UNCHANGED <<client, taken, buf, parse_pos, parse_phase, sw, pi, request_line_state, header_state, ptr,
                                version, cur, list, cause>>
      BY <2>1 DEF Writev, netVars, lineVars, hdrVars, bufVars
    <2>2. ASSUME NEW n, Sendfile(n)
          PROVE  /\ pc = "send" /\ pc' = pc
                 /\ UNCHANGED <<client, taken, buf, parse_pos, parse_phase, sw, pi, request_line_state, header_state, ptr,
                                version, cur, list, cause>>
      BY <2>2 DEF Sendfile, netVars, lineVars, hdrVars, bufVars
    <2>3. CASE WriteEvent
      BY <2>3 DEF WriteEvent, netVars, lineVars, hdrVars, bufVars, histVars
    <2>4. CASE Truncate
      BY <2>4 DEF Truncate, netVars, lineVars, hdrVars, bufVars, histVars
    <2> QED
      BY <2>1, <2>2, <2>3, <2>4
  <1>2. Base' = Base /\ At' = At /\ LineSt' = LineSt /\ HdrSt' = HdrSt
    BY <1>1 DEF Base, At, LineSt, HdrSt
  <1> QED
    BY <1>1, <1>2, ParserKept

\* The response is out, or blocked: request_done if it is the first time.
LEMMA AfterKeeps ==
    ASSUME Inv, PInv, Inv', SendNext \/ SendBlocked
    PROVE  PInv'
  <1>1. /\ pc = "send" /\ pc' \in {"wait", "top"}
        /\ IF after = "done" THEN RequestDone ELSE KeepRequest /\ pc' = "wait"
        /\ UNCHANGED <<client, taken, version, cur, list, cause>>
    <2>1. CASE SendNext
      BY <2>1 DEF SendNext, Return, netVars, hdrVars
    <2>2. CASE SendBlocked
      BY <2>2 DEF SendBlocked, Return, netVars, hdrVars, histVars
    <2> QED
      BY <2>1, <2>2
  <1>2. CASE after = "done"
    <2>1. parse_phase = 2 /\ list = <<>>
      BY <1>1, <1>2 DEF Inv, InPhase
    <2> QED
      BY <1>1, <1>2, <2>1, DoneKeeps
  <1>3. CASE after # "done"
    <2>1. UNCHANGED <<buf, parse_pos, parse_phase, request_line_state, header_state, ptr>> /\ pc' = "wait"
      BY <1>1, <1>3 DEF KeepRequest, bufVars
    <2>2. Base' = Base /\ At' = At /\ LineSt' = LineSt /\ HdrSt' = HdrSt
      BY <1>1, <2>1 DEF Base, At, LineSt, HdrSt
    <2> QED
      BY <1>1, <2>1, <2>2, ParserKept
  <1> QED
    BY <1>2, <1>3

\* The connection is closed for another reason than what was parsed.
LEMMA ClosingKeeps ==
    ASSUME Inv, PInv, ReadEnd \/ HdrNoMemory \/ PrepareFailed \/ SendFailed \/ Expired \/ SendClose
    PROVE  PInv'
  <1>1. CASE ReadEnd \/ HdrNoMemory \/ PrepareFailed \/ SendFailed \/ Expired
    <2>1. \E why \in {"peer", "memory", "open", "timeout"} : CloseConn(why)
      BY <1>1, Zenon DEF ReadEnd, HdrNoMemory, PrepareFailed, SendFailed, Expired
    <2> QED
      BY <2>1, CloseKeeps
  <1>2. CASE SendClose
    <2>1. pc' = "closed" /\ cause' = "served" /\ cur' = cur /\ list' = <<>>
      BY <1>2 DEF SendClose, FreeHeaders
    <2>2. ptr' = ptr \/ ptr' = NullPtr
      BY <1>2 DEF SendClose, RequestDone, KeepRequest
    <2> QED
      BY <2>1, <2>2, ClosedOther
  <1> QED
    BY <1>1, <1>2

\* Nothing changes.
LEMMA StutterKeeps ==
    ASSUME PInv, UNCHANGED vars
    PROVE  PInv'
  <1>1. /\ UNCHANGED <<client, taken, buf, parse_pos, parse_phase, sw, pi, request_line_state, header_state, ptr, version,
                       cur, list, cause, pc, reqs>>
    BY DEF vars, netVars, lineVars, hdrVars, bufVars, histVars
  <1>2. Base' = Base /\ At' = At /\ LineSt' = LineSt /\ HdrSt' = HdrSt
    BY <1>1 DEF Base, At, LineSt, HdrSt
  <1>3. ParserAt'
    BY <1>1, <1>2 DEF PInv, ParserAt
  <1>4. PtrTypes' /\ CauseNone'
    BY <1>1 DEF PInv, PtrTypes, CauseNone
  <1>5. NoneRefused'
    BY <1>1, <1>2 DEF PInv, NoneRefused, OverflowOnlyTooLong
  <1>6. Found'
    BY <1>1 DEF PInv, Found
  <1> QED
    BY <1>3, <1>4, <1>5, <1>6 DEF PInv

\* One step of the connection.
LEMMA NextKeeps ==
    ASSUME Inv, PInv, [Next]_vars
    PROVE  PInv'
  <1>1. Inv'
    BY NextInv
  <1>2. CASE UNCHANGED vars \/ Over
    BY <1>2, StutterKeeps DEF Over
  <1>3. CASE Reading
    BY <1>1, <1>3, ReadingKeeps, ClosingKeeps, OverflowKeeps DEF Reading
  <1>4. CASE Parsing
    BY <1>1, <1>4, ReadingKeeps, ClosingKeeps, LineByteKeeps, LineDoneKeeps, LineBadKeeps, HdrByteKeeps, HdrDoneKeeps,
       HdrBadKeeps DEF Parsing
  <1>5. CASE Handling
    BY <1>5, HandlingKeeps, ClosingKeeps DEF Handling
  <1>6. CASE Sending \/ WriteEvent \/ Truncate
    BY <1>6, SendingKeeps DEF Sending
  <1>7. CASE AfterSending \/ SendBlocked
    BY <1>1, <1>7, AfterKeeps, ClosingKeeps DEF AfterSending
  <1>8. CASE SendFailed \/ Expired
    BY <1>8, ClosingKeeps
  <1> QED
    BY <1>2, <1>3, <1>4, <1>5, <1>6, <1>7, <1>8 DEF Next

\* At the start.
LEMMA StartsParsing == Init => PInv
  <1> SUFFICES ASSUME Init PROVE PInv
    OBVIOUS
  <1>1. /\ taken = 0 /\ pc = "wait" /\ buf = <<>> /\ parse_pos = 0 /\ parse_phase = 0 /\ request_line_state = "start"
        /\ header_state = "start" /\ ptr = NullPtr /\ cur = [ks |-> Null, ke |-> Null, vs |-> Null, ve |-> Null]
        /\ list = <<>> /\ cause = "none"
    BY DEF Init
  <1>2. PtrTypes
    BY <1>1 DEF PtrTypes, NullPtr, Pointer, Header, Null
  <1>3. CauseNone /\ NoneRefused /\ Found
    BY <1>1 DEF CauseNone, NoneRefused, OverflowOnlyTooLong, Found
  <1>4. At = 0 /\ LineSt = "start" /\ HdrSt = "start" /\ Base \in Nat
    BY <1>1 DEF At, LineSt, HdrSt, Base
  <1>5. Parser(client.bytes, Base, 0, 0, "start", "start", NullPtr, version, cur, list)
    BY <1>4, AtStart
  <1>6. ParserAt
    BY <1>1, <1>4, <1>5 DEF ParserAt
  <1> QED
    BY <1>2, <1>3, <1>6 DEF PInv

\* The invariant of the parsers: what they have read of a request is what the
\* stream has there, and they end as the reference says.
THEOREM ParserInvariant == Spec => []PInv
  <1>1. Inv /\ PInv /\ [Next]_vars => PInv'
    BY NextKeeps
  <1> QED
    BY <1>1, StartsParsing, InvHolds, PTL DEF Spec
-----------------------------------------------------------------------------
(* The properties.                                                          *)

\* do_request does not wait while the request it is parsing is complete.
LEMMA WaitsForMore ==
    ASSUME Inv, PInv, pc = "wait", Parsed, parse_phase # 2
    PROVE  ~Request(SubSeq(client.bytes, 1, taken), Base).ok
  <1> DEFINE s == client.bytes
             t == SubSeq(s, 1, taken)
             b == Base
  <1>1. /\ s \in Seq(Byte) /\ Len(s) \in Nat /\ taken \in Nat /\ taken <= Len(s) /\ b \in Nat /\ b <= taken
        /\ b + Len(buf) = taken
    BY Sizes DEF Base
  <1> SUFFICES ASSUME Request(t, b).ok PROVE FALSE
    OBVIOUS
  <1> HIDE DEF s, b
  <1>2. t \in Seq(Byte) /\ Len(t) = taken /\ \A k \in 1..taken : t[k] = s[k]
    <2> DEFINE i == 1
    <2>1. i \in Nat /\ 1 <= i /\ i <= taken + 1 /\ taken - i + 1 = taken /\ \A k \in 1..taken : i + k - 1 = k
      BY <1>1
    <2> HIDE DEF i
    <2>2. /\ SubSeq(s, i, taken) \in Seq(Byte) /\ Len(SubSeq(s, i, taken)) = taken - i + 1
          /\ \A k \in 1..(taken - i + 1) : SubSeq(s, i, taken)[k] = s[i + k - 1]
      BY <1>1, <2>1, Part
    <2>3. /\ SubSeq(s, i, taken) \in Seq(Byte) /\ Len(SubSeq(s, i, taken)) = taken
          /\ \A k \in 1..taken : SubSeq(s, i, taken)[k] = s[k]
      BY <2>1, <2>2
    <2> QED
      BY <2>3 DEF i
  <1> HIDE DEF t
  <1>3. Begins(t, s) /\ b <= Len(t)
    BY <1>1, <1>2 DEF Begins
  <1>4. Request(s, b).ok /\ Request(s, b).end <= Len(t)
    BY <1>1, <1>2, <1>3, RequestLonger
  <1>5. taken < Request(s, b).end
    <2>1. Base + Len(buf) < Request(client.bytes, Base).end
      BY <1>4, EndsBehind DEF s, b
    <2> QED
      BY <1>1, <2>1 DEF s, b
  <1>6. Request(s, b).end \in Nat
    <2>1. b <= Len(s)
      BY <1>1
    <2> QED
      BY <1>1, <1>4, <2>1, RequestEnd
  <1> DEFINE f == Request(s, b).end
  <1>7. f \in Nat /\ taken < f /\ f <= taken
    BY <1>2, <1>4, <1>5, <1>6
  <1> HIDE DEF f
  <1> QED
    BY <1>1, <1>7

\* A pointer into the buffer that is set is in the part that is parsed, and so are
\* those before it.
InOrder(at, p) == \A i \in 1..5 : p[i] # Null => p[i] <= at /\ \A j \in 1..(i - 1) : p[j] # Null /\ p[j] < p[i]

\* Five pointers, of which the first k are set.
LEMMA FirstSet ==
    ASSUME NEW at \in Nat, NEW p1 \in Nat, NEW p2 \in Nat, NEW p3 \in Nat, NEW p4 \in Nat, NEW p5 \in Nat,
           p1 # Null => p1 <= at,
           p2 # Null => p1 # Null /\ p1 < p2 /\ p2 <= at,
           p3 # Null => p2 # Null /\ p2 < p3 /\ p3 <= at,
           p4 # Null => p3 # Null /\ p3 < p4 /\ p4 <= at,
           p5 # Null => p4 # Null /\ p4 < p5 /\ p5 <= at
    PROVE  InOrder(at, <<p1, p2, p3, p4, p5>>)
  <1> DEFINE p == <<p1, p2, p3, p4, p5>>
  <1>1. p[1] = p1 /\ p[2] = p2 /\ p[3] = p3 /\ p[4] = p4 /\ p[5] = p5
    OBVIOUS
  <1> HIDE DEF p
  <1> SUFFICES ASSUME NEW i \in 1..5, p[i] # Null
               PROVE  p[i] <= at /\ \A j \in 1..(i - 1) : p[j] # Null /\ p[j] < p[i]
    BY DEF InOrder, p
  <1>2. CASE i = 1
    BY <1>1, <1>2
  <1>3. CASE i = 2
    <2>1. \A j \in 1..(i - 1) : j = 1
      BY <1>3
    <2> QED
      BY <1>1, <1>3, <2>1
  <1>4. CASE i = 3
    <2>1. \A j \in 1..(i - 1) : j = 1 \/ j = 2
      BY <1>4
    <2> QED
      BY <1>1, <1>4, <2>1
  <1>5. CASE i = 4
    <2>1. \A j \in 1..(i - 1) : j = 1 \/ j = 2 \/ j = 3
      BY <1>5
    <2> QED
      BY <1>1, <1>5, <2>1
  <1>6. CASE i = 5
    <2>1. \A j \in 1..(i - 1) : j = 1 \/ j = 2 \/ j = 3 \/ j = 4
      BY <1>6
    <2> QED
      BY <1>1, <1>6, <2>1
  <1> QED
    BY <1>2, <1>3, <1>4, <1>5, <1>6

\* The pointers while the line is parsed: those the parser has come to are set.
LEMMA LinePointers ==
    ASSUME NEW t, NEW b \in Nat, NEW at \in Nat, NEW st \in LineStates, NEW q \in Pointer, NEW w, InLine(t, b, at, st, q, w)
    PROVE  InOrder(at, <<q.request_start, q.method_end, q.uri_start, q.uri_end, q.request_end>>)
  <1> DEFINE rs == q.request_start
             me == q.method_end
             us == q.uri_start
             ue == q.uri_end
             re == q.request_end
             a == b + rs
             m == b + me
             u == b + us
             v == b + ue
             n == b + at
  <1>1. rs \in Nat /\ me \in Nat /\ us \in Nat /\ ue \in Nat /\ re \in Nat
    BY DEF Pointer
  <1>2. LineAt(t, b, st, n, a, m, u, v, w)
    BY Zenon DEF InLine
  <1>3. /\ re = 0
        /\ st = "start" => rs <= at
        /\ st \in {"start", "method"} => me = 0
        /\ st \in {"start", "method", "spaces_before_uri"} => us = 0
        /\ st \in {"start", "method", "spaces_before_uri", "after_slash_in_uri"} => ue = 0
    BY DEF InLine, LaterNull, Null
  <1>4. a = b + rs /\ m = b + me /\ u = b + us /\ v = b + ue /\ n = b + at
    OBVIOUS
  <1> HIDE DEF rs, me, us, ue, re, a, m, u, v, n
  <1>5. /\ rs # 0 => rs <= at
        /\ me # 0 => rs # 0 /\ rs < me /\ me <= at
        /\ us # 0 => me # 0 /\ me < us /\ us <= at
        /\ ue # 0 => us # 0 /\ us < ue /\ ue <= at
    <2>1. CASE st = "start"
      BY <1>3, <2>1
    <2>2. CASE st = "method"
      <3>1. b < a /\ a <= n
        BY <1>2, <2>2, LineAtIs
      <3> QED
        BY <1>1, <1>3, <1>4, <2>2, <3>1, SMTT(40)
    <2>3. CASE st = "spaces_before_uri"
      <3>1. b < a /\ a < m /\ m <= n
        BY <1>2, <2>3, LineAtIs DEF WordAt, WordTo
      <3> QED
        BY <1>1, <1>3, <1>4, <2>3, <3>1
    <2>4. CASE st = "after_slash_in_uri"
      <3>1. b < a /\ a < m /\ m < u /\ u <= n
        BY <1>2, <2>4, LineAtIs DEF WordAt, WordTo, UriAt
      <3> QED
        BY <1>1, <1>3, <1>4, <2>4, <3>1, SMTT(40)
    <2>5. CASE st \notin {"start", "method", "spaces_before_uri", "after_slash_in_uri"}
      <3>1. MethodUri(t, b, a, m, u, v) /\ v <= n
        BY <1>2, <2>5, Zenon DEF LineAt
      <3>2. b < a /\ a < m /\ m < u /\ u < v
        BY <3>1 DEF MethodUri, WordAt, WordTo, UriAt, UriTo
      <3> QED
        BY <1>1, <1>4, <3>1, <3>2
    <2> QED
      BY <2>1, <2>2, <2>3, <2>4, <2>5
  <1>6. InOrder(at, <<rs, me, us, ue, re>>)
    BY <1>1, <1>3, <1>5, FirstSet DEF Null
  <1> QED
    BY <1>6 DEF rs, me, us, ue, re

\* What PointersInOrder says of the line and of the headers.
LineSet(p) == /\ p[5] # Null /\ buf[p[2]] = SP /\ buf[p[3]] = "/" /\ buf[p[4]] = SP
              /\ p[5] = FirstIn(buf, p[4], {CR, LF})
HeaderSet(at, k) == /\ ptr.request_end < list[k].ks /\ list[k].ks < list[k].ke
                    /\ list[k].ke < list[k].vs /\ list[k].vs < list[k].ve /\ list[k].ve < at
                    /\ k > 1 => list[k].ve < list[k - 1].ks

\* The pointers once the line is read.
LEMMA ReadPointers ==
    ASSUME Inv, PInv, pc # "closed", parse_phase # 0
    PROVE  /\ InOrder(At, <<ptr.request_start, ptr.method_end, ptr.uri_start, ptr.uri_end, ptr.request_end>>)
           /\ LineSet(<<ptr.request_start, ptr.method_end, ptr.uri_start, ptr.uri_end, ptr.request_end>>)
           /\ \A k \in DOMAIN list : HeaderSet(At, k)
  <1> DEFINE t == client.bytes
             b == Base
             at == At
             q == ptr
             w == version
             l == list
             rs == q.request_start
             me == q.method_end
             us == q.uri_start
             ue == q.uri_end
             re == q.request_end
             e == LineEnd(t, b, q)
             n == b + at
             from == e + 1
  <1>1. q \in Pointer /\ l \in Seq(Header) /\ Line(t, b, at, q, w) /\ Chain(t, b, from, l, n)
    BY DEF PInv, PtrTypes, ParserAt, Parser
  <1>2. /\ t \in Seq(Byte) /\ b \in Nat /\ at \in Nat /\ n \in Nat /\ n <= Len(t) /\ at <= Len(buf) /\ Len(buf) \in Nat
        /\ buf \in Seq(Byte) /\ n = b + at
    <2>1. /\ t \in Seq(Byte) /\ b \in Nat /\ Len(buf) \in Nat /\ taken \in Nat /\ taken <= Len(t) /\ Len(t) \in Nat
          /\ buf \in Seq(Byte)
      BY Sizes
    <2>2. b = taken - Len(buf)
      BY DEF Base
    <2>3. at \in Nat /\ at <= Len(buf)
      BY Where
    <2> HIDE DEF t, b, at
    <2> QED
      BY <2>1, <2>2, <2>3
  <1>3. rs \in Nat /\ me \in Nat /\ us \in Nat /\ ue \in Nat /\ re \in Nat
    BY <1>1 DEF Pointer
  <1>4. LineInOrder(t, b, at, q)
    <2> HIDE DEF t, b, at, q, w
    <2> QED
      BY <1>1, <1>2, LineOrdered
  <1>5. /\ 1 <= rs /\ rs < me /\ me < us /\ us < ue /\ ue < re /\ re <= at
        /\ t[b + me] = SP /\ t[b + us] = "/" /\ t[b + ue] = SP /\ t[b + re] \in {CR, LF}
        /\ NoneOf(t, b + ue, (b + re) - 1, {CR, LF})
    BY <1>4 DEF LineInOrder
  <1>6. e \in Nat /\ b + re <= e /\ from = e + 1 /\ re > 0
    <2>1. q.request_end > 0
      BY <1>1 DEF Line
    <2> HIDE DEF t, b, q
    <2> QED
      BY <1>1, <1>2, <2>1, LineEndTyped
  <1>7. \A k \in 1..Len(buf) : buf[k] = t[b + k]
    BY BufAt
  <1> HIDE DEF t, b, at, w, l, rs, me, us, ue, re, e, n, from
  <1>8. InOrder(at, <<rs, me, us, ue, re>>)
    <2>1. /\ rs # Null /\ rs <= at /\ me # Null /\ me <= at /\ us # Null /\ us <= at /\ ue # Null /\ ue <= at
      BY <1>2, <1>3, <1>5, SMTT(40) DEF Null
    <2>2. rs < me /\ me < us /\ us < ue /\ ue < re /\ re <= at
      BY <1>5
    <2>3. at \in Nat
      BY <1>2
    <2> QED
      BY <1>3, <2>1, <2>2, <2>3, FirstSet
  <1>9. buf[me] = SP /\ buf[us] = "/" /\ buf[ue] = SP
    <2>1. me \in 1..Len(buf) /\ us \in 1..Len(buf) /\ ue \in 1..Len(buf)
      BY <1>2, <1>3, <1>5, SMTT(40)
    <2> QED
      BY <1>5, <1>7, <2>1
  <1>10. re = FirstIn(buf, ue, {CR, LF})
    <2>1. ue <= re /\ re <= Len(buf) /\ re \in 1..Len(buf)
      BY <1>2, <1>3, <1>5
    <2>2. buf[re] \in {CR, LF}
      BY <1>5, <1>7, <2>1
    <2>3. NoneOf(buf, ue, re - 1, {CR, LF})
      <3> SUFFICES ASSUME NEW i \in ue..(re - 1) PROVE buf[i] \notin {CR, LF}
        BY DEF NoneOf
      <3>1. i \in 1..Len(buf) /\ b + i \in (b + ue)..((b + re) - 1)
        BY <1>2, <1>3, <1>5, <2>1
      <3> QED
        BY <1>5, <1>7, <3>1 DEF NoneOf
    <2> DEFINE S == {CR, LF}
    <2> HIDE DEF S
    <2>4. buf[re] \in S /\ NoneOf(buf, ue, re - 1, S)
      BY <2>2, <2>3 DEF S
    <2>5. FirstIn(buf, ue, S) = re
      BY <1>2, <1>3, <2>1, <2>4, FirstInIs
    <2> QED
      BY <2>5 DEF S
  <1>11. LineSet(<<rs, me, us, ue, re>>)
    <2> DEFINE p == <<rs, me, us, ue, re>>
    <2>1. p[2] = me /\ p[3] = us /\ p[4] = ue /\ p[5] = re
      OBVIOUS
    <2> HIDE DEF p
    <2>2. p[5] # Null
      BY <1>6, <2>1 DEF Null
    <2>3. LineSet(p)
      BY <1>9, <1>10, <2>1, <2>2 DEF LineSet
    <2> QED
      BY <2>3 DEF p
  <1>12. \A k \in 1..Len(l) : HeaderInOrder(b, from, l, n, k)
    <2>1. from \in Nat /\ b < from
      BY <1>2, <1>3, <1>6
    <2> QED
      BY <1>1, <1>2, <2>1, ChainInOrder
  <1>13. \A k \in 1..Len(l) : HeaderSet(at, k)
    <2> SUFFICES ASSUME NEW k \in 1..Len(l) PROVE HeaderSet(at, k)
      OBVIOUS
    <2> DEFINE ks == l[k].ks
               ve == l[k].ve
    <2>1. /\ l[k] \in Header /\ from <= b + ks /\ ks < l[k].ke /\ l[k].ke < l[k].vs /\ l[k].vs < ve /\ b + ve < n
          /\ k > 1 => ve < l[k - 1].ks
      BY <1>12 DEF HeaderInOrder
    <2>2. ks \in Nat /\ ve \in Nat
      BY <2>1 DEF Header
    <2>3. re < ks /\ ve < at
      <3> HIDE DEF ks, ve
      <3> QED
        BY <1>2, <1>3, <1>6, <2>1, <2>2
    <2> QED
      BY <2>1, <2>3 DEF HeaderSet, l, re
  <1>14. DOMAIN list = 1..Len(l)
    BY <1>1, LenProperties DEF l
  <1> QED
    BY <1>8, <1>11, <1>13, <1>14 DEF rs, me, us, ue, re, at

\* All of it.
LEMMA AllInOrder ==
    ASSUME Inv, PInv
    PROVE  PointersInOrder
  <1> DEFINE at == IF pc \in {"line", "hdr"} THEN pi ELSE parse_pos
             p  == <<ptr.request_start, ptr.method_end, ptr.uri_start, ptr.uri_end, ptr.request_end>>
  <1>1. at = At
    BY DEF At
  <1>2. ASSUME pc # "closed"
        PROVE  InOrder(at, p) /\ (parse_phase > 0 => LineSet(p)) /\ \A k \in DOMAIN list : HeaderSet(at, k)
    <2>1. CASE parse_phase = 0
      <3>1. list = <<>>
        BY <2>1 DEF Inv, NothingLeaks
      <3>2. InLine(client.bytes, Base, At, LineSt, ptr, version) /\ ptr \in Pointer
        BY <1>2, <2>1 DEF PInv, ParserAt, PtrTypes, Parser
      <3>3. At \in Nat /\ LineSt \in LineStates /\ Base \in Nat
        BY <1>2, Where, Sizes
      <3>4. InOrder(At, p)
        BY <3>2, <3>3, LinePointers
      <3>5. DOMAIN list = {}
        BY <3>1
      <3> QED
        BY <1>1, <2>1, <3>4, <3>5
    <2>2. CASE parse_phase # 0
      BY <1>1, <1>2, <2>2, ReadPointers
    <2> QED
      BY <2>1, <2>2
  <1>3. pc # "closed" =>
         /\ \A i \in 1..5 : p[i] # Null =>
              p[i] <= at /\ \A j \in 1..(i - 1) : p[j] # Null /\ p[j] < p[i]
         /\ parse_phase > 0 =>
              /\ p[5] # Null /\ buf[p[2]] = SP /\ buf[p[3]] = "/" /\ buf[p[4]] = SP
              /\ p[5] = FirstIn(buf, p[4], {CR, LF})
         /\ \A k \in DOMAIN list :
              /\ ptr.request_end < list[k].ks /\ list[k].ks < list[k].ke
              /\ list[k].ke < list[k].vs /\ list[k].vs < list[k].ve /\ list[k].ve < at
              /\ k > 1 => list[k].ve < list[k - 1].ks
    <2> HIDE DEF at, p
    <2> QED
      BY <1>2, Zenon DEF InOrder, LineSet, HeaderSet
  <1> QED
    BY <1>3, Zenon DEF PointersInOrder

\* The requests the server takes from a stream are those that are in it, and what
\* it refuses is none (zv_http_parse_request_line and zv_http_parse_request_body,
\* with the states they save when the buffer is empty), for every stream, every
\* way to split it and every size of the buffer.
THEOREM ParsersRight == Spec => []ParsesAsReference
  <1>1. Inv /\ PInv => ParsesAsReference
    <2> SUFFICES ASSUME Inv, PInv PROVE ParsesAsReference
      OBVIOUS
    <2>1. pc = "handle" => SameAs(Last(reqs), Request(client.bytes, Last(reqs).begin))
      BY DEF PInv, Found
    <2>2. cause = "bad" => ~Request(client.bytes, Base).ok
      BY DEF PInv, NoneRefused
    <2>3. pc = "wait" /\ Parsed /\ parse_phase # 2 => ~Request(SubSeq(client.bytes, 1, taken), Base).ok
      BY WaitsForMore
    <2> QED
      BY <2>1, <2>2, <2>3, Zenon DEF ParsesAsReference, SameAs
  <1> QED
    BY <1>1, InvHolds, ParserInvariant, PTL

\* "request buffer overflow!" (http.c:363) is for requests only that do not fit
\* into MAX_BUF - 1 bytes.
THEOREM OverflowRight == Spec => []OverflowOnlyTooLong
  <1>1. PInv => OverflowOnlyTooLong
    BY DEF PInv, NoneRefused
  <1> QED
    BY <1>1, ParserInvariant, PTL

\* The pointers of a request and of its headers are in the part of the buffer that
\* is parsed, in order and at the delimiters they stand for, through every read,
\* every state the parsers save and every move of the buffer (http.c:557-574).
THEOREM PointersRight == Spec => []PointersInOrder
  <1>1. Inv /\ PInv => PointersInOrder
    BY AllInOrder
  <1> QED
    BY <1>1, InvHolds, ParserInvariant, PTL
-----------------------------------------------------------------------------
(* normalize_abs_path: what is in out and on the stack.                     *)

\* Length k of the stack st is that of out behind the segment x, which follows
\* the slash behind the length before it.
LengthBelow(st, k) == IF k = 1 THEN 0 ELSE st[k - 1]
Piece(o, st, k, x) ==
    /\ st[k] = LengthBelow(st, k) + 1 + Len(x) /\ Len(x) >= 1
    /\ o[LengthBelow(st, k) + 1] = "/" /\ \A j \in 1..Len(x) : o[LengthBelow(st, k) + 1 + j] = x[j]

\* out is o and the stack st when the segments segs are read.
Written(o, st, segs) ==
    /\ o \in Seq(Byte) /\ st \in Seq(Nat) /\ Len(st) = Cardinality(Stays(segs))
    /\ IF st = <<>> THEN o = <<"/">> ELSE Len(o) = st[Len(st)]
    /\ \A k \in 1..Len(st) : Piece(o, st, k, segs[Kept(segs)[k]]) /\ 2 * k <= st[k]
    /\ \A k \in 1..Len(st) : \A j \in 1..(k - 1) : st[j] < st[k]

\* The segments that stay, in order.
LEMMA KeptIs ==
    ASSUME NEW segs \in Paths
    PROVE  /\ Len(segs) \in Nat /\ Stays(segs) \in SUBSET (1..Len(segs)) /\ Cardinality(Stays(segs)) \in Nat
           /\ IsFiniteSet(Stays(segs)) /\ Len(Kept(segs)) = Cardinality(Stays(segs))
           /\ \A k \in 1..Cardinality(Stays(segs)) :
                Kept(segs)[k] \in Stays(segs) /\ Kept(segs)[k] \in 1..Len(segs)
  <1>1. Len(segs) \in Nat /\ Stays(segs) \in SUBSET (1..Len(segs))
    BY LenProperties DEF Paths, Stays
  <1> DEFINE n == Len(segs)
             S == Stays(segs)
  <1> HIDE DEF n, S
  <1>2. n \in Nat /\ S \in SUBSET (1..n)
    BY <1>1 DEF n, S
  <1>3. /\ Cardinality(S) \in Nat /\ IsFiniteSet(S) /\ Len(Ascending(S)) = Cardinality(S)
        /\ \A k \in 1..Cardinality(S) : Ascending(S)[k] \in S
    BY <1>2, RankTyped, AscendingIs
  <1> QED
    BY <1>2, <1>3 DEF Kept, n, S

\* The lengths on the stack are lengths of parts of out.
LEMMA WrittenTyped ==
    ASSUME NEW o, NEW st, NEW segs, Written(o, st, segs)
    PROVE  /\ Len(o) \in Nat /\ Len(st) \in Nat /\ o[1] = "/" /\ Len(o) >= 1
           /\ \A k \in 1..Len(st) : st[k] \in Nat /\ st[k] <= Len(o) /\ LengthBelow(st, k) \in Nat
           /\ 2 * Len(st) <= Len(o)
           /\ st # <<>> => Len(st) >= 1 /\ Len(o) > 1
           /\ st = <<>> => Len(st) = 0 /\ Len(o) = 1
  <1>1. Len(o) \in Nat /\ Len(st) \in Nat /\ (\A k \in 1..Len(st) : st[k] \in Nat)
    BY LenProperties, ElementOfSeq DEF Written
  <1>2. (st # <<>> => Len(st) >= 1) /\ (st = <<>> => Len(st) = 0)
    BY <1>1, EmptySeq DEF Written
  <1>3. ASSUME NEW k \in 1..Len(st) PROVE st[k] <= Len(o) /\ LengthBelow(st, k) \in Nat
    <2>1. k # 1 => k - 1 \in 1..Len(st)
      BY <1>1
    <2>2. LengthBelow(st, k) \in Nat
      BY <1>1, <2>1 DEF LengthBelow
    <2>3. Len(st) \in 1..Len(st) /\ Len(o) = st[Len(st)]
      BY <1>1, <1>2 DEF Written
    <2>4. k = Len(st) \/ k \in 1..(Len(st) - 1)
      BY <1>1
    <2>5. st[k] <= st[Len(st)]
      <3>1. k \in 1..(Len(st) - 1) => st[k] < st[Len(st)]
        BY <2>3 DEF Written
      <3>2. st[k] \in Nat /\ st[Len(st)] \in Nat
        BY <1>1, <2>3
      <3> QED
        BY <2>4, <3>1, <3>2
    <2> QED
      BY <2>2, <2>3, <2>5
  <1>4. CASE st = <<>>
    <2>1. o = <<"/">> /\ Len(st) = 0
      BY <1>2, <1>4 DEF Written
    <2> QED
      BY <1>1, <1>3, <1>4, <2>1
  <1>5. CASE st # <<>>
    <2>1. 1 \in 1..Len(st) /\ Len(st) \in 1..Len(st) /\ Len(o) = st[Len(st)]
      BY <1>1, <1>2, <1>5 DEF Written
    <2>2. 2 * Len(st) <= Len(o) /\ o[1] = "/"
      <3>1. Piece(o, st, 1, segs[Kept(segs)[1]]) /\ 2 * Len(st) <= st[Len(st)]
        BY <2>1 DEF Written
      <3> QED
        BY <2>1, <3>1 DEF Piece, LengthBelow
    <2> QED
      BY <1>1, <1>2, <1>3, <1>5, <2>1, <2>2
  <1> QED
    BY <1>4, <1>5

\* What out and stack are is a matter of the segments that stay.
LEMMA WrittenSame ==
    ASSUME NEW segs \in Paths, NEW t, NEW s, t = Append(segs, s), s \in Seq(Byte),
           Stays(t) = Stays(segs), NEW o, NEW st, Written(o, st, segs)
    PROVE  Written(o, st, t)
  <1>1. \A k \in 1..Len(segs) : t[k] = segs[k]
    BY AppendProperties DEF Paths
  <1>2. Kept(t) = Kept(segs)
    BY DEF Kept
  <1>3. \A k \in 1..Len(st) : t[Kept(t)[k]] = segs[Kept(segs)[k]]
    BY <1>1, <1>2, KeptIs DEF Written
  <1> QED
    BY <1>3 DEF Written

\* Two sequences, one behind the other.
LEMMA ConcatIs ==
    ASSUME NEW o \in Seq(Byte), NEW s \in Seq(Byte)
    PROVE  /\ o \o s \in Seq(Byte) /\ Len(o) \in Nat /\ Len(s) \in Nat /\ Len(o \o s) = Len(o) + Len(s)
           /\ \A k \in 1..Len(o) : (o \o s)[k] = o[k]
           /\ \A j \in 1..Len(s) : (o \o s)[Len(o) + j] = s[j]
  <1> DEFINE r == o \o s
             a == Len(o)
             b == Len(s)
  <1>1. a \in Nat /\ b \in Nat
    BY LenProperties
  <1>2. r \in Seq(Byte) /\ Len(r) = a + b /\ \A i \in 1..(a + b) : r[i] = IF i <= a THEN o[i] ELSE s[i - a]
    BY ConcatProperties
  <1> HIDE DEF r, a, b
  <1>3. \A k \in 1..a : k \in 1..(a + b) /\ k <= a
    BY <1>1
  <1>4. \A j \in 1..b : a + j \in 1..(a + b) /\ ~(a + j <= a) /\ (a + j) - a = j
    BY <1>1
  <1>5. \A k \in 1..a : r[k] = o[k]
    BY <1>2, <1>3
  <1>6. \A j \in 1..b : r[a + j] = s[j]
    BY <1>2, <1>4
  <1> QED
    BY <1>1, <1>2, <1>5, <1>6 DEF r, a, b

\* r is o with a segment s behind it, and a slash between them if o is not the root.
Joined(o, s, r) ==
    LET b == IF Len(o) > 1 THEN Len(o) ELSE 0
    IN /\ r \in Seq(Byte) /\ Len(r) = b + 1 + Len(s)
       /\ \A k \in 1..Len(o) : r[k] = o[k]
       /\ r[b + 1] = "/" /\ \A j \in 1..Len(s) : r[b + 1 + j] = s[j]

\* What normalize_abs_path makes of out and an ordinary segment.
LEMMA WithSegJoined ==
    ASSUME NEW o \in Seq(Byte), NEW s \in Seq(Byte), Len(o) >= 1, o[1] = "/"
    PROVE  Joined(o, s, o \o (IF Len(o) > 1 THEN <<"/">> ELSE <<>>) \o s)
  <1> DEFINE a == Len(o)
             v == <<"/">>
             w == o \o v
             r == w \o s
  <1>0. v \in Seq(Byte) /\ Len(v) = 1 /\ v[1] = "/"
    BY DEF Byte, Other
  <1> HIDE DEF v
  <1>1. /\ a \in Nat /\ Len(s) \in Nat /\ o \o s \in Seq(Byte) /\ Len(o \o s) = a + Len(s)
        /\ \A k \in 1..a : (o \o s)[k] = o[k]
        /\ \A j \in 1..Len(s) : (o \o s)[a + j] = s[j]
    BY ConcatIs
  <1>2. CASE Len(o) > 1
    <2>1. /\ w \in Seq(Byte) /\ Len(w) = a + Len(v) /\ \A k \in 1..a : w[k] = o[k]
          /\ \A j \in 1..Len(v) : w[a + j] = v[j]
      BY <1>0, ConcatIs
    <2> HIDE DEF w
    <2>2. /\ r \in Seq(Byte) /\ Len(r) = Len(w) + Len(s) /\ \A k \in 1..Len(w) : r[k] = w[k]
          /\ \A j \in 1..Len(s) : r[Len(w) + j] = s[j]
      BY <2>1, ConcatIs, ZenonT(60)
    <2>3. o \o (IF Len(o) > 1 THEN <<"/">> ELSE <<>>) \o s = r
      BY <1>2 DEF r, w, v
    <2> HIDE DEF r, a
    <2>4. Len(w) = a + 1 /\ 1 \in 1..Len(v) /\ a + 1 \in 1..(a + 1) /\ \A k \in 1..a : k \in 1..(a + 1)
      BY <1>0, <1>1, <2>1
    <2>5. (\A k \in 1..a : r[k] = o[k]) /\ r[a + 1] = "/"
      BY <1>0, <2>1, <2>2, <2>4
    <2>6. Len(r) = a + 1 + Len(s) /\ \A j \in 1..Len(s) : r[a + 1 + j] = s[j]
      BY <2>2, <2>4
    <2>7. Joined(o, s, r)
      BY <1>2, <2>2, <2>5, <2>6 DEF Joined, a
    <2> QED
      BY <2>3, <2>7
  <1>3. CASE ~(Len(o) > 1)
    <2> DEFINE q == o \o s
    <2>1. a = 1
      <3>1. a \in Nat /\ a >= 1 /\ ~(a > 1)
        BY <1>1, <1>3
      <3> HIDE DEF a
      <3> QED
        BY <3>1
    <2>2. o \o <<>> = o
      BY ConcatEmptySeq
    <2>3. o \o (IF Len(o) > 1 THEN <<"/">> ELSE <<>>) \o s = q
      BY <1>3, <2>2
    <2>4. q \in Seq(Byte) /\ Len(q) = 1 + Len(s) /\ (\A k \in 1..a : q[k] = o[k]) /\ q[1] = "/"
          /\ \A j \in 1..Len(s) : q[1 + j] = s[j]
      <3> HIDE DEF a, q
      <3>1. /\ q \in Seq(Byte) /\ Len(q) = a + Len(s) /\ \A k \in 1..a : q[k] = o[k]
            /\ \A j \in 1..Len(s) : q[a + j] = s[j]
        BY <1>1 DEF q
      <3> QED
        BY <2>1, <3>1
    <2> HIDE DEF q
    <2>5. 0 + 1 = 1 /\ 0 + 1 + Len(s) = 1 + Len(s) /\ \A j \in 1..Len(s) : 0 + 1 + j = 1 + j
      BY <1>1
    <2>6. Joined(o, s, q)
      BY <1>3, <2>4, <2>5 DEF Joined, a
    <2> QED
      BY <2>3, <2>6
  <1> QED
    BY <1>2, <1>3

\* One segment more stays.
LEMMA WrittenMore ==
    ASSUME NEW segs \in Paths, NEW s \in Seq(Byte), Len(s) >= 1, NEW t, NEW n,
           t \in Paths, n = Len(segs), t[n + 1] = s, \A k \in 1..n : t[k] = segs[k],
           Stays(t) = Stays(segs) \cup {n + 1}, NEW o, NEW st, Written(o, st, segs),
           NEW r, Joined(o, s, r), NEW u, u = Append(st, Len(r))
    PROVE  Written(r, u, t)
  <1> DEFINE c == Len(st)
             S == Stays(segs)
             a == Len(o)
             m == Len(s)
             b == IF st = <<>> THEN 0 ELSE a
             z == Len(r)
  <1>1. /\ n \in Nat /\ S \in SUBSET (1..n) /\ Cardinality(S) = c
        /\ \A k \in 1..c : Kept(segs)[k] \in 1..n
    BY KeptIs DEF Written
  <1>2. /\ a \in Nat /\ c \in Nat /\ a >= 1 /\ st \in Seq(Nat)
        /\ \A k \in 1..c : st[k] \in Nat /\ st[k] <= a /\ LengthBelow(st, k) \in Nat
        /\ 2 * c <= a
        /\ st # <<>> => c >= 1 /\ a > 1
        /\ st = <<>> => c = 0 /\ a = 1
    BY WrittenTyped, ZenonT(60) DEF Written
  <1>3. m \in Nat /\ m >= 1
    BY LenProperties
  <1>4. st # <<>> => a = st[c]
    BY DEF Written
  <1>5. /\ Cardinality(Stays(t)) = c + 1 /\ Kept(t)[c + 1] = n + 1
        /\ \A k \in 1..c : Kept(t)[k] = Kept(segs)[k]
    <2> DEFINE w == n + 1
    <2>1. w \in Nat /\ S \in SUBSET (1..w) /\ w \in 1..w /\ (\A x \in S : x < w) /\ Stays(t) = S \cup {w}
      BY <1>1
    <2> HIDE DEF w, S, c
    <2>2. /\ Cardinality(S \cup {w}) = Cardinality(S) + 1
          /\ Ascending(S \cup {w})[Cardinality(S) + 1] = w
          /\ \A k \in 1..Cardinality(S) : Ascending(S \cup {w})[k] = Ascending(S)[k]
      BY <2>1, AscendingMore, ZenonT(60)
    <2>3. Kept(t) = Ascending(S \cup {w}) /\ Kept(segs) = Ascending(S)
      BY <2>1 DEF Kept, S
    <2> QED
      BY <1>1, <2>1, <2>2, <2>3 DEF w
  <1>6. a > 1 <=> st # <<>>
    <2> HIDE DEF a, c
    <2>1. ~(1 > 1)
      OBVIOUS
    <2>2. CASE st = <<>>
      BY <1>2, <2>1, <2>2
    <2>3. CASE st # <<>>
      BY <1>2, <2>3
    <2> QED
      BY <2>2, <2>3
  <1>7. /\ r \in Seq(Byte) /\ z = b + 1 + m
        /\ \A k \in 1..a : r[k] = o[k]
        /\ r[b + 1] = "/" /\ \A j \in 1..m : r[b + 1 + j] = s[j]
    BY <1>6 DEF Joined
  <1>8. b \in Nat /\ b <= a /\ z \in Nat /\ a < z /\ 2 * (c + 1) <= z
    <2> HIDE DEF a, c, m, z
    <2>1. CASE st = <<>>
      BY <1>2, <1>3, <1>7, <2>1
    <2>2. CASE st # <<>>
      BY <1>2, <1>3, <1>7, <2>2
    <2> QED
      BY <2>1, <2>2
  <1> HIDE DEF a, b, m
  <1>9. u \in Seq(Nat) /\ Len(u) = c + 1 /\ u[c + 1] = z /\ \A k \in 1..c : u[k] = st[k]
    BY <1>2, <1>8, AppendProperties
  <1> HIDE DEF c, z, S
  <1>10. u # <<>> /\ c + 1 \in 1..(c + 1)
    <2>1. c + 1 # 0 /\ c + 1 \in 1..(c + 1)
      BY <1>2
    <2>2. Len(<<>>) = 0
      OBVIOUS
    <2> QED
      BY <1>9, <2>1, <2>2
  <1>11. /\ \A k \in 1..c : LengthBelow(u, k) = LengthBelow(st, k)
         /\ LengthBelow(u, c + 1) = b
    <2>1. \A k \in 1..c : k = 1 \/ k - 1 \in 1..c
      BY <1>2
    <2>2. (c + 1) - 1 = c /\ (c + 1 = 1 <=> c = 0) /\ (c # 0 => c \in 1..c)
      BY <1>2
    <2>3. c = 0 <=> st = <<>>
      BY <1>2
    <2>4. LengthBelow(u, c + 1) = IF c = 0 THEN 0 ELSE u[c]
      BY <2>2 DEF LengthBelow
    <2>5. c # 0 => u[c] = st[c] /\ st[c] = a
      BY <1>4, <1>9, <2>2, <2>3
    <2>6. LengthBelow(u, c + 1) = b
      BY <2>3, <2>4, <2>5 DEF b
    <2> QED
      BY <1>9, <2>1, <2>6 DEF LengthBelow
  <1>12. \A k \in 1..(c + 1) : k \in 1..c \/ k = c + 1
    BY <1>2
  <1>13. ASSUME NEW k \in 1..c PROVE Piece(r, u, k, t[Kept(t)[k]]) /\ 2 * k <= u[k]
    <2> DEFINE x == segs[Kept(segs)[k]]
               d == LengthBelow(st, k)
               l == Len(x)
    <2>1. t[Kept(t)[k]] = x
      BY <1>1, <1>5
    <2>2. Piece(o, st, k, x) /\ 2 * k <= st[k]
      BY DEF Written, c
    <2>3. l \in Nat
      <3>1. x \in Seq(Byte)
        BY <1>1, ElementOfSeq DEF Paths
      <3> HIDE DEF x
      <3> QED
        BY <3>1, LenProperties
    <2> HIDE DEF x, d, l
    <2>4. d \in Nat /\ st[k] \in Nat /\ st[k] <= a
      BY <1>2 DEF d
    <2>5. st[k] = d + 1 + l /\ l >= 1 /\ o[d + 1] = "/" /\ \A j \in 1..l : o[d + 1 + j] = x[j]
      BY <2>2 DEF Piece, d, l
    <2>6. d + 1 \in 1..a /\ \A j \in 1..l : d + 1 + j \in 1..a
      BY <1>2, <2>3, <2>4, <2>5, SMTT(40)
    <2>7. r[d + 1] = "/" /\ \A j \in 1..l : r[d + 1 + j] = x[j]
      BY <1>7, <2>5, <2>6
    <2>8. u[k] = st[k] /\ LengthBelow(u, k) = d
      BY <1>9, <1>11 DEF d
    <2>9. Piece(r, u, k, x)
      BY <2>5, <2>7, <2>8 DEF Piece, l
    <2> QED
      BY <2>1, <2>2, <2>8, <2>9
  <1>14. Piece(r, u, c + 1, t[Kept(t)[c + 1]]) /\ 2 * (c + 1) <= u[c + 1]
    <2>1. t[Kept(t)[c + 1]] = s
      BY <1>5
    <2>2. Piece(r, u, c + 1, s)
      BY <1>3, <1>7, <1>9, <1>11 DEF Piece, m
    <2> QED
      BY <1>8, <1>9, <2>1, <2>2
  <1>15. \A k \in 1..(c + 1) : \A j \in 1..(k - 1) : u[j] < u[k]
    <2>1. ASSUME NEW k \in 1..c, NEW j \in 1..(k - 1) PROVE u[j] < u[k]
      <3>1. j \in 1..c
        BY <1>2
      <3>2. st[j] < st[k]
        BY DEF Written, c
      <3> QED
        BY <1>9, <3>1, <3>2
    <2>2. ASSUME NEW j \in 1..c PROVE u[j] < u[c + 1]
      <3>1. st[j] \in Nat /\ st[j] <= a
        BY <1>2
      <3>2. st[j] < z
        BY <1>2, <1>8, <3>1, SMTT(40)
      <3> QED
        BY <1>9, <3>2
    <2>3. (c + 1) - 1 = c
      BY <1>2
    <2> QED
      BY <1>12, <2>1, <2>2, <2>3
  <1>16. \A k \in 1..Len(u) : Piece(r, u, k, t[Kept(t)[k]]) /\ 2 * k <= u[k]
    BY <1>9, <1>12, <1>13, <1>14
  <1>17. Len(r) = u[Len(u)]
    BY <1>9 DEF z
  <1> QED
    BY <1>5, <1>7, <1>9, <1>10, <1>15, <1>16, <1>17 DEF Written

\* The longest of the segments that stay is taken back.
LEMMA WrittenUp ==
    ASSUME NEW segs \in Paths, NEW t, t \in Paths, \A k \in 1..Len(segs) : t[k] = segs[k],
           Stays(segs) # {}, Stays(t) = Stays(segs) \ {Max(Stays(segs))},
           NEW o, NEW st, Written(o, st, segs)
    PROVE  /\ Written(SubSeq(o, 1, IF Front(st) = <<>> THEN 1 ELSE Last(Front(st))), Front(st), t)
           /\ Len(SubSeq(o, 1, IF Front(st) = <<>> THEN 1 ELSE Last(Front(st)))) <= Len(o)
  <1> DEFINE n == Len(segs)
             K == Stays(segs)
             m == Max(K)
             T == K \ {m}
             c == Cardinality(T)
             a == Len(o)
             u == Front(st)
             l == IF u = <<>> THEN 1 ELSE Last(u)
             r == SubSeq(o, 1, l)
  <1>1. /\ n \in Nat /\ K \in SUBSET (1..n) /\ Len(st) = Cardinality(K)
        /\ \A k \in 1..Cardinality(K) : Kept(segs)[k] \in 1..n
    BY KeptIs DEF Written
  <1>2. m \in K /\ \A x \in K : x <= m
    <2> HIDE DEF K, n
    <2>1. K # {}
      BY DEF K
    <2> QED
      BY <1>1, <2>1, MaxIsMax
  <1> HIDE DEF m
  <1>3. T \in SUBSET (1..n) /\ m \in 1..n /\ (\A x \in T : x < m) /\ K = T \cup {m} /\ Stays(t) = T
    <2>1. m \in 1..n /\ \A x \in K : x \in 1..n
      BY <1>1, <1>2
    <2>2. \A x \in T : x < m
      BY <1>2, <2>1
    <2>3. Stays(t) = T
      BY DEF m
    <2> QED
      BY <1>1, <1>2, <2>1, <2>2, <2>3
  <1> HIDE DEF K, T, n
  <1>4. c \in Nat /\ Cardinality(K) = c + 1 /\ \A k \in 1..c : Ascending(K)[k] = Ascending(T)[k]
    <2>1. c \in Nat
      BY <1>1, <1>3, RankTyped
    <2>2. n \in Nat /\ T \in SUBSET (1..n) /\ m \in 1..n /\ \A x \in T : x < m
      BY <1>1, <1>3
    <2>3. /\ Cardinality(T \cup {m}) = Cardinality(T) + 1
          /\ \A k \in 1..Cardinality(T) : Ascending(T \cup {m})[k] = Ascending(T)[k]
      BY <2>2, AscendingMore, ZenonT(60)
    <2> QED
      BY <1>3, <2>1, <2>3
  <1> HIDE DEF c
  <1>5. /\ a \in Nat /\ Len(st) = c + 1 /\ o[1] = "/" /\ a >= 1 /\ o \in Seq(Byte) /\ st \in Seq(Nat)
        /\ \A k \in 1..(c + 1) : st[k] \in Nat /\ st[k] <= a /\ LengthBelow(st, k) \in Nat
    <2>1. Len(st) = c + 1
      BY <1>1, <1>4
    <2> QED
      BY <2>1, WrittenTyped DEF Written
  <1> HIDE DEF a
  <1>6. \A k \in 1..c : k \in 1..(c + 1) /\ (k = 1 \/ k - 1 \in 1..c)
    BY <1>4
  <1>7. u \in Seq(Nat) /\ Len(u) = c /\ \A k \in 1..c : u[k] = st[k]
    <2>1. (c + 1) - 1 = c /\ 1 \in Int /\ c \in Int /\ c - 1 + 1 = c /\ \A k \in 1..c : 1 + k - 1 = k
      BY <1>4
    <2>2. u = SubSeq(st, 1, c)
      BY <1>5, <2>1 DEF Front
    <2>3. \A k \in 1..c : st[k] \in Nat
      BY <1>5, <1>6
    <2>4. u \in Seq(Nat) /\ Len(u) = (IF 1 <= c THEN c - 1 + 1 ELSE 0) /\ \A k \in 1..(c - 1 + 1) : u[k] = st[1 + k - 1]
      BY <2>1, <2>2, <2>3, SubSeqProperties
    <2> HIDE DEF u
    <2>5. Len(u) = c
      BY <1>4, <2>4
    <2> QED
      BY <2>1, <2>4, <2>5
  <1> HIDE DEF u
  <1>8. /\ \A k \in 1..c : LengthBelow(u, k) = LengthBelow(st, k)
        /\ Kept(t) = Ascending(T) /\ Kept(segs) = Ascending(K)
    BY <1>3, <1>6, <1>7 DEF LengthBelow, Kept, K
  <1>9. \A k \in 1..c : /\ t[Kept(t)[k]] = segs[Kept(segs)[k]]
                        /\ segs[Kept(segs)[k]] \in Seq(Byte) /\ Len(segs[Kept(segs)[k]]) \in Nat
    <2>1. \A k \in 1..c : Kept(t)[k] = Kept(segs)[k] /\ Kept(segs)[k] \in 1..n
      BY <1>1, <1>4, <1>6, <1>8
    <2>2. \A k \in 1..n : segs[k] \in Seq(Byte)
      BY ElementOfSeq DEF Paths, n
    <2> QED
      BY <2>1, <2>2, LenProperties DEF n
  <1>10. \A k \in 1..c : Piece(o, st, k, segs[Kept(segs)[k]]) /\ 2 * k <= st[k]
    BY <1>5, <1>6 DEF Written
  <1>11. \A k \in 1..c : \A j \in 1..(k - 1) : u[j] < u[k]
    <2>1. \A k \in 1..c : \A j \in 1..(k - 1) : j \in 1..c
      BY <1>4
    <2>2. \A k \in 1..c : \A j \in 1..(k - 1) : st[j] < st[k]
      BY <1>5, <1>6 DEF Written
    <2> QED
      BY <1>7, <2>1, <2>2, SMTT(40)
  <1>12. (u = <<>> <=> c = 0) /\ (c # 0 => c \in 1..c /\ Last(u) = st[c])
    <2>1. c # 0 => c \in 1..c
      BY <1>4
    <2>2. Len(<<>>) = 0
      OBVIOUS
    <2>3. u = <<>> <=> c = 0
      BY <1>7, <2>2, EmptySeq
    <2> QED
      BY <1>7, <2>1, <2>3 DEF Last
  <1>13. l \in Nat /\ 1 <= l /\ l <= a /\ l = (IF c = 0 THEN 1 ELSE st[c]) /\ \A k \in 1..c : st[k] <= l
    <2>1. CASE c = 0
      BY <1>5, <1>12, <2>1
    <2>2. CASE c # 0
      <3>1. l = st[c] /\ st[c] \in Nat /\ st[c] <= a /\ 2 * c <= st[c] /\ c >= 1
        BY <1>4, <1>5, <1>6, <1>10, <1>12, <2>2
      <3>2. ASSUME NEW k \in 1..c PROVE st[k] <= st[c]
        <4>1. k = c \/ k \in 1..(c - 1)
          BY <1>4
        <4>2. k \in 1..(c - 1) => u[k] < u[c]
          BY <1>11, <1>12, <2>2
        <4>3. st[k] \in Nat /\ u[k] = st[k] /\ u[c] = st[c]
          BY <1>5, <1>6, <1>7, <1>12, <2>2
        <4> QED
          BY <3>1, <4>1, <4>2, <4>3
      <3> HIDE DEF l
      <3> QED
        BY <1>4, <2>2, <3>1, <3>2
    <2> QED
      BY <2>1, <2>2
  <1> HIDE DEF l
  <1>14. r \in Seq(Byte) /\ Len(r) = l /\ \A k \in 1..l : r[k] = o[k]
    <2>1. 1 \in Nat /\ 1 <= 1 /\ 1 <= l + 1 /\ l - 1 + 1 = l /\ \A k \in 1..l : 1 + k - 1 = k
      BY <1>13
    <2>2. l <= Len(o)
      BY <1>13 DEF a
    <2>3. r \in Seq(Byte) /\ Len(r) = l - 1 + 1 /\ \A k \in 1..(l - 1 + 1) : r[k] = o[1 + k - 1]
      BY <1>5, <1>13, <2>1, <2>2, Part, SMTT(40)
    <2> HIDE DEF r
    <2> QED
      BY <2>1, <2>3
  <1> HIDE DEF r
  <1>15. ASSUME NEW k \in 1..c PROVE Piece(r, u, k, t[Kept(t)[k]]) /\ 2 * k <= u[k]
    <2> DEFINE x == segs[Kept(segs)[k]]
               d == LengthBelow(st, k)
               b == Len(x)
    <2>1. t[Kept(t)[k]] = x /\ Piece(o, st, k, x) /\ 2 * k <= st[k] /\ b \in Nat
      BY <1>9, <1>10
    <2> HIDE DEF x, d, b
    <2>2. d \in Nat /\ st[k] \in Nat /\ st[k] <= l
      BY <1>5, <1>6, <1>13 DEF d
    <2>3. st[k] = d + 1 + b /\ b >= 1 /\ o[d + 1] = "/" /\ \A j \in 1..b : o[d + 1 + j] = x[j]
      BY <2>1 DEF Piece, d, b
    <2>4. d + 1 \in 1..l /\ \A j \in 1..b : d + 1 + j \in 1..l
      BY <1>13, <2>1, <2>2, <2>3
    <2>5. r[d + 1] = "/" /\ \A j \in 1..b : r[d + 1 + j] = x[j]
      BY <1>14, <2>3, <2>4
    <2>6. u[k] = st[k] /\ LengthBelow(u, k) = d
      BY <1>7, <1>8 DEF d
    <2>7. Piece(r, u, k, x)
      BY <2>3, <2>5, <2>6 DEF Piece, b
    <2> QED
      BY <2>1, <2>6, <2>7
  <1>16. IF u = <<>> THEN r = <<"/">> ELSE Len(r) = u[Len(u)]
    <2>1. CASE c = 0
      <3>1. Len(r) = 1 /\ r[1] = "/"
        BY <1>5, <1>13, <1>14, <2>1
      <3>2. r = <<"/">>
        <4> DEFINE v == <<"/">>
        <4>1. v \in Seq(Byte) /\ Len(v) = 1 /\ v[1] = "/"
          BY DEF Byte, Other
        <4> HIDE DEF v
        <4>2. \A k \in 1..Len(r) : r[k] = v[k]
          BY <3>1, <4>1
        <4>3. r = v
          BY <1>14, <3>1, <4>1, <4>2, SeqEqual
        <4> QED
          BY <4>3 DEF v
      <3> QED
        BY <1>12, <2>1, <3>2
    <2>2. CASE c # 0
      BY <1>7, <1>12, <1>13, <1>14, <2>2
    <2> QED
      BY <2>1, <2>2
  <1>17. Written(r, u, t)
    BY <1>3, <1>7, <1>11, <1>14, <1>15, <1>16 DEF Written, c
  <1>18. Len(r) <= Len(o)
    BY <1>13, <1>14 DEF a
  <1> QED
    BY <1>17, <1>18 DEF r, l, u

\* A segment behind the part of out before it.
LEMMA PieceBehind ==
    ASSUME NEW o \in Seq(Byte), NEW x \in Seq(Byte), NEW d \in Nat, d + 1 + Len(x) <= Len(o),
           o[d + 1] = "/", \A j \in 1..Len(x) : o[d + 1 + j] = x[j]
    PROVE  /\ SubSeq(o, 1, d) \o (<<"/">> \o x) = SubSeq(o, 1, d + 1 + Len(x))
           /\ d = 0 => <<"/">> \o x = SubSeq(o, 1, d + 1 + Len(x))
  <1> DEFINE v == <<"/">>
             y == v \o x
             p == SubSeq(o, 1, d)
             z == p \o y
             m == Len(x)
             e == d + 1 + m
             q == SubSeq(o, 1, e)
  <1>1. v \in Seq(Byte) /\ Len(v) = 1 /\ v[1] = "/"
    BY DEF Byte, Other
  <1> HIDE DEF v
  <1>2. /\ m \in Nat /\ y \in Seq(Byte) /\ Len(y) = 1 + m
        /\ y[1] = "/" /\ \A j \in 1..m : y[1 + j] = x[j]
    <2>1. /\ y \in Seq(Byte) /\ m \in Nat /\ Len(y) = Len(v) + m
          /\ \A k \in 1..Len(v) : y[k] = v[k]
          /\ \A j \in 1..m : y[Len(v) + j] = x[j]
      BY <1>1, ConcatIs, Zenon
    <2> HIDE DEF y, m
    <2>2. 1 \in 1..1
      OBVIOUS
    <2> QED
      BY <1>1, <2>1, <2>2
  <1>3. Len(o) \in Nat /\ e \in Nat /\ e <= Len(o) /\ d <= Len(o) /\ 1 <= d + 1 /\ 1 <= e + 1
    BY <1>2, LenProperties
  <1>4. p \in Seq(Byte) /\ Len(p) = d /\ \A k \in 1..d : p[k] = o[k]
    BY <1>3, Part
  <1> HIDE DEF m, e
  <1>5. q \in Seq(Byte) /\ Len(q) = e /\ \A k \in 1..e : q[k] = o[k]
    BY <1>3, Part
  <1> HIDE DEF y, p, q
  <1>6. /\ z \in Seq(Byte) /\ Len(z) = d + (1 + m) /\ \A k \in 1..d : z[k] = p[k]
        /\ \A j \in 1..(1 + m) : z[d + j] = y[j]
    <2>1. /\ z \in Seq(Byte) /\ Len(z) = Len(p) + Len(y)
          /\ \A k \in 1..Len(p) : z[k] = p[k]
          /\ \A j \in 1..Len(y) : z[Len(p) + j] = y[j]
      BY <1>2, <1>4, ConcatIs, ZenonT(60)
    <2> QED
      BY <1>2, <1>4, <2>1
  <1> HIDE DEF z
  <1>7. \A j \in 1..(1 + m) : y[j] = o[d + j]
    <2>1. ASSUME NEW j \in 1..(1 + m) PROVE y[j] = o[d + j]
      <3>1. CASE j = 1
        BY <1>2, <3>1
      <3>2. CASE j # 1
        <4>1. j - 1 \in 1..m /\ 1 + (j - 1) = j /\ d + 1 + (j - 1) = d + j
          BY <1>2, <3>2
        <4>2. o[d + 1 + (j - 1)] = x[j - 1]
          BY <4>1 DEF m
        <4> QED
          BY <1>2, <4>1, <4>2
      <3> QED
        BY <3>1, <3>2
    <2> QED
      BY <2>1
  <1>8. e = d + (1 + m)
    BY <1>2 DEF e
  <1>9. \A k \in 1..e : z[k] = o[k]
    <2>1. ASSUME NEW k \in 1..e PROVE z[k] = o[k]
      <3>1. CASE k <= d
        <4>1. k \in 1..d
          BY <1>3, <3>1
        <4> QED
          BY <1>4, <1>6, <4>1
      <3>2. CASE ~(k <= d)
        <4>1. k - d \in 1..(1 + m) /\ d + (k - d) = k
          BY <1>2, <1>3, <1>8, <3>2
        <4> QED
          BY <1>6, <1>7, <4>1, SMTT(40)
      <3> QED
        BY <3>1, <3>2
    <2> QED
      BY <2>1
  <1>10. z = q
    BY <1>5, <1>6, <1>8, <1>9, SeqEqual, SMTT(40)
  <1>11. d = 0 => y = q
    <2>1. SUFFICES ASSUME d = 0 PROVE y = q
      OBVIOUS
    <2>2. e = 1 + m /\ \A k \in 1..e : k \in 1..(1 + m) /\ d + k = k
      BY <1>2, <1>8, <2>1, SMTT(40)
    <2>3. \A k \in 1..e : y[k] = o[k]
      BY <1>7, <2>2
    <2> QED
      BY <1>2, <1>5, <2>2, <2>3, SeqEqual, SMTT(40)
  <1> QED
    BY <1>10, <1>11 DEF z, q, y, p, v, e, m

\* What is written is the normal form.
LEMMA WrittenIs ==
    ASSUME NEW p, Segments(p) \in Paths, NEW o, NEW st, Written(o, st, Segments(p))
    PROVE  o = RefNorm(p)
  <1> DEFINE segs == Segments(p)
             kept == Kept(segs)
             c == Len(st)
             joins == [k \in 1..Len(kept) |-> <<"/">> \o segs[kept[k]]]
             join == FlattenSeq(joins)
  <1>1. RefNorm(p) = IF join = <<>> THEN <<"/">> ELSE join
    BY DEF RefNorm
  <1>2. /\ Len(kept) = c /\ c \in Nat
        /\ \A k \in 1..c : segs[kept[k]] \in Seq(Byte)
    <2>1. Len(kept) = c /\ c \in Nat /\ \A k \in 1..c : kept[k] \in 1..Len(segs)
      BY KeptIs DEF Written
    <2> HIDE DEF kept, segs, c
    <2>2. segs \in Seq(Seq(Byte))
      BY DEF segs, Paths
    <2> QED
      BY <2>1, <2>2, ElementOfSeq
  <1>3. /\ Len(o) \in Nat /\ o \in Seq(Byte) /\ Len(o) >= 1
        /\ \A k \in 1..c : st[k] \in Nat /\ st[k] <= Len(o) /\ LengthBelow(st, k) \in Nat
        /\ st # <<>> => c >= 1 /\ Len(o) = st[c]
        /\ st = <<>> => c = 0 /\ o = <<"/">>
    BY WrittenTyped DEF Written
  <1>4. \A k \in 1..c : Piece(o, st, k, segs[kept[k]])
    BY DEF Written
  <1> HIDE DEF segs, kept, c
  <1>5. joins = [k \in 1..c |-> <<"/">> \o segs[kept[k]]]
    BY <1>2
  <1> HIDE DEF joins
  <1>6. Len(joins) = c
    <2>1. ASSUME NEW k \in 1..c PROVE <<"/">> \o segs[kept[k]] \in Seq(Byte)
      <3> DEFINE v == <<"/">>
      <3>1. v \in Seq(Byte)
        BY DEF Byte, Other
      <3> HIDE DEF v
      <3>2. v \o segs[kept[k]] \in Seq(Byte)
        BY <1>2, <3>1, ConcatIs
      <3> QED
        BY <3>2 DEF v
    <2>2. joins \in [1..c -> Seq(Byte)]
      BY <1>5, <2>1
    <2>3. joins \in Seq(Seq(Byte)) /\ DOMAIN joins = 1..c
      BY <1>2, <2>2, SeqDef
    <2> QED
      BY <1>2, <2>3, LenProperties
  <1>7. CASE c = 0
    <2>1. st = <<>>
      BY <1>3, <1>7
    <2>2. joins = <<>>
      BY <1>5, <1>7
    <2>3. join = <<>>
      BY <1>6, <1>7, <2>2 DEF FlattenSeq
    <2> QED
      BY <1>1, <1>3, <2>1, <2>3
  <1>8. CASE c # 0
    <2> DEFINE g == [k \in 1..c |-> SubSeq(o, 1, st[k])]
    <2>1. st # <<>> /\ c > 0 /\ c \in 1..c
      BY <1>2, <1>3, <1>8, SMTT(40)
    <2>2. ASSUME NEW k \in 1..c
          PROVE  SubSeq(o, 1, st[k]) = IF k = 1 THEN joins[k] ELSE g[k - 1] \o joins[k]
      <3> DEFINE x == segs[kept[k]]
                 d == LengthBelow(st, k)
      <3>1. Piece(o, st, k, x) /\ x \in Seq(Byte) /\ d \in Nat /\ st[k] <= Len(o)
        BY <1>2, <1>3, <1>4
      <3>2. joins[k] = <<"/">> \o x
        BY <1>5
      <3> HIDE DEF x, d
      <3>3. st[k] = d + 1 + Len(x) /\ o[d + 1] = "/" /\ \A j \in 1..Len(x) : o[d + 1 + j] = x[j]
        BY <3>1 DEF Piece, d
      <3>4. /\ SubSeq(o, 1, d) \o (<<"/">> \o x) = SubSeq(o, 1, d + 1 + Len(x))
            /\ d = 0 => <<"/">> \o x = SubSeq(o, 1, d + 1 + Len(x))
        BY <1>3, <3>1, <3>3, PieceBehind
      <3>5. CASE k = 1
        BY <3>2, <3>3, <3>4, <3>5 DEF d, LengthBelow
      <3>6. CASE k # 1
        <4>1. k - 1 \in 1..c
          BY <1>2, <3>6
        <4>2. g[k - 1] = SubSeq(o, 1, d)
          BY <3>6, <4>1 DEF d, LengthBelow
        <4> QED
          BY <3>2, <3>3, <3>4, <3>6, <4>2
      <3> QED
        BY <3>5, <3>6
    <2>3. g = [k \in 1..Len(joins) |-> IF k = 1 THEN joins[k] ELSE g[k - 1] \o joins[k]]
      <3> DEFINE h == [k \in 1..c |-> IF k = 1 THEN joins[k] ELSE g[k - 1] \o joins[k]]
                 G(k) == IF k = 1 THEN joins[k] ELSE g[k - 1] \o joins[k]
      <3>1. \A k \in 1..c : SubSeq(o, 1, st[k]) = G(k)
        BY <2>2
      <3> HIDE DEF G
      <3>2. g = [k \in 1..c |-> G(k)]
        BY <3>1
      <3> HIDE DEF g
      <3> QED
        BY <1>6, <3>2 DEF G
    <2>4. Flattens(g, joins) /\ g[c] = SubSeq(o, 1, st[c])
      BY <2>1, <2>3 DEF Flattens
    <2> HIDE DEF g
    <2>5. join = g[c]
      BY <1>2, <1>6, <2>1, <2>4, FlattenIs
    <2>6. SubSeq(o, 1, Len(o)) = o
      BY <1>3, SubSeqFull
    <2>7. join = o /\ o # <<>>
      BY <1>3, <2>1, <2>4, <2>5, <2>6
    <2> QED
      BY <1>1, <2>7
  <1> QED
    BY <1>7, <1>8
-----------------------------------------------------------------------------
(* normalize_abs_path: a turn of its loop.                                  *)

\* The next segment of d behind position i, and the segments up to i.
NextStart(d, i) == FirstNotIn(d, i + 1, {"/"})
NextEnd(d, i)   == FirstIn(d, NextStart(d, i), {"/"}) - 1
NextSeg(d, i)   == SubSeq(d, NextStart(d, i), NextEnd(d, i))
Segs(d, i)      == Segments(SubSeq(d, 1, i))

\* The first i bytes of d are read: out is o, the stack st.
NormTo(d, i, o, st) ==
    /\ d \in Seq(Byte) /\ Boundary(d, i) /\ (i = 1 \/ d[i] # "/")
    /\ Balanced(Segs(d, i)) /\ Written(o, st, Segs(d, i))
    /\ Len(o) <= i

\* The segment the loop comes to.
LEMMA SegmentRead ==
    ASSUME NEW d, NEW i, NEW o, NEW st, NormTo(d, i, o, st), NextStart(d, i) <= Len(d)
    PROVE  /\ Len(d) \in Nat /\ i \in Nat /\ NextStart(d, i) \in Nat /\ NextEnd(d, i) \in Nat
           /\ i < NextStart(d, i) /\ (i = 1 \/ i + 1 < NextStart(d, i))
           /\ NextEnd(d, i) <= Len(d) /\ Boundary(d, NextEnd(d, i)) /\ d[NextEnd(d, i)] # "/"
           /\ NextSeg(d, i) \in Seq(Byte) /\ NextStart(d, i) <= NextEnd(d, i)
           /\ Len(NextSeg(d, i)) = NextEnd(d, i) - NextStart(d, i) + 1 /\ Len(NextSeg(d, i)) >= 1
           /\ Segs(d, i) \in Paths /\ Len(Segs(d, i)) \in Nat
           /\ Segs(d, NextEnd(d, i)) = Append(Segs(d, i), NextSeg(d, i))
  <1> DEFINE a == NextStart(d, i)
             e == NextEnd(d, i)
  <1>1. d \in Seq(Byte) /\ Boundary(d, i) /\ (i = 1 \/ d[i] # "/") /\ Len(d) \in Nat /\ i \in Nat
    BY LenProperties DEF NormTo, Boundary
  <1>2. LET x == FirstNotIn(d, i + 1, {"/"})
            f == FirstIn(d, x, {"/"})
        IN /\ x \in Nat /\ i < x /\ AllOf(d, i + 1, x - 1, {"/"}) /\ f \in Nat /\ x < f /\ f - 1 \in Nat
           /\ f - 1 <= Len(d) /\ x <= f - 1 /\ NoneOf(d, x, f - 1, {"/"})
           /\ f - 1 = Len(d) \/ d[(f - 1) + 1] = "/"
    BY <1>1, NextSegment DEF NextStart
  <1>3. /\ a \in Nat /\ i < a /\ AllOf(d, i + 1, a - 1, {"/"}) /\ e \in Nat
        /\ e <= Len(d) /\ a <= e /\ NoneOf(d, a, e, {"/"})
        /\ e = Len(d) \/ d[e + 1] = "/"
    BY <1>2 DEF NextStart, NextEnd
  <1> HIDE DEF a, e
  <1>4. /\ d[i] # "/" => i + 1 < a
        /\ Boundary(d, e) /\ d[e] # "/"
        /\ SubSeq(d, a, e) \in Seq(Byte) /\ Len(SubSeq(d, a, e)) = e - a + 1
        /\ Segments(SubSeq(d, 1, i)) \in Paths
        /\ Segments(SubSeq(d, 1, e)) = Append(Segments(SubSeq(d, 1, i)), SubSeq(d, a, e))
    BY <1>1, <1>3, SegmentsMore, SMTT(40)
  <1>5. e - a + 1 >= 1
    BY <1>3
  <1>6. Len(Segs(d, i)) \in Nat
    BY <1>4, LenProperties DEF Segs, Paths
  <1> QED
    BY <1>1, <1>3, <1>4, <1>5, <1>6 DEF a, e, NextSeg, Segs

\* "." is left out.
LEMMA NormDot ==
    ASSUME NEW d, NEW i, NEW o, NEW st, NormTo(d, i, o, st), NextStart(d, i) <= Len(d), NextSeg(d, i) = Dot
    PROVE  NormTo(d, NextEnd(d, i), o, st)
  <1> DEFINE e == NextEnd(d, i)
             segs == Segs(d, i)
             t == Segs(d, e)
  <1>1. /\ Boundary(d, e) /\ d[e] # "/" /\ segs \in Paths /\ t = Append(segs, Dot) /\ Dot \in Seq(Byte)
        /\ i \in Nat /\ e \in Nat /\ i <= e
    BY SegmentRead, SMTT(40)
  <1>2. d \in Seq(Byte) /\ Balanced(segs) /\ Written(o, st, segs) /\ Len(o) <= i
    BY DEF NormTo
  <1> HIDE DEF segs, t, e
  <1>3. Stays(t) = Stays(segs) /\ Balanced(t)
    BY <1>1, <1>2, DotBalanced
  <1>4. Written(o, st, t)
    BY <1>1, <1>2, <1>3, WrittenSame
  <1>5. Len(o) \in Nat
    BY <1>2, WrittenTyped
  <1>6. Len(o) <= e
    BY <1>1, <1>2, <1>5
  <1> QED
    BY <1>1, <1>2, <1>3, <1>4, <1>6 DEF NormTo, t, e

\* An ordinary segment is appended; there is room for it.
LEMMA NormName ==
    ASSUME NEW d, NEW i, NEW o, NEW st, NormTo(d, i, o, st), NextStart(d, i) <= Len(d),
           NextSeg(d, i) \notin {Dot, Up}
    PROVE  LET r == o \o (IF Len(o) > 1 THEN <<"/">> ELSE <<>>) \o NextSeg(d, i)
           IN /\ NormTo(d, NextEnd(d, i), r, Append(st, Len(r)))
              /\ Len(r) \in Nat /\ Len(r) <= Len(d) /\ Len(st) \in Nat /\ 2 * (Len(st) + 1) <= Len(r)
  <1> DEFINE a == NextStart(d, i)
             e == NextEnd(d, i)
             s == NextSeg(d, i)
             segs == Segs(d, i)
             t == Segs(d, e)
             n == Len(segs)
             r == o \o (IF Len(o) > 1 THEN <<"/">> ELSE <<>>) \o s
             u == Append(st, Len(r))
             l == Len(o)
  <1>1. /\ Len(d) \in Nat /\ i \in Nat /\ a \in Nat /\ e \in Nat /\ i < a /\ (i = 1 \/ i + 1 < a)
        /\ e <= Len(d) /\ Boundary(d, e) /\ d[e] # "/" /\ s \in Seq(Byte) /\ a <= e
        /\ Len(s) = e - a + 1 /\ Len(s) >= 1 /\ segs \in Paths /\ n \in Nat /\ t = Append(segs, s)
    BY SegmentRead
  <1>2. d \in Seq(Byte) /\ Balanced(segs) /\ Written(o, st, segs) /\ Len(o) <= i
    BY DEF NormTo
  <1>3. s \notin {Dot, Up}
    OBVIOUS
  <1> HIDE DEF segs, t, e, s, a
  <1>4. Stays(t) = Stays(segs) \cup {n + 1} /\ Balanced(t)
    BY <1>1, <1>2, <1>3, NameBalanced
  <1>5. t \in Paths /\ t[n + 1] = s /\ \A k \in 1..n : t[k] = segs[k]
    BY <1>1, AppendProperties DEF Paths
  <1>6. o \in Seq(Byte) /\ l \in Nat /\ l >= 1 /\ o[1] = "/"
    BY <1>2, WrittenTyped DEF Written
  <1>7. Joined(o, s, r)
    BY <1>1, <1>6, WithSegJoined
  <1> HIDE DEF r
  <1>8. Written(r, u, t)
    <2> HIDE DEF n, u
    <2>1. n = Len(segs) /\ u = Append(st, Len(r))
      BY DEF n, u
    <2> QED
      BY <1>1, <1>2, <1>4, <1>5, <1>7, <2>1, WrittenMore
  <1>9. Len(r) = (IF l > 1 THEN l ELSE 0) + 1 + Len(s)
    BY <1>7 DEF Joined
  <1> HIDE DEF l
  <1>10. Len(r) \in Nat /\ Len(r) <= e
    <2>1. l <= i
      BY <1>2 DEF l
    <2>2. CASE l > 1
      BY <1>1, <1>6, <1>9, <2>1, <2>2
    <2>3. CASE ~(l > 1)
      BY <1>1, <1>6, <1>9, <2>1, <2>3
    <2> QED
      BY <2>2, <2>3
  <1>11. Len(st) \in Nat /\ Len(u) = Len(st) + 1 /\ 2 * Len(u) <= Len(r)
    <2>1. st \in Seq(Nat)
      BY <1>2 DEF Written
    <2>2. Len(st) \in Nat /\ Len(u) = Len(st) + 1
      BY <1>10, <2>1, LenProperties, AppendProperties
    <2>3. 2 * Len(u) <= Len(r)
      BY <1>8, WrittenTyped
    <2> QED
      BY <2>2, <2>3
  <1>12. NormTo(d, e, r, u)
    BY <1>1, <1>2, <1>4, <1>8, <1>10 DEF NormTo, t
  <1>13. Len(r) <= Len(d)
    BY <1>1, <1>10
  <1>14. 2 * (Len(st) + 1) <= Len(r)
    BY <1>11
  <1> QED
    BY <1>10, <1>11, <1>12, <1>13, <1>14 DEF r, u, e, s

\* ".." takes the last segment back.
LEMMA NormUp ==
    ASSUME NEW d, NEW i, NEW o, NEW st, NormTo(d, i, o, st), NextStart(d, i) <= Len(d),
           NextSeg(d, i) = Up, st # <<>>
    PROVE  NormTo(d, NextEnd(d, i), SubSeq(o, 1, IF Front(st) = <<>> THEN 1 ELSE Last(Front(st))), Front(st))
  <1> DEFINE e == NextEnd(d, i)
             segs == Segs(d, i)
             t == Segs(d, e)
             r == SubSeq(o, 1, IF Front(st) = <<>> THEN 1 ELSE Last(Front(st)))
             u == Front(st)
  <1>1. /\ Boundary(d, e) /\ d[e] # "/" /\ segs \in Paths /\ t = Append(segs, Up) /\ Up \in Seq(Byte)
        /\ i \in Nat /\ e \in Nat /\ i <= e
    BY SegmentRead
  <1>2. d \in Seq(Byte) /\ Balanced(segs) /\ Written(o, st, segs) /\ Len(o) <= i
    BY DEF NormTo
  <1> HIDE DEF segs, t, e
  <1>3. Stays(segs) # {}
    <2>1. Len(st) # 0
      BY <1>2, WrittenTyped
    <2>2. Len(st) = Cardinality(Stays(segs))
      BY <1>2 DEF Written
    <2> QED
      BY <2>1, <2>2, FS_EmptySet
  <1>4. Stays(t) = Stays(segs) \ {Max(Stays(segs))} /\ Balanced(t)
    BY <1>1, <1>2, <1>3, UpBalanced
  <1>5. t \in Paths /\ \A k \in 1..Len(segs) : t[k] = segs[k]
    BY <1>1, AppendProperties DEF Paths
  <1>6. Written(r, u, t) /\ Len(r) <= Len(o)
    BY <1>1, <1>2, <1>3, <1>4, <1>5, WrittenUp
  <1> HIDE DEF r, u
  <1>7. Len(r) \in Nat /\ Len(o) \in Nat
    BY <1>2, <1>6, WrittenTyped
  <1>8. Len(r) <= e
    BY <1>1, <1>2, <1>6, <1>7
  <1> QED
    BY <1>1, <1>2, <1>4, <1>6, <1>8 DEF NormTo, t, e, r, u

\* ".." with nothing to take back climbs above the root.
LEMMA NormClimbs ==
    ASSUME NEW d, NEW i, NEW o, NEW st, NormTo(d, i, o, st), NextStart(d, i) <= Len(d),
           NextSeg(d, i) = Up, st = <<>>
    PROVE  Climbs(Segments(d))
  <1> DEFINE e == NextEnd(d, i)
             segs == Segs(d, i)
  <1>1. Boundary(d, e) /\ segs \in Paths /\ Segs(d, e) = Append(segs, Up)
    BY SegmentRead
  <1>2. d \in Seq(Byte) /\ Balanced(segs) /\ Written(o, st, segs)
    BY DEF NormTo
  <1> HIDE DEF segs, e
  <1>3. Stays(segs) = {}
    <2>1. Len(st) = 0
      BY <1>2, WrittenTyped
    <2>2. Len(st) = Cardinality(Stays(segs)) /\ IsFiniteSet(Stays(segs))
      BY <1>1, <1>2, KeptIs DEF Written
    <2> QED
      BY <2>1, <2>2, FS_EmptySet
  <1>4. Climbs(Segs(d, e))
    BY <1>1, <1>2, <1>3, UpClimbs
  <1> QED
    BY <1>1, <1>2, <1>4, ClimbsLonger DEF Segs

\* Before the first turn.
LEMMA NormStart ==
    ASSUME NEW d \in Seq(Byte), Len(d) >= 1, d[1] = "/"
    PROVE  NormTo(d, 1, <<"/">>, <<>>)
  <1> DEFINE segs == Segs(d, 1)
             o == <<"/">>
             st == <<>>
  <1>1. Len(d) \in Nat /\ 1 \in 0..Len(d) /\ 1 \in 1..Len(d)
    BY LenProperties
  <1>2. Boundary(d, 1)
    BY <1>1 DEF Boundary
  <1>3. SegStarts(SubSeq(d, 1, 1)) = {} /\ SubSeq(d, 1, 1) \in Seq(Byte)
    <2>1. SegStarts(SubSeq(d, 1, 1)) = StartsTo(d, 1) /\ SubSeq(d, 1, 1) \in Seq(Byte)
      BY <1>1, StartsOfPart
    <2>2. StartsTo(d, 1) = {}
      BY DEF StartsTo
    <2> QED
      BY <2>1, <2>2
  <1>4. segs \in Paths /\ Len(segs) = 0
    BY <1>3, SegmentsAre, FS_EmptySet DEF Segs
  <1> HIDE DEF segs
  <1>5. Stays(segs) = {} /\ ~Climbs(segs)
    BY <1>4 DEF Stays, Climbs
  <1>6. Cardinality(Stays(segs)) = 0
    BY <1>5, FS_EmptySet
  <1>7. Ups(segs, 1, 0) = 0 /\ Names(segs, 1, 0) = 0
    BY FS_EmptySet DEF Ups, Names
  <1>8. Balanced(segs)
    BY <1>4, <1>5, <1>6, <1>7 DEF Balanced
  <1>9. o \in Seq(Byte) /\ Len(o) = 1 /\ st \in Seq(Nat) /\ Len(st) = 0
    BY DEF Byte, Other
  <1>10. 1..0 = {}
    OBVIOUS
  <1> HIDE DEF o
  <1>11. Written(o, st, segs)
    <2>1. o = <<"/">>
      BY DEF o
    <2>2. /\ \A k \in 1..Len(st) : Piece(o, st, k, segs[Kept(segs)[k]]) /\ 2 * k <= st[k]
          /\ \A k \in 1..Len(st) : \A j \in 1..(k - 1) : st[j] < st[k]
      BY <1>9, <1>10
    <2> QED
      BY <1>6, <1>9, <2>1, <2>2 DEF Written
  <1>12. Len(o) <= 1
    BY <1>9
  <1> QED
    BY <1>2, <1>8, <1>11, <1>12 DEF NormTo, segs, o

\* What the invariant says of out and the stack.
LEMMA NormShows ==
    ASSUME NEW d, NEW i, NEW o, NEW st, NormTo(d, i, o, st)
    PROVE  /\ ~Climbs(Segs(d, i)) /\ o = RefNorm(SubSeq(d, 1, i)) /\ Len(st) = Len(Kept(Segs(d, i)))
           /\ \A k \in 1..Len(st) : /\ st[k] \in 2..Len(o)
                                    /\ st[k] = Len(o) \/ o[st[k] + 1] = "/"
                                    /\ k > 1 => st[k - 1] < st[k]
  <1> DEFINE segs == Segs(d, i)
             c == Len(st)
             l == Len(o)
  <1>1. d \in Seq(Byte) /\ Boundary(d, i) /\ Balanced(segs) /\ Written(o, st, segs)
    BY DEF NormTo
  <1>2. segs \in Paths
    <2>1. i \in 0..Len(d)
      BY <1>1, LenProperties DEF Boundary
    <2>2. SubSeq(d, 1, i) \in Seq(Byte)
      BY <1>1, <2>1, StartsOfPart
    <2> QED
      BY <2>2, SegmentsAre DEF Segs
  <1>3. o = RefNorm(SubSeq(d, 1, i))
    BY <1>1, <1>2, WrittenIs DEF Segs
  <1> HIDE DEF segs
  <1>4. ~Climbs(segs)
    BY <1>1 DEF Balanced
  <1>5. c = Len(Kept(segs))
    BY <1>1, <1>2, KeptIs DEF Written
  <1>6. /\ l \in Nat /\ c \in Nat /\ \A k \in 1..c : st[k] \in Nat /\ st[k] <= l
        /\ st # <<>> => l = st[c]
        /\ \A k \in 1..c : Piece(o, st, k, segs[Kept(segs)[k]]) /\ 2 * k <= st[k]
        /\ \A k \in 1..c : \A j \in 1..(k - 1) : st[j] < st[k]
    BY <1>1, WrittenTyped DEF Written
  <1>7. st = <<>> => c = 0
    OBVIOUS
  <1> HIDE DEF c, l
  <1>8. ASSUME NEW k \in 1..c
        PROVE  st[k] \in 2..l /\ (st[k] = l \/ o[st[k] + 1] = "/") /\ (k > 1 => st[k - 1] < st[k])
    <2>1. st[k] \in 2..l
      <3>1. st[k] \in Nat /\ st[k] <= l /\ 2 * k <= st[k] /\ k >= 1 /\ k \in Nat
        BY <1>6
      <3> QED
        BY <1>6, <3>1
    <2>2. k > 1 => st[k - 1] < st[k]
      <3>1. k > 1 => k - 1 \in 1..(k - 1)
        BY <1>6
      <3> QED
        BY <1>6, <3>1
    <2>3. CASE k = c
      <3>1. st # <<>>
        BY <1>6, <1>7
      <3> QED
        BY <1>6, <2>1, <2>2, <2>3, <3>1
    <2>4. CASE k # c
      <3>1. k + 1 \in 1..c /\ k + 1 # 1 /\ (k + 1) - 1 = k
        BY <1>6, <2>4
      <3>2. LengthBelow(st, k + 1) = st[k]
        BY <3>1 DEF LengthBelow
      <3>3. o[st[k] + 1] = "/"
        BY <1>6, <3>1, <3>2 DEF Piece
      <3> QED
        BY <2>1, <2>2, <3>3
    <2> QED
      BY <2>3, <2>4
  <1> QED
    BY <1>3, <1>4, <1>5, <1>8 DEF segs, c, l

\* Behind the last turn.
LEMMA NormFinish ==
    ASSUME NEW d, NEW i, NEW o, NEW st, NormTo(d, i, o, st), NextStart(d, i) > Len(d)
    PROVE  /\ ~Climbs(Segments(d)) /\ o = RefNorm(d) /\ Len(o) \in Nat
           /\ Last(d) = "/" /\ Len(o) > 1 => Len(o) + 1 <= Len(d)
  <1>1. /\ d \in Seq(Byte) /\ Boundary(d, i) /\ (i = 1 \/ d[i] # "/") /\ Balanced(Segs(d, i))
        /\ Written(o, st, Segs(d, i)) /\ Len(o) <= i
    BY DEF NormTo
  <1>2. Segments(d) = Segs(d, i)
    BY <1>1, SegmentsEnd DEF NextStart, Segs
  <1>3. Segments(d) \in Paths
    BY <1>1, SegmentsAre
  <1>4. o = RefNorm(d)
    BY <1>1, <1>2, <1>3, WrittenIs
  <1>5. Len(o) \in Nat /\ Len(d) \in Nat /\ i \in 1..Len(d)
    BY <1>1, WrittenTyped, LenProperties DEF Boundary
  <1>6. Last(d) = "/" /\ Len(o) > 1 => i # 1 /\ i # Len(d)
    BY <1>1, <1>5 DEF Last
  <1>7. Last(d) = "/" /\ Len(o) > 1 => Len(o) + 1 <= Len(d)
    BY <1>1, <1>5, <1>6
  <1> QED
    BY <1>1, <1>2, <1>4, <1>5, <1>7 DEF Balanced
-----------------------------------------------------------------------------
(* The variables of both loops.                                             *)

\* The path that is worked on, and what each of the values of upc stands for.
RawOK     == upc # "idle" => raw \in Seq(Byte) /\ Len(raw) >= 1 /\ raw[1] = "/" /\ Len(raw) < Cap
Decoding  == upc = "decode" => DecodedTo(raw, ui, decoded) /\ stack = <<>>
Normal    == upc = "norm" =>
               /\ decoded = RefDecode(raw) /\ RefDecodable(raw) /\ Len(decoded) < Cap
               /\ NormTo(decoded, ui, norm, stack)
Accepted  == upc = "ok" => RefValid(raw) /\ norm = RefPath(raw) /\ norm \in Seq(Byte) /\ norm # <<>>
Rejected  == upc = "bad" => ~RefValid(raw)
UriInv == RawOK /\ Decoding /\ Normal /\ Accepted /\ Rejected

\* What is decoded is never longer than what is read.
LEMMA DecodedShort ==
    ASSUME RawOK, Decoding, upc = "decode"
    PROVE  /\ raw \in Seq(Byte) /\ Len(raw) \in Nat /\ ui \in Nat /\ ui <= Len(raw) /\ Len(raw) < Cap /\ Cap \in Nat
           /\ Len(decoded) \in Nat /\ Len(decoded) <= ui /\ decoded \in Seq(Byte) /\ raw[1] = "/"
  <1>1. raw \in Seq(Byte) /\ Len(raw) < Cap /\ raw[1] = "/"
    BY DEF RawOK
  <1>2. Len(raw) \in Nat /\ Cap \in Nat
    BY <1>1, LenProperties, UriAssumption
  <1>3. ui \in 0..Len(raw) /\ decoded \in Seq(Byte) /\ Len(decoded) = Cardinality(UnitsTo(raw, ui))
    BY DEF Decoding, DecodedTo
  <1>4. ui \in Nat /\ ui <= Len(raw)
    BY <1>2, <1>3
  <1>5. UnitsTo(raw, ui) \in SUBSET (1..ui)
    BY DEF UnitsTo
  <1>6. Cardinality(UnitsTo(raw, ui)) \in Nat /\ Cardinality(UnitsTo(raw, ui)) <= ui
    BY <1>4, <1>5, RankTyped
  <1> QED
    BY <1>1, <1>2, <1>3, <1>4, <1>6

\* A byte or an escape is decoded.
LEMMA DecodeByteKeeps ==
    ASSUME UriInv, DecodeByte
    PROVE  UriInv'
  <1> DEFINE w == IF raw[ui + 1] = "%" THEN 3 ELSE 1
  <1>1. /\ upc = "decode" /\ ui < Len(raw) /\ Decodes /\ decoded' = Append(decoded, DecodedByte)
        /\ ui' = ui + w /\ upc' = upc /\ raw' = raw /\ norm' = norm /\ stack' = stack
    BY DEF DecodeByte
  <1>2. /\ raw \in Seq(Byte) /\ Len(raw) \in Nat /\ ui \in Nat /\ raw[1] = "/"
        /\ DecodedTo(raw, ui, decoded) /\ stack = <<>>
    BY <1>1, DecodedShort DEF UriInv, Decoding
  <1>3. DecodedByte = Unit(raw, ui + 1)
    <2>1. (ui + 1) + 1 = ui + 2 /\ (ui + 1) + 2 = ui + 3
      BY <1>2
    <2> QED
      BY <2>1 DEF DecodedByte, Unit
  <1>4. /\ raw[ui + 1] = "%" => ui + 2 < Len(raw) /\ raw[ui + 2] \in DOMAIN Hex /\ raw[ui + 3] \in DOMAIN Hex
        /\ Unit(raw, ui + 1) \notin Refused
    BY <1>1, <1>3 DEF Decodes
  <1>5. w \in {1, 3} /\ (w = 3 <=> raw[ui + 1] = "%")
    OBVIOUS
  <1>6. ui + w <= Len(raw)
    BY <1>1, <1>2, <1>4
  <1> HIDE DEF w
  <1>7. DecodedTo(raw, ui + w, Append(decoded, Unit(raw, ui + 1)))
    BY <1>1, <1>2, <1>4, <1>5, <1>6, DecodedMore
  <1>8. Decoding'
    BY <1>1, <1>2, <1>3, <1>7 DEF Decoding
  <1>9. RawOK' /\ Normal' /\ Accepted' /\ Rejected'
    BY <1>1 DEF UriInv, RawOK, Normal, Accepted, Rejected
  <1> QED
    BY <1>8, <1>9 DEF UriInv

\* What is refused here is not well formed: there is room for every path.
LEMMA DecodeBadKeeps ==
    ASSUME UriInv, DecodeBad
    PROVE  UriInv'
  <1>1. upc = "decode" /\ ui < Len(raw) /\ ~Decodes /\ upc' = "bad" /\ raw' = raw
    BY DEF DecodeBad
  <1>2. /\ raw \in Seq(Byte) /\ Len(raw) \in Nat /\ ui \in Nat /\ Len(raw) < Cap /\ Cap \in Nat
        /\ Len(decoded) \in Nat /\ Len(decoded) <= ui
    BY <1>1, DecodedShort DEF UriInv
  <1>3. Len(decoded) + 1 < Cap
    BY <1>1, <1>2
  <1>4. DecodedByte = Unit(raw, ui + 1)
    <2>1. (ui + 1) + 1 = ui + 2 /\ (ui + 1) + 2 = ui + 3
      BY <1>2
    <2> QED
      BY <2>1 DEF DecodedByte, Unit
  <1>5. ~(/\ raw[ui + 1] = "%" => ui + 2 < Len(raw) /\ raw[ui + 2] \in DOMAIN Hex /\ raw[ui + 3] \in DOMAIN Hex
          /\ Unit(raw, ui + 1) \notin Refused)
    BY <1>1, <1>3, <1>4 DEF Decodes
  <1>6. ~RefDecodable(raw)
    BY <1>1, <1>2, <1>5, DecodeFails
  <1>7. Rejected'
    BY <1>1, <1>6 DEF Rejected, RefValid
  <1> QED
    BY <1>1, <1>7 DEF UriInv, RawOK, Decoding, Normal, Accepted

\* All is decoded: the path starts with a slash.
LEMMA DecodeEndKeeps ==
    ASSUME UriInv, DecodeEnd
    PROVE  UriInv'
  <1>1. /\ upc = "decode" /\ ui = Len(raw) /\ raw' = raw /\ decoded' = decoded /\ stack' = stack
        /\ upc' = (IF decoded # <<>> /\ decoded[1] = "/" THEN "norm" ELSE "bad")
        /\ norm' = <<"/">> /\ ui' = 1
    BY DEF DecodeEnd
  <1>2. /\ raw \in Seq(Byte) /\ Len(raw) \in Nat /\ ui \in Nat /\ Len(raw) < Cap /\ Cap \in Nat
        /\ Len(decoded) \in Nat /\ Len(decoded) <= ui /\ decoded \in Seq(Byte)
        /\ DecodedTo(raw, ui, decoded) /\ stack = <<>> /\ Len(raw) >= 1
    BY <1>1, DecodedShort DEF UriInv, Decoding, RawOK
  <1>3. RefDecodable(raw) /\ decoded = RefDecode(raw)
    BY <1>1, <1>2, DecodedAll
  <1>4. decoded # <<>> /\ decoded[1] = "/"
    <2>1. ui > 0
      BY <1>1, <1>2
    <2> QED
      BY <1>2, <2>1 DEF DecodedTo
  <1>5. Len(decoded) >= 1 /\ Len(decoded) < Cap
    <2>1. Len(decoded) # 0
      BY <1>2, <1>4, EmptySeq
    <2> QED
      BY <1>1, <1>2, <2>1
  <1>6. NormTo(decoded, 1, <<"/">>, <<>>)
    BY <1>2, <1>4, <1>5, NormStart
  <1>7. upc' = "norm"
    BY <1>1, <1>4
  <1>8. Normal'
    BY <1>1, <1>2, <1>3, <1>5, <1>6 DEF Normal
  <1>9. RawOK'
    BY <1>1 DEF UriInv, RawOK
  <1> QED
    BY <1>7, <1>8, <1>9 DEF UriInv, Decoding, Accepted, Rejected

\* A segment is read.
LEMMA SegmentKeeps ==
    ASSUME UriInv, SegDot \/ SegUp \/ SegName
    PROVE  UriInv'
  <1>1. /\ upc = "norm" /\ SegStart <= Len(decoded) /\ upc' = upc /\ raw' = raw /\ decoded' = decoded /\ ui' = SegEnd - 1
    BY DEF SegDot, SegUp, SegName, InNorm
  <1>2. NormTo(decoded, ui, norm, stack)
    BY <1>1 DEF UriInv, Normal
  <1>3. SegStart = NextStart(decoded, ui) /\ SegEnd - 1 = NextEnd(decoded, ui) /\ Segment = NextSeg(decoded, ui)
    BY DEF SegStart, SegEnd, Segment, NextStart, NextEnd, NextSeg
  <1>4. NormTo(decoded, SegEnd - 1, norm', stack')
    <2>1. CASE SegDot
      <3>1. Segment = Dot /\ norm' = norm /\ stack' = stack
        BY <2>1 DEF SegDot
      <3> QED
        BY <1>1, <1>2, <1>3, <3>1, NormDot
    <2>2. CASE SegUp
      <3>1. /\ Segment = Up /\ stack # <<>> /\ stack' = Front(stack)
            /\ norm' = SubSeq(norm, 1, IF stack' = <<>> THEN 1 ELSE Last(stack'))
        BY <2>2 DEF SegUp
      <3>2. norm' = SubSeq(norm, 1, IF Front(stack) = <<>> THEN 1 ELSE Last(Front(stack)))
        BY <3>1
      <3>3. NormTo(decoded, NextEnd(decoded, ui),
                   SubSeq(norm, 1, IF Front(stack) = <<>> THEN 1 ELSE Last(Front(stack))), Front(stack))
        BY <1>1, <1>2, <1>3, <3>1, NormUp
      <3> QED
        BY <1>3, <3>1, <3>2, <3>3
    <2>3. CASE SegName
      <3>1. Segment \notin {Dot, Up} /\ norm' = WithSeg /\ stack' = Append(stack, Len(norm'))
        BY <2>3 DEF SegName
      <3>2. WithSeg = norm \o (IF Len(norm) > 1 THEN <<"/">> ELSE <<>>) \o NextSeg(decoded, ui)
        BY <1>3 DEF WithSeg
      <3>3. NormTo(decoded, NextEnd(decoded, ui), WithSeg, Append(stack, Len(WithSeg)))
        BY <1>1, <1>2, <1>3, <3>1, <3>2, NormName
      <3> QED
        BY <1>3, <3>1, <3>3
    <2> QED
      BY <2>1, <2>2, <2>3
  <1>5. Normal'
    BY <1>1, <1>4 DEF UriInv, Normal
  <1>6. RawOK'
    BY <1>1 DEF UriInv, RawOK
  <1> QED
    BY <1>1, <1>5, <1>6 DEF UriInv, Decoding, Accepted, Rejected

\* What is refused here climbs above the root: out and the stack have room for every path.
LEMMA SegBadKeeps ==
    ASSUME UriInv, SegBad
    PROVE  UriInv'
  <1>1. /\ upc = "norm" /\ SegStart <= Len(decoded) /\ upc' = "bad" /\ raw' = raw
        /\ IF Segment = Up THEN stack = <<>> ELSE Segment # Dot /\ ~Fits
    BY DEF SegBad, InNorm
  <1>2. NormTo(decoded, ui, norm, stack) /\ decoded = RefDecode(raw) /\ Len(decoded) < Cap
    BY <1>1 DEF UriInv, Normal
  <1>3. SegStart = NextStart(decoded, ui) /\ Segment = NextSeg(decoded, ui)
    BY DEF SegStart, SegEnd, Segment, NextStart, NextEnd, NextSeg
  <1>4. CASE Segment = Up
    <2>1. Climbs(Segments(decoded))
      BY <1>1, <1>2, <1>3, <1>4, NormClimbs
    <2>2. Rejected'
      BY <1>1, <1>2, <2>1 DEF Rejected, RefValid
    <2> QED
      BY <1>1, <2>2 DEF UriInv, RawOK, Decoding, Normal, Accepted
  <1>5. CASE Segment # Up
    <2>1. WithSeg = norm \o (IF Len(norm) > 1 THEN <<"/">> ELSE <<>>) \o NextSeg(decoded, ui)
      BY <1>3 DEF WithSeg
    <2>2. /\ Len(WithSeg) \in Nat /\ Len(WithSeg) <= Len(decoded) /\ Len(stack) \in Nat
          /\ 2 * (Len(stack) + 1) <= Len(WithSeg)
      BY <1>1, <1>2, <1>3, <1>5, <2>1, NormName
    <2>3. Len(decoded) \in Nat
      BY <1>2, LenProperties DEF NormTo
    <2>4. Cap \in Nat /\ MaxSegs \in Nat /\ 2 * MaxSegs >= Cap
      BY UriAssumption
    <2> DEFINE l == Len(WithSeg)
               c == Len(stack)
               n == Len(decoded)
    <2> HIDE DEF l, c, n
    <2>5. l \in Nat /\ l <= n /\ c \in Nat /\ 2 * (c + 1) <= l /\ n \in Nat /\ n < Cap
      BY <1>2, <2>2, <2>3 DEF l, c, n
    <2>6. l < Cap /\ c < MaxSegs
      BY <2>4, <2>5
    <2> QED
      BY <1>1, <1>5, <2>6 DEF Fits, l, c
  <1> QED
    BY <1>4, <1>5

\* The end of the path.
LEMMA NormEndKeeps ==
    ASSUME UriInv, NormEnd
    PROVE  UriInv'
  <1> DEFINE slash == Last(decoded) = "/" /\ Len(norm) > 1
  <1>1. /\ upc = "norm" /\ SegStart > Len(decoded) /\ raw' = raw
        /\ norm' = (IF slash THEN Append(norm, "/") ELSE norm)
        /\ upc' = (IF slash /\ Len(norm) + 1 >= Cap THEN "bad" ELSE "ok")
    BY DEF NormEnd
  <1>2. NormTo(decoded, ui, norm, stack) /\ decoded = RefDecode(raw) /\ RefDecodable(raw) /\ Len(decoded) < Cap
    BY <1>1 DEF UriInv, Normal
  <1>3. NextStart(decoded, ui) > Len(decoded)
    BY <1>1 DEF SegStart, NextStart
  <1>4. /\ ~Climbs(Segments(decoded)) /\ norm = RefNorm(decoded) /\ Len(norm) \in Nat
        /\ slash => Len(norm) + 1 <= Len(decoded)
    BY <1>2, <1>3, NormFinish
  <1>5. ~(slash /\ Len(norm) + 1 >= Cap)
    <2>1. Len(decoded) \in Nat /\ Cap \in Nat
      BY <1>2, LenProperties, UriAssumption DEF NormTo
    <2> DEFINE l == Len(norm)
               n == Len(decoded)
    <2>2. l \in Nat /\ n \in Nat /\ n < Cap /\ (slash => l + 1 <= n)
      BY <1>2, <1>4, <2>1
    <2> HIDE DEF l, n, slash
    <2>3. ~(slash /\ l + 1 >= Cap)
      BY <2>1, <2>2
    <2> QED
      BY <2>3 DEF l
  <1>6. upc' = "ok"
    BY <1>1, <1>5
  <1>7. RefValid(raw)
    BY <1>2, <1>4 DEF RefValid
  <1>8. norm' = RefPath(raw)
    BY <1>1, <1>2, <1>4 DEF RefPath
  <1>11. norm' \in Seq(Byte) /\ norm' # <<>>
    <2>1. norm \in Seq(Byte) /\ norm # <<>> /\ "/" \in Byte
      BY <1>2, WrittenTyped DEF NormTo, Written, Byte, Other
    <2>2. \A o : o \in Seq(Byte) => Append(o, "/") \in Seq(Byte) /\ Append(o, "/") # <<>>
      BY <2>1, AppendProperties
    <2> QED
      BY <1>1, <2>1, <2>2
  <1>9. Accepted'
    BY <1>1, <1>7, <1>8, <1>11 DEF Accepted
  <1>10. RawOK'
    BY <1>1, <1>6 DEF UriInv, RawOK
  <1> QED
    BY <1>6, <1>9, <1>10 DEF UriInv, Decoding, Normal, Rejected

\* The path of the request that is parsed: it starts with a slash, and what is
\* too long is refused before.
LEMMA HandlePathKeeps ==
    ASSUME Inv, PInv, UriInv, HandlePath
    PROVE  UriInv'
  <1>1. /\ pc = "handle" /\ EarlyStatus = 0 /\ upc' = "decode" /\ raw' = Path /\ ui' = 0 /\ decoded' = <<>> /\ stack' = <<>>
    BY DEF HandlePath, UriStart
  <1> DEFINE us == ptr.uri_start
             ue == ptr.uri_end
             f == FirstIn(Uri, 1, {"?"})
  <1>2. parse_phase = 2
    BY <1>1 DEF Inv, InPhase
  <1>3. buf[us] = "/" /\ us # Null /\ us < ue /\ ue <= parse_pos
    <2> DEFINE p == <<ptr.request_start, ptr.method_end, ptr.uri_start, ptr.uri_end, ptr.request_end>>
    <2>1. p[3] = us /\ p[4] = ue
      OBVIOUS
    <2> HIDE DEF p
    <2>2. PointersInOrder
      BY AllInOrder
    <2>3. /\ p[5] # Null /\ buf[p[3]] = "/"
          /\ \A i \in 1..5 : p[i] # Null =>
               p[i] <= parse_pos /\ \A j \in 1..(i - 1) : p[j] # Null /\ p[j] < p[i]
      BY <1>1, <1>2, <2>2 DEF PointersInOrder, p
    <2>4. p[4] # Null
      <3>1. 5 \in 1..5 /\ 4 \in 1..(5 - 1)
        OBVIOUS
      <3> QED
        BY <2>3, <3>1
    <2>5. p[3] # Null /\ p[3] < p[4] /\ p[4] <= parse_pos
      <3>1. 4 \in 1..5 /\ 3 \in 1..(4 - 1)
        OBVIOUS
      <3> QED
        BY <2>3, <2>4, <3>1
    <2> QED
      BY <2>1, <2>3, <2>5
  <1>4. buf \in Seq(Byte) /\ Len(buf) \in Nat /\ parse_pos \in Nat /\ parse_pos <= Len(buf)
    BY Sizes
  <1>5. us \in Nat /\ ue \in Nat
    BY DEF PInv, PtrTypes, Pointer
  <1> HIDE DEF us, ue
  <1>6. us >= 1 /\ ue - 1 \in Nat /\ us <= (ue - 1) + 1 /\ ue - 1 <= Len(buf) /\ (ue - 1) - us + 1 >= 1
    BY <1>3, <1>4, <1>5 DEF Null
  <1>7. Uri \in Seq(Byte) /\ Len(Uri) >= 1 /\ Len(Uri) \in Nat /\ Uri[1] = "/"
    <2>1. Uri = SubSeq(buf, us, ue - 1)
      BY DEF Uri, Text, us, ue
    <2>2. /\ SubSeq(buf, us, ue - 1) \in Seq(Byte) /\ Len(SubSeq(buf, us, ue - 1)) = (ue - 1) - us + 1
          /\ \A k \in 1..((ue - 1) - us + 1) : SubSeq(buf, us, ue - 1)[k] = buf[us + k - 1]
      BY <1>4, <1>5, <1>6, Part
    <2>3. 1 \in 1..((ue - 1) - us + 1) /\ us + 1 - 1 = us /\ (ue - 1) - us + 1 \in Nat
      BY <1>5, <1>6
    <2>4. SubSeq(buf, us, ue - 1)[1] = "/"
      BY <1>3, <2>2, <2>3
    <2> QED
      BY <1>6, <2>1, <2>2, <2>3, <2>4
  <1>8. f \in Nat /\ 1 < f /\ f <= Len(Uri) + 1
    <2>1. f \in Nat /\ f <= Len(Uri) + 1 /\ 1 <= f /\ (f <= Len(Uri) => Uri[f] \in {"?"})
      BY <1>7, FirstInFinds
    <2>2. f # 1
      BY <1>7, <2>1
    <2> QED
      BY <2>1, <2>2
  <1> HIDE DEF f
  <1>9. Path \in Seq(Byte) /\ Len(Path) = f - 1 /\ Path[1] = "/"
    <2>1. Path = SubSeq(Uri, 1, f - 1)
      BY DEF Path, PathOf, f
    <2>2. f - 1 \in Nat /\ 1 <= (f - 1) + 1 /\ f - 1 <= Len(Uri) /\ 1 \in 1..((f - 1) - 1 + 1) /\ 1 + 1 - 1 = 1
          /\ (f - 1) - 1 + 1 = f - 1
      BY <1>7, <1>8
    <2>3. /\ SubSeq(Uri, 1, f - 1) \in Seq(Byte) /\ Len(SubSeq(Uri, 1, f - 1)) = (f - 1) - 1 + 1
          /\ \A k \in 1..((f - 1) - 1 + 1) : SubSeq(Uri, 1, f - 1)[k] = Uri[1 + k - 1]
      BY <1>7, <2>2, Part
    <2>4. SubSeq(Uri, 1, f - 1)[1] = "/"
      BY <1>7, <2>2, <2>3
    <2> QED
      BY <2>1, <2>2, <2>3, <2>4
  <1>10. Len(Path) >= 1 /\ Len(Path) < Cap
    <2>1. Cap \in Nat /\ Cap >= 2
      BY UriAssumption
    <2>2. Len(Path) \in Nat /\ Len(Path) >= 1 /\ Len(Path) <= Len(Uri)
      BY <1>7, <1>8, <1>9
    <2>3. CASE IsCgi(Path)
      <3>1. ~(Len(Path) >= Cap)
        BY <1>1, <2>3 DEF EarlyStatus
      <3> QED
        BY <2>1, <2>2, <3>1
    <2>4. CASE ~IsCgi(Path)
      <3>1. ~(Len(Uri) > Cap \div 2)
        BY <1>1, <2>4 DEF EarlyStatus
      <3>2. Cap \div 2 \in Nat /\ Cap \div 2 < Cap
        BY <2>1
      <3> QED
        BY <1>7, <2>1, <2>2, <3>1, <3>2
    <2> QED
      BY <2>3, <2>4
  <1>11. Decoding'
    BY <1>1, <1>9, DecodedNone DEF Decoding
  <1>12. RawOK'
    BY <1>1, <1>9, <1>10 DEF RawOK
  <1> QED
    BY <1>1, <1>11, <1>12 DEF UriInv, Normal, Accepted, Rejected

\* Every other step leaves the variables alone.
LEMMA UriUnchanged ==
    ASSUME UriInv, UNCHANGED uriVars
    PROVE  UriInv'
  BY DEF UriInv, RawOK, Decoding, Normal, Accepted, Rejected, uriVars

\* Only handle_cgi_mvp and parse_uri touch them.
LEMMA OtherSteps ==
    ASSUME [Next]_vars, ~HandlePath, ~Resolve
    PROVE  UNCHANGED uriVars
  <1>1. ASSUME NEW why, CloseConn(why) PROVE UNCHANGED uriVars
    BY <1>1 DEF CloseConn
  <1>2. CASE UNCHANGED vars \/ Over
    BY <1>2 DEF Over, vars
  <1>3. CASE Reading
    BY <1>1, <1>3 DEF Reading, InputEvent, Read, Resume, ReadAgain, ReadEnd, Overflow
  <1>4. CASE Parsing
    BY <1>1, <1>4 DEF Parsing, LineByte, LineDone, LineBad, LineAgain, HdrByte, HdrDone, HdrBad, HdrNoMemory, HdrAgain
  <1>5. CASE Handling
    BY <1>1, <1>5, ZenonT(60) DEF Handling, HandleEarly, Locate, CgiStart, CgiError, StaticInvalid, StaticError, StaticFile,
                      PrepareFailed
  <1>6. CASE Sending \/ WriteEvent \/ Truncate
    <2>1. ASSUME NEW n, Writev(n) \/ Sendfile(n) PROVE UNCHANGED uriVars
      BY <2>1 DEF Writev, Sendfile
    <2>2. CASE Sending
      BY <2>1, <2>2 DEF Sending
    <2>3. CASE WriteEvent \/ Truncate
      BY <2>3 DEF WriteEvent, Truncate
    <2> QED
      BY <1>6, <2>2, <2>3
  <1>7. CASE AfterSending \/ SendBlocked
    BY <1>7 DEF AfterSending, SendNext, SendClose, SendBlocked
  <1>8. CASE SendFailed \/ Expired
    BY <1>1, <1>8 DEF SendFailed, Expired
  <1> QED
    BY <1>2, <1>3, <1>4, <1>5, <1>6, <1>7, <1>8 DEF Next

\* The invariant of percent_decode and normalize_abs_path.
THEOREM UriInvariant == Spec => []UriInv
  <1>1. Init => UriInv
    BY DEF Init, UriInit, UriInv, RawOK, Decoding, Normal, Accepted, Rejected
  <1>2. Inv /\ PInv /\ UriInv /\ [Next]_vars => UriInv'
    <2> SUFFICES ASSUME Inv, PInv, UriInv, [Next]_vars PROVE UriInv'
      OBVIOUS
    <2>1. CASE HandlePath
      BY <2>1, HandlePathKeeps
    <2>2. CASE Resolve
      <3>1. UriStep
        BY <2>2 DEF Resolve
      <3> QED
        BY <3>1, DecodeByteKeeps, DecodeBadKeeps, DecodeEndKeeps, SegmentKeeps, SegBadKeeps, NormEndKeeps DEF UriStep
    <2>3. CASE ~HandlePath /\ ~Resolve
      BY <2>3, OtherSteps, UriUnchanged
    <2> QED
      BY <2>1, <2>2, <2>3
  <1> QED
    BY <1>1, <1>2, InvHolds, ParserInvariant, PTL DEF Spec

\* What normalize_abs_path (http.c) has written is the normal form of what it has
\* read, and a path is accepted if and only if it is well formed and does not
\* climb above the root, for every path, every size of the arrays and every
\* buffer.  In particular no check for room refuses a well-formed path.
THEOREM NormalRight == Spec => []NormalisedSoFar
  <1>1. UriInv => NormalisedSoFar
    <2> SUFFICES ASSUME UriInv PROVE NormalisedSoFar
      OBVIOUS
    <2>1. ASSUME upc = "norm"
          PROVE  /\ decoded = RefDecode(raw) /\ ~Climbs(Segs(decoded, ui)) /\ norm = RefNorm(SubSeq(decoded, 1, ui))
                 /\ Len(stack) = Len(Kept(Segs(decoded, ui)))
                 /\ \A k \in 1..Len(stack) : /\ stack[k] \in 2..Len(norm)
                                             /\ stack[k] = Len(norm) \/ norm[stack[k] + 1] = "/"
                                             /\ k > 1 => stack[k - 1] < stack[k]
      BY <2>1, NormShows DEF UriInv, Normal
    <2>2. (upc = "ok" => RefValid(raw) /\ norm = RefPath(raw)) /\ (upc = "bad" => ~RefValid(raw))
      BY DEF UriInv, Accepted, Rejected
    <2> QED
      BY <2>1, <2>2, Zenon DEF NormalisedSoFar, Segs
  <1> QED
    BY <1>1, UriInvariant, PTL
-----------------------------------------------------------------------------
(* is_path_under_root_real, in the other direction: the segments determine   *)
(* the bytes of a path that realpath returns.                                *)

\* The next member has the next rank.
LEMMA RankNext ==
    ASSUME NEW n \in Nat, NEW S \in SUBSET (1..n), NEW x \in Nat, NEW y \in S, x < y,
           \A z \in S : z < y => z <= x
    PROVE  Rank(S, y) = Rank(S, x) + 1
  <1> DEFINE X == {z \in S : z <= x}
             Y == {z \in S : z <= y}
  <1>1. \A z \in S : z \in Nat
    OBVIOUS
  <1>2. IsFiniteSet(X) /\ y \notin X
    <2>1. IsFiniteSet(S) /\ X \in SUBSET S
      BY RankTyped
    <2>2. ~(y <= x)
      BY <1>1
    <2> QED
      BY <2>1, <2>2, FS_Subset
  <1>3. Y = X \cup {y}
    <2>1. \A z \in S : z <= y <=> z <= x \/ z = y
      BY <1>1
    <2> QED
      BY <2>1
  <1> HIDE DEF X, Y
  <1>4. Cardinality(Y) = Cardinality(X) + 1
    BY <1>2, <1>3, FS_AddElement
  <1> QED
    BY <1>4 DEF Rank, X, Y

\* Members of one rank are one.
LEMMA RankOne ==
    ASSUME NEW n \in Nat, NEW S \in SUBSET (1..n), NEW x \in S, NEW y \in S, Rank(S, x) = Rank(S, y)
    PROVE  x = y
  <1>1. x \in Nat /\ y \in Nat /\ Rank(S, x) \in Nat /\ Rank(S, y) \in Nat
    BY RankTyped
  <1>2. (x < y => Rank(S, x) < Rank(S, y)) /\ (y < x => Rank(S, y) < Rank(S, x))
    BY RankLess
  <1> QED
    BY <1>1, <1>2

\* A byte of a segment has the start of the segment before it.
LEMMA SegmentOf ==
    ASSUME NEW p \in Seq(Byte), Canonical(p), NEW i \in 1..Len(p), p[i] # "/"
    PROVE  \E j \in SegStarts(p) : j <= i /\ NoneOf(p, j, i, {"/"})
  <1> DEFINE K == {k \in 1..i : p[k] = "/"}
             m == Max(K)
             j == m + 1
  <1>1. Len(p) \in Nat /\ i \in Nat /\ 1 <= i /\ i <= Len(p) /\ p[1] = "/"
    BY LenProperties DEF Canonical
  <1>2. K \in SUBSET (1..i) /\ 1 \in K
    BY <1>1
  <1>3. m \in K /\ \A x \in K : x <= m
    BY <1>1, <1>2, MaxIsMax
  <1> HIDE DEF m
  <1>4. m \in Nat /\ 1 <= m /\ m < i /\ p[m] = "/"
    BY <1>1, <1>3
  <1>5. \A k \in j..i : p[k] # "/"
    <2> SUFFICES ASSUME NEW k \in j..i, p[k] = "/" PROVE FALSE
      OBVIOUS
    <2>1. k \in K /\ k \in Nat
      BY <1>1, <1>4
    <2>2. k <= m
      BY <1>3, <2>1
    <2> QED
      BY <1>4, <2>1, <2>2
  <1>6. j \in SegStarts(p)
    <2>1. j \in 1..Len(p) /\ j \in j..i /\ j - 1 = m
      BY <1>1, <1>4
    <2> QED
      BY <1>4, <1>5, <2>1 DEF SegStarts
  <1>7. j <= i /\ NoneOf(p, j, i, {"/"})
    BY <1>1, <1>4, <1>5 DEF NoneOf
  <1> QED
    BY <1>6, <1>7

\* The segments of r are segments of p, with their numbers.  A segment that starts
\* in both at the same place, with the same number, is the same in both.
LEMMA SameSegment ==
    ASSUME NEW r \in Seq(Byte), NEW p \in Seq(Byte), Numbered(r) \subseteq Numbered(p),
           NEW j \in SegStarts(r), j \in SegStarts(p), Rank(SegStarts(r), j) = Rank(SegStarts(p), j)
    PROVE  /\ FirstIn(p, j, {"/"}) = FirstIn(r, j, {"/"}) /\ FirstIn(r, j, {"/"}) \in Nat
           /\ \A k \in j..(FirstIn(r, j, {"/"}) - 1) : k \in 1..Len(p) /\ p[k] = r[k]
  <1> DEFINE R == SegStarts(r)
             P == SegStarts(p)
             e == FirstIn(r, j, {"/"})
             f == FirstIn(p, j, {"/"})
             x == SubSeq(r, j, e - 1)
             y == SubSeq(p, j, f - 1)
  <1>1. /\ Len(r) \in Nat /\ Len(p) \in Nat /\ P \in SUBSET (1..Len(p)) /\ j \in Nat /\ 1 <= j
        /\ j <= Len(r) /\ j <= Len(p)
    BY LenProperties DEF SegStarts
  <1>2. /\ e \in Nat /\ e <= Len(r) + 1 /\ j <= e
        /\ f \in Nat /\ f <= Len(p) + 1 /\ j <= f
    <2>1. j <= Len(r) + 1 /\ j <= Len(p) + 1
      BY <1>1
    <2> QED
      BY <1>1, <2>1, FirstInFinds
  <1>3. <<Rank(R, j), x>> \in Numbered(p)
    <2>1. <<Rank(R, j), x>> \in Numbered(r)
      BY DEF Numbered, Rank
    <2> QED
      BY <2>1
  <1>4. PICK i \in P : <<Rank(R, j), x>> = <<Rank(P, i), SubSeq(p, i, FirstIn(p, i, {"/"}) - 1)>>
    BY <1>3, Zenon DEF Numbered, Rank
  <1>5. Rank(P, i) = Rank(R, j) /\ x = SubSeq(p, i, FirstIn(p, i, {"/"}) - 1)
    BY <1>4
  <1>6. i = j
    <2> HIDE DEF R, P
    <2>1. j \in P /\ Rank(P, j) = Rank(R, j)
      BY DEF P, R
    <2> QED
      BY <1>1, <1>5, <2>1, RankOne
  <1>7. x = y
    BY <1>5, <1>6
  <1> HIDE DEF R, P, e, f
  <1> DEFINE c == e - 1
             d == f - 1
  <1>8. /\ c \in Nat /\ d \in Nat /\ 1 <= j /\ j <= c + 1 /\ c <= Len(r) /\ j <= d + 1 /\ d <= Len(p)
    BY <1>1, <1>2
  <1> HIDE DEF c, d
  <1>9. /\ Len(SubSeq(r, j, c)) = c - j + 1 /\ \A k \in 1..(c - j + 1) : SubSeq(r, j, c)[k] = r[j + k - 1]
        /\ Len(SubSeq(p, j, d)) = d - j + 1 /\ \A k \in 1..(d - j + 1) : SubSeq(p, j, d)[k] = p[j + k - 1]
    BY <1>1, <1>8, Part
  <1>10. SubSeq(r, j, c) = SubSeq(p, j, d)
    BY <1>7 DEF c, d
  <1>11. c - j + 1 = d - j + 1
    BY <1>9, <1>10
  <1>12. c = d
    BY <1>1, <1>8, <1>11
  <1>13. \A k \in j..c : k \in 1..Len(p) /\ p[k] = r[k]
    <2> SUFFICES ASSUME NEW k \in j..c PROVE k \in 1..Len(p) /\ p[k] = r[k]
      OBVIOUS
    <2> DEFINE l == k - j + 1
    <2>1. l \in 1..(c - j + 1) /\ j + l - 1 = k /\ k \in 1..Len(p)
      BY <1>1, <1>8, <1>12
    <2> HIDE DEF l
    <2> QED
      BY <1>9, <1>10, <1>12, <2>1
  <1>14. e = f
    BY <1>2, <1>12 DEF c, d
  <1> QED
    BY <1>2, <1>13, <1>14 DEF c, e, f

\* Paths with the same first n bytes have the same starts of segments there.
LEMMA SameStarts ==
    ASSUME NEW r \in Seq(Byte), NEW p \in Seq(Byte), NEW n \in Nat, n <= Len(r), n <= Len(p),
           \A k \in 1..n : p[k] = r[k]
    PROVE  /\ \A j \in 1..n : j \in SegStarts(r) <=> j \in SegStarts(p)
           /\ \A j \in 0..n : Rank(SegStarts(r), j) = Rank(SegStarts(p), j)
  <1>1. Len(r) \in Nat /\ Len(p) \in Nat
    BY LenProperties
  <1>2. \A j \in 1..n : j \in SegStarts(r) <=> j \in SegStarts(p)
    <2> SUFFICES ASSUME NEW j \in 1..n PROVE j \in SegStarts(r) <=> j \in SegStarts(p)
      OBVIOUS
    <2>1. j \in 1..Len(r) /\ j \in 1..Len(p) /\ (j # 1 => j - 1 \in 1..n)
      BY <1>1
    <2>2. p[j] = r[j] /\ (j # 1 => p[j - 1] = r[j - 1])
      BY <2>1
    <2> QED
      BY <2>1, <2>2 DEF SegStarts
  <1>3. ASSUME NEW j \in 0..n PROVE Rank(SegStarts(r), j) = Rank(SegStarts(p), j)
    <2> DEFINE R == SegStarts(r)
               P == SegStarts(p)
    <2>1. (\A z \in R : z \in Nat /\ 1 <= z) /\ (\A z \in P : z \in Nat /\ 1 <= z)
      BY <1>1 DEF SegStarts
    <2> HIDE DEF R, P
    <2>2. \A z : z \in R /\ z <= j <=> z \in P /\ z <= j
      <3> SUFFICES ASSUME NEW z, z \in R \/ z \in P, z <= j PROVE z \in R <=> z \in P
        OBVIOUS
      <3>1. z \in 1..n
        BY <2>1
      <3> QED
        BY <1>2, <3>1 DEF R, P
    <2>3. {z \in R : z <= j} = {z \in P : z <= j}
      BY <2>2
    <2> QED
      BY <2>3 DEF Rank, R, P
  <1> QED
    BY <1>2, <1>3

\* A segment of r is in p, so its number is one of p's.
LEMMA NumberIn ==
    ASSUME NEW r \in Seq(Byte), NEW p \in Seq(Byte), Numbered(r) \subseteq Numbered(p), NEW j \in SegStarts(r)
    PROVE  \E i \in SegStarts(p) : Rank(SegStarts(p), i) = Rank(SegStarts(r), j)
  <1> DEFINE x == SubSeq(r, j, FirstIn(r, j, {"/"}) - 1)
  <1>1. <<Rank(SegStarts(r), j), x>> \in Numbered(r)
    BY DEF Numbered, Rank
  <1>2. <<Rank(SegStarts(r), j), x>> \in Numbered(p)
    BY <1>1
  <1> HIDE DEF x
  <1>3. PICK i \in SegStarts(p) :
          <<Rank(SegStarts(r), j), x>> = <<Rank(SegStarts(p), i), SubSeq(p, i, FirstIn(p, i, {"/"}) - 1)>>
    BY <1>2, Zenon DEF Numbered, Rank
  <1> QED
    BY <1>3

\* Behind d equal bytes the next one is equal as well.
LEMMA NextSame ==
    ASSUME NEW r \in Seq(Byte), NEW p \in Seq(Byte), Canonical(r), Canonical(p), Numbered(r) \subseteq Numbered(p),
           NEW d \in Nat, 1 <= d, d < Len(r), d <= Len(p), \A k \in 1..d : p[k] = r[k]
    PROVE  d + 1 <= Len(p) /\ p[d + 1] = r[d + 1]
  <1> DEFINE R == SegStarts(r)
             P == SegStarts(p)
             c == d + 1
  <1>1. /\ Len(r) \in Nat /\ Len(p) \in Nat /\ P \in SUBSET (1..Len(p)) /\ R \in SUBSET (1..Len(r))
        /\ d \in 1..Len(r) /\ d \in 1..Len(p) /\ c \in 2..Len(r) /\ c \in 1..Len(r) /\ c - 1 = d /\ p[d] = r[d]
        /\ d <= Len(r)
    BY LenProperties DEF SegStarts
  <1>2. /\ \A j \in 1..d : j \in R <=> j \in P
        /\ \A j \in 0..d : Rank(R, j) = Rank(P, j)
    BY <1>1, SameStarts, SMTT(60)
  <1>3. \A i \in 2..Len(r) : r[i] = "/" => i < Len(r) /\ r[i - 1] # "/"
    BY DEF Canonical
  <1>4. \A i \in 2..Len(p) : p[i] = "/" => i < Len(p) /\ p[i - 1] # "/"
    BY DEF Canonical
  \* A start behind d has a rank that p has only behind d.
  <1>5. ASSUME NEW a \in R, d < a, \A z \in R : z < a => z <= d
        PROVE  /\ Rank(R, a) = Rank(P, d) + 1
               /\ \E i \in P : d < i /\ Rank(P, i) = Rank(R, a)
    <2> HIDE DEF R, P
    <2>1. Rank(R, a) = Rank(R, d) + 1
      BY <1>1, <1>5, RankNext
    <2>2. Rank(R, d) = Rank(P, d)
      <3>1. d \in 0..d
        OBVIOUS
      <3> QED
        BY <1>2, <3>1
    <2>3. PICK i \in P : Rank(P, i) = Rank(R, a)
      BY <1>5, NumberIn DEF R, P
    <2>4. d < i
      <3> SUFFICES ASSUME ~(d < i) PROVE FALSE
        OBVIOUS
      <3>1. i \in Nat /\ i <= d
        BY <1>1
      <3>2. Rank(P, i) \in Nat /\ Rank(P, d) \in Nat
        BY <1>1, <3>1, RankTyped
      <3>3. Rank(P, i) <= Rank(P, d)
        <4> DEFINE I == {z \in P : z <= i}
                   D == {z \in P : z <= d}
        <4>1. \A z \in P : z \in Nat
          BY <1>1
        <4>6. \A z \in P : z <= i => z <= d
          BY <3>1, <4>1
        <4>2. I \in SUBSET D
          BY <4>6
        <4>3. IsFiniteSet(P)
          BY <1>1, RankTyped
        <4>4. IsFiniteSet(D)
          BY <4>3, FS_Subset
        <4> HIDE DEF I, D
        <4>5. Cardinality(I) <= Cardinality(D)
          BY <4>2, <4>4, FS_Subset
        <4> QED
          BY <4>5 DEF Rank, I, D
      <3> QED
        BY <2>1, <2>2, <2>3, <3>2, <3>3
    <2> QED
      BY <2>1, <2>2, <2>3, <2>4
  <1>6. CASE r[d] = "/"
    <2>1. r[c] # "/"
      BY <1>1, <1>3, <1>6
    <2>2. c \in R
      BY <1>1, <1>6, <2>1 DEF SegStarts
    <2>3. d < c /\ \A z \in R : z < c => z <= d
      BY <1>1
    <2>4. /\ Rank(R, c) = Rank(P, d) + 1
          /\ \E i \in P : d < i /\ Rank(P, i) = Rank(R, c)
      <3> HIDE DEF R, P, c
      <3> QED
        BY <1>5, <2>2, <2>3
    <2>5. c <= Len(p)
      <3>1. PICK i \in P : d < i
        BY <2>4
      <3>2. i \in 1..Len(p)
        BY <1>1
      <3> QED
        BY <1>1, <3>1, <3>2
    <2>6. c \in 2..Len(p) /\ c \in 1..Len(p)
      BY <1>1, <2>5
    <2>7. p[c] # "/"
      BY <1>1, <1>4, <1>6, <2>6
    <2>8. c \in P
      BY <1>1, <1>6, <2>6, <2>7 DEF SegStarts
    <2>9. Rank(P, c) = Rank(P, d) + 1
      <3>1. \A z \in P : z < c => z <= d
        BY <1>1
      <3> HIDE DEF P
      <3> QED
        BY <1>1, <2>3, <2>8, <3>1, RankNext
    <2>10. /\ FirstIn(r, c, {"/"}) \in Nat
           /\ \A k \in c..(FirstIn(r, c, {"/"}) - 1) : k \in 1..Len(p) /\ p[k] = r[k]
      <3>1. Rank(SegStarts(r), c) = Rank(SegStarts(p), c)
        BY <2>4, <2>9
      <3> HIDE DEF c
      <3> QED
        BY <2>2, <2>8, <3>1, SameSegment
    <2>11. c < FirstIn(r, c, {"/"})
      <3>1. c \in Nat /\ c <= Len(r) + 1 /\ Len(r) \in Nat /\ c <= Len(r)
        BY <1>1
      <3>2. /\ c <= FirstIn(r, c, {"/"})
            /\ FirstIn(r, c, {"/"}) <= Len(r) => r[FirstIn(r, c, {"/"})] \in {"/"}
        <4> HIDE DEF c
        <4> QED
          BY <3>1, FirstInFinds
      <3>3. FirstIn(r, c, {"/"}) # c
        <4> HIDE DEF c
        <4> QED
          BY <2>1, <3>1, <3>2
      <3> QED
        BY <2>10, <3>1, <3>2, <3>3
    <2>12. c \in c..(FirstIn(r, c, {"/"}) - 1)
      <3>1. c \in Nat
        BY <1>1
      <3> HIDE DEF c
      <3> QED
        BY <2>10, <2>11, <3>1
    <2> QED
      BY <2>5, <2>10, <2>12
  <1>7. CASE r[d] # "/"
    <2>1. PICK j \in R : j <= d /\ NoneOf(r, j, d, {"/"})
      BY <1>1, <1>7, SegmentOf
    <2> DEFINE e == FirstIn(r, j, {"/"})
    <2>2. j \in Nat /\ 1 <= j /\ j \in 1..d /\ j \in 0..d
      BY <1>1, <2>1
    <2>3. j \in P /\ Rank(R, j) = Rank(P, j)
      BY <1>2, <2>2
    <2>4. /\ FirstIn(p, j, {"/"}) = e /\ e \in Nat
          /\ \A k \in j..(e - 1) : k \in 1..Len(p) /\ p[k] = r[k]
      BY <2>3, SameSegment
    <2>5. /\ e <= Len(r) + 1 /\ j <= e /\ (e <= Len(r) => r[e] = "/") /\ NoneOf(r, j, e - 1, {"/"})
          /\ e <= Len(p) + 1 /\ (e <= Len(p) => p[e] = "/")
      <3>1. j <= Len(r) + 1 /\ j <= Len(p) + 1
        BY <1>1, <2>2
      <3>2. /\ e <= Len(r) + 1 /\ j <= e /\ (e <= Len(r) => r[e] \in {"/"}) /\ NoneOf(r, j, e - 1, {"/"})
        BY <2>2, <3>1, FirstInFinds
      <3>3. e <= Len(p) + 1 /\ (e <= Len(p) => p[e] \in {"/"})
        <4> DEFINE g == FirstIn(p, j, {"/"})
        <4>1. g <= Len(p) + 1 /\ (g <= Len(p) => p[g] \in {"/"})
          BY <2>2, FirstInFinds
        <4>2. g = e
          BY <2>4
        <4> HIDE DEF g, e
        <4> QED
          BY <4>1, <4>2
      <3> QED
        BY <3>2, <3>3
    <2> HIDE DEF e
    <2>6. c <= e
      <3> SUFFICES ASSUME ~(c <= e) PROVE FALSE
        OBVIOUS
      <3>1. e \in j..d /\ e <= Len(r)
        BY <1>1, <2>2, <2>4, <2>5
      <3>2. r[e] # "/"
        BY <2>1, <3>1 DEF NoneOf
      <3> QED
        BY <2>5, <3>1, <3>2
    <2>7. CASE c < e
      <3>1. c \in j..(e - 1)
        BY <1>1, <2>2, <2>4, <2>7
      <3>2. c \in 1..Len(p) /\ p[c] = r[c]
        BY <2>4, <3>1
      <3> QED
        BY <1>1, <3>2
    <2>8. CASE c = e /\ c <= Len(p)
      <3>1. r[c] = "/" /\ p[c] = "/"
        BY <1>1, <2>5, <2>8
      <3> QED
        BY <2>8, <3>1
    <2>9. CASE c = e /\ ~(c <= Len(p))
      <3> DEFINE a == c + 1
      <3>1. d = Len(p)
        BY <1>1, <2>9
      <3>2. r[c] = "/" /\ c < Len(r)
        BY <1>1, <1>3, <2>5, <2>9
      <3>3. a \in 2..Len(r) /\ a \in 1..Len(r) /\ a - 1 = c
        BY <1>1, <3>2
      <3>4. r[a] # "/"
        BY <1>3, <3>2, <3>3
      <3>5. a \in R
        BY <3>2, <3>3, <3>4 DEF SegStarts
      <3>6. c \notin R
        BY <3>2 DEF SegStarts
      <3>7. d < a /\ \A z \in R : z < a => z <= d
        BY <1>1, <3>6
      <3>8. \E i \in P : d < i
        <4> HIDE DEF R, P, a, c
        <4> QED
          BY <1>5, <3>5, <3>7
      <3> QED
        BY <1>1, <3>1, <3>8
    <2> QED
      BY <1>1, <2>4, <2>6, <2>7, <2>8, <2>9
  <1> QED
    BY <1>6, <1>7

\* realpath's results: below the root by its segments is below the root by its
\* bytes, unless the root is "/", which has no byte behind its last slash.
LEMMA BelowIsUnderRoot ==
    ASSUME NEW r \in Seq(Byte), NEW p \in Seq(Byte), Canonical(r), Canonical(p), r # <<"/">>,
           Numbered(r) \subseteq Numbered(p)
    PROVE  IsPrefix(r, p) /\ (Len(p) = Len(r) \/ p[Len(r) + 1] = "/")
  <1> DEFINE n == Len(r)
  <1>1. n \in Nat /\ Len(p) \in Nat /\ 1 <= n /\ 1 <= Len(p) /\ r[1] = "/" /\ p[1] = "/"
    <2>1. r # <<>> /\ p # <<>> /\ r[1] = "/" /\ p[1] = "/"
      BY DEF Canonical
    <2> QED
      BY <2>1, LenProperties, EmptySeq
  <1>2. 2 <= n
    <2> DEFINE s == <<"/">>
    <2>1. Len(s) = 1 /\ s[1] = "/" /\ s \in Seq({"/"})
      OBVIOUS
    <2>2. n = 1 => \A k \in 1..Len(r) : r[k] = s[k]
      BY <1>1, <2>1
    <2>3. n = 1 => r = s
      BY <2>1, <2>2, SeqEqual
    <2>4. n # 1
      BY <2>3
    <2> HIDE DEF n
    <2> QED
      BY <1>1, <2>4
  <1> DEFINE D == {k \in 1..n : ~(k <= Len(p) /\ p[k] = r[k])}
  <1>3. \A k \in 1..n : k <= Len(p) /\ p[k] = r[k]
    <2> SUFFICES ASSUME D # {} PROVE FALSE
      OBVIOUS
    <2> DEFINE m == Min(D)
               d == m - 1
    <2>1. D \in SUBSET Nat
      OBVIOUS
    <2>2. m \in D /\ \A x \in D : m <= x
      BY <2>1, MinIsMin
    <2> HIDE DEF m
    <2>3. m \in 1..n /\ ~(m <= Len(p) /\ p[m] = r[m])
      BY <2>2
    <2>4. m # 1
      BY <1>1, <2>3
    <2>5. d \in Nat /\ 1 <= d /\ d < Len(r) /\ d + 1 = m
      BY <1>1, <2>3, <2>4
    <2>6. \A k \in 1..d : k <= Len(p) /\ p[k] = r[k]
      <3> SUFFICES ASSUME NEW k \in 1..d, ~(k <= Len(p) /\ p[k] = r[k]) PROVE FALSE
        OBVIOUS
      <3>1. k \in D /\ k < m /\ k \in Nat /\ m \in Nat
        BY <2>3, <2>5
      <3>2. m <= k
        BY <2>2, <3>1
      <3> QED
        BY <3>1, <3>2
    <2>7. d <= Len(p)
      <3>1. d \in 1..d
        BY <2>5
      <3> QED
        BY <2>6, <3>1
    <2> HIDE DEF d
    <2>8. d + 1 <= Len(p) /\ p[d + 1] = r[d + 1]
      BY <2>5, <2>6, <2>7, NextSame
    <2> QED
      BY <2>3, <2>5, <2>8
  <1>4. n <= Len(p)
    <2>1. n \in 1..n
      BY <1>1
    <2> QED
      BY <1>3, <2>1
  <1>5. IsPrefix(r, p)
    <2> DEFINE i == 1
    <2>1. i \in Nat /\ 1 <= i /\ i <= n + 1 /\ n - i + 1 = n /\ \A k \in 1..n : i + k - 1 = k
      BY <1>1
    <2> HIDE DEF i
    <2>2. /\ SubSeq(r, i, n) \in Seq(Byte) /\ Len(SubSeq(r, i, n)) = n - i + 1
          /\ \A k \in 1..(n - i + 1) : SubSeq(r, i, n)[k] = r[i + k - 1]
      BY <1>1, <2>1, Part
    <2>3. /\ SubSeq(p, i, n) \in Seq(Byte) /\ Len(SubSeq(p, i, n)) = n - i + 1
          /\ \A k \in 1..(n - i + 1) : SubSeq(p, i, n)[k] = p[i + k - 1]
      BY <1>1, <1>4, <2>1, Part
    <2> DEFINE x == SubSeq(r, i, n)
               y == SubSeq(p, i, n)
    <2>4. x \in Seq(Byte) /\ y \in Seq(Byte) /\ Len(x) = n /\ Len(y) = n
      BY <2>1, <2>2, <2>3
    <2>5. \A k \in 1..n : x[k] = y[k]
      BY <1>3, <2>1, <2>2, <2>3
    <2> HIDE DEF x, y
    <2>6. x = y
      BY <2>4, <2>5, SeqEqual
    <2> QED
      BY <1>4, <2>6 DEF IsPrefix, x, y, i
  <1>6. Len(p) = n \/ p[n + 1] = "/"
    <2>1. n \in 2..n /\ n \in 1..n /\ n \in 0..n
      BY <1>1, <1>2
    <2>2. r[n] # "/"
      BY <1>1, <2>1 DEF Canonical
    <2>3. PICK j \in SegStarts(r) : j <= n /\ NoneOf(r, j, n, {"/"})
      BY <2>1, <2>2, SegmentOf
    <2>4. j \in Nat /\ 1 <= j /\ j \in 1..n /\ j \in 0..n
      BY <1>1, <2>3 DEF SegStarts
    <2>5. j \in SegStarts(p) /\ Rank(SegStarts(r), j) = Rank(SegStarts(p), j)
      BY <1>1, <1>3, <1>4, <2>4, SameStarts
    <2> DEFINE e == FirstIn(r, j, {"/"})
               g == FirstIn(p, j, {"/"})
    <2>6. g = e /\ e \in Nat
      BY <2>5, SameSegment
    <2>7. e = n + 1
      <3>1. e <= n + 1 /\ (e <= n => j <= e /\ r[e] \in {"/"})
        BY <2>4, FirstInFinds
      <3> HIDE DEF e
      <3>2. ~(e <= n)
        <4> SUFFICES ASSUME e <= n PROVE FALSE
          OBVIOUS
        <4>1. e \in j..n /\ r[e] = "/"
          BY <1>1, <2>4, <2>6, <3>1
        <4> QED
          BY <2>3, <4>1 DEF NoneOf
      <3> QED
        BY <1>1, <2>6, <3>1, <3>2
    <2>8. g <= Len(p) => p[g] \in {"/"}
      BY <2>4, FirstInFinds
    <2> HIDE DEF e, g
    <2> QED
      BY <1>1, <1>4, <2>6, <2>7, <2>8
  <1> QED
    BY <1>5, <1>6
-----------------------------------------------------------------------------
(* What the headers and the method say.                                     *)

\* The header lines as the request has them: those of the list, oldest first.
HeaderCopy(k) == [key |-> Text(list[k].ks, list[k].ke), val |-> Text(list[k].vs, list[k].ve)]
Copied == Reverse([k \in DOMAIN list |-> HeaderCopy(k)])

\* Header k of the request is the one at the other end of the list.
LEMMA CopiedIs ==
    ASSUME IsSeq(list)
    PROVE  /\ Len(list) \in Nat /\ DOMAIN list = 1..Len(list) /\ DOMAIN Copied = 1..Len(list)
           /\ \A k \in 1..Len(list) : (Len(list) - k) + 1 \in 1..Len(list) /\ Copied[k] = HeaderCopy((Len(list) - k) + 1)
  <1> DEFINE L == Len(list)
             T(k) == HeaderCopy(k)
             f == [k \in DOMAIN list |-> T(k)]
  <1>1. L \in Nat /\ DOMAIN list = 1..L
    BY LenProperties DEF IsSeq
  <1> HIDE DEF T, L
  <1>2. f \in Seq({T(k) : k \in 1..L}) /\ Len(f) = L
    <2>1. f \in [1..L -> {T(k) : k \in 1..L}]
      BY <1>1
    <2> QED
      BY <1>1, <2>1
  <1>3. \A k \in 1..L : f[k] = T(k)
    BY <1>1
  <1>4. \A k \in 1..L : (L - k) + 1 \in 1..L
    BY <1>1
  <1> HIDE DEF f
  <1>5. Reverse(f) = [k \in 1..L |-> f[(L - k) + 1]]
    BY <1>2 DEF Reverse
  <1>6. Copied = Reverse(f)
    BY DEF Copied, f, T
  <1> QED
    BY <1>1, <1>3, <1>4, <1>5, <1>6 DEF L, T

\* zv_http_handle_header goes through the list from the newest header to the
\* oldest, so the first one of the request that is known decides.
LEMMA KeepIsFirst ==
    ASSUME IsSeq(list), version \in Numbers, version.major >= 1, NEW q, q.headers = Copied,
           q.v11 = (version.major > 1 \/ version.minor >= 1)
    PROVE  zv_http_handle_header = RefKeep(q)
  <1> DEFINE L == Len(list)
             h == q.headers
             base == version.major > 1 \/ (version.major = 1 /\ version.minor >= 1)
             Known(k) == IsPrefix(h[k].key, Connection) /\ \E v \in {KeepAlive, Close} : IsPrefix(h[k].val, v)
             K == {k \in DOMAIN h : Known(k)}
             E == Deciding
  <1>1. /\ L \in Nat /\ DOMAIN list = 1..L /\ DOMAIN h = 1..L
        /\ \A k \in 1..L : (L - k) + 1 \in 1..L /\ h[k] = HeaderCopy((L - k) + 1)
    BY CopiedIs
  <1>2. base = q.v11 /\ base \in BOOLEAN
    BY DEF Numbers
  <1>3. \A k \in 1..L : /\ Keeps(list[k]) <=> IsPrefix(HeaderCopy(k).key, Connection) /\ IsPrefix(HeaderCopy(k).val, KeepAlive)
                        /\ Closes(list[k]) <=> IsPrefix(HeaderCopy(k).key, Connection) /\ IsPrefix(HeaderCopy(k).val, Close)
    BY DEF Keeps, Closes, HeaderCopy, NameMatches
  <1>4. \A k \in 1..L : k \in K <=> (L - k) + 1 \in E
    <2> SUFFICES ASSUME NEW k \in 1..L PROVE k \in K <=> (L - k) + 1 \in E
      OBVIOUS
    <2> DEFINE i == (L - k) + 1
    <2>1. i \in 1..L /\ h[k] = HeaderCopy(i) /\ i \in DOMAIN list /\ k \in DOMAIN h
      BY <1>1
    <2>2. i \in E <=> Keeps(list[i]) \/ Closes(list[i])
      BY <2>1 DEF Deciding
    <2>3. k \in K <=> Known(k)
      BY <2>1
    <2>4. Known(k) <=> IsPrefix(h[k].key, Connection) /\ (IsPrefix(h[k].val, KeepAlive) \/ IsPrefix(h[k].val, Close))
      OBVIOUS
    <2> HIDE DEF i, K, E, h, Known
    <2>5. /\ Keeps(list[i]) <=> IsPrefix(h[k].key, Connection) /\ IsPrefix(h[k].val, KeepAlive)
          /\ Closes(list[i]) <=> IsPrefix(h[k].key, Connection) /\ IsPrefix(h[k].val, Close)
      BY <1>3, <2>1
    <2> QED
      BY <2>2, <2>3, <2>4, <2>5 DEF i
  <1>5. zv_http_handle_header = IF E = {} THEN base ELSE Keeps(list[Max(E)])
    BY <1>2, KeepIsLast DEF zv_http_handle_header
  <1>6. RefKeep(q) = IF K = {} THEN q.v11 ELSE IsPrefix(h[Min(K)].val, KeepAlive)
    BY DEF RefKeep
  <1>7. K \in SUBSET (1..L) /\ E \in SUBSET (1..L)
    BY <1>1 DEF Deciding
  <1> HIDE DEF K, E, h, L, base
  <1>8. CASE E = {}
    <2>1. K = {}
      BY <1>1, <1>4, <1>7, <1>8
    <2> QED
      BY <1>2, <1>5, <1>6, <1>8, <2>1
  <1>9. CASE E # {}
    <2> DEFINE m == Max(E)
               i == (L - m) + 1
    <2>1. m \in E /\ \A x \in E : x <= m
      BY <1>1, <1>7, <1>9, MaxIsMax
    <2> HIDE DEF m
    <2>2. m \in 1..L /\ i \in 1..L /\ (L - i) + 1 = m
      BY <1>1, <1>7, <2>1
    <2>3. i \in K
      BY <1>4, <2>1, <2>2
    <2>4. \A x \in K : i <= x
      <3> SUFFICES ASSUME NEW x \in K PROVE i <= x
        OBVIOUS
      <3>1. x \in 1..L /\ (L - x) + 1 \in E
        BY <1>4, <1>7
      <3>2. (L - x) + 1 <= m
        BY <2>1, <3>1
      <3> QED
        BY <1>1, <2>2, <3>1, <3>2
    <2>5. Min(K) = i
      <3>1. K \in SUBSET Nat /\ K # {}
        BY <1>1, <1>7, <2>3
      <3> HIDE DEF i
      <3> QED
        BY <2>3, <2>4, <3>1, MinIsMin
    <2>6. h[i] = HeaderCopy(m)
      BY <1>1, <2>2
    <2>7. Keeps(list[m]) <=> IsPrefix(h[i].val, KeepAlive)
      <3>1. Keeps(list[m]) \/ Closes(list[m])
        BY <2>1 DEF E, Deciding
      <3> HIDE DEF i
      <3> QED
        BY <1>3, <2>2, <2>6, <3>1
    <2>8. Keeps(list[m]) \in BOOLEAN /\ IsPrefix(h[i].val, KeepAlive) \in BOOLEAN
      BY DEF Keeps, IsPrefix
    <2>9. K # {}
      BY <2>3
    <2> HIDE DEF i
    <2> QED
      BY <1>5, <1>6, <1>9, <2>5, <2>7, <2>8, <2>9 DEF m
  <1> QED
    BY <1>8, <1>9

\* A word that r->method is set by, whatever it was before.
Sets(word) == Len(word) \notin {3, 4} \/ MethodOf(word, "old") # "old"

\* The other words leave it alone.
LEMMA MethodSet ==
    ASSUME NEW word, NEW x
    PROVE  /\ Sets(word) => MethodOf(word, x) = MethodOf(word, "UNKNOWN")
           /\ ~Sets(word) => MethodOf(word, x) = x
  BY DEF Sets, MethodOf

\* What r->method is behind the first k requests of rs.
MethodIn(rs, k) ==
    LET sets == {j \in 1..k : Sets(rs[j].method)}
    IN IF sets = {} THEN "UNKNOWN" ELSE MethodOf(rs[Max(sets)].method, "UNKNOWN")

\* One request more.
LEMMA MethodNext ==
    ASSUME NEW rs, NEW us, NEW n \in Nat, NEW m, m = n + 1, \A j \in 1..n : us[j] = rs[j], NEW w, w = us[m].method
    PROVE  MethodIn(us, m) = MethodOf(w, MethodIn(rs, n))
  <1> DEFINE S == {j \in 1..n : Sets(rs[j].method)}
             U == {j \in 1..m : Sets(us[j].method)}
  <1>1. n \in Nat /\ w = us[m].method /\ \A j \in 1..n : us[j] = rs[j]
    OBVIOUS
  <1>2. MethodIn(rs, n) = IF S = {} THEN "UNKNOWN" ELSE MethodOf(rs[Max(S)].method, "UNKNOWN")
    BY DEF MethodIn
  <1>3. MethodIn(us, m) = IF U = {} THEN "UNKNOWN" ELSE MethodOf(us[Max(U)].method, "UNKNOWN")
    BY DEF MethodIn
  <1>4. CASE Sets(w)
    <2>1. m \in U /\ U \in SUBSET (1..m) /\ m \in Nat
      BY <1>1, <1>4
    <2> HIDE DEF U
    <2>2. Max(U) \in U /\ \A x \in U : x <= Max(U)
      BY <2>1, MaxIsMax
    <2>3. Max(U) = m
      <3> DEFINE z == Max(U)
      <3>1. z \in 1..m /\ m <= z
        BY <2>1, <2>2
      <3> HIDE DEF z
      <3>2. z = m
        BY <2>1, <3>1
      <3> QED
        BY <3>2 DEF z
    <2>4. U # {}
      BY <2>1
    <2>5. MethodIn(us, m) = MethodOf(w, "UNKNOWN")
      BY <1>1, <1>3, <2>3, <2>4
    <2> QED
      BY <1>1, <1>4, <2>5, MethodSet
  <1>5. CASE ~Sets(w)
    <2>1. \A j : j \in U <=> j \in S
      <3>1. \A j : j \in 1..m <=> j \in 1..n \/ j = m
        BY <1>1
      <3>2. m \notin 1..n
        BY <1>1
      <3> QED
        BY <1>1, <1>5, <3>1, <3>2
    <2>2. U = S
      <3> HIDE DEF U, S
      <3>1. U \subseteq S /\ S \subseteq U
        BY <2>1
      <3> QED
        BY <3>1
    <2>3. S # {} => Max(S) \in 1..n
      <3>1. S \in SUBSET (1..n)
        OBVIOUS
      <3> HIDE DEF S
      <3> QED
        BY <1>1, <3>1, MaxIsMax
    <2> HIDE DEF U, S
    <2>4. MethodIn(us, m) = MethodIn(rs, n)
      BY <1>1, <1>2, <1>3, <2>2, <2>3
    <2> QED
      BY <1>1, <1>5, <2>4, MethodSet
  <1> QED
    BY <1>4, <1>5

\* Unless the word leaves it alone r->method is the request's own, and it is when the
\* own method is GET.
LEMMA MethodOwn ==
    ASSUME NEW rs, NEW n \in Nat \ {0}
    PROVE  /\ MethodIn(rs, n) = "GET" =>
                LeavesMethod(rs[n].method) \/ MethodOf(rs[n].method, "UNKNOWN") = "GET"
           /\ MethodIn(rs, n) # "GET" => MethodOf(rs[n].method, "UNKNOWN") # "GET"
  <1> DEFINE k == n - 1
             w == rs[n].method
             old == MethodIn(rs, k)
  <1>1. k \in Nat /\ n = k + 1 /\ \A j \in 1..k : rs[j] = rs[j]
    OBVIOUS
  <1> HIDE DEF k
  <1>2. MethodIn(rs, n) = MethodOf(w, old)
    BY <1>1, MethodNext
  <1> HIDE DEF w, old
  <1>3. MethodOf(w, old) = "GET" => LeavesMethod(w) \/ MethodOf(w, "UNKNOWN") = "GET"
    BY DEF MethodOf, LeavesMethod
  <1>4. MethodOf(w, old) # "GET" => MethodOf(w, "UNKNOWN") # "GET"
    BY DEF MethodOf
  <1> QED
    BY <1>2, <1>3, <1>4 DEF w
-----------------------------------------------------------------------------
(* The answers: the invariant of do_request from the request to the answer.  *)

\* The connection is kept when the headers say so, and there is no other reason.
KeepRight(q, a, path) == a.keep = (~IsCgi(path) /\ a.status \in {200, 304, 403, 404} /\ RefKeep(q))

\* What RightAnswers says of the answer a to the request q of the client c, when
\* r->method is m; n is the normal form of the path, name the file it leads to.
Verdict(c, q, m, a, path, n, cgi, valid, name, there) ==
    /\ a.status \in {200, 304} =>
         /\ ~cgi /\ there /\ a.name = name
         /\ File(name).kind = "file" /\ File(name).read
    /\ a.status = 304 => \E k \in DOMAIN q.headers : q.headers[k].val[1] = Date[1]
    /\ a.status \in {0, 500} =>
         /\ cgi /\ there /\ File(name).kind = "file" /\ File(name).exec
         /\ IsPrefix(CgiPrefix, n) /\ m = "GET"
    /\ a.status = 404 => valid /\ (~there \/ (cgi /\ ~(File(name).kind = "file" /\ File(name).exec)))
    /\ a.status = 403 =>
         \/ there /\ (~Below(c.root, name) \/ File(c.root).real = <<"/">>)
         \/ ~cgi /\ there /\ ~(File(name).kind = "file" /\ File(name).read)
         \/ cgi /\ valid /\ ~IsPrefix(CgiPrefix, n)
    /\ a.status = 400 =>
         ~valid \/ Len(name) >= Cap \/ name = <<>> \/ Len(path) >= Cap \/ Len(q.uri) > Cap \div 2
    /\ a.status = 405 => cgi /\ m # "GET"
    /\ KeepRight(q, a, path)

Right(c, q, m, a) ==
    LET path  == PathOf(q.uri)
        cgi   == IsPrefix(CgiPrefix, path)
        valid == RefValid(path)
        name  == IF cgi THEN c.root \o RefPath(path) ELSE StaticName(c.root, RefPath(path))
        there == valid /\ name # <<>> /\ Len(name) < Cap /\ Exists(name)
    IN Verdict(c, q, m, a, path, RefPath(path), cgi, valid, name, there)

\* The last answer is the one to the last request, and right.
AnswerRight(c, rs, as) ==
    /\ Len(rs) \in Nat \ {0} /\ Len(as) = Len(rs) /\ Last(as).req = Len(rs)
    /\ Right(c, rs[Len(rs)], MethodIn(rs, Len(rs)), Last(as))

\* r->method in a request whose line is read up to the pointers q: that of the
\* requests rs before it, until there is a word.
MethodNow(t, b, phase, q, rs) ==
    IF phase = 2 \/ q.method_end = Null
      THEN MethodIn(rs, Len(rs))
      ELSE MethodOf(SubSeq(t, b + q.request_start, (b + q.method_end) - 1), MethodIn(rs, Len(rs)))

InHandler == pc \in {"handle", "resolve", "file"}
Replied   == pc \in {"send", "cgi"} \/ (pc = "wait" /\ armed = "out")

OneAnswerEach == pc # "closed" => Len(reqs) = Len(answers) + IF InHandler THEN 1 ELSE 0
MethodIs      == pc # "closed" => method = MethodNow(client.bytes, Base, parse_phase, ptr, reqs)
RequestIs     == InHandler =>
                   /\ Last(reqs).uri = Uri
                   /\ Last(reqs).v11 = (version.major > 1 \/ version.minor >= 1)
                   /\ pc = "handle" \/ ~IsCgi(raw) => Last(reqs).headers = Copied
PathIs        == pc \in {"resolve", "file"} => raw = PathOf(Uri) /\ upc # "idle" /\ (IsCgi(raw) => method = "GET")
FileIs        == pc = "file" =>
                   /\ upc \in {"ok", "bad"}
                   /\ filename = IF upc = "bad" THEN <<>>
                                 ELSE IF IsCgi(raw) THEN client.root \o norm ELSE StaticName(client.root, norm)
AnswerIs      == Replied => AnswerRight(client, reqs, answers)
AInv == OneAnswerEach /\ MethodIs /\ RequestIs /\ PathIs /\ FileIs /\ AnswerIs
-----------------------------------------------------------------------------
(* What the handlers find out is what the reference says.                   *)

\* What is_path_under_root_real refuses is not below the root, unless the root is "/".
LEMMA RefusedOutside ==
    ASSUME client \in Clients, NEW name, Exists(name), ~is_path_under_root_real(client.root, name)
    PROVE  ~Below(client.root, name) \/ File(client.root).real = <<"/">>
  <1> DEFINE r == File(client.root).real
             p == File(name).real
  <1>1. Exists(client.root)
    BY ExchangeAssumption
  <1>2. \A x : Exists(x) => File(x).real \in Seq(Byte) /\ Canonical(File(x).real)
    BY UriAssumption, RealAssumption DEF Exists, File
  <1>3. r \in Seq(Byte) /\ p \in Seq(Byte) /\ Canonical(r) /\ Canonical(p)
    BY <1>1, <1>2
  <1>4. ~(IsPrefix(r, p) /\ (Len(p) = Len(r) \/ p[Len(r) + 1] = "/"))
    BY DEF is_path_under_root_real
  <1> HIDE DEF r, p
  <1>5. Numbered(r) \subseteq Numbered(p) => r = <<"/">>
    BY <1>3, <1>4, BelowIsUnderRoot
  <1> QED
    BY <1>5 DEF Below, r, p

\* The pointers are in the buffer once the line is read.
LEMMA InBuffer ==
    ASSUME Inv, PInv, pc # "closed", parse_phase # 0
    PROVE  /\ 1 <= ptr.request_start /\ ptr.request_start < ptr.method_end /\ ptr.method_end <= Len(buf)
           /\ ptr.request_start \in Nat /\ ptr.method_end \in Nat /\ version.major >= 1 /\ version \in Numbers
           /\ \A k \in DOMAIN list : list[k].vs \in Nat /\ list[k].ve \in Nat /\ 1 <= list[k].vs
                                     /\ list[k].vs < list[k].ve /\ list[k].ve <= Len(buf)
  <1>1. At \in Nat /\ At <= Len(buf) /\ Base \in Nat /\ Len(buf) \in Nat
    BY Where, Sizes
  <1>2. Line(client.bytes, Base, At, ptr, version) /\ ptr \in Pointer
    BY DEF PInv, ParserAt, PtrTypes, Parser
  <1>3. LineInOrder(client.bytes, Base, At, ptr)
    BY <1>1, <1>2, LineOrdered
  <1>4. /\ ptr.request_start \in Nat /\ ptr.method_end \in Nat /\ ptr.uri_start \in Nat /\ ptr.uri_end \in Nat
        /\ ptr.request_end \in Nat
    BY <1>2 DEF Pointer
  <1>5. 1 <= ptr.request_start /\ ptr.request_start < ptr.method_end /\ ptr.method_end <= Len(buf)
    BY <1>1, <1>3, <1>4 DEF LineInOrder
  <1>6. version.major >= 1
    <2>1. LineRead(client.bytes, Base, Base + ptr.request_start, Base + ptr.method_end, Base + ptr.uri_start,
                   Base + ptr.uri_end, version, LineEnd(client.bytes, Base, ptr))
      BY <1>2 DEF Line
    <2> QED
      BY <2>1, Zenon DEF LineRead, MajorIs
  <1>7. version \in Numbers
    BY DEF Inv, CoreOK, Numbers
  <1>8. ASSUME NEW k \in DOMAIN list
        PROVE  /\ list[k].vs \in Nat /\ list[k].ve \in Nat /\ 1 <= list[k].vs
               /\ list[k].vs < list[k].ve /\ list[k].ve <= Len(buf)
    <2>1. HeaderSet(At, k)
      BY ReadPointers
    <2>2. list[k] \in Header
      BY ElementOfSeq, LenProperties DEF PInv, PtrTypes
    <2>3. list[k].ks \in Nat /\ list[k].ke \in Nat /\ list[k].vs \in Nat /\ list[k].ve \in Nat
      BY <2>2 DEF Header
    <2> QED
      BY <1>1, <1>4, <2>1, <2>3 DEF HeaderSet
  <1> QED
    BY <1>4, <1>5, <1>6, <1>7, <1>8

\* The word of the request line is in the stream.
LEMMA WordIs ==
    ASSUME Inv, PInv, pc # "closed", parse_phase # 0
    PROVE  /\ ptr.method_end # Null
           /\ Text(ptr.request_start, ptr.method_end)
                = SubSeq(client.bytes, Base + ptr.request_start, (Base + ptr.method_end) - 1)
  <1> DEFINE i == ptr.request_start
             j == ptr.method_end
  <1>1. i \in Nat /\ j \in Nat /\ 1 <= i /\ i < j /\ j <= Len(buf) /\ Len(buf) \in Nat
    BY InBuffer, Sizes
  <1> HIDE DEF i, j
  <1>2. i <= j /\ j <= Len(buf) + 1 /\ j # Null
    BY <1>1 DEF Null
  <1>3. Text(i, j) = SubSeq(client.bytes, Base + i, (Base + j) - 1)
    BY <1>1, <1>2, TextIs
  <1> QED
    BY <1>2, <1>3 DEF i, j

\* A header that answers 304 has a date.
LEMMA DateThere ==
    ASSUME Inv, PInv, pc # "closed", parse_phase # 0, zv_http_process_if_modified_since, NEW q, q.headers = Copied
    PROVE  \E k \in DOMAIN q.headers : q.headers[k].val[1] = Date[1]
  <1>1. PICK i \in DOMAIN list : IsPrefix(Date, Text(list[i].vs, list[i].ve))
    BY DEF zv_http_process_if_modified_since
  <1>2. /\ list[i].vs \in Nat /\ list[i].ve \in Nat /\ 1 <= list[i].vs
        /\ list[i].vs < list[i].ve /\ list[i].ve <= Len(buf)
    BY InBuffer
  <1>3. buf \in Seq(Byte) /\ Len(buf) \in Nat /\ IsSeq(list)
    BY Sizes DEF Inv, Shapes
  <1> DEFINE x == Text(list[i].vs, list[i].ve)
             a == list[i].vs
             e == list[i].ve - 1
             L == Len(list)
             k == (L - i) + 1
  <1>4. x \in Seq(Byte) /\ Len(x) \in Nat /\ Len(x) >= 1
    <2>1. a \in Nat /\ e \in Nat /\ 1 <= a /\ a <= e + 1 /\ e <= Len(buf) /\ e - a + 1 >= 1 /\ e - a + 1 \in Nat
      BY <1>2, <1>3
    <2>2. x = SubSeq(buf, a, e)
      BY DEF Text
    <2> HIDE DEF a, e, x
    <2>3. SubSeq(buf, a, e) \in Seq(Byte) /\ Len(SubSeq(buf, a, e)) = e - a + 1
      BY <1>3, <2>1, Part
    <2> QED
      BY <2>1, <2>2, <2>3
  <1>5. x[1] = Date[1]
    <2>1. IsPrefix(Date, x)
      BY <1>1
    <2>2. Date \in Seq({"d"}) /\ Len(Date) = 1
      BY DEF Date
    <2> HIDE DEF x
    <2>3. SubSeq(Date, 1, Len(Date)) = SubSeq(x, 1, Len(Date))
      BY <2>1 DEF IsPrefix
    <2>4. SubSeq(Date, 1, 1) = SubSeq(x, 1, 1)
      BY <2>2, <2>3
    <2>5. SubSeq(x, 1, 1)[1] = x[1]
      BY <1>4
    <2>6. SubSeq(Date, 1, 1)[1] = Date[1]
      BY <2>2
    <2> QED
      BY <2>4, <2>5, <2>6
  <1>6. L \in Nat /\ DOMAIN list = 1..L /\ DOMAIN q.headers = 1..L
        /\ \A j \in 1..L : q.headers[j] = HeaderCopy((L - j) + 1)
    BY <1>3, CopiedIs
  <1> HIDE DEF L
  <1>7. k \in 1..L /\ (L - k) + 1 = i
    BY <1>6
  <1>8. q.headers[k] = HeaderCopy(i)
    BY <1>6, <1>7
  <1>9. q.headers[k].val = x
    BY <1>8 DEF HeaderCopy
  <1> HIDE DEF k, x
  <1> QED
    BY <1>5, <1>6, <1>7, <1>9

\* The name of a static file fits, if there is one.
LEMMA StaticNameFits ==
    ASSUME NEW root \in Seq(Byte), NEW path \in Seq(Byte), path # <<>>, StaticName(root, path) # <<>>
    PROVE  Len(StaticName(root, path)) < Cap
  <1> DEFINE final == PathFinal(path)
             index == Last(final) = "/"
             full  == IF index THEN final \o IndexName ELSE final
             rest  == IF Last(root) = "/" THEN Tail(full) ELSE full
             name  == root \o rest
  <1>1. "/" \in Byte /\ IndexName \in Seq(Byte) /\ Cap \in Nat /\ Cap >= 2
    BY UriAssumption DEF Byte, Other
  <1>2. final \in Seq(Byte) /\ final # <<>>
    <2>1. \A y \in Seq(Byte) : y # <<>> => Clip(y) \in Seq(Byte) /\ Clip(y) # <<>>
      <3> SUFFICES ASSUME NEW y \in Seq(Byte), y # <<>> PROVE Clip(y) \in Seq(Byte) /\ Clip(y) # <<>>
        OBVIOUS
      <3> DEFINE n == Len(y)
                 c == Cap - 1
                 m == Min({n, c})
      <3>1. n \in Nat /\ n >= 1 /\ c \in Nat /\ c >= 1
        BY <1>1, LenProperties, EmptySeq
      <3>2. m = IF n <= c THEN n ELSE c
        BY <3>1, MinOfTwo
      <3>3. m \in Nat /\ 1 <= m /\ m <= n /\ 1 <= m + 1 /\ m - 1 + 1 >= 1
        BY <3>1, <3>2
      <3>4. Clip(y) = SubSeq(y, 1, m)
        BY DEF Clip
      <3> HIDE DEF m
      <3>5. SubSeq(y, 1, m) \in Seq(Byte) /\ Len(SubSeq(y, 1, m)) = m - 1 + 1
        BY <3>3, Part
      <3>6. SubSeq(y, 1, m) # <<>>
        BY <3>3, <3>5
      <3> QED
        BY <3>4, <3>5, <3>6
    <2>2. Append(path, "/") \in Seq(Byte) /\ Append(path, "/") # <<>>
      BY <1>1
    <2>3. final = Clip(Append(path, "/")) \/ final = Clip(path)
      BY DEF PathFinal
    <2> QED
      BY <2>1, <2>2, <2>3
  <1> HIDE DEF final, index
  <1>3. full \in Seq(Byte) /\ full # <<>>
    <2>1. final \o IndexName \in Seq(Byte) /\ Len(final \o IndexName) = Len(final) + Len(IndexName)
      BY <1>1, <1>2, ConcatProperties
    <2>2. Len(final) \in Nat /\ Len(final) >= 1 /\ Len(IndexName) \in Nat
      BY <1>1, <1>2, LenProperties, EmptySeq
    <2>3. final \o IndexName # <<>>
      BY <2>1, <2>2
    <2> QED
      BY <1>2, <2>1, <2>3
  <1> HIDE DEF full
  <1>4. rest \in Seq(Byte)
    BY <1>3, HeadTailProperties
  <1> HIDE DEF rest
  <1>5. name \in Seq(Byte) /\ Len(name) \in Nat
    BY <1>4, ConcatProperties, LenProperties
  <1>6. StaticName(root, path) = IF (index /\ Len(full) + 1 >= Cap) \/ Len(name) >= Cap THEN <<>> ELSE name
    BY DEF StaticName, name, rest, full, index, final
  <1> HIDE DEF name
  <1> QED
    BY <1>1, <1>5, <1>6

\* An answer before the path is decoded.
LEMMA EarlyAnswer ==
    ASSUME Inv, AInv, pc = "handle", EarlyStatus # 0, NEW a, a.status = EarlyStatus, a.keep = FALSE
    PROVE  Right(client, Last(reqs), method, a)
  <1> DEFINE q     == Last(reqs)
             path  == PathOf(q.uri)
             cgi   == IsPrefix(CgiPrefix, path)
             valid == RefValid(path)
             n     == RefPath(path)
             name  == IF cgi THEN client.root \o n ELSE StaticName(client.root, n)
             there == valid /\ name # <<>> /\ Len(name) < Cap /\ Exists(name)
  <1>1. q.uri = Uri /\ path = Path /\ (cgi <=> IsCgi(Path))
    BY DEF AInv, RequestIs, InHandler, Path, IsCgi
  <1>2. \/ a.status = 405 /\ cgi /\ method # "GET"
        \/ a.status = 400 /\ (Len(path) >= Cap \/ Len(q.uri) > Cap \div 2)
    BY <1>1 DEF EarlyStatus
  <1>3. SUFFICES Verdict(client, q, method, a, path, n, cgi, valid, name, there)
    BY DEF Right
  <1> HIDE DEF q, path, cgi, valid, n, name, there
  <1>4. a.status \notin {200, 304, 403, 404}
    BY <1>2
  <1>5. KeepRight(q, a, path)
    BY <1>4, Zenon DEF KeepRight
  <1> QED
    BY <1>2, <1>5 DEF Verdict

\* An answer of a CGI path: that of CgiStatus, or what zv_cgi_start comes to.
LEMMA CgiAnswer ==
    ASSUME Inv, UriInv, AInv, pc = "file", IsCgi(raw), NEW a, a.keep = FALSE,
           a.status = CgiStatus \/ (CgiStatus = 0 /\ a.status = 500)
    PROVE  Right(client, Last(reqs), method, a)
  <1> DEFINE q     == Last(reqs)
             path  == PathOf(q.uri)
             cgi   == IsPrefix(CgiPrefix, path)
             valid == RefValid(path)
             n     == RefPath(path)
             name  == IF cgi THEN client.root \o n ELSE StaticName(client.root, n)
             there == valid /\ name # <<>> /\ Len(name) < Cap /\ Exists(name)
  <1>1. path = raw /\ cgi /\ method = "GET" /\ upc \in {"ok", "bad"} /\ client \in Clients
    BY DEF Inv, Shapes, AInv, RequestIs, PathIs, FileIs, InHandler, IsCgi
  <1>2. (upc = "bad" => ~valid) /\ (upc = "ok" => valid /\ norm = n /\ norm \in Seq(Byte) /\ norm # <<>>)
    BY <1>1 DEF UriInv, Accepted, Rejected
  <1>3. ASSUME upc = "ok" PROVE name = filename /\ name # <<>> /\ Len(name) \in Nat
    <2>1. filename = client.root \o norm /\ name = client.root \o norm
      BY <1>1, <1>2, <1>3 DEF AInv, FileIs
    <2>2. client.root \in Seq(Byte)
      BY <1>1, ExchangeAssumption
    <2>3. /\ client.root \o norm \in Seq(Byte) /\ Len(client.root \o norm) = Len(client.root) + Len(norm)
          /\ Len(norm) \in Nat /\ Len(norm) >= 1 /\ Len(client.root) \in Nat
      BY <1>2, <1>3, <2>2, ConcatProperties, LenProperties, EmptySeq
    <2>4. client.root \o norm # <<>> /\ Len(client.root \o norm) \in Nat
      BY <2>3
    <2> HIDE DEF name
    <2> QED
      BY <2>1, <2>4
  <1>4. Exists(name) /\ ~is_path_under_root_real(client.root, name)
          => ~Below(client.root, name) \/ File(client.root).real = <<"/">>
    BY <1>1, RefusedOutside
  <1>5. Cap \in Nat
    BY UriAssumption
  <1>6. SUFFICES Verdict(client, q, method, a, path, n, cgi, valid, name, there)
    BY DEF Right
  <1>7. there <=> valid /\ name # <<>> /\ Len(name) < Cap /\ Exists(name)
    OBVIOUS
  <1> HIDE DEF q, path, cgi, valid, n, name, there
  <1>10. KeepRight(q, a, path)
    BY <1>1, Zenon DEF KeepRight
  <1>8. CASE upc = "bad"
    <2>1. a.status = 400
      BY <1>8 DEF CgiStatus
    <2> QED
      BY <1>1, <1>2, <1>8, <2>1, <1>10 DEF Verdict
  <1>9. CASE upc = "ok"
    <2>1. valid /\ norm = n /\ filename = name /\ name # <<>> /\ Len(name) \in Nat
      BY <1>2, <1>3, <1>9
    <2>2. CASE ~IsPrefix(CgiPrefix, n)
      <3>1. a.status = 403
        BY <1>9, <2>1, <2>2 DEF CgiStatus
      <3> QED
        BY <1>1, <2>1, <2>2, <3>1, <1>10 DEF Verdict
    <2>3. CASE IsPrefix(CgiPrefix, n) /\ Len(name) >= Cap
      <3>1. a.status = 400
        BY <1>9, <2>1, <2>3 DEF CgiStatus
      <3> QED
        BY <1>1, <2>3, <3>1, <1>10 DEF Verdict
    <2>4. CASE IsPrefix(CgiPrefix, n) /\ ~(Len(name) >= Cap)
      <3>1. Len(name) < Cap
        BY <1>5, <2>1, <2>4
      <3>2. there <=> Exists(name)
        BY <1>7, <2>1, <3>1
      <3>3. CASE ~Exists(name) \/ File(name).kind # "file" \/ ~File(name).exec
        <4>1. a.status = 404
          BY <1>9, <2>1, <2>4, <3>3 DEF CgiStatus
        <4> QED
          BY <1>1, <2>1, <3>2, <3>3, <4>1, <1>10 DEF Verdict
      <3>4. CASE ~(~Exists(name) \/ File(name).kind # "file" \/ ~File(name).exec)
        <4>1. CASE ~is_path_under_root_real(client.root, name)
          <5>1. a.status = 403
            BY <1>9, <2>1, <2>4, <3>4, <4>1 DEF CgiStatus
          <5> QED
            BY <1>1, <1>4, <3>2, <3>4, <4>1, <5>1, <1>10 DEF Verdict
        <4>2. CASE is_path_under_root_real(client.root, name)
          <5>1. a.status \in {0, 500}
            BY <1>9, <2>1, <2>4, <3>4, <4>2 DEF CgiStatus
          <5> QED
            BY <1>1, <2>4, <3>2, <3>4, <5>1, <1>10 DEF Verdict
        <4> QED
          BY <4>1, <4>2
      <3> QED
        BY <3>3, <3>4
    <2> QED
      BY <2>2, <2>3, <2>4
  <1> QED
    BY <1>1, <1>8, <1>9

\* An answer of another path: parse_uri fails, the file is refused, or it is sent.
LEMMA StaticAnswer ==
    ASSUME Inv, PInv, UriInv, AInv, pc = "file", ~IsCgi(raw), NEW a,
           \/ StaticStatus = 400 /\ a.status = 400 /\ a.keep = FALSE
           \/ StaticStatus \in {403, 404} /\ a.status = StaticStatus /\ a.keep = zv_http_handle_header
           \/ /\ StaticStatus = 0 /\ a.name = filename /\ a.keep = zv_http_handle_header
              /\ a.status = 200 \/ (a.status = 304 /\ zv_http_process_if_modified_since)
    PROVE  Right(client, Last(reqs), method, a)
  <1> DEFINE q     == Last(reqs)
             path  == PathOf(q.uri)
             cgi   == IsPrefix(CgiPrefix, path)
             valid == RefValid(path)
             n     == RefPath(path)
             name  == IF cgi THEN client.root \o n ELSE StaticName(client.root, n)
             there == valid /\ name # <<>> /\ Len(name) < Cap /\ Exists(name)
             keep  == zv_http_handle_header
             dated == \E k \in DOMAIN q.headers : q.headers[k].val[1] = Date[1]
  <1>1. path = raw /\ ~cgi /\ upc \in {"ok", "bad"} /\ client \in Clients
    BY DEF Inv, Shapes, AInv, RequestIs, PathIs, FileIs, InHandler, IsCgi
  <1>2. (upc = "bad" => ~valid) /\ (upc = "ok" => valid /\ norm = n /\ norm \in Seq(Byte) /\ norm # <<>>)
    BY <1>1 DEF UriInv, Accepted, Rejected
  <1>3. ASSUME upc = "ok" PROVE name = filename /\ (name # <<>> => Len(name) < Cap)
    <2>1. filename = StaticName(client.root, norm) /\ name = StaticName(client.root, norm)
      BY <1>1, <1>2, <1>3 DEF AInv, FileIs
    <2>2. client.root \in Seq(Byte)
      BY <1>1, ExchangeAssumption
    <2> HIDE DEF name
    <2> QED
      BY <1>2, <1>3, <2>1, <2>2, StaticNameFits
  <1>4. Exists(name) /\ ~is_path_under_root_real(client.root, name)
          => ~Below(client.root, name) \/ File(client.root).real = <<"/">>
    BY <1>1, RefusedOutside
  <1>5. keep = RefKeep(q) /\ keep \in BOOLEAN /\ (zv_http_process_if_modified_since => dated)
    <2>1. parse_phase # 0 /\ pc # "closed" /\ IsSeq(list)
      BY DEF Inv, InPhase, Shapes
    <2>2. q.headers = Copied /\ q.v11 = (version.major > 1 \/ version.minor >= 1)
      BY DEF AInv, RequestIs, InHandler
    <2>3. version \in Numbers /\ version.major >= 1
      BY <2>1, InBuffer
    <2> HIDE DEF q
    <2>4. keep = RefKeep(q)
      BY <2>1, <2>2, <2>3, KeepIsFirst
    <2>5. zv_http_process_if_modified_since => dated
      BY <2>1, <2>2, DateThere
    <2>6. keep \in BOOLEAN
      <3>1. version.major > 1 \/ (version.major = 1 /\ version.minor >= 1) \in BOOLEAN
        OBVIOUS
      <3> QED
        BY <2>1, <3>1, KeepIsBoolean DEF zv_http_handle_header
    <2> QED
      BY <2>4, <2>5, <2>6
  <1>7. SUFFICES Verdict(client, q, method, a, path, n, cgi, valid, name, there)
    BY DEF Right
  <1>8. there <=> valid /\ name # <<>> /\ Len(name) < Cap /\ Exists(name)
    OBVIOUS
  <1>9. dated => \E k \in DOMAIN q.headers : q.headers[k].val[1] = Date[1]
    OBVIOUS
  <1> HIDE DEF q, path, cgi, valid, n, name, there, keep, dated
  <1>6. \/ a.status \notin {200, 304, 403, 404} /\ a.keep = FALSE
        \/ a.status \in {200, 304, 403, 404} /\ a.keep = RefKeep(q)
    BY <1>5 DEF keep
  <1>13. KeepRight(q, a, path)
    <2>1. ~IsCgi(path)
      BY <1>1
    <2>2. RefKeep(q) \in BOOLEAN
      BY <1>5
    <2>3. CASE a.status \notin {200, 304, 403, 404} /\ a.keep = FALSE
      BY <2>3, Zenon DEF KeepRight
    <2>4. CASE a.status \in {200, 304, 403, 404} /\ a.keep = RefKeep(q)
      <3>1. (~IsCgi(path) /\ a.status \in {200, 304, 403, 404} /\ RefKeep(q)) = RefKeep(q)
        BY <2>1, <2>2, <2>4, ZenonT(60)
      <3> QED
        BY <2>4, <3>1, ZenonT(60) DEF KeepRight
    <2> QED
      BY <1>6, <2>3, <2>4
  <1>10. CASE upc = "bad"
    <2>1. a.status = 400 /\ a.keep = FALSE
      BY <1>10 DEF StaticStatus
    <2> QED
      BY <1>2, <1>10, <2>1, <1>13 DEF Verdict
  <1>11. CASE upc = "ok" /\ name = <<>>
    <2>1. a.status = 400 /\ a.keep = FALSE
      BY <1>3, <1>11 DEF StaticStatus
    <2> QED
      BY <1>11, <2>1, <1>13 DEF Verdict
  <1>12. CASE upc = "ok" /\ name # <<>>
    <2>1. valid /\ filename = name /\ (there <=> Exists(name))
      BY <1>2, <1>3, <1>8, <1>12
    <2>2. CASE ~Exists(name)
      <3>1. a.status = 404 /\ a.keep = RefKeep(q)
        BY <1>5, <1>12, <2>1, <2>2 DEF StaticStatus, keep
      <3> QED
        BY <1>1, <2>1, <2>2, <3>1, <1>13 DEF Verdict
    <2>3. CASE Exists(name) /\ ~is_path_under_root_real(client.root, name)
      <3>1. a.status = 403 /\ a.keep = RefKeep(q)
        BY <1>5, <1>12, <2>1, <2>3 DEF StaticStatus, keep
      <3> QED
        BY <1>1, <1>4, <2>1, <2>3, <3>1, <1>13 DEF Verdict
    <2>4. CASE /\ Exists(name) /\ is_path_under_root_real(client.root, name)
               /\ File(name).kind # "file" \/ ~File(name).read
      <3>1. a.status = 403 /\ a.keep = RefKeep(q)
        BY <1>5, <1>12, <2>1, <2>4 DEF StaticStatus, keep
      <3> QED
        BY <1>1, <2>1, <2>4, <3>1, <1>13 DEF Verdict
    <2>5. CASE /\ Exists(name) /\ is_path_under_root_real(client.root, name)
               /\ File(name).kind = "file" /\ File(name).read
      <3>1. /\ a.status = 200 \/ (a.status = 304 /\ dated)
            /\ a.keep = RefKeep(q) /\ a.name = name
        BY <1>5, <1>12, <2>1, <2>5 DEF StaticStatus, keep
      <3> QED
        BY <1>1, <1>9, <2>1, <2>5, <3>1, <1>13 DEF Verdict
    <2> QED
      BY <2>2, <2>3, <2>4, <2>5
  <1> QED
    BY <1>1, <1>10, <1>11, <1>12
-----------------------------------------------------------------------------
(* Every step keeps the invariant of the answers.                           *)

\* Reading, parsing of headers and sending.
LEMMA AnswersKept ==
    ASSUME AInv, pc # "closed", pc' # "closed", ~InHandler, ~InHandler', Replied' => Replied, Base' = Base,
           UNCHANGED <<client, ptr, parse_phase, method, reqs, answers>>
    PROVE  AInv'
  <1>1. OneAnswerEach'
    BY DEF AInv, OneAnswerEach
  <1>2. MethodIs'
    BY DEF AInv, MethodIs
  <1>3. RequestIs' /\ PathIs' /\ FileIs'
    BY Zenon DEF RequestIs, PathIs, FileIs, InHandler
  <1>4. AnswerIs'
    BY DEF AInv, AnswerIs
  <1> QED
    BY <1>1, <1>2, <1>3, <1>4 DEF AInv

\* Nothing is asked of a connection that is closed.
LEMMA AnswersClosed ==
    ASSUME pc' = "closed"
    PROVE  AInv'
  BY DEF AInv, OneAnswerEach, MethodIs, RequestIs, PathIs, FileIs, AnswerIs, InHandler, Replied

\* The request that is handled is the last one, and its method is r->method.
LEMMA LastRequest ==
    ASSUME Inv, AInv, InHandler
    PROVE  /\ Len(reqs) \in Nat /\ Len(answers) \in Nat /\ Len(reqs) = Len(answers) + 1
           /\ Last(reqs) = reqs[Len(reqs)] /\ method = MethodIn(reqs, Len(reqs))
  <1>1. Len(reqs) \in Nat /\ Len(answers) \in Nat
    BY LenProperties DEF Inv, Shapes, IsSeq
  <1>2. parse_phase = 2 /\ pc # "closed"
    BY DEF Inv, InPhase, InHandler
  <1>3. Len(reqs) = Len(answers) + 1
    BY <1>2 DEF AInv, OneAnswerEach
  <1>4. method = MethodIn(reqs, Len(reqs))
    BY <1>2 DEF AInv, MethodIs, MethodNow
  <1> QED
    BY <1>1, <1>3, <1>4 DEF Last

\* A right answer is added.
LEMMA AnswerAdded ==
    ASSUME Inv, AInv, InHandler, pc' \in {"send", "cgi"}, NEW a, a.req = Len(reqs), answers' = Append(answers, a),
           Right(client, Last(reqs), method, a), UNCHANGED <<client, taken, buf, ptr, parse_phase, method, reqs>>
    PROVE  AInv'
  <1>1. /\ Len(reqs) \in Nat /\ Len(answers) \in Nat /\ Len(reqs) = Len(answers) + 1
        /\ Last(reqs) = reqs[Len(reqs)] /\ method = MethodIn(reqs, Len(reqs))
    BY LastRequest
  <1>2. Len(answers') = Len(answers) + 1 /\ answers'[Len(answers) + 1] = a
    BY AppendAny DEF Inv, Shapes
  <1>3. Len(answers') = Len(reqs) /\ Last(answers') = a
    BY <1>1, <1>2 DEF Last
  <1>4. Base' = Base /\ ~InHandler'
    BY DEF Base, InHandler
  <1>5. OneAnswerEach'
    BY <1>1, <1>3, <1>4 DEF OneAnswerEach
  <1>6. MethodIs'
    <2>1. pc # "closed"
      BY DEF InHandler
    <2> QED
      BY <1>4, <2>1 DEF AInv, MethodIs
  <1>7. RequestIs' /\ PathIs' /\ FileIs'
    BY <1>4, Zenon DEF RequestIs, PathIs, FileIs, InHandler
  <1>8. AnswerIs'
    <2>1. AnswerRight(client, reqs, answers')
      BY <1>1, <1>3 DEF AnswerRight
    <2> QED
      BY <2>1 DEF AnswerIs
  <1> QED
    BY <1>5, <1>6, <1>7, <1>8 DEF AInv

\* Reading, and the bytes of the headers.
LEMMA ReadingAnswers ==
    ASSUME Inv, AInv, Inv', \/ InputEvent \/ Resume \/ ReadAgain \/ LineAgain \/ HdrAgain \/ HdrByte
                            \/ \E n \in 1..(Len(client.bytes) - taken) : Read(n)
    PROVE  AInv'
  <1>1. ASSUME NEW n, Read(n) PROVE AInv'
    <2>1. /\ pc = "top" /\ pc' = (IF parse_phase = 0 THEN "line" ELSE "hdr")
          /\ UNCHANGED <<client, parse_phase, ptr, method, reqs, answers>>
      BY <1>1 DEF Read, EnterParser, lineVars, histVars
    <2>2. Base' = Base
      <3>1. parse_phase # 2
        BY <2>1 DEF Inv, InPhase
      <3>2. Base = IF reqs = <<>> THEN 0 ELSE Last(reqs).end
        BY <3>1, Zenon DEF Inv, BufferIsStream
      <3>3. BufferIsStream' /\ parse_phase' # 2
        BY <2>1, <3>1 DEF Inv
      <3>4. Base' = IF reqs' = <<>> THEN 0 ELSE Last(reqs').end
        BY <3>3, Zenon DEF BufferIsStream
      <3> QED
        BY <2>1, <3>2, <3>4
    <2>3. pc # "closed" /\ pc' # "closed" /\ ~InHandler /\ ~InHandler' /\ ~Replied'
      BY <2>1 DEF InHandler, Replied
    <2> QED
      BY <2>1, <2>2, <2>3, AnswersKept
  <1>2. CASE InputEvent \/ Resume \/ ReadAgain \/ LineAgain \/ HdrAgain \/ HdrByte
    <2>1. /\ pc \in {"wait", "top", "line", "hdr"}
          /\ pc' \in {"top", "line", "hdr"} \/ (pc' = "wait" /\ armed' = "in")
          /\ UNCHANGED <<client, taken, buf, parse_phase, ptr, method, reqs, answers>>
      <3>1. CASE InputEvent
        BY <3>1 DEF InputEvent, netVars, lineVars, bufVars, histVars
      <3>2. CASE Resume
        BY <3>2 DEF Resume, EnterParser, netVars, lineVars, bufVars, histVars
      <3>3. CASE ReadAgain
        BY <3>3 DEF ReadAgain, Return, netVars, lineVars, bufVars, histVars
      <3>4. CASE LineAgain
        BY <3>4 DEF LineAgain, netVars, histVars
      <3>5. CASE HdrAgain
        BY <3>5 DEF HdrAgain, netVars, lineVars, histVars
      <3>6. CASE HdrByte
        BY <3>6 DEF HdrByte, netVars, lineVars, bufVars, histVars
      <3> QED
        BY <1>2, <3>1, <3>2, <3>3, <3>4, <3>5, <3>6
    <2>2. Base' = Base
      BY <2>1 DEF Base
    <2>3. pc # "closed" /\ pc' # "closed" /\ ~InHandler /\ ~InHandler' /\ ~Replied'
      BY <2>1 DEF InHandler, Replied
    <2> QED
      BY <2>1, <2>2, <2>3, AnswersKept
  <1> QED
    BY <1>1, <1>2

\* Sending leaves the answers alone.
LEMMA SendingAnswers ==
    ASSUME AInv, \/ \E n \in 1..(HeaderLen + PageLen) : Writev(n)
                 \/ \E n \in 1..out.size : Sendfile(n)
                 \/ WriteEvent \/ Truncate
    PROVE  AInv'
  <1>1. /\ pc \in {"send", "wait"} /\ pc' \in {"send", "wait"} /\ (Replied' => Replied)
        /\ UNCHANGED <<client, taken, buf, parse_phase, ptr, method, reqs, answers>>
    <2>1. ASSUME NEW n, Writev(n)
          PROVE  /\ pc = "send" /\ pc' = pc
                 /\ UNCHANGED <<client, taken, buf, parse_phase, ptr, method, reqs, answers>>
      BY <2>1 DEF Writev, netVars, lineVars, bufVars
    <2>2. ASSUME NEW n, Sendfile(n)
          PROVE  /\ pc = "send" /\ pc' = pc
                 /\ UNCHANGED <<client, taken, buf, parse_phase, ptr, method, reqs, answers>>
      BY <2>2 DEF Sendfile, netVars, lineVars, bufVars
    <2>3. CASE WriteEvent
      BY <2>3 DEF WriteEvent, Replied, netVars, lineVars, bufVars, histVars
    <2>4. CASE Truncate
      BY <2>4 DEF Truncate, Replied, netVars, lineVars, bufVars, histVars
    <2> QED
      BY <2>1, <2>2, <2>3, <2>4 DEF Replied
  <1>2. Base' = Base
    BY <1>1 DEF Base
  <1>3. pc # "closed" /\ pc' # "closed" /\ ~InHandler /\ ~InHandler'
    BY <1>1 DEF InHandler
  <1> QED
    BY <1>1, <1>2, <1>3, AnswersKept

\* The end of a response, or of what the socket takes of it.
LEMMA AfterAnswers ==
    ASSUME Inv, AInv, SendNext \/ SendBlocked
    PROVE  AInv'
  <1>1. /\ pc = "send" /\ Len(answers') = Len(answers)
        /\ pc' = "top" \/ (pc' = "wait" /\ (armed' = "out" => answers' = answers))
        /\ IF after = "done" THEN RequestDone ELSE KeepRequest
        /\ UNCHANGED <<client, taken, method, reqs>>
    <2>1. CASE SendNext
      <3>1. MarkShort
        BY <2>1 DEF SendNext
      <3>2. Len(answers') = Len(answers)
        <4>1. Len(answers) \in Nat /\ DOMAIN answers = 1..Len(answers)
          BY LenProperties DEF Inv, Shapes, IsSeq
        <4>2. DOMAIN answers' = 1..Len(answers)
          BY <3>1, <4>1 DEF MarkShort
        <4>3. IsSeq(answers')
          BY <2>1, <3>1, AnswerMarked DEF SendNext, netVars
        <4>4. Len(answers') \in Nat /\ DOMAIN answers' = 1..Len(answers')
          BY <4>3, LenProperties DEF IsSeq
        <4> DEFINE m == Len(answers)
                   k == Len(answers')
        <4>5. m \in Nat /\ k \in Nat /\ 1..m = 1..k
          BY <4>1, <4>2, <4>4
        <4> HIDE DEF m, k
        <4>6. k = m
          <5>1. \A i \in Nat : (i \in 1..m <=> 1 <= i /\ i <= m) /\ (i \in 1..k <=> 1 <= i /\ i <= k)
            BY <4>5
          <5>2. ~(k < m) /\ ~(m < k)
            BY <4>5, <5>1
          <5> QED
            BY <4>5, <5>2
        <4> QED
          BY <4>6 DEF m, k
      <3> QED
        BY <2>1, <3>2 DEF SendNext, Return, netVars
    <2>2. CASE SendBlocked
      BY <2>2 DEF SendBlocked, Return, netVars, histVars
    <2> QED
      BY <2>1, <2>2
  <1>2. pc # "closed" /\ pc' # "closed" /\ ~InHandler /\ ~InHandler' /\ Replied
    BY <1>1 DEF InHandler, Replied
  <1>3. OneAnswerEach'
    BY <1>1, <1>2 DEF AInv, OneAnswerEach
  <1>4. MethodIs'
    <2>1. method = MethodNow(client.bytes, Base, parse_phase, ptr, reqs)
      BY <1>2 DEF AInv, MethodIs
    <2>2. CASE after = "done"
      <3>1. parse_phase = 2
        BY <1>1, <2>2 DEF Inv, InPhase
      <3>2. method = MethodIn(reqs, Len(reqs))
        BY <2>1, <3>1 DEF MethodNow
      <3>3. ptr'.method_end = Null
        BY <1>1, <2>2 DEF RequestDone, NullPtr
      <3>4. method' = MethodIn(reqs', Len(reqs'))
        BY <1>1, <3>2
      <3>5. method' = MethodNow(client'.bytes, Base', parse_phase', ptr', reqs')
        BY <3>3, <3>4 DEF MethodNow
      <3> QED
        BY <3>5 DEF MethodIs
    <2>3. CASE after # "done"
      <3>1. UNCHANGED <<buf, parse_phase, ptr>>
        BY <1>1, <2>3 DEF KeepRequest, bufVars
      <3>2. Base' = Base
        BY <1>1, <3>1 DEF Base
      <3> QED
        BY <1>1, <2>1, <3>1, <3>2 DEF MethodIs
    <2> QED
      BY <2>2, <2>3
  <1>5. RequestIs' /\ PathIs' /\ FileIs'
    BY <1>2, Zenon DEF RequestIs, PathIs, FileIs, InHandler
  <1>6. AnswerIs'
    BY <1>1, <1>2 DEF AInv, AnswerIs, Replied
  <1> QED
    BY <1>3, <1>4, <1>5, <1>6 DEF AInv

\* Only the method may change.
LEMMA AnswersButMethod ==
    ASSUME AInv, pc \in {"line", "hdr"}, pc' \in {"line", "hdr"}, MethodIs', UNCHANGED <<reqs, answers>>
    PROVE  AInv'
  <1>1. pc # "closed" /\ ~InHandler /\ ~InHandler' /\ ~Replied'
    BY DEF InHandler, Replied
  <1>2. OneAnswerEach'
    BY <1>1 DEF AInv, OneAnswerEach
  <1>3. RequestIs' /\ PathIs' /\ FileIs' /\ AnswerIs'
    BY <1>1, Zenon DEF RequestIs, PathIs, FileIs, AnswerIs, InHandler
  <1> QED
    BY <1>2, <1>3 DEF AInv

\* The space behind the word sets r->method.
LEMMA LineByteAnswers ==
    ASSUME Inv, PInv, AInv, LineByte
    PROVE  AInv'
  <1>1. /\ pc = "line" /\ InBuf /\ pc' = "line" /\ ptr' = MarkLine
        /\ method' = (IF sw = "method" /\ Ch = SP THEN MethodOf(Text(ptr.request_start, pi + 1), method) ELSE method)
        /\ UNCHANGED <<client, taken, buf, parse_phase, reqs, answers>>
    BY DEF LineByte, netVars, bufVars, histVars
  <1>2. ptr \in Pointer /\ parse_phase = 0 /\ InLine(client.bytes, Base, pi, sw, ptr, version)
    BY <1>1, InLineNow
  <1>3. pi \in Nat /\ pi < Len(buf) /\ Len(buf) \in Nat /\ Base \in Nat
    BY <1>1, Sizes DEF InBuf
  <1>4. /\ ptr'.method_end = IF sw = "method" /\ Ch = SP THEN pi + 1 ELSE ptr.method_end
        /\ sw # "start" => ptr'.request_start = ptr.request_start
    BY <1>1 DEF MarkLine
  <1>5. sw \in {"start", "method"} => ptr.method_end = Null
    BY <1>2 DEF InLine, LaterNull
  <1>6. Base' = Base
    BY <1>1 DEF Base
  <1>7. method = MethodNow(client.bytes, Base, parse_phase, ptr, reqs)
    BY <1>1 DEF AInv, MethodIs
  <1> DEFINE t == client.bytes
             b == Base
             old == MethodIn(reqs, Len(reqs))
             i == ptr.request_start
             j == pi + 1
  <1>8. method' = MethodNow(t, b, 0, ptr', reqs)
    <2>1. CASE sw = "method" /\ Ch = SP
      <3>1. method = old
        BY <1>5, <1>7, <2>1 DEF MethodNow
      <3>2. b < b + i /\ b + i <= b + pi /\ i \in Nat
        BY <1>2, <2>1 DEF InLine, LineAt, Pointer
      <3>3. 1 <= i /\ i <= j /\ j \in Nat /\ j <= Len(buf) + 1 /\ j # Null
        <4> HIDE DEF i, b
        <4>1. b \in Nat
          BY <1>3 DEF b
        <4> QED
          BY <1>3, <3>2, <4>1 DEF Null
      <3> HIDE DEF j
      <3>4. Text(i, j) = SubSeq(client.bytes, Base + i, (Base + j) - 1)
        BY <3>2, <3>3, TextIs
      <3>5. method' = MethodOf(SubSeq(t, b + i, (b + j) - 1), old)
        BY <1>1, <2>1, <3>1, <3>4 DEF j
      <3>6. ptr'.method_end = j /\ ptr'.request_start = i
        BY <1>4, <2>1 DEF j
      <3> HIDE DEF t, b, i, old
      <3> QED
        BY <3>3, <3>5, <3>6 DEF MethodNow, old
    <2>2. CASE ~(sw = "method" /\ Ch = SP)
      <3>1. method' = method /\ ptr'.method_end = ptr.method_end
        BY <1>1, <1>4, <2>2
      <3>2. ptr.method_end # Null => ptr'.request_start = i
        BY <1>4, <1>5
      <3> HIDE DEF t, b
      <3>3. method = MethodNow(t, b, 0, ptr, reqs)
        BY <1>2, <1>7 DEF t, b
      <3>4. MethodNow(t, b, 0, ptr', reqs) = MethodNow(t, b, 0, ptr, reqs)
        BY <3>1, <3>2 DEF MethodNow
      <3> QED
        BY <3>1, <3>3, <3>4
    <2> QED
      BY <2>1, <2>2
  <1>9. MethodIs'
    BY <1>1, <1>2, <1>6, <1>8 DEF MethodIs
  <1> QED
    BY <1>1, <1>9, AnswersButMethod

\* The end of the line leaves it alone.
LEMMA LineDoneAnswers ==
    ASSUME Inv, PInv, AInv, LineDone
    PROVE  AInv'
  <1>1. /\ pc = "line" /\ pc' = "hdr" /\ parse_phase' = 1 /\ NextState(LineRules) = {"done"}
        /\ ptr' = [MarkLine EXCEPT !.request_end = IF @ = Null THEN pi + 1 ELSE @]
        /\ UNCHANGED <<client, taken, buf, method, reqs, answers>>
    BY DEF LineDone, netVars, histVars
  <1>2. parse_phase = 0
    BY <1>1 DEF Inv, InPhase
  <1>3. sw \notin {"start", "method"}
    <2>1. \A rule \in LineRules : rule[3] = "done" => rule[1] \notin {"start", "method"}
      BY DEF LineRules
    <2>2. PICK rule \in LineRules : rule[1] = sw /\ rule[3] = "done"
      BY <1>1 DEF NextState
    <2> QED
      BY <2>1, <2>2
  <1>4. ptr'.method_end = ptr.method_end /\ ptr'.request_start = ptr.request_start
    BY <1>1, <1>3 DEF MarkLine
  <1>5. Base' = Base
    BY <1>1 DEF Base
  <1>6. method = MethodNow(client.bytes, Base, 0, ptr, reqs)
    BY <1>1, <1>2 DEF AInv, MethodIs
  <1>7. MethodNow(client.bytes, Base, 1, ptr', reqs) = MethodNow(client.bytes, Base, 0, ptr, reqs)
    BY <1>4 DEF MethodNow
  <1>8. MethodIs'
    BY <1>1, <1>5, <1>6, <1>7 DEF MethodIs
  <1> QED
    BY <1>1, <1>8, AnswersButMethod

\* The request is complete: it is the one that is handled, and r->method its method.
LEMMA HdrDoneAnswers ==
    ASSUME Inv, PInv, AInv, HdrDone
    PROVE  AInv'
  <1> DEFINE q == [begin   |-> taken - Len(buf), end |-> taken - Len(buf) + pi + 1,
                   method  |-> Text(ptr.request_start, ptr.method_end), uri |-> Uri,
                   v11     |-> version.major > 1 \/ version.minor >= 1,
                   headers |-> Copied]
             n == Len(reqs)
  <1>1. /\ pc = "hdr" /\ pc' = "handle" /\ parse_phase' = 2
        /\ UNCHANGED <<client, taken, buf, ptr, version, list, method, answers>>
    BY DEF HdrDone, netVars, lineVars
  <1>2. reqs' = Append(reqs, q)
    BY DEF HdrDone, Copied, HeaderCopy
  <1>3. parse_phase = 1
    BY <1>1 DEF Inv, InPhase
  <1>4. /\ q.method = Text(ptr.request_start, ptr.method_end) /\ q.uri = Uri
        /\ q.v11 = (version.major > 1 \/ version.minor >= 1) /\ q.headers = Copied
    OBVIOUS
  <1> HIDE DEF q
  <1>5. n \in Nat /\ Len(reqs') = n + 1 /\ Last(reqs') = q
    <2>1. n \in Nat /\ Len(reqs') = n + 1 /\ reqs'[n + 1] = q
      BY <1>2, AppendAny DEF Inv, Shapes
    <2> QED
      BY <2>1 DEF Last
  <1>6. MethodIn(reqs', n + 1) = MethodOf(q.method, MethodIn(reqs, n))
    <2>1. n \in Nat /\ reqs'[n + 1] = q /\ \A j \in 1..n : reqs'[j] = reqs[j]
      BY <1>2, AppendAny DEF Inv, Shapes
    <2> DEFINE us == reqs'
               rs == reqs
    <2> HIDE DEF n, us, rs
    <2>2. \A j \in 1..n : us[j] = rs[j]
      BY <2>1 DEF us, rs
    <2>3. MethodIn(us, n + 1) = MethodOf(us[n + 1].method, MethodIn(rs, n))
      BY <2>1, <2>2, MethodNext
    <2> QED
      BY <2>1, <2>3 DEF us, rs
  <1>7. method = MethodOf(q.method, MethodIn(reqs, n))
    <2>1. method = MethodNow(client.bytes, Base, 1, ptr, reqs)
      BY <1>1, <1>3 DEF AInv, MethodIs
    <2>2. ptr.method_end # Null /\ q.method = SubSeq(client.bytes, Base + ptr.request_start, (Base + ptr.method_end) - 1)
      BY <1>1, <1>3, <1>4, WordIs
    <2> QED
      BY <2>1, <2>2 DEF MethodNow
  <1>8. MethodIs'
    <2>1. method' = MethodIn(reqs', Len(reqs'))
      BY <1>1, <1>5, <1>6, <1>7
    <2>2. method' = MethodNow(client'.bytes, Base', parse_phase', ptr', reqs')
      BY <1>1, <2>1 DEF MethodNow
    <2> QED
      BY <2>2 DEF MethodIs
  <1>9. OneAnswerEach'
    <2>1. Len(reqs) = Len(answers) + 0 /\ InHandler'
      BY <1>1 DEF AInv, OneAnswerEach, InHandler
    <2>2. Len(answers) \in Nat
      BY LenProperties DEF Inv, Shapes, IsSeq
    <2>3. Len(reqs') = Len(answers') + 1
      BY <1>1, <1>5, <2>1, <2>2
    <2> QED
      BY <2>1, <2>3 DEF OneAnswerEach
  <1>10. RequestIs'
    <2>1. Uri' = Uri
      BY <1>1 DEF Uri, Text
    <2>2. Copied' = Copied
      BY <1>1 DEF Copied, HeaderCopy, Text
    <2> QED
      BY <1>1, <1>4, <1>5, <2>1, <2>2 DEF RequestIs
  <1>11. PathIs' /\ FileIs' /\ AnswerIs'
    BY <1>1 DEF PathIs, FileIs, AnswerIs, Replied
  <1> QED
    BY <1>8, <1>9, <1>10, <1>11 DEF AInv

\* The steps from the request to the file leave it and its method alone.
LEMMA HandlingAnswers ==
    ASSUME Inv, AInv, HandlePath \/ Resolve \/ Locate
    PROVE  AInv'
  <1>1. /\ InHandler /\ InHandler' /\ pc # "closed" /\ ~Replied'
        /\ UNCHANGED <<client, taken, buf, ptr, version, parse_phase, method, reqs, answers>>
    BY DEF HandlePath, Resolve, Locate, InHandler, Replied, netVars, lineVars, bufVars, histVars
  <1>2. Base' = Base /\ Uri' = Uri
    BY <1>1 DEF Base, Uri, Text
  <1>3. OneAnswerEach' /\ MethodIs'
    BY <1>1, <1>2 DEF AInv, OneAnswerEach, MethodIs
  <1>4. AnswerIs'
    BY <1>1, Zenon DEF AnswerIs
  <1>5. list' = list => Copied' = Copied
    BY <1>1 DEF Copied, HeaderCopy, Text
  <1>6. /\ Last(reqs) = Last(reqs') /\ Last(reqs).uri = Uri
        /\ Last(reqs).v11 = (version.major > 1 \/ version.minor >= 1)
        /\ pc = "handle" \/ ~IsCgi(raw) => Last(reqs).headers = Copied
    BY <1>1 DEF AInv, RequestIs
  <1>7. ASSUME pc' # "handle", ~IsCgi(raw') => list' = list /\ (pc = "handle" \/ ~IsCgi(raw))
        PROVE  RequestIs'
    BY <1>1, <1>2, <1>5, <1>6, <1>7 DEF RequestIs
  <1>8. CASE HandlePath
    <2>1. pc = "handle" /\ EarlyStatus = 0 /\ pc' = "resolve" /\ raw' = Path /\ upc' = "decode"
      BY <1>8 DEF HandlePath, UriStart
    <2>2. ~IsCgi(raw') => list' = list
      BY <1>8, <2>1 DEF HandlePath, KeepHeaders
    <2>3. RequestIs'
      BY <1>7, <2>1, <2>2
    <2>4. PathIs'
      <3>1. IsCgi(Path) => method = "GET"
        BY <2>1 DEF EarlyStatus
      <3> QED
        BY <1>1, <1>2, <2>1, <3>1 DEF PathIs, Path
    <2>5. FileIs'
      BY <2>1 DEF FileIs
    <2> QED
      BY <1>3, <1>4, <2>3, <2>4, <2>5 DEF AInv
  <1>9. CASE Resolve
    <2>1. pc = "resolve" /\ pc' = "resolve" /\ UriStep /\ list' = list
      BY <1>9 DEF Resolve, hdrVars
    <2>2. raw' = raw /\ (upc # "idle" => upc' # "idle")
      BY <2>1 DEF UriStep, DecodeByte, DecodeBad, DecodeEnd, SegDot, SegUp, SegName, SegBad, NormEnd
    <2>3. RequestIs'
      BY <1>7, <2>1, <2>2
    <2>4. PathIs'
      BY <1>1, <1>2, <2>1, <2>2 DEF AInv, PathIs
    <2>5. FileIs'
      BY <2>1 DEF FileIs
    <2> QED
      BY <1>3, <1>4, <2>3, <2>4, <2>5 DEF AInv
  <1>10. CASE Locate
    <2>1. /\ pc = "resolve" /\ pc' = "file" /\ upc \in {"ok", "bad"} /\ UNCHANGED <<list, raw, upc, norm>>
          /\ filename' = IF upc = "bad" THEN <<>> ELSE IF IsCgi(raw) THEN client.root \o norm ELSE StaticName(client.root, norm)
      BY <1>10 DEF Locate, hdrVars, uriVars
    <2>2. RequestIs'
      BY <1>7, <2>1
    <2>3. PathIs'
      BY <1>1, <1>2, <2>1 DEF AInv, PathIs
    <2>4. FileIs'
      BY <1>1, <2>1 DEF FileIs
    <2> QED
      BY <1>3, <1>4, <2>2, <2>3, <2>4 DEF AInv
  <1> QED
    BY <1>8, <1>9, <1>10

\* Every answer that is begun is right.
LEMMA BegunAnswers ==
    ASSUME Inv, PInv, UriInv, AInv,
           \/ HandleEarly \/ CgiStart \/ CgiError \/ StaticInvalid \/ StaticError
           \/ \E modified \in BOOLEAN : StaticFile(modified)
    PROVE  AInv'
  <1> DEFINE New(s, keep, name, total) ==
               [req |-> Len(reqs), status |-> s, keep |-> keep, name |-> name, total |-> total, short |-> FALSE]
  <1>1. ASSUME NEW s, NEW keep, NEW then, NEW response, NEW name, Begin(s, keep, then, response, name)
        PROVE  pc' = "send" /\ \E total : answers' = Append(answers, New(s, keep, name, total))
    BY <1>1 DEF Begin
  <1> DEFINE Rest == UNCHANGED <<client, taken, buf, ptr, parse_phase, method, reqs>>
  <1>2. CASE HandleEarly
    <2>1. pc = "handle" /\ EarlyStatus # 0 /\ prepare_error(EarlyStatus, FALSE, "close") /\ Rest
      BY <1>2 DEF HandleEarly, netVars, lineVars, bufVars
    <2> DEFINE s == EarlyStatus
    <2> HIDE DEF New, s
    <2>2. pc' = "send" /\ \E total : answers' = Append(answers, New(s, FALSE, <<>>, total))
      BY <1>1, <2>1 DEF prepare_error, s
    <2>3. PICK total : answers' = Append(answers, New(s, FALSE, <<>>, total))
      BY <2>2
    <2> DEFINE a == New(s, FALSE, <<>>, total)
    <2>4. a.req = Len(reqs) /\ a.status = EarlyStatus /\ a.keep = FALSE /\ answers' = Append(answers, a)
      BY <2>3 DEF New, s
    <2> HIDE DEF a
    <2>5. Right(client, Last(reqs), method, a)
      BY <2>1, <2>4, EarlyAnswer
    <2> QED
      BY <2>1, <2>2, <2>4, <2>5, AnswerAdded DEF InHandler
  <1>3. CASE CgiStart
    <2> DEFINE a == New(0, FALSE, filename, 0)
    <2>1. pc = "file" /\ IsCgi(raw) /\ CgiStatus = 0 /\ pc' = "cgi" /\ answers' = Append(answers, a) /\ Rest
      BY <1>3 DEF CgiStart, CgiFile, netVars, lineVars, bufVars
    <2> HIDE DEF New
    <2>2. a.req = Len(reqs) /\ a.status = CgiStatus /\ a.keep = FALSE
      BY <2>1 DEF New
    <2> HIDE DEF a
    <2>3. Right(client, Last(reqs), method, a)
      BY <2>1, <2>2, CgiAnswer
    <2> QED
      BY <2>1, <2>2, <2>3, AnswerAdded DEF InHandler
  <1>4. CASE CgiError
    <2> DEFINE s == IF CgiStatus = 0 THEN 500 ELSE CgiStatus
    <2>1. pc = "file" /\ IsCgi(raw) /\ prepare_error(s, FALSE, "close") /\ Rest
      BY <1>4 DEF CgiError, CgiFile, netVars, lineVars, bufVars
    <2>2. s = CgiStatus \/ (CgiStatus = 0 /\ s = 500)
      OBVIOUS
    <2> HIDE DEF New, s
    <2>3. pc' = "send" /\ \E total : answers' = Append(answers, New(s, FALSE, <<>>, total))
      BY <1>1, <2>1 DEF prepare_error
    <2>4. PICK total : answers' = Append(answers, New(s, FALSE, <<>>, total))
      BY <2>3
    <2> DEFINE a == New(s, FALSE, <<>>, total)
    <2>5. a.req = Len(reqs) /\ a.status = s /\ a.keep = FALSE /\ answers' = Append(answers, a)
      BY <2>4 DEF New
    <2> HIDE DEF a
    <2>6. Right(client, Last(reqs), method, a)
      BY <2>1, <2>2, <2>5, CgiAnswer
    <2> QED
      BY <2>1, <2>3, <2>5, <2>6, AnswerAdded DEF InHandler
  <1>5. CASE StaticInvalid
    <2> DEFINE s == 400
    <2>1. pc = "file" /\ ~IsCgi(raw) /\ StaticStatus = 400 /\ prepare_error(s, FALSE, "close") /\ Rest
      BY <1>5 DEF StaticInvalid, StaticPath, netVars, lineVars, bufVars
    <2> HIDE DEF New, s
    <2>2. pc' = "send" /\ \E total : answers' = Append(answers, New(s, FALSE, <<>>, total))
      BY <1>1, <2>1 DEF prepare_error
    <2>3. PICK total : answers' = Append(answers, New(s, FALSE, <<>>, total))
      BY <2>2
    <2> DEFINE a == New(s, FALSE, <<>>, total)
    <2>4. a.req = Len(reqs) /\ a.status = StaticStatus /\ a.keep = FALSE /\ answers' = Append(answers, a)
      BY <2>1, <2>3 DEF New, s
    <2> HIDE DEF a
    <2>5. Right(client, Last(reqs), method, a)
      BY <2>1, <2>4, StaticAnswer
    <2> QED
      BY <2>1, <2>2, <2>4, <2>5, AnswerAdded DEF InHandler
  <1>6. CASE StaticError
    <2> DEFINE s == StaticStatus
               keep == zv_http_handle_header
    <2>1. pc = "file" /\ ~IsCgi(raw) /\ StaticStatus \in {403, 404} /\ prepare_error(s, keep, "done") /\ Rest
      BY <1>6 DEF StaticError, StaticPath, netVars, lineVars, bufVars
    <2> HIDE DEF New, s, keep
    <2>2. pc' = "send" /\ \E total : answers' = Append(answers, New(s, keep, <<>>, total))
      BY <1>1, <2>1 DEF prepare_error
    <2>3. PICK total : answers' = Append(answers, New(s, keep, <<>>, total))
      BY <2>2
    <2> DEFINE a == New(s, keep, <<>>, total)
    <2>4. a.req = Len(reqs) /\ a.status = StaticStatus /\ a.keep = zv_http_handle_header /\ answers' = Append(answers, a)
      BY <2>3 DEF New, s, keep
    <2> HIDE DEF a
    <2>5. Right(client, Last(reqs), method, a)
      BY <2>1, <2>4, StaticAnswer
    <2> QED
      BY <2>1, <2>2, <2>4, <2>5, AnswerAdded DEF InHandler
  <1>7. ASSUME NEW modified \in BOOLEAN, StaticFile(modified)
        PROVE  AInv'
    <2> DEFINE s == IF modified THEN 200 ELSE 304
               keep == zv_http_handle_header
    <2>1. /\ pc = "file" /\ ~IsCgi(raw) /\ StaticStatus = 0 /\ prepare_static(filename, keep, modified) /\ Rest
          /\ modified \/ zv_http_process_if_modified_since
      BY <1>7 DEF StaticFile, StaticPath, netVars, lineVars, bufVars
    <2>2. s = 200 \/ (s = 304 /\ zv_http_process_if_modified_since)
      BY <2>1
    <2> HIDE DEF New, keep
    <2>3. pc' = "send" /\ \E total : answers' = Append(answers, New(s, keep, filename, total))
      BY <1>1, <2>1 DEF prepare_static
    <2> HIDE DEF s
    <2>4. PICK total : answers' = Append(answers, New(s, keep, filename, total))
      BY <2>3
    <2> DEFINE a == New(s, keep, filename, total)
    <2>5. /\ a.req = Len(reqs) /\ a.status = s /\ a.keep = zv_http_handle_header /\ a.name = filename
          /\ answers' = Append(answers, a)
      BY <2>4 DEF New, keep
    <2> HIDE DEF a
    <2>6. Right(client, Last(reqs), method, a)
      BY <2>1, <2>2, <2>5, StaticAnswer
    <2> QED
      BY <2>1, <2>3, <2>5, <2>6, AnswerAdded DEF InHandler
  <1> QED
    BY <1>2, <1>3, <1>4, <1>5, <1>6, <1>7

\* What closes the connection.
LEMMA ClosingAnswers ==
    ASSUME \/ ReadEnd \/ Overflow \/ LineBad \/ HdrBad \/ HdrNoMemory \/ PrepareFailed \/ SendFailed \/ Expired \/ SendClose
    PROVE  AInv'
  <1>1. pc' = "closed"
    BY DEF ReadEnd, Overflow, LineBad, HdrBad, HdrNoMemory, PrepareFailed, SendFailed, Expired, SendClose, CloseConn
  <1> QED
    BY <1>1, AnswersClosed

\* Nothing changes.
LEMMA StutterAnswers ==
    ASSUME AInv, UNCHANGED vars
    PROVE  AInv'
  <1>1. UNCHANGED <<client, taken, buf, pc, armed, ptr, version, list, parse_phase, method, reqs, answers, raw, upc, norm,
                    filename>>
    BY DEF vars, netVars, lineVars, hdrVars, bufVars, histVars, uriVars
  <1>2. Base' = Base /\ Uri' = Uri /\ Copied' = Copied /\ (InHandler' <=> InHandler) /\ (Replied' <=> Replied)
    BY <1>1 DEF Base, Uri, Copied, HeaderCopy, Text, InHandler, Replied
  <1>3. OneAnswerEach' /\ MethodIs' /\ AnswerIs'
    BY <1>1, <1>2 DEF AInv, OneAnswerEach, MethodIs, AnswerIs
  <1>4. RequestIs' /\ PathIs' /\ FileIs'
    BY <1>1, <1>2 DEF AInv, RequestIs, PathIs, FileIs
  <1> QED
    BY <1>3, <1>4 DEF AInv

\* One step of the connection.
LEMMA NextAnswers ==
    ASSUME Inv, PInv, UriInv, AInv, [Next]_vars
    PROVE  AInv'
  <1>1. Inv'
    BY NextInv
  <1>2. CASE UNCHANGED vars \/ Over
    BY <1>2, StutterAnswers DEF Over
  <1>3. CASE Reading
    BY <1>1, <1>3, ReadingAnswers, ClosingAnswers DEF Reading
  <1>4. CASE Parsing
    BY <1>1, <1>4, ReadingAnswers, ClosingAnswers, LineByteAnswers, LineDoneAnswers, HdrDoneAnswers DEF Parsing
  <1>5. CASE Handling
    BY <1>5, HandlingAnswers, BegunAnswers, ClosingAnswers DEF Handling
  <1>6. CASE Sending \/ WriteEvent \/ Truncate
    BY <1>6, SendingAnswers DEF Sending
  <1>7. CASE AfterSending \/ SendBlocked
    BY <1>7, AfterAnswers, ClosingAnswers DEF AfterSending
  <1>8. CASE SendFailed \/ Expired
    BY <1>8, ClosingAnswers
  <1> QED
    BY <1>2, <1>3, <1>4, <1>5, <1>6, <1>7, <1>8 DEF Next

\* The invariant from a request to its answer.
THEOREM AnswersInvariant == Spec => []AInv
  <1>1. Init => AInv
    <2> SUFFICES ASSUME Init PROVE AInv
      OBVIOUS
    <2>1. /\ pc = "wait" /\ armed = "in" /\ reqs = <<>> /\ answers = <<>> /\ method = "UNKNOWN" /\ ptr = NullPtr
      BY DEF Init
    <2>2. ~InHandler /\ ~Replied
      BY <2>1 DEF InHandler, Replied
    <2>3. OneAnswerEach
      BY <2>1, <2>2 DEF OneAnswerEach
    <2>4. MethodIs
      <3>1. ptr.method_end = Null
        BY <2>1 DEF NullPtr
      <3>2. MethodIn(<<>>, 0) = "UNKNOWN"
        BY DEF MethodIn
      <3>3. Len(<<>>) = 0
        OBVIOUS
      <3> QED
        BY <2>1, <3>1, <3>2, <3>3 DEF MethodIs, MethodNow
    <2>5. RequestIs /\ PathIs /\ FileIs /\ AnswerIs
      BY <2>2, Zenon DEF RequestIs, PathIs, FileIs, AnswerIs, InHandler
    <2> QED
      BY <2>3, <2>4, <2>5 DEF AInv
  <1>2. Inv /\ PInv /\ UriInv /\ AInv /\ [Next]_vars => AInv'
    BY NextAnswers
  <1> QED
    BY <1>1, <1>2, InvHolds, ParserInvariant, UriInvariant, PTL DEF Spec

\* Every response (do_request, handle_cgi_mvp, parse_uri and the checks behind it)
\* is the one its request and the file system call for: status, file and whether
\* the connection is kept, for every stream, every tree, every document root and
\* every limit (http.c:440-575, 605-830).
THEOREM AnswersRight == Spec => []RightAnswers
  <1>1. AInv => RightAnswers
    <2> SUFFICES ASSUME AInv, pc \in {"send", "cgi"} PROVE RightAnswers
      BY Zenon DEF RightAnswers
    <2> DEFINE a == Last(answers)
               q == reqs[a.req]
    <2>1. AnswerRight(client, reqs, answers)
      BY DEF AInv, AnswerIs, Replied
    <2>2. /\ Len(reqs) \in Nat \ {0} /\ a.req = Len(reqs) /\ Len(answers) = Len(reqs)
          /\ Right(client, q, MethodIn(reqs, a.req), a)
      BY <2>1, Zenon DEF AnswerRight
    <2> DEFINE m == MethodIn(reqs, a.req)
    <2>3. /\ m = "GET" => LeavesMethod(q.method) \/ MethodOf(q.method, "UNKNOWN") = "GET"
          /\ m # "GET" => MethodOf(q.method, "UNKNOWN") # "GET"
      BY <2>2, MethodOwn
    <2> HIDE DEF m
    <2>4. Right(client, q, m, a)
      BY <2>2 DEF m
    <2> QED
      BY <2>2, <2>3, <2>4, ZenonT(60) DEF RightAnswers, Right, Verdict, KeepRight, IsCgi
  <1> QED
    BY <1>1, AnswersInvariant, PTL
=============================================================================
