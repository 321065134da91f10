------------------------------- MODULE UriPath -------------------------------
(***************************************************************************)
(* From the path of a URI to a file: percent_decode and normalize_abs_path *)
(* of http.c, a turn of their loops a step, then the file name and the     *)
(* check against the document root.  Exchange calls it for every request.  *)
(* The reference says the same by matching every ".." with the segment it  *)
(* takes back.                                                             *)
(***************************************************************************)
EXTENDS HttpParse

CONSTANTS
    Cap,        \* SHORTLINE: size of decoded, norm, path_final and filename
    MaxSegs,    \* slots of the array stack in normalize_abs_path
    CgiPrefix,  \* "/cgi-bin/"
    IndexName,  \* "index.html"
    Tree        \* the file system: what is at a path, given by its segments

ASSUME UriAssumption ==
    /\ Cap \in Nat \ {0, 1} /\ MaxSegs \in Nat /\ 2 * MaxSegs >= Cap
    /\ CgiPrefix \in Seq(Byte) /\ IndexName \in Seq(Byte)
    /\ \A path \in DOMAIN Tree :
         Tree[path] \in [kind : {"file", "dir"}, read : BOOLEAN, exec : BOOLEAN,
                         size : Nat, real : Seq(Byte)]

VARIABLES
    upc,      \* "idle", "decode", "norm", then "ok" or "bad"
    raw,      \* the path in the URI, up to '?'
    ui,       \* i of both loops
    decoded,  \* decoded[0..j)
    norm,     \* out[0..out_len)
    stack     \* stack[0..sp): lengths of out after each segment

uriVars == <<upc, raw, ui, decoded, norm, stack>>

Dot == <<".">>
Up  == <<".", ".">>

\* ASCII
Code == [c \in Byte |->
           CASE c = LF  -> 10 [] c = CR  -> 13 [] c = SP  -> 32 [] c = "%" -> 37 [] c = "." -> 46
             [] c = "/" -> 47 [] c \in Digit -> 48 + DigitVal[c]
             [] c = ":" -> 58 [] c = "?" -> 63 [] c = "A" -> 65 [] c = "B" -> 66 [] c = "C" -> 67
             [] c = "D" -> 68 [] c = "E" -> 69 [] c = "F" -> 70 [] c = "G" -> 71 [] c = "H" -> 72
             [] c = "I" -> 73 [] c = "O" -> 79 [] c = "P" -> 80 [] c = "S" -> 83 [] c = "T" -> 84
             [] c = "U" -> 85 [] c = "\\" -> 92 [] c = "_" -> 95 [] c = "a" -> 97 [] c = "b" -> 98
             [] c = "c" -> 99 [] c = "d" -> 100 [] c = "e" -> 101 [] c = "f" -> 102 [] c = "k" -> 107
             [] c = "l" -> 108 [] c = "n" -> 110 [] c = "o" -> 111 [] c = "x" -> 120]

\* The byte with a code; "o" stands for all that nobody looks at.
Chr(code) == IF code = 0 THEN "NUL"
             ELSE IF \E c \in Byte : Code[c] = code THEN CHOOSE c \in Byte : Code[c] = code
             ELSE "o"

\* hex_val
Hex == [c \in Digit \cup {"a", "b", "c", "d", "e", "f"} \cup {"A", "B", "C", "D", "E", "F"} |->
          IF c \in Digit THEN Code[c] - Code["0"]
          ELSE 10 + Code[c] - Code[IF c \in Upper THEN "A" ELSE "a"]]

Refused == {"NUL", "\\", CR, LF}

\* The URI without its query.
PathOf(uri) == SubSeq(uri, 1, FirstIn(uri, 1, {"?"}) - 1)

UriInit ==
    /\ upc = "idle" /\ raw = <<>> /\ ui = 0
    /\ decoded = <<>> /\ norm = <<>> /\ stack = <<>>

UriStart(path) ==
    /\ upc' = "decode" /\ raw' = path /\ ui' = 0
    /\ decoded' = <<>> /\ norm' = <<>> /\ stack' = <<>>
-----------------------------------------------------------------------------
(* percent_decode *)

DecodedByte ==
    IF raw[ui + 1] = "%" THEN Chr(16 * Hex[raw[ui + 2]] + Hex[raw[ui + 3]])
                         ELSE raw[ui + 1]

\* The byte at i, or the escape that starts there, is accepted.
Decodes ==
    /\ raw[ui + 1] = "%" => /\ ui + 2 < Len(raw)
                            /\ raw[ui + 2] \in DOMAIN Hex
                            /\ raw[ui + 3] \in DOMAIN Hex
    /\ DecodedByte \notin Refused
    /\ Len(decoded) + 1 < Cap

DecodeByte ==
    /\ upc = "decode" /\ ui < Len(raw)
    /\ Decodes
    /\ decoded' = Append(decoded, DecodedByte)
    /\ ui' = ui + IF raw[ui + 1] = "%" THEN 3 ELSE 1
    /\ UNCHANGED <<upc, raw, norm, stack>>

DecodeBad ==
    /\ upc = "decode" /\ ui < Len(raw)
    /\ ~Decodes
    /\ upc' = "bad"
    /\ UNCHANGED <<raw, ui, decoded, norm, stack>>

DecodeEnd ==
    /\ upc = "decode" /\ ui = Len(raw)
    /\ upc' = IF decoded # <<>> /\ decoded[1] = "/" THEN "norm" ELSE "bad"
    /\ norm' = <<"/">> /\ ui' = 1
    /\ UNCHANGED <<raw, decoded, stack>>
-----------------------------------------------------------------------------
(* normalize_abs_path *)

SegStart == FirstNotIn(decoded, ui + 1, {"/"})
SegEnd   == FirstIn(decoded, SegStart, {"/"})
Segment  == SubSeq(decoded, SegStart, SegEnd - 1)
InNorm   == upc = "norm" /\ SegStart <= Len(decoded)
WithSeg  == norm \o (IF Len(norm) > 1 THEN <<"/">> ELSE <<>>) \o Segment

\* An ordinary segment that out and stack have room for.
Fits == Len(WithSeg) < Cap /\ Len(stack) < MaxSegs

SegDot ==
    /\ InNorm /\ Segment = Dot
    /\ ui' = SegEnd - 1
    /\ UNCHANGED <<upc, raw, decoded, norm, stack>>

\* Faulty: back to the last length on the stack, the one just taken off.
SegUp_SameLength ==
    /\ InNorm /\ Segment = Up /\ stack # <<>>
    /\ stack' = Front(stack)
    /\ norm' = SubSeq(norm, 1, Last(stack))
    /\ ui' = SegEnd - 1
    /\ UNCHANGED <<upc, raw, decoded>>

SegUp ==
    /\ InNorm /\ Segment = Up /\ stack # <<>>
    /\ stack' = Front(stack)
    /\ norm' = SubSeq(norm, 1, IF stack' = <<>> THEN 1 ELSE Last(stack'))
    /\ ui' = SegEnd - 1
    /\ UNCHANGED <<upc, raw, decoded>>

SegName ==
    /\ InNorm /\ Segment \notin {Dot, Up} /\ Fits
    /\ norm' = WithSeg
    /\ stack' = Append(stack, Len(norm'))
    /\ ui' = SegEnd - 1
    /\ UNCHANGED <<upc, raw, decoded>>

\* ".." at the root, or no room.
SegBad ==
    /\ InNorm
    /\ IF Segment = Up THEN stack = <<>> ELSE Segment # Dot /\ ~Fits
    /\ upc' = "bad"
    /\ UNCHANGED <<raw, ui, decoded, norm, stack>>

\* The end of the path; a trailing slash is kept.
NormEnd ==
    /\ upc = "norm" /\ SegStart > Len(decoded)
    /\ LET slash == Last(decoded) = "/" /\ Len(norm) > 1
       IN /\ norm' = IF slash THEN Append(norm, "/") ELSE norm
          /\ upc' = IF slash /\ Len(norm) + 1 >= Cap THEN "bad" ELSE "ok"
    /\ UNCHANGED <<raw, ui, decoded, stack>>

UriStep == \/ DecodeByte \/ DecodeBad \/ DecodeEnd
           \/ SegDot \/ SegUp \/ SegName \/ SegBad \/ NormEnd
-----------------------------------------------------------------------------
(* The file *)

\* snprintf into path_final keeps what fits.
Clip(path) == SubSeq(path, 1, Min({Len(path), Cap - 1}))

\* A last segment without '.' is taken for a directory.
PathFinal(path) ==
    LET name == SubSeq(path, Max({i \in 1..Len(path) : path[i] = "/"}) + 1, Len(path))
    IN Clip(IF name # <<>> /\ ~Contains(name, ".") THEN Append(path, "/") ELSE path)

\* The rest of parse_uri: the file name, or <<>> when it does not fit.
StaticName(root, path) ==
    LET final == PathFinal(path)
        index == Last(final) = "/"
        full  == IF index THEN final \o IndexName ELSE final
        name  == root \o IF Last(root) = "/" THEN Tail(full) ELSE full
    IN IF (index /\ Len(full) + 1 >= Cap) \/ Len(name) >= Cap THEN <<>> ELSE name

\* The members of a finite set of numbers, in order.
Ascending(S) ==
    [k \in 1..Cardinality(S) |-> CHOOSE x \in S : Cardinality({y \in S : y <= x}) = k]

\* Where the segments of a path start, and the segments, in order.
SegStarts(path) == {i \in 1..Len(path) : path[i] # "/" /\ (i = 1 \/ path[i - 1] = "/")}
Segments(path) ==
    LET first == Ascending(SegStarts(path))
    IN [k \in 1..Len(first) |-> SubSeq(path, first[k], FirstIn(path, first[k], {"/"}) - 1)]

\* stat: a name with a slash at the end is a directory or nothing.
File(name)   == Tree[Segments(name)]
Exists(name) == Segments(name) \in DOMAIN Tree /\ (Last(name) = "/" => File(name).kind = "dir")

\* realpath: absolute, no empty segment, and a slash at the end only in "/".
Canonical(path) ==
    /\ path # <<>> /\ path[1] = "/"
    /\ \A i \in 2..Len(path) : path[i] = "/" => i < Len(path) /\ path[i - 1] # "/"

ASSUME RealAssumption == \A path \in DOMAIN Tree : Canonical(Tree[path].real)

\* Faulty: the byte behind the prefix is not looked at.
is_path_under_root_real_Prefix(root, name) == IsPrefix(File(root).real, File(name).real)

\* Both after realpath: the root is a prefix that ends where a segment ends.
is_path_under_root_real(root, name) ==
    LET r == File(root).real
        p == File(name).real
    IN IsPrefix(r, p) /\ (Len(p) = Len(r) \/ p[Len(r) + 1] = "/")
-----------------------------------------------------------------------------
(* The reference *)

\* Every '%' starts an escape of two hexadecimal digits, and no byte is refused.
RefDecodable(path) ==
    /\ \A i \in 1..Len(path) : path[i] = "%" =>
         /\ i + 2 <= Len(path)
         /\ path[i + 1] \in DOMAIN Hex /\ path[i + 2] \in DOMAIN Hex
         /\ Chr(16 * Hex[path[i + 1]] + Hex[path[i + 2]]) \notin Refused
    /\ \A i \in 1..Len(path) : path[i] \notin Refused

\* Where the bytes and the escapes of a path start, and what they stand for.
UnitStarts(path) == {i \in 1..Len(path) : \A k \in {1, 2} : i <= k \/ path[i - k] # "%"}
RefDecode(path) ==
    LET pos == Ascending(UnitStarts(path))
    IN [k \in 1..Len(pos) |->
          IF path[pos[k]] = "%" THEN Chr(16 * Hex[path[pos[k] + 1]] + Hex[path[pos[k] + 2]])
                                ELSE path[pos[k]]]

Ups(segs, a, b)   == Cardinality({k \in a..b : segs[k] = Up})
Names(segs, a, b) == Cardinality({k \in a..b : segs[k] \notin {Dot, Up}})

\* Somewhere there are more ".." than segments to take back.
Climbs(segs) == \E b \in 1..Len(segs) : Ups(segs, 1, b) > Names(segs, 1, b)

\* The segments that no ".." behind them takes back.
Stays(segs) ==
    {k \in 1..Len(segs) : /\ segs[k] \notin {Dot, Up}
                          /\ \A b \in k..Len(segs) : Ups(segs, k, b) < Names(segs, k, b)}
Kept(segs) == Ascending(Stays(segs))

RefNorm(path) ==
    LET segs == Segments(path)
        kept == Kept(segs)
        join == FlattenSeq([k \in 1..Len(kept) |-> <<"/">> \o segs[kept[k]]])
    IN IF join = <<>> THEN <<"/">> ELSE join

RefPath(path) ==
    LET n == RefNorm(RefDecode(path))
    IN IF Last(RefDecode(path)) = "/" /\ Len(n) > 1 THEN Append(n, "/") ELSE n

RefValid(path) == RefDecodable(path) /\ ~Climbs(Segments(RefDecode(path)))

\* What normalize_abs_path has written is, after every segment, the normal form of
\* the part it has read, its stack the length of each prefix of it; at the end
\* the path is accepted if and only if it is well formed and does not climb above
\* the root.  In particular no well-formed path is refused for want of room.
NormalisedSoFar ==
    /\ upc = "norm" =>
         LET segs == Segments(SubSeq(decoded, 1, ui))
         IN /\ decoded = RefDecode(raw)
            /\ ~Climbs(segs)
            /\ norm = RefNorm(SubSeq(decoded, 1, ui))
            /\ Len(stack) = Len(Kept(segs))
            /\ \A k \in 1..Len(stack) :
                 /\ stack[k] \in 2..Len(norm)
                 /\ stack[k] = Len(norm) \/ norm[stack[k] + 1] = "/"
                 /\ k > 1 => stack[k - 1] < stack[k]
    /\ upc = "ok" => RefValid(raw) /\ norm = RefPath(raw)
    /\ upc = "bad" => ~RefValid(raw)
=============================================================================
