------------------------------ MODULE HttpParse ------------------------------
(***************************************************************************)
(* The two state machines of http_parse.c as tables of edges, and what a   *)
(* complete request is, said without states: by where its delimiters are.  *)
(* Exchange runs the tables byte by byte over the request buffer.          *)
(*                                                                         *)
(* A byte is a one-letter string, or CR, LF: the delimiters, the digits,   *)
(* the letters of hexadecimal numbers and of the words below, and "o", a   *)
(* byte that no rule looks for.  Header names and the values the server    *)
(* knows are abbreviated to two letters, so that they still have proper    *)
(* prefixes.                                                               *)
(***************************************************************************)
EXTENDS Naturals, Sequences, FiniteSets, SequencesExt

CR == "CR"
LF == "LF"
SP == " "

Upper == {"A", "B", "C", "D", "E", "F", "G", "H", "I", "O", "P", "S", "T", "U", "_"}
Digit == {"0", "1", "2", "3", "4", "5", "6", "7", "8", "9"}
Other == {"a", "b", "c", "d", "e", "f", "k", "l", "n", "o", "x",
          "/", ".", ":", "%", "?", "\\"}
Byte  == Upper \cup Digit \cup Other \cup {CR, LF, SP}

-----------------------------------------------------------------------------
(* The tables: <<state, bytes, next state>>.  A byte without an edge is an
   error; "done" ends the parser.  Two edges of one state never overlap. *)

\* zv_http_parse_request_line
LineRules ==
    { <<"start", {CR, LF}, "start">>,
      <<"start", Upper, "method">>,
      <<"method", Upper, "method">>,
      <<"method", {SP}, "spaces_before_uri">>,
      <<"spaces_before_uri", {SP}, "spaces_before_uri">>,
      <<"spaces_before_uri", {"/"}, "after_slash_in_uri">>,
      <<"after_slash_in_uri", Byte \ {SP}, "after_slash_in_uri">>,
      <<"after_slash_in_uri", {SP}, "http">>,
      <<"http", {SP}, "http">>,
      <<"http", {"H"}, "http_H">>,
      <<"http_H", {"T"}, "http_HT">>,
      <<"http_HT", {"T"}, "http_HTT">>,
      <<"http_HTT", {"P"}, "http_HTTP">>,
      <<"http_HTTP", {"/"}, "first_major_digit">>,
      <<"first_major_digit", Digit \ {"0"}, "major_digit">>,
      <<"major_digit", Digit, "major_digit">>,
      <<"major_digit", {"."}, "first_minor_digit">>,
      <<"first_minor_digit", Digit, "minor_digit">>,
      <<"minor_digit", Digit, "minor_digit">>,
      <<"minor_digit", {SP}, "spaces_after_digit">>,
      <<"minor_digit", {CR}, "almost_done">>,
      <<"minor_digit", {LF}, "done">>,
      <<"spaces_after_digit", {SP}, "spaces_after_digit">>,
      <<"spaces_after_digit", {CR}, "almost_done">>,
      <<"spaces_after_digit", {LF}, "done">>,
      <<"almost_done", {LF}, "done">> }

\* zv_http_parse_request_body (the request headers)
HeaderRules ==
    { <<"start", {CR}, "crlfcr">>,
      <<"start", Byte \ {CR, LF}, "key">>,
      <<"key", {SP}, "spaces_before_colon">>,
      <<"key", {":"}, "spaces_after_colon">>,
      <<"key", Byte \ {SP, ":"}, "key">>,
      <<"spaces_before_colon", {SP}, "spaces_before_colon">>,
      <<"spaces_before_colon", {":"}, "spaces_after_colon">>,
      <<"spaces_after_colon", {SP}, "spaces_after_colon">>,
      <<"spaces_after_colon", Byte \ {SP}, "value">>,
      <<"value", {CR}, "cr">>,
      <<"value", Byte \ {CR, LF}, "value">>,
      <<"cr", {LF}, "crlf">>,
      <<"crlf", {CR}, "crlfcr">>,
      <<"crlf", Byte \ {CR}, "key">>,
      <<"crlfcr", {LF}, "done">> }

LineStates   == {rule[1] : rule \in LineRules}
HeaderStates == {rule[1] : rule \in HeaderRules}
-----------------------------------------------------------------------------
(* Names *)

\* The words the parser compares the method with; a word of another length than
\* these is UNKNOWN, an unknown word of 3 or 4 letters leaves r->method alone.
MethodOf(word, old) ==
    CASE word = <<"G", "E", "T">>      -> "GET"
      [] word = <<"P", "O", "S", "T">> -> "POST"
      [] word = <<"H", "E", "A", "D">> -> "HEAD"
      [] Len(word) \in {3, 4}          -> old
      [] OTHER                         -> "UNKNOWN"

DigitVal == [d \in Digit |->
               CASE d = "0" -> 0 [] d = "1" -> 1 [] d = "2" -> 2 [] d = "3" -> 3 [] d = "4" -> 4
                 [] d = "5" -> 5 [] d = "6" -> 6 [] d = "7" -> 7 [] d = "8" -> 8 [] d = "9" -> 9]

\* The names of zv_http_headers_in that have an effect, the values of Connection,
\* and what strptime takes for a date.
Connection      == <<"C", "n">>
IfModifiedSince == <<"I", "f">>
KeepAlive       == <<"k", "a">>
Close           == <<"c", "l">>
Date            == <<"d">>

\* strncmp(key, name, length of key) == 0: the key is a prefix of the name.
NameMatches(key, name) == IsPrefix(key, name)

-----------------------------------------------------------------------------
(* The reference: a request in a stream of bytes, by its delimiters.        *)

\* The first position from p on whose byte is, or is not, in S; behind the end if
\* there is none.
FirstIn(s, p, S)    == Min({i \in p..Len(s) : s[i] \in S} \cup {Len(s) + 1})
FirstNotIn(s, p, S) == Min({i \in p..Len(s) : s[i] \notin S} \cup {Len(s) + 1})

\* s[p..e] is "1.1", any number of digits on either side, then spaces and LF or
\* CR LF, with the dot at position dot.
VersionText(s, p, dot, e) ==
    LET z == FirstNotIn(s, dot + 1, Digit)
        t == FirstNotIn(s, z, {SP})
    IN /\ p < dot /\ s[p] \in Digit \ {"0"}
       /\ \A i \in p..(dot - 1) : s[i] \in Digit
       /\ dot + 1 < z
       /\ t = e \/ (t + 1 = e /\ s[t] = CR)

\* The header lines of s from position p on: where the next one starts, key and
\* value, up to the empty line.  A record without ok is malformed or not complete.
HeaderLine(s, p) ==
    LET ke == FirstIn(s, p + 1, {SP, ":"})
        c  == FirstNotIn(s, ke, {SP})
        vs == FirstNotIn(s, c + 1, {SP})
        ve == FirstIn(s, vs + 1, {CR, LF})
    IN [ok  |-> ve < Len(s) /\ s[c] = ":" /\ s[ve] = CR /\ s[ve + 1] = LF,
        key |-> SubSeq(s, p, ke - 1), val |-> SubSeq(s, vs, ve - 1), next |-> ve + 2]

HeaderBlock(s, from) ==
    LET block[p \in 1..(Len(s) + 1)] ==
            IF p < Len(s) /\ s[p] = CR /\ s[p + 1] = LF
              THEN [ok |-> TRUE, headers |-> <<>>, end |-> p + 1]
            ELSE IF p > Len(s) \/ s[p] = CR \/ (p = from /\ s[p] = LF) \/ ~HeaderLine(s, p).ok
              THEN [ok |-> FALSE, headers |-> <<>>, end |-> p]
            ELSE LET h    == HeaderLine(s, p)
                     rest == block[h.next]
                 IN [rest EXCEPT !.headers = <<[key |-> h.key, val |-> h.val]>> \o @]
    IN block[from]

\* The request that starts behind position from of s.
Request(s, from) ==
    LET a    == FirstNotIn(s, from + 1, {CR, LF})
        m    == FirstIn(s, a, {SP})
        u    == FirstNotIn(s, m, {SP})
        v    == FirstIn(s, u, {SP})
        h    == FirstNotIn(s, v, {SP})
        dot  == FirstIn(s, h + 5, {"."})
        e    == FirstIn(s, dot + 1, {LF})
        line == /\ e <= Len(s) /\ a < m
                /\ \A i \in a..(m - 1) : s[i] \in Upper
                /\ s[u] = "/"
                /\ SubSeq(s, h, h + 4) = <<"H", "T", "T", "P", "/">>
                /\ VersionText(s, h + 5, dot, e)
        hs   == HeaderBlock(s, e + 1)
    IN IF line /\ hs.ok
         THEN [ok |-> TRUE, end |-> hs.end, headers |-> hs.headers,
               method |-> SubSeq(s, a, m - 1), uri |-> SubSeq(s, u, v - 1),
               v11 |-> \/ SubSeq(s, h + 5, dot - 1) # <<"1">>
                       \/ \E i \in (dot + 1)..(e - 1) : s[i] \in Digit \ {"0"}]
         ELSE [ok |-> FALSE]
=============================================================================
