------------------------------ MODULE Exchange ------------------------------
(***************************************************************************)
(* One connection of the server with its bytes: do_request reads into the  *)
(* request buffer, runs the two parsers over it, answers and moves what is *)
(* left to the front; try_send writes the answer in parts; do_write goes   *)
(* on with a part that was blocked.  The parsers take a byte a step (the   *)
(* tables of HttpParse), the path a segment a step (UriPath).              *)
(*                                                                         *)
(* Worker has the same handlers as single steps of many connections, with  *)
(* timers; CgiStream has what follows zv_cgi_start.                        *)
(***************************************************************************)
EXTENDS UriPath

CONSTANTS
    Clients,    \* [bytes, split, root]: what a client sends, whether in parts
    MaxBuf,     \* MAX_BUF
    HdrMax,     \* ZV_HEADER_FREELIST_MAX
    HeaderLen,  \* units of a response header
    PageLen     \* units of an error page

ASSUME ExchangeAssumption ==
    /\ MaxBuf \in Nat \ {0} /\ HdrMax \in Nat
    /\ HeaderLen \in Nat \ {0} /\ PageLen \in Nat \ {0}
    /\ \A c \in Clients : /\ c.bytes \in Seq(Byte) /\ c.split \in BOOLEAN
                       /\ c.root \in Seq(Byte) /\ Exists(c.root)

VARIABLES
    client, taken,   \* the peer, and how many of its bytes read has returned
    pc,              \* where do_request or do_write is; "wait" between events
    armed,           \* the one-shot registration: "in", "out" or "none"
    sw, pi,          \* state and pi of the running parser
    buf, parse_pos,  \* r->buf[0..last), and how much of it is parsed
    parse_phase, request_line_state, header_state,
    ptr,             \* the pointers into buf, as positions
    method, version,
    cur,             \* the header being parsed
    list,            \* r->list, newest first
    filename,        \* of do_request; <<>> if there is none
    hfree, halloc,   \* nodes in the header cache; nodes allocated and not freed
    out,             \* the response being sent
    keep_alive, writing,
    after,           \* what follows try_send: "done", "close" or "write"
    reqs, answers,   \* history: requests parsed, responses begun
    wire,            \* history: what the client got, <<response, unit>>
    cause            \* history: why the connection was closed

netVars   == <<client, taken>>
lineVars  == <<request_line_state, ptr, method, version>>
hdrVars   == <<header_state, cur, list, hfree, halloc>>
bufVars   == <<buf, parse_pos, parse_phase>>
outVars   == <<out, keep_alive, writing, after>>
histVars  == <<reqs, answers, wire, cause>>
vars == <<netVars, pc, armed, sw, pi, lineVars, hdrVars, bufVars, filename, outVars, histVars, uriVars>>

Null    == 0    \* positions in buf start at 1
NullPtr == [request_start |-> Null, method_end |-> Null, uri_start |-> Null,
            uri_end |-> Null, request_end |-> Null]
NoOut   == [hdr |-> 0, hsent |-> 0, body |-> 0, bsent |-> 0,
            fd |-> FALSE, off |-> 0, size |-> 0, len |-> 0]

\* The text between two pointers.
Text(from, to) == SubSeq(buf, from, to - 1)
Uri  == Text(ptr.uri_start, ptr.uri_end)
Path == PathOf(Uri)

\* zv_init_request_t, armed for the first request
Init ==
    /\ client \in Clients /\ taken = 0
    /\ pc = "wait" /\ armed = "in" /\ sw = "start" /\ pi = 0
    /\ buf = <<>> /\ parse_pos = 0 /\ parse_phase = 0
    /\ request_line_state = "start" /\ header_state = "start"
    /\ ptr = NullPtr /\ method = "UNKNOWN" /\ version = [major |-> 0, minor |-> 0]
    /\ cur = [ks |-> Null, ke |-> Null, vs |-> Null, ve |-> Null]
    /\ list = <<>> /\ hfree = 0 /\ halloc = 0 /\ filename = <<>>
    /\ out = NoOut /\ keep_alive = FALSE /\ writing = FALSE /\ after = "done"
    /\ reqs = <<>> /\ answers = <<>> /\ wire = <<>> /\ cause = "none"
    /\ UriInit
-----------------------------------------------------------------------------
(* The header cache, and the ways out of the handlers *)

\* zv_http_header_alloc: from the cache or from malloc
zv_http_header_alloc ==
    IF hfree > 0 THEN hfree' = hfree - 1 /\ halloc' = halloc
                 ELSE hfree' = 0 /\ halloc' = halloc + 1

\* Faulty: the nodes are only unlinked.
FreeHeaders_Unlinked == list' = <<>> /\ UNCHANGED <<hfree, halloc>>

\* zv_http_header_free for every node of the list: cached up to the limit
FreeHeaders ==
    LET cached == Min({HdrMax, hfree + Len(list)})
    IN /\ list' = <<>> /\ hfree' = cached
       /\ halloc' = halloc - (hfree + Len(list) - cached)

reset_output == out' = NoOut /\ writing' = FALSE

\* err and close of do_request, and the closing ends of do_write
CloseConn(why) ==
    /\ reset_output
    /\ FreeHeaders
    /\ pc' = "closed" /\ armed' = "none" /\ cause' = why
    /\ UNCHANGED <<netVars, sw, pi, lineVars, header_state, cur, bufVars, filename, keep_alive, after,
                   reqs, answers, wire, uriVars>>

\* rearm_event, then back to the loop
Return(event) == pc' = "wait" /\ armed' = event

-----------------------------------------------------------------------------
(* do_request: reading *)

InputEvent ==
    /\ pc = "wait" /\ armed = "in"
    /\ pc' = "top" /\ armed' = "none"
    /\ UNCHANGED <<netVars, sw, pi, lineVars, hdrVars, bufVars, filename, outVars, histVars, uriVars>>

\* An expired timer or EPOLLERR.
Expired == pc = "wait" /\ CloseConn("timeout")

Parsed == parse_pos >= Len(buf)

\* Into the parser that has to go on, with its saved state.
EnterParser ==
    /\ pc' = IF parse_phase = 0 THEN "line" ELSE "hdr"
    /\ sw' = IF parse_phase = 0 THEN request_line_state ELSE header_state
    /\ pi' = parse_pos

\* Faulty: no byte of the buffer is left over.
Read_Full(n) ==
    /\ pc = "top" /\ Parsed /\ Len(buf) < MaxBuf - 1 /\ n <= MaxBuf - Len(buf)
    /\ n = Min({MaxBuf - Len(buf), Len(client.bytes) - taken}) \/ client.split
    /\ taken' = taken + n
    /\ buf' = buf \o SubSeq(client.bytes, taken + 1, taken + n)
    /\ EnterParser
    /\ UNCHANGED <<client, armed, lineVars, hdrVars, parse_pos, parse_phase, filename, outVars, histVars, uriVars>>

Read(n) ==
    /\ pc = "top" /\ Parsed /\ Len(buf) < MaxBuf - 1 /\ n <= MaxBuf - 1 - Len(buf)
    /\ n = Min({MaxBuf - 1 - Len(buf), Len(client.bytes) - taken}) \/ client.split
    /\ taken' = taken + n
    /\ buf' = buf \o SubSeq(client.bytes, taken + 1, taken + n)
    /\ EnterParser
    /\ UNCHANGED <<client, armed, lineVars, hdrVars, parse_pos, parse_phase, filename, outVars, histVars, uriVars>>

\* Bytes of the next request are already there.
Resume ==
    /\ pc = "top" /\ ~Parsed
    /\ EnterParser
    /\ UNCHANGED <<netVars, armed, lineVars, hdrVars, bufVars, filename, outVars, histVars, uriVars>>

\* EAGAIN
ReadAgain ==
    /\ pc = "top" /\ Parsed /\ Len(buf) < MaxBuf - 1
    /\ client.split \/ taken = Len(client.bytes)
    /\ Return("in")
    /\ UNCHANGED <<netVars, sw, pi, lineVars, hdrVars, bufVars, filename, outVars, histVars, uriVars>>

\* End of file, or an error.
ReadEnd == pc = "top" /\ Parsed /\ Len(buf) < MaxBuf - 1 /\ CloseConn("peer")

\* Faulty: one byte early.
Overflow_Early == pc = "top" /\ Parsed /\ Len(buf) >= MaxBuf - 2 /\ CloseConn("overflow")

\* "request buffer overflow!"
Overflow == pc = "top" /\ Parsed /\ Len(buf) >= MaxBuf - 1 /\ CloseConn("overflow")
-----------------------------------------------------------------------------
(* zv_http_parse_request_line *)

InBuf == pi < Len(buf)
Ch    == buf[pi + 1]

\* The next states a table has for the byte at pi: one or none.
NextState(rules) == {rule[3] : rule \in {x \in rules : x[1] = sw /\ Ch \in x[2]}}

MarkLine ==
    LET p == pi + 1
    IN [request_start |-> IF sw = "start" THEN p ELSE ptr.request_start,
        method_end    |-> IF sw = "method" /\ Ch = SP THEN p ELSE ptr.method_end,
        uri_start     |-> IF sw = "spaces_before_uri" /\ Ch = "/" THEN p ELSE ptr.uri_start,
        uri_end       |-> IF sw = "after_slash_in_uri" /\ Ch = SP THEN p ELSE ptr.uri_end,
        request_end   |-> IF sw = "almost_done" THEN p - 1 ELSE ptr.request_end]

Version ==
    CASE sw = "first_major_digit"               -> [version EXCEPT !.major = DigitVal[Ch]]
      [] sw = "major_digit" /\ Ch \in Digit     -> [version EXCEPT !.major = 10 * @ + DigitVal[Ch]]
      [] sw = "first_minor_digit"               -> [version EXCEPT !.minor = DigitVal[Ch]]
      [] sw = "minor_digit" /\ Ch \in Digit     -> [version EXCEPT !.minor = 10 * @ + DigitVal[Ch]]
      [] OTHER                                  -> version

LineByte ==
    /\ pc = "line" /\ InBuf
    /\ sw' \in NextState(LineRules) \ {"done"}
    /\ pi' = pi + 1
    /\ ptr' = MarkLine
    /\ version' = Version
    /\ method' = IF sw = "method" /\ Ch = SP THEN MethodOf(Text(ptr.request_start, pi + 1), method)
                                             ELSE method
    /\ UNCHANGED <<netVars, pc, armed, request_line_state, hdrVars, bufVars, filename, outVars, histVars, uriVars>>

LineBad == pc = "line" /\ InBuf /\ NextState(LineRules) = {} /\ CloseConn("bad")

\* The line is complete: on to the headers.
LineDone ==
    /\ pc = "line" /\ InBuf /\ NextState(LineRules) = {"done"}
    /\ parse_pos' = pi + 1 /\ parse_phase' = 1 /\ request_line_state' = "start"
    /\ ptr' = [MarkLine EXCEPT !.request_end = IF @ = Null THEN pi + 1 ELSE @]
    /\ pc' = "hdr" /\ sw' = header_state /\ pi' = pi + 1
    /\ UNCHANGED <<netVars, armed, method, version, hdrVars, buf, filename, outVars, histVars, uriVars>>

\* Faulty: the state is not saved.
LineAgain_NoState ==
    /\ pc = "line" /\ ~InBuf
    /\ parse_pos' = pi /\ pc' = "top"
    /\ UNCHANGED <<netVars, armed, sw, pi, lineVars, hdrVars, buf, parse_phase, filename,
                   outVars, histVars, uriVars>>

LineAgain ==
    /\ pc = "line" /\ ~InBuf
    /\ parse_pos' = pi /\ request_line_state' = sw /\ pc' = "top"
    /\ UNCHANGED <<netVars, armed, sw, pi, ptr, method, version, hdrVars, buf, parse_phase, filename,
                   outVars, histVars, uriVars>>
-----------------------------------------------------------------------------
(* zv_http_parse_request_body: the header lines *)

MarkHeader ==
    LET p == pi + 1
    IN [ks |-> IF sw \in {"start", "crlf"} /\ Ch # CR THEN p ELSE cur.ks,
        ke |-> IF sw = "key" /\ Ch \in {SP, ":"} THEN p ELSE cur.ke,
        vs |-> IF sw = "spaces_after_colon" /\ Ch # SP THEN p ELSE cur.vs,
        ve |-> IF sw = "value" /\ Ch = CR THEN p ELSE cur.ve]

\* A byte; the line feed of a header line saves it.
HdrByte ==
    /\ pc = "hdr" /\ InBuf
    /\ sw' \in NextState(HeaderRules) \ {"done"}
    /\ pi' = pi + 1
    /\ cur' = MarkHeader
    /\ IF sw = "cr" THEN list' = <<cur>> \o list /\ zv_http_header_alloc
                    ELSE UNCHANGED <<list, hfree, halloc>>
    /\ UNCHANGED <<netVars, pc, armed, lineVars, header_state, bufVars, filename, outVars, histVars, uriVars>>

\* A byte that does not fit, or no memory for the header.
HdrBad == pc = "hdr" /\ InBuf /\ NextState(HeaderRules) = {} /\ CloseConn("bad")
HdrNoMemory == pc = "hdr" /\ InBuf /\ sw = "cr" /\ Ch = LF /\ hfree = 0 /\ CloseConn("memory")

HdrAgain ==
    /\ pc = "hdr" /\ ~InBuf
    /\ parse_pos' = pi /\ header_state' = sw /\ pc' = "top"
    /\ UNCHANGED <<netVars, armed, sw, pi, lineVars, cur, list, hfree, halloc, buf, parse_phase, filename,
                   outVars, histVars, uriVars>>

\* The empty line: the request is complete.
HdrDone ==
    /\ pc = "hdr" /\ InBuf /\ NextState(HeaderRules) = {"done"}
    /\ parse_pos' = pi + 1 /\ parse_phase' = 2 /\ header_state' = "start"
    /\ pc' = "handle"
    /\ reqs' = Append(reqs,
                [begin   |-> taken - Len(buf), end |-> taken - Len(buf) + pi + 1,
                 method  |-> Text(ptr.request_start, ptr.method_end), uri |-> Uri,
                 v11     |-> version.major > 1 \/ version.minor >= 1,
                 headers |-> Reverse([k \in DOMAIN list |->
                               [key |-> Text(list[k].ks, list[k].ke),
                                val |-> Text(list[k].vs, list[k].ve)]])])
    /\ UNCHANGED <<netVars, armed, sw, pi, lineVars, cur, list, hfree, halloc, buf, filename,
                   outVars, answers, wire, cause, uriVars>>
-----------------------------------------------------------------------------
(* What the headers say, and the responses *)

\* zv_http_process_connection, for one header; values match by prefix as well.
KeepAfter(keep, hd) ==
    LET key == Text(hd.ks, hd.ke)
        val == Text(hd.vs, hd.ve)
    IN IF NameMatches(key, Connection) /\ NameMatches(val, KeepAlive) THEN TRUE
       ELSE IF NameMatches(key, Connection) /\ NameMatches(val, Close) THEN FALSE
       ELSE keep

\* Faulty: HTTP/1.0 is kept open as well.
zv_http_handle_header_Default == FoldLeft(KeepAfter, TRUE, list)

\* zv_http_handle_header: keep_alive by the version, then the list, newest header first
zv_http_handle_header ==
    FoldLeft(KeepAfter, version.major > 1 \/ (version.major = 1 /\ version.minor >= 1), list)

\* Some If-Modified-Since has a date strptime can read.  It is compared with a
\* modification time nobody has set yet, so any date may be taken for equal.
zv_http_process_if_modified_since ==
    \E k \in DOMAIN list : /\ NameMatches(Text(list[k].ks, list[k].ke), IfModifiedSince)
                           /\ IsPrefix(Date, Text(list[k].vs, list[k].ve))

Begin(status, keep, then, response, name) ==
    /\ out' = response /\ writing' = FALSE
    /\ keep_alive' = keep /\ after' = then
    /\ pc' = "send"
    /\ answers' = Append(answers, [req |-> Len(reqs), status |-> status, keep |-> keep, name |-> name,
                                   total |-> response.hdr + response.body + response.size,
                                   short |-> FALSE])

\* The sending of an error is followed by request_done or by close.
prepare_error(status, keep, then) ==
    Begin(status, keep, then, [NoOut EXCEPT !.hdr = HeaderLen, !.body = PageLen], <<>>)

prepare_static(name, keep, modified) ==
    Begin(IF modified THEN 200 ELSE 304, keep, "done",
          IF modified THEN [NoOut EXCEPT !.hdr = HeaderLen, !.fd = TRUE, !.size = File(name).size,
                                         !.len = File(name).size]
                      ELSE [NoOut EXCEPT !.hdr = HeaderLen],
          name)
-----------------------------------------------------------------------------
(* The request: handle_cgi_mvp, parse_uri and the checks of the file.  A    *)
(* status of 0 says that there is nothing to refuse.                        *)

IsCgi(path) == IsPrefix(CgiPrefix, path)

\* Before the path is decoded.
EarlyStatus ==
    IF IsCgi(Path) THEN IF method # "GET" THEN 405 ELSE IF Len(Path) >= Cap THEN 400 ELSE 0
                   ELSE IF Len(Uri) > Cap \div 2 THEN 400 ELSE 0

CgiStatus ==
    IF upc = "bad" THEN 400
    ELSE IF ~IsPrefix(CgiPrefix, norm) THEN 403
    ELSE IF Len(filename) >= Cap THEN 400
    ELSE IF ~Exists(filename) \/ File(filename).kind # "file" \/ ~File(filename).exec THEN 404
    ELSE IF ~is_path_under_root_real(client.root, filename) THEN 403
    ELSE 0

StaticStatus ==
    IF upc = "bad" \/ filename = <<>> THEN 400
    ELSE IF ~Exists(filename) THEN 404
    ELSE IF ~is_path_under_root_real(client.root, filename) THEN 403
    ELSE IF File(filename).kind # "file" \/ ~File(filename).read THEN 403
    ELSE 0

CgiFile     == pc = "file" /\ IsCgi(raw)
StaticPath  == pc = "file" /\ ~IsCgi(raw)
KeepHeaders == UNCHANGED <<list, hfree, halloc>>

\* 405 and a CGI path that is too long, or a URI that is.
HandleEarly ==
    /\ pc = "handle" /\ EarlyStatus # 0
    /\ IF IsCgi(Path) /\ method = "GET" THEN FreeHeaders ELSE KeepHeaders
    /\ prepare_error(EarlyStatus, FALSE, "close")
    /\ UNCHANGED <<netVars, armed, sw, pi, lineVars, header_state, cur, bufVars, filename,
                   reqs, wire, cause, uriVars>>

HandlePath ==
    /\ pc = "handle" /\ EarlyStatus = 0
    /\ IF IsCgi(Path) THEN FreeHeaders ELSE KeepHeaders
    /\ UriStart(Path) /\ pc' = "resolve"
    /\ UNCHANGED <<netVars, armed, sw, pi, lineVars, header_state, cur, bufVars, filename, outVars, histVars>>

Resolve ==
    /\ pc = "resolve" /\ UriStep
    /\ UNCHANGED <<netVars, pc, armed, sw, pi, lineVars, hdrVars, bufVars, filename, outVars, histVars>>

\* The name of the file, below the document root.
Locate ==
    /\ pc = "resolve" /\ upc \in {"ok", "bad"}
    /\ filename' = IF upc = "bad" THEN <<>>
                   ELSE IF IsCgi(raw) THEN client.root \o norm
                   ELSE StaticName(client.root, norm)
    /\ pc' = "file"
    /\ UNCHANGED <<netVars, armed, sw, pi, lineVars, hdrVars, bufVars, outVars, histVars, uriVars>>

\* zv_cgi_start takes the connection over, or fails.
CgiStart ==
    /\ CgiFile /\ CgiStatus = 0
    /\ pc' = "cgi"
    /\ answers' = Append(answers, [req |-> Len(reqs), status |-> 0, keep |-> FALSE, name |-> filename,
                                   total |-> 0, short |-> FALSE])
    /\ UNCHANGED <<netVars, armed, sw, pi, lineVars, hdrVars, bufVars, filename, outVars, reqs, wire, cause, uriVars>>

CgiError ==
    /\ CgiFile
    /\ prepare_error(IF CgiStatus = 0 THEN 500 ELSE CgiStatus, FALSE, "close")
    /\ UNCHANGED <<netVars, armed, sw, pi, lineVars, hdrVars, bufVars, filename, reqs, wire, cause, uriVars>>

\* parse_uri fails: the headers are not looked at.
StaticInvalid ==
    /\ StaticPath /\ StaticStatus = 400
    /\ prepare_error(400, FALSE, "close")
    /\ UNCHANGED <<netVars, armed, sw, pi, lineVars, hdrVars, bufVars, filename, reqs, wire, cause, uriVars>>

StaticError ==
    /\ StaticPath /\ StaticStatus \in {403, 404}
    /\ FreeHeaders
    /\ prepare_error(StaticStatus, zv_http_handle_header, "done")
    /\ UNCHANGED <<netVars, armed, sw, pi, lineVars, header_state, cur, bufVars, filename, reqs, wire, cause, uriVars>>

StaticFile(modified) ==
    /\ StaticPath /\ StaticStatus = 0
    /\ modified \/ zv_http_process_if_modified_since
    /\ FreeHeaders
    /\ prepare_static(filename, zv_http_handle_header, modified)
    /\ UNCHANGED <<netVars, armed, sw, pi, lineVars, header_state, cur, bufVars, filename, reqs, wire, cause, uriVars>>

\* No memory for an error page, or the file cannot be opened.
PrepareFailed ==
    \/ pc = "handle" /\ EarlyStatus # 0 /\ CloseConn("memory")
    \/ CgiFile /\ CloseConn("memory")
    \/ StaticPath /\ StaticStatus # 0 /\ CloseConn("memory")
    \/ StaticPath /\ StaticStatus = 0 /\ CloseConn("open")
-----------------------------------------------------------------------------
(* try_send *)

\* Units of the response that went out before, header and body or file.
Sent     == out.hsent + out.bsent + out.off
InMemory == out.hsent < out.hdr \/ out.bsent < out.body
InFile   == ~InMemory /\ out.fd /\ out.off < out.size
Deliver(n) == wire' = wire \o [i \in 1..n |-> <<Len(answers), Sent + i>>]

\* Faulty: the part of the body that went out with the header is not counted.
Writev_HeaderOnly(n) ==
    /\ pc = "send" /\ InMemory /\ n <= out.hdr + out.body - out.hsent - out.bsent
    /\ out' = IF out.hsent < out.hdr THEN [out EXCEPT !.hsent = Min({out.hdr, @ + n})]
                                     ELSE [out EXCEPT !.bsent = @ + n]
    /\ Deliver(n)
    /\ UNCHANGED <<netVars, pc, armed, sw, pi, lineVars, hdrVars, bufVars, filename, keep_alive, writing, after,
                   reqs, answers, cause, uriVars>>

Writev(n) ==
    /\ pc = "send" /\ InMemory /\ n <= out.hdr + out.body - out.hsent - out.bsent
    /\ LET hcons == Min({out.hdr - out.hsent, n})
       IN out' = [out EXCEPT !.hsent = @ + hcons, !.bsent = @ + (n - hcons)]
    /\ Deliver(n)
    /\ UNCHANGED <<netVars, pc, armed, sw, pi, lineVars, hdrVars, bufVars, filename, keep_alive, writing, after,
                   reqs, answers, cause, uriVars>>

Sendfile(n) ==
    /\ pc = "send" /\ InFile /\ out.off + n <= Min({out.size, out.len})
    /\ out' = [out EXCEPT !.off = @ + n]
    /\ Deliver(n)
    /\ UNCHANGED <<netVars, pc, armed, sw, pi, lineVars, hdrVars, bufVars, filename, keep_alive, writing, after,
                   reqs, answers, cause, uriVars>>

\* sendfile returns 0 at the end of a file that has become shorter, which
\* try_send takes for the end of the body.
AtEof    == InFile /\ out.len <= out.off
SendDone == ~InMemory /\ (~InFile \/ AtEof)

Truncate ==
    /\ pc \in {"send", "wait"} /\ out.fd /\ out.len > 0
    /\ \E n \in 0..(out.len - 1) : out' = [out EXCEPT !.len = n]
    /\ UNCHANGED <<netVars, pc, armed, sw, pi, lineVars, hdrVars, bufVars, filename, keep_alive, writing, after,
                   histVars, uriVars>>

SendFailed == pc = "send" /\ ~SendDone /\ CloseConn("peer")

\* A body that is not complete when it is taken for complete.
MarkShort == answers' = [answers EXCEPT ![Len(answers)].short = AtEof]
-----------------------------------------------------------------------------
(* request_done, and what follows a response *)

\* Faulty: request_end is not reset.
RequestDone_KeepEnd ==
    /\ buf' = SubSeq(buf, parse_pos + 1, Len(buf))
    /\ parse_pos' = 0 /\ parse_phase' = 0
    /\ request_line_state' = "start" /\ header_state' = "start"
    /\ ptr' = [NullPtr EXCEPT !.request_end = ptr.request_end]

\* Faulty: the buffer is emptied.
RequestDone_Drop ==
    /\ buf' = <<>>
    /\ parse_pos' = 0 /\ parse_phase' = 0
    /\ request_line_state' = "start" /\ header_state' = "start"
    /\ ptr' = NullPtr

\* What is behind the request moves to the front, and the parsers start again.
RequestDone ==
    /\ buf' = SubSeq(buf, parse_pos + 1, Len(buf))
    /\ parse_pos' = 0 /\ parse_phase' = 0
    /\ request_line_state' = "start" /\ header_state' = "start"
    /\ ptr' = NullPtr

KeepRequest == UNCHANGED <<bufVars, request_line_state, header_state, ptr>>

\* Faulty: the registration is not armed again.
SendBlocked_NoArm ==
    /\ pc = "send" /\ ~SendDone
    /\ writing' = TRUE
    /\ IF after = "done" THEN RequestDone ELSE KeepRequest
    /\ Return("none")
    /\ UNCHANGED <<netVars, sw, pi, method, version, cur, list, hfree, halloc, filename, out, keep_alive, after,
                   histVars, uriVars>>

\* EAGAIN: what is left goes out with the next EPOLLOUT.
SendBlocked ==
    /\ pc = "send" /\ ~SendDone
    /\ writing' = TRUE
    /\ IF after = "done" THEN RequestDone ELSE KeepRequest
    /\ Return("out")
    /\ UNCHANGED <<netVars, sw, pi, method, version, cur, list, hfree, halloc, filename, out, keep_alive, after,
                   histVars, uriVars>>

\* All sent and the connection kept: the next request, or the next event.
SendNext ==
    /\ pc = "send" /\ SendDone /\ keep_alive
    /\ reset_output
    /\ IF after = "done" THEN RequestDone /\ pc' = "top" /\ armed' = "none"
                         ELSE KeepRequest /\ Return("in")
    /\ MarkShort
    /\ UNCHANGED <<netVars, sw, pi, method, version, cur, list, hfree, halloc, filename, keep_alive, after,
                   reqs, wire, cause, uriVars>>

SendClose ==
    /\ pc = "send" /\ SendDone /\ ~keep_alive
    /\ reset_output /\ FreeHeaders
    /\ IF after = "done" THEN RequestDone ELSE KeepRequest
    /\ pc' = "closed" /\ armed' = "none" /\ cause' = "served"
    /\ MarkShort
    /\ UNCHANGED <<netVars, sw, pi, method, version, cur, filename, keep_alive, after, reqs, wire, uriVars>>

\* do_write
WriteEvent ==
    /\ pc = "wait" /\ armed = "out"
    /\ pc' = "send" /\ after' = "write" /\ armed' = "none"
    /\ UNCHANGED <<netVars, sw, pi, lineVars, hdrVars, bufVars, filename, out, keep_alive, writing, histVars, uriVars>>

\* The connection is closed, or CgiStream's.
Over == pc \in {"closed", "cgi"} /\ UNCHANGED vars
-----------------------------------------------------------------------------
Reading ==
    \/ InputEvent
    \/ \E n \in 1..(Len(client.bytes) - taken) : Read(n)
    \/ Resume \/ ReadAgain \/ ReadEnd \/ Overflow

Parsing == \/ LineByte \/ LineDone \/ LineBad \/ LineAgain
           \/ HdrByte \/ HdrDone \/ HdrBad \/ HdrNoMemory \/ HdrAgain

Handling == \/ HandleEarly \/ HandlePath \/ Resolve \/ Locate
            \/ CgiStart \/ CgiError
            \/ StaticInvalid \/ StaticError \/ (\E modified \in BOOLEAN : StaticFile(modified))
            \/ PrepareFailed

Sending == \/ \E n \in 1..(HeaderLen + PageLen) : Writev(n)
           \/ \E n \in 1..out.size : Sendfile(n)

AfterSending == SendNext \/ SendClose

Next == \/ Reading \/ Parsing \/ Handling \/ Sending \/ AfterSending
        \/ SendBlocked \/ SendFailed \/ WriteEvent \/ Truncate \/ Expired \/ Over

Spec == Init /\ [][Next]_vars

\* The handler goes on; a client that reads makes the socket writable again and
\* takes something some time.  No timer, error or further request is counted on.
LiveSpec == /\ Spec
            /\ WF_vars(Handling) /\ WF_vars(AfterSending) /\ WF_vars(WriteEvent)
            /\ SF_vars(Sending)
-----------------------------------------------------------------------------
(* Properties.  Base is the place of the buffer in the client's stream.     *)

Base == taken - Len(buf)

\* Types and ranges; the buffer always has the byte left over that do_request
\* checks for (http.c:363-388), and no count passes the length it counts.
ExTypeOK ==
    /\ taken \in 0..Len(client.bytes)
    /\ pc \in {"wait", "top", "line", "hdr", "handle", "resolve", "file", "send", "closed", "cgi"}
    /\ armed \in {"in", "out", "none"} /\ after \in {"done", "close", "write"}
    /\ sw \in LineStates \cup HeaderStates
    /\ request_line_state \in LineStates /\ header_state \in HeaderStates
    /\ Len(buf) < MaxBuf /\ parse_pos \in 0..Len(buf) /\ parse_phase \in 0..2
    /\ pc \in {"line", "hdr"} => pi \in parse_pos..Len(buf)
    /\ method \in {"UNKNOWN", "GET", "POST", "HEAD"} /\ version \in [major : Nat, minor : Nat]
    /\ hfree \in 0..HdrMax /\ halloc \in Nat
    /\ keep_alive \in BOOLEAN /\ writing \in BOOLEAN
    /\ out.hsent \in 0..out.hdr /\ out.bsent \in 0..out.body /\ out.off \in 0..out.size

\* The pointers of a request, as far as it is parsed, point into the part of the
\* buffer that is parsed, in order, to the delimiters they stand for; those of
\* its headers follow, newest first.  None outlives the move of the buffer
\* (http.c:557-574): not even request_end, which the parser sets only if NULL.
PointersInOrder ==
    LET at == IF pc \in {"line", "hdr"} THEN pi ELSE parse_pos
        p  == <<ptr.request_start, ptr.method_end, ptr.uri_start, ptr.uri_end, ptr.request_end>>
    IN pc # "closed" =>
         /\ \A i \in 1..5 : p[i] # Null =>
              p[i] <= at /\ \A j \in 1..(i - 1) : p[j] # Null /\ p[j] < p[i]
         /\ parse_phase > 0 =>
              /\ p[5] # Null /\ buf[p[2]] = SP /\ buf[p[3]] = "/" /\ buf[p[4]] = SP
              /\ p[5] = FirstIn(buf, p[4], {CR, LF})
         /\ \A k \in DOMAIN list :
              /\ ptr.request_end < list[k].ks /\ list[k].ks < list[k].ke
              /\ list[k].ke < list[k].vs /\ list[k].vs < list[k].ve /\ list[k].ve < at
              /\ k > 1 => list[k].ve < list[k - 1].ks

\* The buffer is a piece of the client's stream, and requests follow one another
\* in it without gap or overlap, however reads, blocked responses and the move of
\* the buffer (http.c:557-563) come about.
BufferIsStream ==
    /\ buf = SubSeq(client.bytes, Base + 1, taken)
    /\ \A k \in DOMAIN reqs : reqs[k].begin = IF k = 1 THEN 0 ELSE reqs[k - 1].end
    /\ IF parse_phase = 2
         THEN Base = Last(reqs).begin /\ Base + parse_pos = Last(reqs).end
         ELSE Base = IF reqs = <<>> THEN 0 ELSE Last(reqs).end

\* The parsers find the requests that are in the stream, with their method word,
\* URI, version and headers, and refuse only what is none, wherever the network
\* splits it (test_split.py tries some splits).  do_request does not wait for
\* more while the request it is parsing is complete.
ParsesAsReference ==
    /\ pc = "handle" =>
         LET q == Last(reqs)
             f == Request(client.bytes, q.begin)
         IN /\ f.ok
            /\ q.end = f.end /\ q.method = f.method /\ q.uri = f.uri
            /\ q.v11 = f.v11 /\ q.headers = f.headers
    /\ cause = "bad" => ~Request(client.bytes, Base).ok
    /\ pc = "wait" /\ Parsed /\ parse_phase # 2 => ~Request(SubSeq(client.bytes, 1, taken), Base).ok

\* A request is refused for want of room only if it does not fit into MAX_BUF - 1
\* bytes, also when it arrived behind others in a full buffer (http.c:363).
OverflowOnlyTooLong ==
    cause = "overflow" => LET f == Request(client.bytes, Base) IN f.ok => f.end - Base > MaxBuf - 1

\* A word of three or four letters that is not known leaves r->method as an earlier
\* request of the connection set it.
LeavesMethod(word) == Len(word) \in {3, 4} /\ MethodOf(word, "UNKNOWN") = "UNKNOWN"

\* The first Connection header with a known value decides.
RefKeep(q) ==
    LET known == {k \in DOMAIN q.headers :
                    /\ IsPrefix(q.headers[k].key, Connection)
                    /\ \E v \in {KeepAlive, Close} : IsPrefix(q.headers[k].val, v)}
    IN IF known = {} THEN q.v11 ELSE IsPrefix(q.headers[Min(known)].val, KeepAlive)

\* The segments of a path, each with its number.
Numbered(path) ==
    LET starts == SegStarts(path)
    IN {<<Cardinality({j \in starts : j <= i}), SubSeq(path, i, FirstIn(path, i, {"/"}) - 1)>> : i \in starts}

\* Segment by segment, the real path of the name is that of the root or below it.
Below(root, name) == Numbered(File(root).real) \subseteq Numbered(File(name).real)

\* Every response is the one its request and the file system call for, by the
\* decoding and the normal form of the reference: its status, the file behind it
\* and whether the connection is kept, also for a request behind others
\* (http.c:440-575, 605-830).  A CGI for a word that leaves r->method alone is left
\* open; a run of its own (OnlyGetRuns) refutes that none is started.  With "/" as
\* document root any file may be refused with 403 (http.c:320).
RightAnswers ==
    pc \in {"send", "cgi"} /\ out.hsent = 0 =>
        LET a     == Last(answers)
            q     == reqs[a.req]
            path  == PathOf(q.uri)
            cgi   == IsPrefix(CgiPrefix, path)
            valid == RefValid(path)
            name  == IF cgi THEN client.root \o RefPath(path) ELSE StaticName(client.root, RefPath(path))
            there == valid /\ name # <<>> /\ Len(name) < Cap /\ Exists(name)
        IN /\ a.req = Len(reqs) /\ Len(answers) = Len(reqs)
           /\ a.status \in {200, 304} =>
                /\ ~cgi /\ there /\ a.name = name
                /\ File(name).kind = "file" /\ File(name).read
           /\ a.status = 304 => \E k \in DOMAIN q.headers : q.headers[k].val[1] = Date[1]
           /\ a.status \in {0, 500} =>
                /\ cgi /\ there /\ File(name).kind = "file" /\ File(name).exec
                /\ IsPrefix(CgiPrefix, RefPath(path))
                /\ LeavesMethod(q.method) \/ MethodOf(q.method, "UNKNOWN") = "GET"
           /\ a.status = 404 => valid /\ (~there \/ (cgi /\ ~(File(name).kind = "file" /\ File(name).exec)))
           /\ a.status = 403 =>
                \/ there /\ (~Below(client.root, name) \/ File(client.root).real = <<"/">>)
                \/ ~cgi /\ there /\ ~(File(name).kind = "file" /\ File(name).read)
                \/ cgi /\ valid /\ ~IsPrefix(CgiPrefix, RefPath(path))
           /\ a.status = 400 =>
                ~valid \/ Len(name) >= Cap \/ name = <<>> \/ Len(path) >= Cap \/ Len(q.uri) > Cap \div 2
           /\ a.status = 405 => cgi /\ MethodOf(q.method, "UNKNOWN") # "GET"
           /\ a.keep = (~cgi /\ a.status \in {200, 304, 403, 404} /\ RefKeep(q))

\* The comment at http.c:626: only GET is supported for a CGI.
OnlyGetRuns ==
    \A k \in DOMAIN answers :
        answers[k].status = 0 => MethodOf(reqs[answers[k].req].method, "UNKNOWN") = "GET"

\* No file outside the document root is sent and no script outside it is run,
\* whatever the path, the links in the tree and the spelling of the root
\* (http.c:305-322).
ServedUnderRoot ==
    \A k \in DOMAIN answers :
        answers[k].status \in {0, 200, 304} => Below(client.root, answers[k].name)

\* The client gets the responses one after another, each from its first unit on
\* without gap or repetition, and the announced number of units before the next
\* one starts or the connection is closed as served, whatever parts writev and
\* sendfile take.  Only a file that became shorter leaves a response short.
WireInOrder ==
    LET got(k)  == Cardinality({j \in DOMAIN wire : wire[j][1] = k})
        over(k) == \/ k < Len(answers)
                   \/ pc = "top" \/ (pc = "wait" /\ ~writing) \/ cause = "served"
    IN /\ wire = FlattenSeq([k \in DOMAIN answers |-> [i \in 1..got(k) |-> <<k, i>>]])
       /\ \A k \in DOMAIN answers :
            /\ got(k) <= answers[k].total
            /\ over(k) /\ answers[k].status # 0 => (got(k) < answers[k].total <=> answers[k].short)

\* Header nodes are in the list of the request or in the cache, none is lost and
\* none of an earlier request is in the list; a response leaves no file open and
\* no page behind (http_request.c:138-158, http.c:70-90).
NothingLeaks ==
    /\ halloc = Len(list) + hfree
    /\ parse_phase = 0 => list = <<>>
    /\ pc \in {"closed", "cgi"} => list = <<>>
    /\ pc \in {"top", "line", "hdr", "closed", "cgi"} \/ (pc = "wait" /\ armed = "in") => out = NoOut

\* A request that is complete is answered in full, or the connection is closed or
\* handed to the CGI; no timeout is needed for it while the client reads.
Answered == pc = "handle" ~> (pc \in {"top", "closed", "cgi"} \/ (pc = "wait" /\ ~writing))
=============================================================================
