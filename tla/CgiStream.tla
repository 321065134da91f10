----------------------------- MODULE CgiStream ------------------------------
(***************************************************************************)
(* One CGI response: what zv_cgi_on_stdout_ready reads from the child's    *)
(* pipe, how it finds the end of the CGI header, and how                   *)
(* zv_cgi_on_client_writable sends the result as a chunked HTTP body with  *)
(* partial writes.  The child and the client run between any two system    *)
(* calls of the handlers, so a read, a writev and the decision after each  *)
(* is one action.  Worker has the timers and the registrations; here a     *)
(* timeout or an error of the socket is the action Abort.                  *)
(*                                                                         *)
(* A byte of CGI output is its position in the output; its class is all    *)
(* that the handlers look at: "r", "n" (CR, LF) or another.  On the wire the   *)
(* HTTP header, the chunk prefix, the chunk suffix and the final chunk are *)
(* two units each, so that a write can stop inside each of them.           *)
(***************************************************************************)
EXTENDS Naturals, Sequences, SequencesExt

CONSTANTS Scripts,  \* outputs a child may produce: sequences of byte classes
          HdrCap,   \* sizeof(cgi_hdr_buf), 4096 in the code
          BodyCap,  \* sizeof(cgi_body_buf), 8192 in the code
          LineCap,  \* sizeof(line), 512 in the code
          OutLimit  \* r->cgi_out_limit

ASSUME CgiAssumption ==
    /\ \A s \in Scripts : s \in Seq({"r", "n", "b"})
    /\ HdrCap \in Nat /\ BodyCap \in Nat /\ 2 <= HdrCap /\ HdrCap < BodyCap
    /\ LineCap \in Nat \ {0} /\ OutLimit \in Nat

VARIABLES
    script,    \* the output of this child
    written,   \* how much of it the child has written
    rd,        \* how much of it has been read: cgi_out_total
    ended,     \* the child has closed its stdout
    at,        \* "stdout"/"client": that registration is armed; "reading",
               \* "writing": in that handler's loop; "done", "aborted": closed
    hdr,       \* cgi_hdr_buf[0 .. cgi_hdr_len)
    hdone,     \* cgi_headers_done; the HTTP header is built with it
    body,      \* cgi_body_buf[0 .. cgi_body_len)
    eof,       \* cgi_eof
    sent,      \* units sent of the header, the prefix, the body, the suffix
               \* and the final chunk
    wire,      \* history: everything the client has been sent
    dropped    \* history: a read did not fit into cgi_hdr_buf

childVars == <<script, written, ended>>
vars == <<childVars, rd, at, hdr, hdone, body, eof, sent, wire, dropped>>

Parts == {"H", "P", "B", "S", "F"}
Msg   == 0   \* stands for the text of the page "cgi produced no output"

MinOf(a, b) == IF a < b THEN a ELSE b
Positions(a, b) == [k \in 1..(b + 1 - a) |-> a + k - 1]

-----------------------------------------------------------------------------
(* What the handlers compute.                                              *)

\* The offset of the first byte after an empty line in the accumulated
\* header, 0 when there is none yet: the first i with LF LF or CR LF CR LF.
Has(h, i, mark) ==
    /\ i + Len(mark) - 1 <= Len(h)
    /\ \A k \in DOMAIN mark : h[i + k - 1] = mark[k]

EndsAt(h, i) ==
    IF Has(h, i, <<"n", "n">>) THEN i + 1
    ELSE IF Has(h, i, <<"r", "n", "r", "n">>) THEN i + 3
    ELSE 0

BodyOffset(h) ==
    LET ends == {i \in 1..Len(h) : EndsAt(h, i) # 0}
    IN  IF ends = {} THEN 0
        ELSE EndsAt(h, CHOOSE i \in ends : \A j \in ends : i <= j)

\* A line of the header too long for the buffer it is parsed in.
LineTooLong(h) ==
    \E i \in 1..Len(h) : /\ i + LineCap - 1 <= Len(h)
                         /\ \A j \in i..(i + LineCap - 1) : h[j] # "n"

Classes(bytes) == [k \in DOMAIN bytes |-> script[bytes[k]]]

\* The chunk that is ready: prefix, body and suffix, from what was sent of each.
Unsent(part, units) == SubSeq(units, sent[part] + 1, Len(units))

HeaderUnits == <<<<"H", 1>>, <<"H", 2>>>>
PrefixUnits == <<<<"P", Len(body)>>, <<"C", 0>>>>
BodyUnits   == [k \in DOMAIN body |-> <<"B", body[k]>>]
SuffixUnits == <<<<"S", 1>>, <<"S", 2>>>>
FinalUnits  == <<<<"F", 1>>, <<"F", 2>>>>

\* The iovec of the next writev; without a chunk and before end of file the
\* handler sends nothing, not even a header it has built.
Iov ==
    IF body # <<>>
    THEN Unsent("H", HeaderUnits) \o Unsent("P", PrefixUnits)
             \o Unsent("B", BodyUnits) \o Unsent("S", SuffixUnits)
    ELSE IF eof THEN Unsent("H", HeaderUnits) \o Unsent("F", FinalUnits)
    ELSE <<>>

\* The counters after a write of n units: each part takes what the parts
\* before it have left over.
Consume(n) ==
    LET h == MinOf(n, 2 - sent["H"])
        p == MinOf(n - h, 2 - sent["P"])
        b == MinOf(n - h - p, Len(body) - sent["B"])
        s == MinOf(n - h - p - b, 2 - sent["S"])
        f == MinOf(n - h, 2 - sent["F"])
    IN  IF body # <<>>
        THEN [sent EXCEPT !["H"] = @ + h, !["P"] = @ + p,
                          !["B"] = @ + b, !["S"] = @ + s]
        ELSE [sent EXCEPT !["H"] = @ + h, !["F"] = @ + f]

ChunkSent_NoSuffix(c) == c["P"] = 2 /\ c["B"] = Len(body)
ChunkSent(c) == c["P"] = 2 /\ c["B"] = Len(body) /\ c["S"] = 2

NewChunk == [sent EXCEPT !["P"] = 0, !["B"] = 0, !["S"] = 0]

-----------------------------------------------------------------------------
(* The child.                                                              *)

ChildWrite(k) ==
    /\ ~ended /\ written + k <= Len(script)
    /\ written' = written + k
    /\ UNCHANGED <<script, ended, rd, at, hdr, hdone, body, eof, sent, wire, dropped>>

ChildClose ==
    /\ ~ended /\ written = Len(script)
    /\ ended' = TRUE
    /\ UNCHANGED <<script, written, rd, at, hdr, hdone, body, eof, sent, wire, dropped>>

-----------------------------------------------------------------------------
(* zv_cgi_on_stdout_ready.                                                 *)

\* EPOLLIN or EPOLLHUP on the pipe.
StdoutEvent ==
    /\ at = "stdout" /\ (rd < written \/ ended)
    /\ at' = "reading"
    /\ UNCHANGED <<childVars, rd, hdr, hdone, body, eof, sent, wire, dropped>>

\* The test at the head of the loop: a chunk is still being sent.
BackPressure == body # <<>> /\ ~ChunkSent(sent)

\* The copy without the test against the space left.
ReadHeader_NoClamp(bytes) ==
    LET new == hdr \o bytes
        off == BodyOffset(Classes(new))
    IN  /\ hdone' = (off # 0)
        /\ hdr' = IF off # 0 THEN <<>> ELSE new
        /\ body' = IF off # 0 THEN SubSeq(new, off + 1, Len(new)) ELSE body
        /\ sent' = NewChunk
        /\ at' = IF off # 0 THEN "client" ELSE "reading"
        /\ UNCHANGED dropped

\* The body starts one byte late.
ReadHeader_OffByOne(bytes) ==
    LET new == hdr \o SubSeq(bytes, 1, MinOf(Len(bytes), HdrCap - Len(hdr)))
        off == BodyOffset(Classes(new))
    IN  /\ hdone' = (off # 0)
        /\ hdr' = IF off # 0 THEN <<>> ELSE new
        /\ body' = IF off # 0 THEN SubSeq(new, off + 2, Len(new)) ELSE body
        /\ sent' = NewChunk
        /\ at' = IF off # 0 THEN "client" ELSE "reading"
        /\ dropped' = (dropped \/ Len(new) < Len(hdr) + Len(bytes))

\* What a read of bytes does before the end of the header has been seen.
ReadHeader(bytes) ==
    LET new == hdr \o SubSeq(bytes, 1, MinOf(Len(bytes), HdrCap - Len(hdr)))
        off == BodyOffset(Classes(new))
    IN  /\ dropped' = (dropped \/ Len(new) < Len(hdr) + Len(bytes))
        /\ \/ /\ off # 0 /\ ~LineTooLong(Classes(SubSeq(new, 1, off)))
              /\ hdone' = TRUE /\ hdr' = <<>>
              /\ body' = SubSeq(new, off + 1, Len(new))
              /\ sent' = NewChunk
              /\ at' = "client"
           \/ /\ off # 0 /\ LineTooLong(Classes(SubSeq(new, 1, off)))
              /\ at' = "aborted" /\ hdr' = new
              /\ UNCHANGED <<hdone, body, sent>>
           \/ /\ off = 0
              /\ at' = IF Len(new) >= HdrCap THEN "aborted" ELSE "reading"
              /\ hdr' = new
              /\ UNCHANGED <<hdone, body, sent>>

ReadData ==
    /\ at = "reading" /\ ~BackPressure /\ rd < written
    /\ LET n     == MinOf(written - rd, BodyCap)
           bytes == Positions(rd + 1, rd + n)
       IN  /\ rd' = rd + n
           /\ \/ /\ rd + n > OutLimit
                 /\ at' = "aborted"
                 /\ UNCHANGED <<hdr, hdone, body, sent, dropped>>
              \/ /\ rd + n <= OutLimit /\ ~hdone
                 /\ ReadHeader(bytes)
              \/ /\ rd + n <= OutLimit /\ hdone
                 /\ body' = bytes /\ sent' = NewChunk /\ at' = "client"
                 /\ UNCHANGED <<hdr, hdone, dropped>>
    /\ UNCHANGED <<childVars, eof, wire>>

\* EAGAIN, or a chunk still unsent: the pipe's registration is armed again.
ReadAgain ==
    /\ at = "reading" /\ (BackPressure \/ (rd = written /\ ~ended))
    /\ at' = "stdout"
    /\ UNCHANGED <<childVars, rd, hdr, hdone, body, eof, sent, wire, dropped>>

\* Output without an empty line is forgotten.
ReadEof_NoHeaderless ==
    /\ at = "reading" /\ ~BackPressure /\ rd = written /\ ended
    /\ eof' = TRUE /\ at' = "client"
    /\ hdone' = TRUE /\ hdr' = <<>>
    /\ UNCHANGED <<childVars, rd, body, sent, wire, dropped>>

\* End of file.  Output without an empty line is sent as a page of its own,
\* no output at all as an error page.
ReadEof ==
    /\ at = "reading" /\ ~BackPressure /\ rd = written /\ ended
    /\ eof' = TRUE /\ at' = "client"
    /\ \/ /\ hdone
          /\ UNCHANGED <<hdr, hdone, body, sent>>
       \/ /\ ~hdone
          /\ body' = IF hdr # <<>> THEN hdr ELSE <<Msg>>
          /\ sent' = NewChunk
          /\ hdone' = TRUE /\ hdr' = <<>>
    /\ UNCHANGED <<childVars, rd, wire, dropped>>

-----------------------------------------------------------------------------
(* zv_cgi_on_client_writable.                                              *)

\* EPOLLOUT on the client's socket.
ClientEvent ==
    /\ at = "client"
    /\ at' = "writing"
    /\ UNCHANGED <<childVars, rd, hdr, hdone, body, eof, sent, wire, dropped>>

\* A writev that the socket takes n units of; a chunk sent to its end is reset.
Writev(n) ==
    /\ at = "writing" /\ n \in 1..Len(Iov)
    /\ wire' = wire \o SubSeq(Iov, 1, n)
    /\ LET c == Consume(n)
       IN  IF body # <<>> /\ ChunkSent(c)
           THEN /\ body' = <<>>
                /\ sent' = [c EXCEPT !["P"] = 0, !["B"] = 0, !["S"] = 0]
           ELSE sent' = c /\ UNCHANGED body
    /\ UNCHANGED <<childVars, rd, at, hdr, hdone, eof, dropped>>

\* A client that is slow is left aside for the pipe.
WriteBlock_Stdout ==
    /\ at = "writing" /\ Iov # <<>>
    /\ at' = IF eof THEN "client" ELSE "stdout"
    /\ UNCHANGED <<childVars, rd, hdr, hdone, body, eof, sent, wire, dropped>>

\* EAGAIN: do_write arms the client's registration again.
WriteBlock ==
    /\ at = "writing" /\ Iov # <<>>
    /\ at' = "client"
    /\ UNCHANGED <<childVars, rd, hdr, hdone, body, eof, sent, wire, dropped>>

\* The client's registration is armed instead of the pipe's.
WriteEnd_Client ==
    /\ at = "writing" /\ Iov = <<>>
    /\ at' = IF eof THEN "done" ELSE "client"
    /\ UNCHANGED <<childVars, rd, hdr, hdone, body, eof, sent, wire, dropped>>

\* Nothing left to send: the end of the response, or more to read.
WriteEnd ==
    /\ at = "writing" /\ Iov = <<>>
    /\ at' = IF eof THEN "done" ELSE "stdout"
    /\ UNCHANGED <<childVars, rd, hdr, hdone, body, eof, sent, wire, dropped>>

-----------------------------------------------------------------------------
\* An error of read or writev, or the request timer, closes the connection
\* with whatever has been sent.
Abort ==
    /\ at \notin {"done", "aborted"}
    /\ at' = "aborted"
    /\ UNCHANGED <<childVars, rd, hdr, hdone, body, eof, sent, wire, dropped>>

Init ==
    /\ script \in Scripts
    /\ written = 0 /\ rd = 0 /\ ended = FALSE
    /\ at = "stdout"
    /\ hdr = <<>> /\ hdone = FALSE /\ body = <<>> /\ eof = FALSE
    /\ sent = [p \in Parts |-> 0]
    /\ wire = <<>> /\ dropped = FALSE

Child  == (\E k \in 1..Len(script) : ChildWrite(k)) \/ ChildClose
Reader == StdoutEvent \/ ReadData \/ ReadAgain \/ ReadEof
Send   == \E n \in 1..Len(Iov) : Writev(n)
Writer == ClientEvent \/ Send \/ WriteBlock \/ WriteEnd
Next   == Child \/ Reader \/ Writer \/ Abort

Spec == Init /\ [][Next]_vars

\* The child ends and closes its output; the event loop runs the handler whose
\* registration is ready; a client that keeps reading lets some of the writes
\* through.  Nothing forces Abort.
LiveSpec ==
    /\ Spec
    /\ WF_vars(Child) /\ WF_vars(Reader) /\ WF_vars(ClientEvent \/ WriteEnd)
    /\ SF_vars(Send)

-----------------------------------------------------------------------------
(* Properties.                                                             *)

\* Types: in particular the bytes copied into cgi_hdr_buf and cgi_body_buf and
\* the offsets into them stay within the buffers (cgi.c:309-315, 364-370).
CgiTypeOK ==
    /\ script \in Scripts
    /\ written \in 0..Len(script) /\ rd \in 0..written /\ ended \in BOOLEAN
    /\ at \in {"stdout", "reading", "client", "writing", "done", "aborted"}
    /\ hdr \in Seq(1..Len(script)) /\ Len(hdr) <= HdrCap
    /\ body \in Seq(0..Len(script)) /\ Len(body) <= BodyCap
    /\ hdone \in BOOLEAN /\ eof \in BOOLEAN /\ dropped \in BOOLEAN
    /\ DOMAIN sent = Parts
    /\ \A p \in Parts \ {"B"} : sent[p] \in 0..2
    /\ sent["B"] \in 0..Len(body)

\* The pipe is watched or read only when the chunk before has been sent to its
\* last byte, so the read into cgi_body_buf never overwrites bytes a writev
\* still has to send (cgi.c:291-298, 639-645).
ReadsOnlyWhenSent ==
    at \in {"stdout", "reading"} => body = <<>>

\* What follows one unit of a well-framed response: the header, then chunks of
\* the announced length, then the final chunk.  "x" is a broken frame.
NextFrame(state, u) ==
    CASE state = <<"start", 0>> /\ u = <<"H", 1>> -> <<"header", 0>>
      [] state = <<"header", 0>> /\ u = <<"H", 2>> -> <<"between", 0>>
      [] state = <<"between", 0>> /\ u[1] = "P" /\ u[2] > 0 -> <<"prefix", u[2]>>
      [] state[1] = "prefix" /\ u = <<"C", 0>> -> <<"data", state[2]>>
      [] state[1] = "data" /\ state[2] > 0 /\ u[1] = "B" -> <<"data", state[2] - 1>>
      [] state = <<"data", 0>> /\ u = <<"S", 1>> -> <<"suffix", 0>>
      [] state = <<"suffix", 0>> /\ u = <<"S", 2>> -> <<"between", 0>>
      [] state = <<"between", 0>> /\ u = <<"F", 1>> -> <<"final", 0>>
      [] state = <<"final", 0>> /\ u = <<"F", 2>> -> <<"end", 0>>
      [] OTHER -> <<"x", 0>>

Frame(w) ==
    LET after[k \in 0..Len(w)] ==
            IF k = 0 THEN <<"start", 0>> ELSE NextFrame(after[k - 1], w[k])
    IN  after[Len(w)]

\* However the child's writes, the reads and the partial writes fall, the client
\* sees one HTTP header followed by chunks whose data have the announced
\* length, and a response that is closed as finished is a complete one
\* (cgi.c:518-637).
WellFramed ==
    /\ Frame(wire)[1] # "x"
    /\ at = "done" => Frame(wire)[1] = "end"

\* The data a client decodes from the chunks.
Decoded(w) ==
    LET data[k \in 0..Len(w)] ==
            IF k = 0 THEN <<>>
            ELSE IF w[k][1] = "B" THEN Append(data[k - 1], w[k][2])
            ELSE data[k - 1]
    IN  data[Len(w)]

\* The body of the child's output, from its text alone.
Expected ==
    LET off == BodyOffset(script)
    IN  IF script = <<>> THEN <<Msg>>
        ELSE Positions(off + 1, Len(script))

\* The client decodes the child's body, in order, without a byte of its header,
\* doubled or skipped, wherever the reads split the header; only a read that
\* does not fit into cgi_hdr_buf may leave a gap (cgi.c:305-379).
Delivered ==
    LET data == Decoded(wire)
    IN  /\ ~dropped => IsPrefix(data, Expected)
        /\ \A i \in 1..(Len(data) - 1) : data[i] < data[i + 1]

\* A finished response holds the whole body (cgi.c:423-492, 628-637).
CompleteWhenDone ==
    at = "done" /\ ~dropped => Decoded(wire) = Expected

\* The comment at cgi.c:377 promises that all body bytes already read are moved
\* to the body buffer for sending.
NothingLost ==
    at = "done" => Decoded(wire) = Expected

\* Every response ends: no state in which the pipe waits for the client and the
\* client for the pipe (cgi.c:498-513, 639-647, http.c:839-855).
Completes == <>(at \in {"done", "aborted"})
=============================================================================
