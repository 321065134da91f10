----------------------------- MODULE MCExchange -----------------------------
EXTENDS Exchange

Chars(string) == SubSeq([i \in 1..Len(string) |-> SubSeq(string, i, i)], 1, Len(string))
CRLF == <<CR, LF>>

\* The tree: a document root /d with files, a directory, a script directory and
\* links that leave it, and /dx beside it, whose name starts with the root's.
At(words) == SubSeq([k \in 1..Len(words) |-> Chars(words[k])], 1, Len(words))
Dir(words, real) ==
    At(words) :> [kind |-> "dir", read |-> TRUE, exec |-> TRUE, size |-> 0, real |-> Chars(real)]
Entry(words, read, exec, size, real) ==
    At(words) :> [kind |-> "file", read |-> read, exec |-> exec, size |-> size, real |-> Chars(real)]

MCTree ==
    Dir(<<>>, "/") @@ Dir(<<"d">>, "/d") @@ Dir(<<"d", "a">>, "/d/a")
      @@ Dir(<<"d", "a.d">>, "/d/a.d") @@ Dir(<<"d", "c">>, "/d/c")
      @@ Entry(<<"d", "e">>, TRUE, FALSE, 2, "/d/e")
      @@ Entry(<<"d", "a", "e">>, TRUE, FALSE, 1, "/d/a/e")
      @@ Entry(<<"d", "n.x">>, TRUE, FALSE, 0, "/d/n.x")
      @@ Entry(<<"d", "f.x">>, FALSE, FALSE, 1, "/d/f.x")
      @@ Entry(<<"d", "l.x">>, TRUE, FALSE, 1, "/dx/e")
      @@ Entry(<<"d", "c", "a">>, TRUE, TRUE, 1, "/d/c/a")
      @@ Entry(<<"d", "c", "f">>, TRUE, FALSE, 1, "/d/c/f")
      @@ Entry(<<"d", "c", "l">>, TRUE, TRUE, 1, "/dx/a")

MCCgiPrefix == <<"/", "c", "/">>
MCIndexName == <<"e">>

Line(string) == Chars(string) \o CRLF
Get(uri) == Chars("GET ") \o uri \o Chars(" HTTP/1.1") \o CRLF \o CRLF

\* Streams that arrive in any parts: pipelined requests, spellings of a line and
\* of a header, what the parsers refuse, and requests at and over the limit.
Streams ==
    { Get(<<"/">>) \o Get(<<"/", "a">>),
      CRLF \o Chars("GET /a HTTP/1.0") \o <<LF>> \o Line("Cn: ka") \o CRLF \o Line("PUT /o HTTP/1.0") \o CRLF,
      Line("GET  /a  HTTP/1.1 ") \o Line("Cn:cl") \o Line("C:k") \o CRLF \o <<"G">>,
      Line("GET / HTTP/1.1") \o Line("If:d") \o CRLF \o Line("G") ,
      Get(Chars("/n.x")) \o Line("PUT /c/a HTTP/1.1") \o CRLF,
      Get(Chars("/n.x")) \o Line("PATCH /c/a HTTP/1.1") \o CRLF,
      Line("HEAD /c/a HTTP/1.1") \o Line("H:o") \o CRLF,
      Line("GET /a?/ HTTP/10.25") \o Line("I:d") \o Line("A :o") \o CRLF,
      Line("GET /o HTTP/1.0") \o CRLF, Line("POST / HTTP/0.1") \o CRLF, Line("GET o HTTP/1.1") \o CRLF,
      Line("GET / HTTP/1.") \o CRLF, Line("GET / HTTP/1.1 1") \o CRLF,
      Line("GET / HTTP/1.1") \o Line("A x") \o CRLF, Line("GET / HTTP/1.1") \o Line("A:") \o CRLF,
      Line("GET / HTTP/1.1") \o <<LF>>, Line("GET / HTTP/1.1") \o Line("A:o") \o <<CR, CR>>,
      Line("GET / HTTP/1.1") \o Line("H:ooooooooooooo") \o CRLF,
      Line("GET / HTTP/1.1") \o Line("H:oooooooooooooo") \o CRLF,
      Get(<<"/">>) \o Line("GET / HTTP/1.1") \o Line("H:ooooooooooooo") \o CRLF }

\* Paths, each in one request that arrives at once.
Words(pieces, n) ==
    UNION {{FlattenSeq([k \in 1..m |-> Chars(w[k])]) : w \in [1..m -> pieces]} : m \in 0..n}

Uris ==
    {<<"/">> \o w : w \in Words({"/", ".", "a", "%2e", "%2f", "%5C", "%2", "?"}, 3)}
      \cup {Chars(u) : u \in {"/n.x", "/f.x", "/a.d", "/l.x", "/a/../e", "/a/a/..", "/../a"}}
      \cup {Chars("/c/") \o w : w \in Words({"a", "f", "l", "/", ".", ".."}, 3)}
      \cup {Chars(u) : u \in {"/c/a/a/a/a/a/a/", "/c/a/a/a/a/a/a/a", "/c/%2e%2e/a", "/c/..%2fc/a",
                              "/aaaaaaa", "/aaaaaaaa", "/c/a?aaaaaaaaaaaa", "/c/%00", "/c/%5",
                              "/%0a", "/%0D", "/%61", "/%41", "/%6e.x", "/n%2Ex", "/%7f", "/%FF", "/%3x", "/c/%61"}}

\* The whole file system as the document root.
RootClients ==
    [bytes : {Get(Chars(u)) : u \in {"/", "/d/n.x", "/d/", "/o"}}, split : {FALSE}, root : {<<"/">>}]

\* A method that is not known behind one that is.
MethodClients ==
    [bytes : {Get(Chars("/n.x")) \o Line("PUT /c/a HTTP/1.1") \o CRLF}, split : {TRUE}, root : {Chars("/d")}]

MCClients ==
    [bytes : Streams, split : {TRUE}, root : {Chars("/d")}]
      \cup [bytes : {Get(u) : u \in Uris}, split : {FALSE}, root : {Chars("/d")}]
      \cup [bytes : {Get(Chars(u)) : u \in {"/", "/a", "/aa", "/aaa", "/a/", "/c/a", "/c/aa", "/l.x"}},
            split : {FALSE}, root : {Chars(r) : r \in {"/d/", "/d////////", "/d/////////"}}]
      \cup RootClients
=============================================================================
