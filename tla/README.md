# TLA+ models of Zaver

This directory holds the verification project of Zaver, an event-driven HTTP
server in C (`src/src`): TLA+ modules for its parts, TLC configurations that
check them on small instances, and TLAPS proofs for all values of the constants.

`tlc -config X.cfg MC` runs a configuration, `tlapm XProofs.tla` checks the
proofs about module `X`. `PROJECT.json` lists components, runs, the source lines behind every
definition, hazards, findings and theorems.

## The system

A master process (`process.c`) forks workers and takes everything down when it
is told to stop or when one of them ends. A worker (`worker.c`) is one thread
around `epoll_wait`: it accepts connections, calls the handlers of ready ones
(`http.c`, `cgi.c`), closes those whose timer is due (`timer.c` on the heap of
`priority_queue.c`) and recycles request blocks (`http_request_cache.c`).

| component | state | operations | what is hard | what makes it correct |
|---|---|---|---|---|
| event loop (`worker.c`, `epoll.c`) | current batch, listening socket | accept, dispatch, expire, flush, stop | several events in a batch, closed blocks, stop at any moment | one event per connection, no event for a closed one |
| connection handlers (`http.c`, `http_request.c`) | armed event, `writing`, `keep_alive`, buffer, timer | `do_request`, `do_write`, `zv_http_close_conn` | partial sends, pipelining, timeouts racing events | handler and state fit, right timeout, life cycle |
| CGI (`cgi.c`) | pipe, child, header buffer, chunk, four "sent" counters | start, read, write, end of file, kill | arbitrary splits of reads and writes, child dying, descriptors it inherits | framing, order and completeness of the body, children reaped |
| timers (`timer.c`) | heap of nodes with lazy deletion, cached clock | add, delete, find, expire | cancelled nodes above live ones, stale clock | a set of deadlines, never early, never out of order, no oversleep |
| priority queue (`priority_queue.c`) | array with unused slot 0 | insert, delmin, resize | boundaries of the array, order after long sequences | heap order, index below size |
| block pool (`http_request_cache.c`) | free list, deferred list | get, put deferred, flush | reuse while events of the old connection are pending | a block is reused only after the batch |
| master (`process.c`, `zv_signal.c`) | `zv_stop`, `pids[]` | fork, wait, kill, join | signals between a test and a blocking call, failing forks | everyone is told, one is left a signal at most, shutdown ends |
| thread pool (`threadpool.c`) | list of tasks, mutex, condition, flag | init, add, worker, destroy | lost and spurious wake-ups, shutdown | each task once, nobody sleeps over work, drain, destroy returns |
| request parser (`http_parse.c`) | two state machines, positions in an 8124-byte buffer | parse line, parse headers | input split anywhere, pointers across the move of the buffer, a full buffer | same result for every split, pointers in order, refusal only of what does not fit |
| headers (`http_header_cache.c`, `http_request.c`) | list of the request, free list | alloc, free, handle | errors between parsing and handling | every node in one of the two lists |
| URI and path check (`http.c`) | decoded and normalised copy, stack of lengths | decode, normalise, name, check | `..` after anything, names that just fit, links | normal form, no file outside the root |
| response sender (`http.c`) | header, page or file with "sent" counters | prepare, send, reset | partial `writev` and `sendfile`, a file that shrinks | whole responses, in order |
| configuration, list macros, `rio.c`, logging | - | - | - | sequential, or unused |

Interactions: the loop calls the handlers with the block of an epoll item; every
handler deletes the block's timer first, and re-arms one registration and adds
a timer, or closes. The socket and the CGI pipe of a connection are both
one-shot and armed in turn. Timers call `zv_http_close_conn`. The master only
uses signals and `waitpid`.

## Modules

| module | models | checked by |
|---|---|---|
| `Worker` | loop, handlers, timers as links between blocks and nodes, block pool, CGI children | `worker*` |
| `Connection` | abstract life cycle of a connection; `Worker` implements it | `worker` (`ConnSpec`) |
| `CgiStream` | the bytes of one CGI response, read by read and write by write | `cgi_stream`, `cgi_loss` |
| `HttpParse` | the two parsers as tables of rules, header names; a reference parser | `exchange*` |
| `UriPath` | decoding, normal form, file name, root check; a reference for them | `exchange*` |
| `Exchange` | one connection byte by byte: read, parse, handle, send, compact | `exchange*` |
| `TimerQueue` | `timer.c` with keys and clock on the binary heap | `timer_queue` |
| `TimerSet` | abstract set of deadlines; `TimerQueue` implements it | `timer_queue` (`TimerSpec`) |
| `Master` | master and stop flags of the workers | `master*` |
| `ThreadPool` | thread pool with mutex sections as steps | `thread_pool` |
| `WorkerProofs`, `ExchangeProofs`, `CgiStreamProofs`, `TimerQueueProofs`, `MasterProofs`, `ThreadPoolProofs` | proofs about the module they are named after | `tlapm` |
| `ParserLemmas` | what a byte adds to a request that is being parsed, what a segment adds to a path | `tlapm` |
| `ParserProofs` | that the parsers, the path check and the choice of the answer in `Exchange` do what the references in `HttpParse` and `UriPath` say | `tlapm` |

`MC*` modules only give constants their values (and symmetry sets). Definitions
named `X_Y` next to a definition `X` are faulty versions of `X`, used to see that
a property notices the fault.

### Worker

A worker has one thread, so a handler is one action, with all it does: deleting
the timer, the outcome, re-arming, adding the timer. The outcome (blocked,
complete, failed, ...) is a choice among those the code has. Between the steps
of the loop, children exit. `st` is where a block is (`unused`, `open`,
`deferred`, `free`); `armed` and `cgiArmed` are the two one-shot registrations;
`pend` is the part of the batch not yet dispatched; `timer` and `node` are the
two directions of the link between a block and its timer node, and deleted
nodes stay in the heap; `tmo` is the kind of the timeout. `proc`, `holders` and
`ghost` describe CGI children: running, killed or zombie, the sockets they
inherited, and the closed sockets they keep registered. `Misdirect` is the
arrival of an event for such a socket; the model stops there.

Left out: bytes and responses, the clock (see `TimerQueue`; here any timer may
be due), allocation failure of a timer node, the statistics.

### CgiStream

The output of the child is a sequence of byte classes (CR, LF, other); a byte is
its position. A read takes what is in the pipe up to the buffer size; the end of
the header is searched in the accumulated header buffer as in the code. HTTP
header, chunk prefix, suffix and final chunk are two units each, and a `writev`
takes any number of units. `wire` is what the client got. `dropped` remembers
that a read did not fit into the header buffer, which is the one case in which
bytes are lost (see the findings).

Left out: the contents of `Status` and `Content-Type`, the capacity of the pipe.

### Exchange

`Worker` has many connections whose handlers are single steps; `Exchange` opens
these steps for one connection. `pc` is the place in `do_request` or `do_write`
(`wait` between events, `top` of the loop, `line` and `hdr` in the parsers,
`handle`, `resolve` and `file` on the way to a response, `send`). The other
variables have the names of the code: `buf`, `parse_pos`, `parse_phase`, the two
saved parser states, the pointers of the request (`ptr`, as positions), `list`,
`out` with the "sent" counters, `keep_alive`, `writing`, `armed`. `reqs`,
`answers`, `wire` and `cause` are history: what was parsed, what was answered,
what the client got, why the connection ended.

A parser step takes one byte. Its rule comes from a table in `HttpParse`, one
row for each `case` of the switch and set of characters it tells apart; marks on
pointers, version and method are separate operators. A read returns any
number of bytes for a client that sends in parts, otherwise all that fit. The
path is decoded a byte a step and normalised a segment a step, with `UriPath`'s
`stack` as in the code. Responses are `HeaderLen` units of header, then
`PageLen` units of error page or the units of a file; `writev` and `sendfile`
take any number of them, and `Truncate` makes the file shorter at any time.
`stat` and `realpath` are the constant `Tree`, in which entries may be links; it
does not change between the check of a path and the `open` of it.

The reference is separate from the tables: `Request` finds the delimiters of a
request in the whole stream, `RefDecode` and `RefNorm` define decoding and
normal form by positions and by matching every `..` with the segment it takes
back. The properties compare the two.

Names are abbreviated so that a request stays short (two letters for a header
name keep a proper prefix, which the code's `strncmp` accepts). `Byte` has the
bytes that some rule tells apart, all hex digits of both cases among them; an
escape is computed as in `hex_val` and `percent_decode`, from the ASCII codes, and
one that gives another byte gives the ordinary letter `o`. `out->mtime` is not set when
`If-Modified-Since` is compared with it, so a readable date may be equal or not.

Left out: the text of responses and MIME types, overflow of version numbers with
ten and more digits (no such request fits the instance), the fatal `malloc` of
`zv_http_out_t`, what follows `zv_cgi_start` (`CgiStream`).

### TimerQueue

Every turn of the loops in `swim` and `sink` is an action, so the invariant says
what holds of the heap between two exchanges. The loop goes through find, wait,
run and expire; the clock ticks at any time, except that `zv_find_timer` reads it
and `epoll_wait` begins in one instant. `until` is the time at which
`epoll_wait` returns without events. The handler of a timer only closes its
request.

### Master

A signal sets `zv_stop` and interrupts a blocked call. The test of the flag and
the blocking call are separate steps. Signals come from outside to the master
or, like Ctrl+C, to all processes, and from the master to a worker. A worker in
`epoll_wait` may get an event at any time and is promised none.

### ThreadPool

All shared fields are used under one mutex, so the code between taking and
giving it up is one action. Wake-ups, also spurious ones, only make a thread
compete for the mutex again.

## Runs

| run | result | instance | shows |
|---|---|---|---|
| `worker` | pass | 2 blocks, 3 timer nodes, 1 pid, free list of 1 | consistency of timers, registrations, handlers, children; `Connection`; a connection without events is closed |
| `worker_idle_timer` | violated | 2, 3, 1 | finding 1 |
| `worker_stale_event` | violated | 2, 3, 1 | finding 2 |
| `worker_reap` | violated | 2, 3, 1 | finding 3 |
| `cgi_stream` | pass | 11 outputs up to 10 bytes, header 6, body 7, line 4, limit 9 | framing, order, completeness, termination |
| `cgi_loss` | violated | same | finding 4 |
| `exchange` | pass | buffer of 36, names up to 16, 8 segments, 20 streams split anywhere, about 870 paths whole | parsing, buffer, answers, root check, delivery, leaks, and that a request is answered |
| `exchange_method` | violated | the same, a GET and a PUT | finding 7 |
| `timer_queue` | pass | 2 requests, 5 nodes, timeouts 1 and 3, clock to 3, array from 2 slots | heap, sleep, expiry, `TimerSet` |
| `master` | pass | 3 workers, 2 signals | shutdown reaches all and ends, leaving one worker a signal at most |
| `master_stop` | violated | 2 workers, 2 signals | findings 5 and 6 |
| `thread_pool` | pass | 3 threads, 3 tasks | once, drained, no lost wake-up, nobody asleep over work |

Bounds. Two blocks are enough for a block to be closed, deferred and reused
while another is served, for a batch with events of two connections, and for a
child that holds the other connection's socket; with a free list of one both
the list and `malloc`/`free` are used. Three nodes give both blocks a timer beside
a deleted one; `HeapRoom` keeps a batch from starting without room for its timers.
More nodes, pids and blocks are for the proofs, which cover every safety property of
this run. The outputs of `cgi_stream` have both line ends, empty header, empty
body, no header, a header at and over the buffer, a long line, and sizes at and
over the limit, with the code's relations between the sizes (header buffer
smaller than read buffer). `exchange` keeps the code's ratio between the name
buffers and the stack (512 to 256); its streams have requests of exactly 35 and
36 bytes (the largest that fits and the smallest that does not), pipelined
requests that fill the buffer before the move, header lists over the cache
limit of one, lines and headers broken in several places, and each status; its
paths are all short combinations of names, dots, slashes and escapes, and names
that fit a buffer exactly or miss it by one, escapes of the bytes that are
refused, of letters in both cases and of bytes outside `Byte`, for roots with and
without a slash at the end and for the root `/` itself. Five heap nodes give three
levels, both children, growth and shrinking. Two signals are needed to interrupt the
last loop of the master after a first one started it. Three threads and tasks give a
thread that waits, one that runs and one that takes.

Symmetry (requests, nodes) is used only in `timer_queue`, which checks no liveness.
`CHECK_DEADLOCK FALSE`: a worker may be told to stop, a response ends, the clock
of `timer_queue` is bounded, the master and the pool end. `exchange` checks
deadlock: the only end is a closed connection or one given to the CGI (`Over`).

Fairness. `worker`: the loop goes on (`epoll_wait` returns at the latest
when the first timer is due) and a node that stays in the heap is due some time
and then handled. `cgi_stream`: the child ends, the loop runs the handler whose
registration is ready, and a client that keeps reading lets some writes through
(strong fairness of sending); nothing forces an abort. `exchange`: a handler
that is running goes on, an armed output event arrives, and a client that reads
takes something some time (strong fairness of sending); no timeout and no
further request is counted on. `master`, `master_stop`: every process that is not
blocked runs; no event is counted on, since nothing in the code gives a worker
without clients one. So `OneDownAllDown` has the alternative that a worker sleeps
that was told to stop, which is finding 5. `thread_pool`: every thread that can go on does, and tasks end.

## Findings

Each is a disagreement between the code and its own comments, shown by a run.

1. After a blocked response, `do_write` waits under the idle timeout although a
   pipelined request is already in the buffer (`http.c:886`, `http.c:592`).
2. Closing a socket does not remove its registration while a CGI child holds
   it (`http_request.c:244-247`).
3. A killed CGI child is usually not reaped (`http_request.c:162-163`,
   `http_request.h:101`).
4. A read that completes the CGI header and overflows its buffer loses bytes
   (`cgi.c:313`, `cgi.c:377`).
5. A stop signal between the test and `epoll_wait` is lost for an idle worker
   (`worker.c:116`, `worker.c:162-165`).
6. A second signal interrupts the `waitpid` of the last loop of the master, whose
   result is ignored, and the master exits before that worker (`process.c:87-90`).
   `LeftPerSignal` says that this is all: one worker a signal.
7. `r->method` survives on a kept connection when the next request has an unknown
   method of three or four letters, so a `PUT` after a `GET` starts a CGI
   (`http.c:626-627`). `RightAnswers` leaves out just these words (`LeavesMethod`).

Findings 5 and 6 are one run, `master_stop`: `NoOrphan` follows from either comment
alone, and its counterexample contradicts both.

`Exchange` models three more behaviours of the code as they are, without a run
of their own:

- With `/` as document root every file is refused with 403: the byte behind the
  root's real path is the first of a name then, and no slash (`http.c:320`), although
  the file is under the root that `http.c:304` speaks of. `RightAnswers` says of all
  other roots that a 403 has a reason.
- `If-Modified-Since` is compared before `out->mtime` is set (`http.c:459`,
  `http.c:524`); a 304 depends on an uninitialised value.
- A file that becomes shorter ends the response early (`http.c:159`) and the
  connection is kept, though `Content-length` announced more. `WireInOrder` says
  that this is the only way to a short response.

## Proofs

Each `XProofs` module proves an inductive invariant `Inv` of `X!Spec` (`Init`
implies it, one lemma per action or per group of actions preserves it), and from
it the safety properties that a run checks. The proofs hold for every value of
the constants that satisfies the assumptions stated next to them.

Induction over data is replaced by a minimal counterexample: a set of naturals
that is not empty has a smallest element (`SmallestOf`, from the well-founded
order of the library), so the first index at which a claim about a recursive
function fails has a predecessor at which it holds.

### Worker

For any sets of blocks, nodes and pids (`WorkerAssumption`: `None` is none of
them, and the list limit is a natural number), every behaviour satisfies
`TypeOK`, `TimerSound`, `OneWatch`, `EventsFit`, `ChildOwned` and
`ResponseTimeout`, and implements `Connection` (`WorkerImplementsConnection`).

`Inv` is the conjunction of these and `BatchDone`, that no event is left once the
loop has left the dispatch. No part is inductive alone. A handler removes the
timer of its block, so it needs an open block with a timer (`TimerSound`); that
the block is open follows from `OneWatch`; that `OneWatch` survives the handler
needs that the handler belongs to the state (`EventsFit`), and that accepting or
expiring meets no pending event of the block needs `BatchDone` and `OneWatch`.
`ChildOwned` needs `EventsFit` to know that a request that starts a CGI has none.
Steps are grouped into those that keep the connection, those that close it, and
the rest (`StepKinds`), with a lemma for the shape of each group (`KeepShape`,
`CloseShape`) and one lemma per conjunct.

### Exchange

For any clients, any tree and any limits (`ExchangeAssumption`: the clients send
bytes, the document root is a string of bytes and exists, the lengths are positive;
`UriAssumption`; `RealAssumption`: a real path starts with a slash, has no empty
segment and no slash at its end, as `realpath` gives it): `ExTypeOK`,
`BufferIsStream`, `NothingLeaks`, `ServedUnderRoot` and `WireInOrder` in
`ExchangeProofs`; `ParsesAsReference`, `OverflowOnlyTooLong`, `PointersInOrder`,
`NormalisedSoFar` and `RightAnswers` in `ParserProofs`.

`InPhase` carries the argument: it says which phase of the request belongs to
every place in the handlers, and that behind a blocked response the connection
is kept only if the request is already gone from the buffer (`request_done` ran
before the wait). Without it `do_write` could return to reading with headers of
the answered request in the list, or with a parse phase of 2. `Clean` adds that
there is a response only while one is sent, and that a CGI path has given its
headers back before it is decoded; `Shapes` has the sequences and the values the
steps compute with, `OutOK` the types of the response.

- The buffer: a read appends to a piece of the stream the bytes behind it, and
  `BufferMoved` shows that what `request_done` keeps is the piece behind the last
  request.
- The version: the table lets only digits pass where the parser takes the value
  of a byte (`FirstDigits`, `VersionTyped`).
- `zv_http_handle_header` is a fold over the header list. `KeepIsBoolean` shows
  that the fold is defined by giving the function it computes, the last header
  that decides or the default.
- The path check compares bytes, the property compares segments with their
  numbers (`Numbered`). `UnderRootIsBelow` shows that a prefix that ends at the
  end of the path or before a slash has the same segments, each ending at the
  same place (`SameEnd`).
- The wire: `WInv` says that it can be cut at positions `e[1] <= e[2] <= ...` so
  that part `k` holds the first `e[k] - e[k - 1]` units of response `k` in order,
  and that for the response being sent this is the number `try_send` has counted
  (`hsent + bsent + off`). It needs `Flags`: a response waits for the socket
  exactly while `writing` is set, so that nothing is begun behind one that is not
  over. `CutGot` and `CutFlat` give from it the counts and the flattened sequence
  of `WireInOrder`.

### The parsers

The parsers keep a state, a position, pointers into the buffer and the header
list between two reads; the reference (`Request` of `HttpParse`) describes a
complete request by its delimiters. `ParserProofs` shows that they agree for every
stream, every split of it, every `MaxBuf` and any number of pipelined requests.

`PInv`, on top of `Inv`, speaks of positions in the client's stream and not of the
buffer, so that reads and the move of the buffer leave it alone (`BufferIsStream`
carries a pointer over to the stream):

- `ParserAt`: `LineAt` gives for every state of the request line what lies between
  its start and the place the parser has come to, with the pointers set so far and
  those that are still null (`LaterNull`, which is why `request_end` has to be
  reset); `Line` is a complete line, `HeaderAt` the same for a header, and `Chain`
  says that the nodes of the list are the headers read so far, each beginning
  where the one before it ends.
- `Found`: what `do_request` handles is the request of the reference.
- `CauseNone`, `NoneRefused`: what was refused was no request, or was too long.

The argument has three parts. A byte for which a table has an edge takes `LineAt`
and `HeaderAt` of its state to that of the next one, one lemma a state
(`LineStep`, `HeaderStep`). What is read at the end is a `Shape`, and a `Shape`
followed by a header block is what `Request` finds (`RequestOfShape`); the header
block of the reference is a recursive function over the positions, which is shown
to be defined and unfolded along the `Chain` from the newest header to the oldest.
In the other direction, as long as a request is there the parser goes on: a
position inside a request determines which delimiter comes next, so a byte without
an edge, the end of the input before the end of the request, or a full buffer
contradict the `Shape` of a request (`LineGoes`, `HeadersGo`), and a request found
in a part of the stream is the same in the whole (`RequestLonger`).

### Paths

`percent_decode` and `normalize_abs_path` go through the path once, from left to
right; the reference looks at all of it at once. `NormalisedSoFar` is proved for
every path, `Cap` (`SHORTLINE`) and `MaxSegs` with `2 * MaxSegs >= Cap`, part of
`UriAssumption`, which the code satisfies with 256 slots and 512 bytes. `UriInv`
says of each place in the two loops:

- `Decoding`: what is in `decoded` stands for the bytes and escapes that start
  before `ui`, and none of them is refused (`DecodedTo`). It is never longer than
  what was read, so the check for room does not fail.
- `Normal`: the loop is at the end of a segment, every `..` up to there had a
  segment to take back, and behind a segment that stays there are exactly as many
  names more than `..` as there are segments that stay (`Balanced`); `norm` is
  those segments, each behind a slash, and `stack` has the length after each
  (`Written`). `Balanced` is what makes the top of the stack the segment that the
  next `..` matches in the reference.
- `Accepted`, `Rejected`: the result, which is kept until the next request.

A segment of `norm` takes at least two bytes, and `norm` is never longer than what
was read: `Len(norm) <= ui` and `2 * Len(stack) <= Len(norm)`. So with the bound on
`MaxSegs` a path that was decoded is refused only because a `..` climbs above the
root, and then the whole path climbs (`ClimbsLonger`).

`Ascending` lists a set of positions in order, the element at `k` being the one
with `k` members up to it; a position behind all others is appended to the list
(`Rank`, `Ascending` lemmas), which is how a step of a loop meets the reference.

### The answers

`RightAnswers` compares each answer with the request the reference finds, long after
the parser has left it. `AInv`, on top of `PInv` and `UriInv`, carries the request
through `do_request`:

- `OneAnswerEach`: there are as many answers as requests, and one fewer between the
  end of the headers and the answer; without it the answer could be that of the
  request before.
- `MethodIs`: `method` is what the method words of the requests so far leave in it
  (`MethodIn`, a recursive function over them), and that of this one once its word is
  read; `MethodOwn` draws from it that a word the parser does assign counts alone.
- `RequestIs`: the URI, the version and the header list at hand are those of the last
  request in `reqs`, the headers until they are given back. The list is newest first
  and the reference goes through the headers in their order, so the last of one is
  the first of the other.
- `PathIs`, `FileIs`: the path that is decoded is that of the URI, and the name that
  is looked up is that of its normal form (`Accepted` and `Rejected` of `UriInv`).
- `AnswerIs`: the property, for the answer once given.

A 403 needs the converse of `UnderRootIsBelow`: a path whose numbered segments
include those of the root has the root's real path as a prefix, with its end or a
slash behind. It holds for real paths in canonical form (`RealAssumption`) and fails
for `/` (see the findings).

### CgiStream

For any output of the child and any sizes of the buffers (`CgiAssumption`: the
header buffer has two bytes and is smaller than the body buffer, which the
declarations in the code satisfy): `CgiTypeOK`, `ReadsOnlyWhenSent`,
`WellFramed`, `Delivered` and `CompleteWhenDone`.

The properties speak of what the client reconstructs, the invariant of what the
server knows. `SendOrder` says that the counters of header, prefix, body and
suffix fill up one after another; `FrameOf(sent)` is the state of the client's
framing that the counters stand for, and `Framed` says that it is the one the
wire is in. `Ascending` and `Gapless` relate the data decoded to the part of the
chunk not yet sent and to the bytes read; `HeaderSoFar` says that before the end
of the header is seen the buffer holds all that was read. The three steps of the
argument are: `ChunkUnit` and `FinalUnit`, which unit of the iovec follows `j`
units and which counter counts it; `WriteUnits`, a write of `n` units moves the
framing and the data as the counters say (by the minimal counterexample over
`n`); and `PrefixOffset`, the end of the header found in a prefix of the output
is that of the whole output, wherever the read stopped, the overlap of LF LF with
CR LF CR LF included.

### TimerQueue

For any requests and deadlines: `TqTypeOK` (indices below the size of the array),
`HeapOrder`, `NoOversleep`, the action property `ExpireComplete`, and the
refinement of `TimerSet` (`Refines`).

`HeapOrder` is stated with the one node that `swim` or `sink` is moving, so that
it holds between two exchanges; the invariant adds that no node is in the heap
twice (`Distinct`), that a request and its node know each other until the timer
is cancelled or expires (`Links`), and that the loop does not go on before the
repair is over (`Repairing`). That the root is the earliest deadline follows from
`HeapOrder` by the minimal counterexample over the index. The refinement also
needs `OpenWhileSet`.

### Master

For any number of workers and signals: `MasterTypeOK`, `EveryWorkerTold`,
`LeftPerSignal`. The invariant adds what the loops have done so far: everyone before
`i` is told (`ToldSoFar`), and those before `i` that are not reaped (`Passed`) are no
more than the signals (`JoinedSoFar`); and that the last loop blocks only for a
worker that was started (`BlockedOnWorker`), so that a signal skips one at most
(`PassOne`).

### ThreadPool

For any number of tasks and any number of threads but zero (`threadpool_init`
refuses a count below one, and numbers its threads): `PoolTypeOK`, `RunsOnce`,
`DestroyedClean` and `NoSleepOverWork`. The invariant says
where a task can be without counting (`Placed`), and which threads exist and why
one has ended (`ThreadsInv`): in a graceful shutdown only when the list is empty,
which is what makes `DestroyedClean` true although the threads end one by one.
`NoSleepOverWork` is inductive together with the fact that nobody sleeps once the
shutdown has begun: a task comes with a woken thread, a thread that takes a task was
on its way to one, and a thread goes to sleep only over an empty list.

### Only model-checked

Liveness (`SilentIsClosed`, `Completes`, `OneDownAllDown`, `DestroyReturns`,
`TasksRun`, `Answered`), because fairness and ENABLED are outside the prover, and the
seven findings, which are counterexamples.

## Plan

1. Done: `Worker` with `Connection` and proofs; `CgiStream`; `TimerQueue` with
   `TimerSet`; `Master`; `ThreadPool`.
2. Done: `Exchange` on `HttpParse` and `UriPath`: request buffer and parsers,
   header list, URI check, response sender, in one run.
3. Done: proofs about `Worker`, `CgiStream`, `TimerQueue` with its refinement of
   `TimerSet`, `Master`, `ThreadPool`, `Exchange`, its parsers, its paths and its
   answers.
4. Later: the accept queue with edge-triggered listening in `Worker`.

## Not modelled

- Configuration and command line, list macros, logging: sequential code without
  state that outlives a call; `rio.c` is not used by the server.
- The environment and `exec` of a CGI child, CPU affinity and socket options.
- Allocation failures, except those of header nodes and error pages in
  `Exchange`: in `ThreadPool` a task that cannot be allocated is reported as
  added (`threadpool.c:92`), and blocks are always available in `Worker`.
- The two epoll items of a block, which are lost when the free list is full
  (`http_request_cache.c:51`), and the queue of connections behind an `accept`
  that fails for want of descriptors (`worker.c:183`).
- A second call of `threadpool_destroy` (`threadpool.c:152`), which no code makes.
