------------------------------- MODULE Worker -------------------------------
(***************************************************************************)
(* One worker process of the server: the epoll loop of zv_worker_run, the  *)
(* connection handlers do_request and do_write, the CGI handlers, the      *)
(* timer of every connection, the pool of request blocks and the CGI       *)
(* children.  A worker is single threaded, so a handler is one action; the *)
(* steps of the loop (wait, dispatch, accept, expire, flush) are separate  *)
(* actions because the kernel and the children run between them.           *)
(*                                                                         *)
(* Data is abstracted to what the handlers branch on: bytes, responses and *)
(* CGI output are not represented (a handler's outcome is a choice among   *)
(* the outcomes its code has), a deadline is the kind of its timeout.      *)
(***************************************************************************)
EXTENDS Naturals, FiniteSets

CONSTANTS Reqs,     \* request blocks (zv_http_request_t) malloc can return
          Nodes,    \* timer nodes (zv_timer_node) malloc can return
          Pids,     \* process ids fork can return
          None,     \* NULL, and pid -1
          FreeMax   \* ZV_REQUEST_FREELIST_MAX

ASSUME WorkerAssumption ==
    /\ None \notin Reqs /\ None \notin Nodes /\ None \notin Pids
    /\ {"freed", "deleted"} \cap Reqs = {}
    /\ FreeMax \in Nat

VARIABLES
    pc,        \* where the loop of zv_worker_run is
    listening, \* the listening socket's event is in the current batch
    pend,      \* events of a block in the current batch, not yet dispatched
    st,        \* "unused" (not malloc'ed), "open", "deferred", "free"
    armed,     \* event the connection's one-shot registration waits for
    writing,   \* r->writing
    keep,      \* r->keep_alive
    buffered,  \* r->last > 0: request bytes in r->buf
    cgi,       \* "none", "run", "eof", or "lost": running without an epoll item
    cgiArmed,  \* r->cgi_out_fd's one-shot registration is armed
    pid,       \* r->cgi_pid
    timer,     \* r->timer
    tmo,       \* the timeout that the key of r's timer was computed from
    node,      \* timer nodes: "freed", or in the heap: "deleted", else node->rq
    proc,      \* children: "none", "running", "killed" (SIGKILL sent), "zombie"
    holders,   \* children that inherited the open connection's descriptor
    ghost      \* children that keep an armed registration of a closed socket

loopVars  == <<pc, listening, pend>>
connVars  == <<st, armed, writing, keep, buffered>>
cgiVars   == <<cgi, cgiArmed, pid>>
timerVars == <<timer, tmo, node>>
childVars == <<proc, holders, ghost>>
vars      == <<loopVars, connVars, cgiVars, timerVars, childVars>>

Phases   == {"head", "dispatch", "accept", "expire", "flush", "stopped", "misdirected"}
Timeouts == {"none", "idle", "request"}
Events   == {"in", "out", "cgi"}

TypeOK ==
    /\ pc \in Phases
    /\ listening \in BOOLEAN
    /\ pend \in [Reqs -> SUBSET Events]
    /\ st \in [Reqs -> {"unused", "open", "deferred", "free"}]
    /\ armed \in [Reqs -> {"off", "in", "out"}]
    /\ writing \in [Reqs -> BOOLEAN]
    /\ keep \in [Reqs -> BOOLEAN]
    /\ buffered \in [Reqs -> BOOLEAN]
    /\ cgi \in [Reqs -> {"none", "run", "eof", "lost"}]
    /\ cgiArmed \in [Reqs -> BOOLEAN]
    /\ pid \in [Reqs -> Pids \cup {None}]
    /\ timer \in [Reqs -> Nodes \cup {None}]
    /\ tmo \in [Reqs -> Timeouts]
    /\ node \in [Nodes -> Reqs \cup {"freed", "deleted"}]
    /\ proc \in [Pids -> {"none", "running", "killed", "zombie"}]
    /\ holders \in [Reqs -> SUBSET Pids]
    /\ ghost \in [Reqs -> SUBSET Pids]

Init ==
    /\ pc = "head"
    /\ listening = FALSE
    /\ pend = [r \in Reqs |-> {}]
    /\ st = [r \in Reqs |-> "unused"]
    /\ armed = [r \in Reqs |-> "off"]
    /\ writing = [r \in Reqs |-> FALSE]
    /\ keep = [r \in Reqs |-> FALSE]
    /\ buffered = [r \in Reqs |-> FALSE]
    /\ cgi = [r \in Reqs |-> "none"]
    /\ cgiArmed = [r \in Reqs |-> FALSE]
    /\ pid = [r \in Reqs |-> None]
    /\ timer = [r \in Reqs |-> None]
    /\ tmo = [r \in Reqs |-> "none"]
    /\ node = [n \in Nodes |-> "freed"]
    /\ proc = [p \in Pids |-> "none"]
    /\ holders = [r \in Reqs |-> {}]
    /\ ghost = [r \in Reqs |-> {}]

-----------------------------------------------------------------------------
(* Timers.  A deleted node stays in the heap until it reaches the top. *)

\* The heap after zv_del_timer(r) marked r's node.
zv_del_timer(r) == [node EXCEPT ![timer[r]] = "deleted"]

\* zv_add_timer on the given heap: a new node, known to r and knowing r.
zv_add_timer(r, timeout, heap) ==
    /\ \E n \in Nodes :
         /\ heap[n] = "freed"
         /\ node' = [heap EXCEPT ![n] = r]
         /\ timer' = [timer EXCEPT ![r] = n]
    /\ tmo' = [tmo EXCEPT ![r] = timeout]

\* Bound: the model has Nodes timer nodes, and every event may need a new one.
HeapRoom(k) == Cardinality({n \in Nodes : node[n] = "freed"}) >= k

-----------------------------------------------------------------------------
(* Closing a connection. *)

\* kill(SIGKILL) followed at once by waitpid(WNOHANG): a child that was still
\* running is usually not dead yet.
AfterKill(s) == CASE s = "running" -> {"killed", "none"}
                  [] s = "zombie"  -> {"none"}
                  [] OTHER         -> {s}

\* Faulty: the child is forgotten, not killed.
zv_free_request_t_NoKill(r, children) ==
    /\ proc' = children
    /\ cgi' = [cgi EXCEPT ![r] = "none"]
    /\ cgiArmed' = [cgiArmed EXCEPT ![r] = FALSE]
    /\ pid' = [pid EXCEPT ![r] = None]
    /\ timer' = [timer EXCEPT ![r] = None]
    /\ tmo' = [tmo EXCEPT ![r] = "none"]

\* zv_free_request_t: kill and try to reap the child, close the CGI pipe, forget
\* the timer (without marking its node).  children is proc at that point.
zv_free_request_t(r, children) ==
    /\ IF cgi[r] = "none"
         THEN proc' = children
         ELSE \E s \in AfterKill(children[pid[r]]) :
                  proc' = [children EXCEPT ![pid[r]] = s]
    /\ cgi' = [cgi EXCEPT ![r] = "none"]
    /\ cgiArmed' = [cgiArmed EXCEPT ![r] = FALSE]
    /\ pid' = [pid EXCEPT ![r] = None]
    /\ timer' = [timer EXCEPT ![r] = None]
    /\ tmo' = [tmo EXCEPT ![r] = "none"]

\* zv_http_close_conn.  close(r->fd) ends the registration only when no child
\* holds the same open file description.
zv_http_close_conn(r, children) ==
    /\ zv_free_request_t(r, children)
    /\ LET gone == {p \in Pids : proc'[p] = "none"}
       IN /\ holders' = [q \in Reqs |-> IF q = r THEN {} ELSE holders[q] \ gone]
          /\ ghost' = [q \in Reqs |->
                         IF q = r /\ armed[r] # "off"
                           THEN (ghost[q] \cup holders[q]) \ gone
                           ELSE ghost[q] \ gone]
    /\ armed' = [armed EXCEPT ![r] = "off"]
    /\ st' = [st EXCEPT ![r] = "deferred"]
    /\ UNCHANGED <<keep, buffered>>

\* Every handler starts with zv_del_timer(r); this is the handler that closes.
DelTimerAndClose(r, children) ==
    /\ zv_http_close_conn(r, children)
    /\ node' = zv_del_timer(r)

\* ... and this the one that keeps the connection, under a new timer.
Restart(r, timeout) == zv_add_timer(r, timeout, zv_del_timer(r))

-----------------------------------------------------------------------------
(* The loop takes the next event of the batch, in the order the kernel chose. *)

Take(r, e) ==
    /\ pc = "dispatch"
    /\ e \in pend[r]
    /\ pend' = [pend EXCEPT ![r] = @ \ {e}]
    /\ UNCHANGED <<pc, listening>>

\* EPOLLERR, or EPOLLHUP/EPOLLRDHUP alone.
ConnError(r) ==
    /\ \E e \in {"in", "out"} : Take(r, e)
    /\ DelTimerAndClose(r, proc)
    /\ UNCHANGED writing

\* do_request: end of file, read or parse error, buffer full, a response that
\* failed, or one that was sent completely and does not keep the connection.
RequestClose(r) ==
    /\ Take(r, "in")
    /\ DelTimerAndClose(r, proc)
    /\ writing' = [writing EXCEPT ![r] = FALSE]

\* do_request: read says EAGAIN, after any number of complete exchanges.
RequestAgain(r) ==
    /\ Take(r, "in")
    /\ \E left \in BOOLEAN, served \in BOOLEAN :
         /\ buffered' = [buffered EXCEPT ![r] = left]
         /\ keep' = [keep EXCEPT ![r] = @ \/ served]
         /\ Restart(r, IF left THEN "request" ELSE "idle")
    /\ armed' = [armed EXCEPT ![r] = "in"]
    /\ UNCHANGED <<st, writing, cgiVars, childVars>>

\* do_request: try_send of a file or of an error page blocks.  An error page of
\* the CGI branch, or for a bad URI, closes the connection and is sent before
\* the buffer is compacted.
RequestBlocked(r) ==
    /\ Take(r, "in")
    /\ \E left \in BOOLEAN, ka \in BOOLEAN :
         /\ buffered' = [buffered EXCEPT ![r] = left]
         /\ keep' = [keep EXCEPT ![r] = ka]
    /\ writing' = [writing EXCEPT ![r] = TRUE]
    /\ armed' = [armed EXCEPT ![r] = "out"]
    /\ Restart(r, "request")
    /\ UNCHANGED <<st, cgiVars, childVars>>

\* do_request: handle_cgi_mvp starts a CGI.  The child inherits every open
\* connection; the connection's own registration stays disarmed.  The item for
\* the pipe may fail to be allocated, and events without item are ignored.
zv_cgi_start(r) ==
    /\ Take(r, "in")
    /\ \E p \in Pids, item \in BOOLEAN :
         /\ proc[p] = "none"
         /\ proc' = [proc EXCEPT ![p] = "running"]
         /\ pid' = [pid EXCEPT ![r] = p]
         /\ holders' = [q \in Reqs |-> IF st[q] = "open" THEN holders[q] \cup {p}
                                                         ELSE holders[q]]
         /\ cgi' = [cgi EXCEPT ![r] = IF item THEN "run" ELSE "lost"]
         /\ cgiArmed' = [cgiArmed EXCEPT ![r] = item]
    /\ keep' = [keep EXCEPT ![r] = FALSE]
    /\ buffered' = [buffered EXCEPT ![r] = TRUE]
    /\ Restart(r, "request")
    /\ UNCHANGED <<st, armed, writing, ghost>>

do_request(r) == \/ RequestClose(r)
                 \/ RequestAgain(r)
                 \/ RequestBlocked(r)
                 \/ zv_cgi_start(r)

-----------------------------------------------------------------------------
(* do_write *)

\* Faulty: a blocked response waits under the idle timeout.
WriteAgain_Idle(r) ==
    /\ Take(r, "out")
    /\ armed' = [armed EXCEPT ![r] = "out"]
    /\ writing' = [writing EXCEPT ![r] = (cgi[r] = "none") \/ @]
    /\ Restart(r, "idle")
    /\ UNCHANGED <<st, keep, buffered, cgiVars, childVars>>

\* The client cannot take all of the response yet (file, error page or CGI).
WriteAgain(r) ==
    /\ Take(r, "out")
    /\ armed' = [armed EXCEPT ![r] = "out"]
    /\ writing' = [writing EXCEPT ![r] = (cgi[r] = "none") \/ @]
    /\ Restart(r, "request")
    /\ UNCHANGED <<st, keep, buffered, cgiVars, childVars>>

\* Faulty: no timer while waiting for the CGI.
WriteMore_NoTimer(r) ==
    /\ Take(r, "out")
    /\ cgi[r] = "run"
    /\ cgiArmed' = [cgiArmed EXCEPT ![r] = TRUE]
    /\ node' = zv_del_timer(r)
    /\ timer' = [timer EXCEPT ![r] = None]
    /\ UNCHANGED <<connVars, cgi, pid, tmo, childVars>>

\* A CGI block has been sent, the pipe is open: read more (c == 2).
WriteMore(r) ==
    /\ Take(r, "out")
    /\ cgi[r] = "run"
    /\ cgiArmed' = [cgiArmed EXCEPT ![r] = TRUE]
    /\ Restart(r, "request")
    /\ UNCHANGED <<connVars, cgi, pid, childVars>>

\* Faulty: the connection is kept after a CGI.
WriteCgiDone_Resume(r) ==
    /\ Take(r, "out")
    /\ cgi[r] = "eof"
    /\ cgi' = [cgi EXCEPT ![r] = "none"]
    /\ armed' = [armed EXCEPT ![r] = "in"]
    /\ Restart(r, "idle")
    /\ UNCHANGED <<st, writing, keep, buffered, cgiArmed, pid, childVars>>

\* The final chunk has been sent (c == 0): one waitpid(WNOHANG), then close.
WriteCgiDone(r) ==
    /\ Take(r, "out")
    /\ cgi[r] = "eof"
    /\ DelTimerAndClose(r, [proc EXCEPT ![pid[r]] = IF @ = "zombie" THEN "none" ELSE @])
    /\ UNCHANGED writing

\* Faulty: closes without zv_del_timer.
WriteFailed_NoDelTimer(r) ==
    /\ Take(r, "out")
    /\ zv_http_close_conn(r, proc)
    /\ writing' = [writing EXCEPT ![r] = (cgi[r] # "none") /\ @]
    /\ UNCHANGED node

\* Sending failed.
WriteFailed(r) ==
    /\ Take(r, "out")
    /\ DelTimerAndClose(r, proc)
    /\ writing' = [writing EXCEPT ![r] = (cgi[r] # "none") /\ @]

\* Faulty: r->writing is not reset.
WriteDone_StillWriting(r) ==
    /\ Take(r, "out")
    /\ cgi[r] = "none"
    /\ UNCHANGED writing
    /\ \/ /\ ~keep[r]
          /\ DelTimerAndClose(r, proc)
       \/ /\ keep[r]
          /\ armed' = [armed EXCEPT ![r] = "in"]
          /\ Restart(r, "idle")
          /\ UNCHANGED <<st, keep, buffered, cgiVars, childVars>>

\* The response is complete: close, or wait for the next request.
WriteDone(r) ==
    /\ Take(r, "out")
    /\ cgi[r] = "none"
    /\ writing' = [writing EXCEPT ![r] = FALSE]
    /\ \/ /\ ~keep[r]
          /\ DelTimerAndClose(r, proc)
       \/ /\ keep[r]
          /\ armed' = [armed EXCEPT ![r] = "in"]
          /\ Restart(r, "idle")
          /\ UNCHANGED <<st, keep, buffered, cgiVars, childVars>>

do_write(r) == \/ WriteAgain(r)
               \/ WriteMore(r)
               \/ WriteCgiDone(r)
               \/ WriteFailed(r)
               \/ WriteDone(r)

-----------------------------------------------------------------------------
(* zv_cgi_on_stdout_ready.  Its early return (no CGI, pipe closed) would drop
   the event; EventsFit says that it is never taken. *)

\* A read error, output over the limit, a header that is too large or too long.
StdoutClose(r) ==
    /\ Take(r, "cgi")
    /\ cgi[r] = "run"
    /\ DelTimerAndClose(r, proc)
    /\ UNCHANGED writing

\* EAGAIN before the end of the CGI header.
StdoutAgain(r) ==
    /\ Take(r, "cgi")
    /\ cgi[r] = "run"
    /\ cgiArmed' = [cgiArmed EXCEPT ![r] = TRUE]
    /\ Restart(r, "request")
    /\ UNCHANGED <<connVars, cgi, pid, childVars>>

\* Faulty: the pipe is armed again together with the socket.
StdoutSend_Both(r) ==
    /\ Take(r, "cgi")
    /\ cgi[r] = "run"
    /\ \E end \in {"run", "eof"} : cgi' = [cgi EXCEPT ![r] = end]
    /\ armed' = [armed EXCEPT ![r] = "out"]
    /\ cgiArmed' = [cgiArmed EXCEPT ![r] = TRUE]
    /\ Restart(r, "request")
    /\ UNCHANGED <<st, writing, keep, buffered, pid, childVars>>

\* A block of output, or end of file: turn to the client.
StdoutSend(r) ==
    /\ Take(r, "cgi")
    /\ cgi[r] = "run"
    /\ \E end \in {"run", "eof"} : cgi' = [cgi EXCEPT ![r] = end]
    /\ armed' = [armed EXCEPT ![r] = "out"]
    /\ Restart(r, "request")
    /\ UNCHANGED <<st, writing, keep, buffered, cgiArmed, pid, childVars>>

zv_cgi_on_stdout_ready(r) == \/ StdoutClose(r)
                             \/ StdoutAgain(r)
                             \/ StdoutSend(r)

-----------------------------------------------------------------------------
(* Accepting.  A block comes from the free list, or from malloc when the list
   is empty; zv_init_request_t resets it. *)

AcceptBegin ==
    /\ pc = "dispatch"
    /\ listening
    /\ listening' = FALSE
    /\ pc' = "accept"
    /\ UNCHANGED <<pend, connVars, cgiVars, timerVars, childVars>>

zv_http_request_get ==
    IF \E r \in Reqs : st[r] = "free" THEN {r \in Reqs : st[r] = "free"}
                                      ELSE {r \in Reqs : st[r] = "unused"}

zv_init_request_t(r) ==
    /\ writing' = [writing EXCEPT ![r] = FALSE]
    /\ keep' = [keep EXCEPT ![r] = FALSE]
    /\ buffered' = [buffered EXCEPT ![r] = FALSE]
    /\ cgi' = [cgi EXCEPT ![r] = "none"]
    /\ pid' = [pid EXCEPT ![r] = None]

\* A new connection: registered for EPOLLIN, under the idle timeout.
Accept(r) ==
    /\ pc = "accept"
    /\ r \in zv_http_request_get
    /\ zv_init_request_t(r)
    /\ st' = [st EXCEPT ![r] = "open"]
    /\ armed' = [armed EXCEPT ![r] = "in"]
    /\ zv_add_timer(r, "idle", node)
    /\ UNCHANGED <<loopVars, cgiArmed, childVars>>

\* No memory for the block's epoll item: the block is put back.
AcceptNoItem(r) ==
    /\ pc = "accept"
    /\ r \in zv_http_request_get
    /\ zv_init_request_t(r)
    /\ timer' = [timer EXCEPT ![r] = None]
    /\ st' = [st EXCEPT ![r] = "deferred"]
    /\ pc' = "dispatch"
    /\ UNCHANGED <<listening, pend, armed, cgiArmed, tmo, node, childVars>>

\* accept fails (EAGAIN or another error), or there is no memory for a block.
AcceptEnd ==
    /\ pc = "accept"
    /\ pc' = "dispatch"
    /\ UNCHANGED <<listening, pend, connVars, cgiVars, timerVars, childVars>>

-----------------------------------------------------------------------------
(* The loop *)

\* Faulty: disarmed registrations deliver events too.
zv_epoll_wait_Disarmed ==
    /\ pc = "head"
    /\ HeapRoom(Cardinality(Reqs))
    /\ pc' = "dispatch"
    /\ listening' \in BOOLEAN
    /\ \E C \in SUBSET {r \in Reqs : st[r] = "open"} :
         /\ pend' = [r \in Reqs |-> IF r \in C THEN {armed[r]} ELSE {}]
         /\ armed' = [r \in Reqs |-> IF r \in C THEN "off" ELSE armed[r]]
    /\ UNCHANGED <<st, writing, keep, buffered, cgiVars, timerVars, childVars>>

\* zv_epoll_wait returns some of the ready events, perhaps none; a one-shot
\* registration is disarmed by the event it delivers.
zv_epoll_wait ==
    /\ pc = "head"
    /\ pc' = "dispatch"
    /\ listening' \in BOOLEAN
    /\ \E C \in SUBSET {r \in Reqs : armed[r] # "off"} :
       \E G \in SUBSET {r \in Reqs : cgiArmed[r]} :
         /\ HeapRoom(Cardinality(C) + Cardinality(G) +
                     IF listening' THEN Cardinality({r \in Reqs : st[r] # "open"}) ELSE 0)
         /\ pend' = [r \in Reqs |-> (IF r \in C THEN {armed[r]} ELSE {}) \cup
                                    (IF r \in G THEN {"cgi"} ELSE {})]
         /\ armed' = [r \in Reqs |-> IF r \in C THEN "off" ELSE armed[r]]
         /\ cgiArmed' = [r \in Reqs |-> cgiArmed[r] /\ r \notin G]
    /\ UNCHANGED <<st, writing, keep, buffered, cgi, pid, timerVars, childVars>>

DispatchEnd ==
    /\ pc = "dispatch"
    /\ ~listening
    /\ \A r \in Reqs : pend[r] = {}
    /\ pc' = "expire"
    /\ UNCHANGED <<listening, pend, connVars, cgiVars, timerVars, childVars>>

\* zv_find_timer and zv_handle_expire_timers free deleted nodes at the top.
PopDeleted(n) ==
    /\ pc \in {"head", "expire"}
    /\ node[n] = "deleted"
    /\ node' = [node EXCEPT ![n] = "freed"]
    /\ UNCHANGED <<loopVars, connVars, cgiVars, timer, tmo, childVars>>

\* A node that is due: its handler closes the connection, the node is freed.
Expire(n) ==
    /\ pc = "expire"
    /\ node[n] \in Reqs
    /\ zv_http_close_conn(node[n], proc)
    /\ node' = [node EXCEPT ![n] = "freed"]
    /\ UNCHANGED <<loopVars, writing>>

\* No node is left, or the first one is not due.
ExpireEnd ==
    /\ pc = "expire"
    /\ pc' = "flush"
    /\ UNCHANGED <<listening, pend, connVars, cgiVars, timerVars, childVars>>

\* zv_http_request_deferred_flush: to the free list, or freed when it is full.
Flush(r) ==
    /\ pc = "flush"
    /\ st[r] = "deferred"
    /\ st' = [st EXCEPT ![r] =
                IF Cardinality({q \in Reqs : st[q] = "free"}) >= FreeMax
                  THEN "unused" ELSE "free"]
    /\ UNCHANGED <<loopVars, armed, writing, keep, buffered, cgiVars, timerVars, childVars>>

FlushEnd ==
    /\ pc = "flush"
    /\ \A r \in Reqs : st[r] # "deferred"
    /\ pc' = "head"
    /\ UNCHANGED <<listening, pend, connVars, cgiVars, timerVars, childVars>>

\* zv_stop is set when the loop tests it.
Stop ==
    /\ pc = "head"
    /\ pc' = "stopped"
    /\ UNCHANGED <<listening, pend, connVars, cgiVars, timerVars, childVars>>

\* An event of a socket that was closed while a child held it: the loop runs the
\* handler of a block that is closed, freed or serving another client.  What
\* the program does from there is not modelled.
Misdirect ==
    /\ pc = "head"
    /\ \E r \in Reqs : ghost[r] # {}
    /\ pc' = "misdirected"
    /\ UNCHANGED <<listening, pend, connVars, cgiVars, timerVars, childVars>>

\* A child exits, by itself or by SIGKILL; the kernel closes its descriptors.
ChildExit(p) ==
    /\ proc[p] \in {"running", "killed"}
    /\ proc' = [proc EXCEPT ![p] = "zombie"]
    /\ holders' = [r \in Reqs |-> holders[r] \ {p}]
    /\ ghost' = [r \in Reqs |-> ghost[r] \ {p}]
    /\ UNCHANGED <<loopVars, connVars, cgiVars, timerVars>>

HandleEvent(r) == ConnError(r) \/ do_request(r) \/ do_write(r) \/ zv_cgi_on_stdout_ready(r)

Loop == \/ zv_epoll_wait
        \/ \E r \in Reqs : HandleEvent(r)
        \/ AcceptBegin
        \/ \E r \in Reqs : Accept(r) \/ AcceptNoItem(r)
        \/ AcceptEnd
        \/ DispatchEnd
        \/ \E n \in Nodes : PopDeleted(n) \/ Expire(n)
        \/ ExpireEnd
        \/ \E r \in Reqs : Flush(r)
        \/ FlushEnd

Next == \/ Loop
        \/ Stop
        \/ Misdirect
        \/ \E p \in Pids : ChildExit(p)

Spec == Init /\ [][Next]_vars
-----------------------------------------------------------------------------
(* What the worker promises. *)

\* Timers: a node of the heap that is not deleted belongs to an open connection
\* and is the one r->timer points to, r->timer never points to a freed or deleted
\* node, and a connection that is open always has one: it cannot outlive its
\* timeout, and a timeout never closes somebody else's connection
\* (zv_add_timer, zv_del_timer, zv_handle_expire_timers and all their callers).
TimerSound ==
    /\ \A n \in Nodes : node[n] \in Reqs => timer[node[n]] = n
    /\ \A r \in Reqs : timer[r] # None => st[r] = "open" /\ node[timer[r]] = r
    /\ \A r \in Reqs : st[r] = "open" => timer[r] # None

\* The two one-shot registrations of a request, its socket and its CGI pipe, and
\* the events taken from them but not yet dispatched: an open connection has
\* exactly one (so a handler never finds its block closed by an earlier event
\* of the batch, and no wakeup is lost), a closed one has none.  The exception
\* is a CGI without epoll item, which only its timer ends.
OneWatch ==
    \A r \in Reqs :
        \/ armed[r] = "off" /\ ~cgiArmed[r] /\ pend[r] = {}
           /\ (st[r] # "open" \/ cgi[r] = "lost")
        \/ armed[r] # "off" /\ ~cgiArmed[r] /\ pend[r] = {} /\ st[r] = "open"
        \/ armed[r] = "off" /\ cgiArmed[r] /\ pend[r] = {} /\ st[r] = "open"
        \/ armed[r] = "off" /\ ~cgiArmed[r] /\ st[r] = "open"
           /\ \E e \in Events : pend[r] = {e}

\* The handler an event leads to fits the state its connection is in: requests
\* are read only when no response is being written and no CGI runs, EPOLLOUT is
\* awaited only with something to write, the pipe only while it is open.
EventsFit ==
    \A r \in Reqs :
        /\ (armed[r] = "in" \/ "in" \in pend[r]) => ~writing[r] /\ cgi[r] = "none"
        /\ (armed[r] = "out" \/ "out" \in pend[r]) =>
              \/ writing[r] /\ cgi[r] = "none"
              \/ ~writing[r] /\ cgi[r] \in {"run", "eof"}
        /\ (cgiArmed[r] \/ "cgi" \in pend[r]) => ~writing[r] /\ cgi[r] = "run"

\* Children: one that runs without having been killed belongs to an open
\* connection, and the pid a connection will kill is an unreaped child of its
\* own (zv_cgi_start, zv_free_request_t).
ChildOwned ==
    /\ \A p \in Pids : proc[p] = "running" =>
         \E r \in Reqs : st[r] = "open" /\ cgi[r] # "none" /\ pid[r] = p
    /\ \A r \in Reqs : cgi[r] # "none" =>
         /\ pid[r] \in Pids
         /\ proc[pid[r]] \in {"running", "zombie"}
         /\ \A q \in Reqs : cgi[q] # "none" /\ pid[q] = pid[r] => q = r

\* A response or a CGI in progress is under the request timeout, never under the
\* idle one.
ResponseTimeout ==
    \A r \in Reqs : st[r] = "open" /\ (writing[r] \/ cgi[r] # "none") =>
        tmo[r] = "request"

\* http.c:592 "If we already buffered some request data (or are mid-parse),
\* treat it as in-flight", and util.h: keep_alive_timeout_ms is the "idle
\* connection timeout".  do_write does not look at the buffer (http.c:886).
IdleTimerOnlyWhenIdle ==
    \A r \in Reqs : st[r] = "open" /\ tmo[r] = "idle" => ~buffered[r]

\* http_request.c:244 "closing a file descriptor will cause it to be removed from
\* all epoll sets automatically": no event of a closed connection arrives.
NoMisdirectedEvent == pc # "misdirected"

\* http_request.h: cgi_pid is there to "kill + waitpid" the child when the
\* connection is closed.  A child the worker has not reaped is still known to a
\* request that can reap it.
ChildReapable ==
    \A p \in Pids : proc[p] # "none" => \E r \in Reqs : cgi[r] # "none" /\ pid[r] = p

\* Fairness: the loop keeps running (epoll_wait returns when the first timer is
\* due), and time passes, so a node that stays in the heap is due eventually.
LiveSpec == /\ Spec
            /\ WF_vars(Loop)
            /\ \A n \in Nodes : SF_vars(Expire(n))

\* No connection hangs: one that is open and gets no event is closed by its
\* timer.
SilentIsClosed ==
    \A r \in Reqs : []<>(\/ st[r] # "open"
                         \/ pend[r] # {}
                         \/ pc \in {"stopped", "misdirected"})

\* The connections of a worker, seen through what their clients can notice: each
\* one follows the life cycle of Connection, and no step for one connection
\* changes another.
phase == [r \in Reqs |->
            IF st[r] # "open" THEN "closed"
            ELSE IF cgi[r] = "eof" THEN "draining"
            ELSE IF cgi[r] # "none" THEN "cgi"
            ELSE IF writing[r] THEN "sending" ELSE "reading"]

Conn == INSTANCE Connection WITH Conns <- Reqs, phase <- phase, deadline <- tmo

\* The worker implements Connection (stated for PROPERTY, the refinement).
ConnSpec == Conn!Spec
=============================================================================
