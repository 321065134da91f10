----------------------------- MODULE Connection -----------------------------
(***************************************************************************)
(* What a client may rely on: the life cycle of the connections a worker   *)
(* serves, without events, request blocks, timer nodes or processes.  A    *)
(* connection reads requests, sends a response and reads again, or hands   *)
(* over to a CGI for good; it is closed at any time.  While it is open a   *)
(* deadline runs, and it is the request timeout whenever a response is     *)
(* under way.                                                              *)
(***************************************************************************)
CONSTANT Conns

VARIABLES phase,    \* "closed", "reading", "sending", "cgi", "draining"
          deadline  \* "none", "idle", "request"

connVars == <<phase, deadline>>

ConnTypeOK ==
    /\ phase \in [Conns -> {"closed", "reading", "sending", "cgi", "draining"}]
    /\ deadline \in [Conns -> {"none", "idle", "request"}]

Init ==
    /\ phase = [c \in Conns |-> "closed"]
    /\ deadline = [c \in Conns |-> "none"]

Move(c, to, tmo) ==
    /\ phase' = [phase EXCEPT ![c] = to]
    /\ deadline' = [deadline EXCEPT ![c] = tmo]

Open(c)   == phase[c] = "closed" /\ Move(c, "reading", "idle")
Read(c)   == phase[c] = "reading" /\ \E tmo \in {"idle", "request"} : Move(c, "reading", tmo)
Send(c)   == phase[c] = "reading" /\ Move(c, "sending", "request")
Resume(c) == phase[c] = "sending" /\ Move(c, "reading", "idle")
RunCgi(c) == phase[c] = "reading" /\ Move(c, "cgi", "request")
Drain(c)  == phase[c] = "cgi" /\ Move(c, "draining", "request")
Close(c)  == phase[c] # "closed" /\ Move(c, "closed", "none")

Next == \E c \in Conns :
            \/ Open(c) \/ Read(c) \/ Send(c) \/ Resume(c)
            \/ RunCgi(c) \/ Drain(c) \/ Close(c)

Spec == Init /\ [][Next]_connVars
=============================================================================
