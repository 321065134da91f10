SPECIFICATION Spec
CONSTANTS
    Reqs = {r1, r2}
    Nodes = {n1, n2, n3}
    Pids = {p1}
    None = None
    FreeMax = 1
INVARIANT NoMisdirectedEvent
CHECK_DEADLOCK FALSE
