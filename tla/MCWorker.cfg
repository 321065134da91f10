SPECIFICATION LiveSpec
CONSTANTS
    Reqs = {r1, r2}
    Nodes = {n1, n2, n3}
    Pids = {p1}
    None = None
    FreeMax = 1
INVARIANTS
    TypeOK
    TimerSound
    OneWatch
    EventsFit
    ChildOwned
    ResponseTimeout
PROPERTIES
    ConnSpec
    SilentIsClosed
CHECK_DEADLOCK FALSE
