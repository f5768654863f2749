\* One filter under two requests, a browser and every fault.  A loop that waits for
\* itself does nothing more.
SPECIFICATION FairSpec
CONSTANTS
    Filters = {f1}
    Requests = {r1, r2}
    Clients = {w1}
    Sessions = {s1, s2}
    Interfaces = {i1}
    MaxLines = 1
    BatchMax = 1
    Nobody = Nobody
    None = None
    Faults = {"slow", "break", "exit", "start", "crash", "lab"}
INVARIANTS
    RowsMatchCaptures
    NoStrayClient
    LastWordAgrees
PROPERTY LoopResumes
CHECK_DEADLOCK FALSE
