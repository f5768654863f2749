\* One request at a time; no fault.  A loop that waits for itself does nothing more.
SPECIFICATION Spec
CONSTANTS
    Filters = {f1}
    Requests = {r1}
    Clients = {w1}
    Sessions = {s1, s2}
    Interfaces = {i1}
    MaxLines = 1
    BatchMax = 1
    Nobody = Nobody
    None = None
    Faults = {}
INVARIANT TcpdumpEnds
CHECK_DEADLOCK FALSE
