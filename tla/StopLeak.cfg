\* Two nodes of a lab are stopped at the same time; no container dies, the backend stays up.
SPECIFICATION ToolSpec
CONSTANTS
    n1 = n1
    n2 = n2
    l1 = l1
    Nodes <- MCNodes
    Labs <- MCLabs
    LabOf <- MCLabOf
    Requests = {r1, r2}
    NoNode = NoNode
    NoLab = NoLab
    Faults = {}
INVARIANT LastToolStopTearsDown
CHECK_DEADLOCK FALSE
