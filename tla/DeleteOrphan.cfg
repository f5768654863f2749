\* delete_lab beside other requests on the lab; no fault.
SPECIFICATION ToolSpec
CONSTANTS
    n1 = n1
    n2 = n2
    l1 = l1
    Nodes <- MCNodes
    Labs <- MCLabs
    LabOf <- MCLabOf
    Requests = {r1, r2}
    NoNode = NoNode
    NoLab = NoLab
    Faults = {}
INVARIANT NoOrphanAfterDelete
CHECK_DEADLOCK FALSE
