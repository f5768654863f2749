\* Agent tools and HTTP handlers on one lab, two requests at a time.
SPECIFICATION ToolSpec
CONSTANTS
    n1 = n1
    n2 = n2
    l1 = l1
    Nodes <- MCNodes
    Labs <- MCLabs
    LabOf <- MCLabOf
    Requests = {r1, r2}
    NoNode = NoNode
    NoLab = NoLab
    Faults = {"crash", "exit", "rdp"}
SYMMETRY Symmetric
INVARIANTS
    NoPhantomRow
    DeleteLabSweeps
