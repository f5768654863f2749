\* No fault at all: two requests on one node are enough.  A lab is deleted in the end, and
\* then nothing is left to do.
SPECIFICATION Spec
CONSTANTS
    n1 = n1
    n2 = n2
    l1 = l1
    Nodes <- MCNodes
    Labs <- MCLabs
    LabOf <- MCLabOf
    Requests = {r1, r2}
    NoNode = NoNode
    Faults = {}
INVARIANT NoPhantomWhenQuiet
CHECK_DEADLOCK FALSE
