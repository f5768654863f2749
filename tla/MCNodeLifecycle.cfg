\* Rows, containers and the lab network under two concurrent requests and every fault.
SPECIFICATION FairSpec
CONSTANTS
    n1 = n1
    n2 = n2
    l1 = l1
    Nodes <- MCNodes
    Labs <- MCLabs
    LabOf <- MCLabOf
    Requests = {r1, r2}
    NoNode = NoNode
    Faults = {"crash", "exit", "rdp"}
INVARIANTS
    NoHiddenContainer
    LastStopTearsDown
PROPERTY UnusedNetworkCollected
