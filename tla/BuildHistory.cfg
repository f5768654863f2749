\* A build with several tool calls to a completion; no fault.
SPECIFICATION Spec
CONSTANTS
    Runs = {r1}
    LabIds = {l1, l2}
    NoLab = NoLab
    DefaultCap = 2
    HardCap = 4
    Asked <- MCAsked
    MaxToolCalls = 4
    MaxHistory = 6
    MaxBatch = 2
    Faults = {}
INVARIANT ResultsFollowTheirTurn
CHECK_DEADLOCK FALSE
