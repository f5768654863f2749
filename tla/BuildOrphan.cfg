\* A build that fails or is cancelled; no fault.
SPECIFICATION Spec
CONSTANTS
    Runs = {r1}
    LabIds = {l1, l2}
    NoLab = NoLab
    DefaultCap = 2
    HardCap = 4
    Asked <- MCAsked
    MaxToolCalls = 4
    MaxHistory = 6
    MaxBatch = 2
    Faults = {}
INVARIANT NothingOrphaned
CHECK_DEADLOCK FALSE
