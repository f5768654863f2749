\* An AI build under cancels, disconnects and every fault, until each cap is hit.  A build
\* that has ended does nothing more.
SPECIFICATION FairSpec
CONSTANTS
    Runs = {r1}
    LabIds = {l1, l2, l3}
    NoLab = NoLab
    DefaultCap = 2
    HardCap = 4
    Asked <- MCAsked
    MaxToolCalls = 4
    MaxHistory = 6
    MaxBatch = 2
    Faults = {"disconnect", "cleanup", "db", "crash"}
INVARIANTS
    CostRails
    RegistryNeverLeaks
    EndedMeansSettled
    LastLabCleanedUp
PROPERTIES
    CancelMeansCancel
    BuildEnds
    ImplementsLedger
CHECK_DEADLOCK FALSE
