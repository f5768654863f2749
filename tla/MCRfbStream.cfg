\* One script of messages per behaviour: every encoding, each cut at every byte.  A script
\* that was read does nothing more.
SPECIFICATION Spec
CONSTANTS
    HextileSize = 2
    ZrleSize = 2
    Shown <- MCShown
    Back <- A
    Scripts <- MCScripts
    Spoken <- MCSpoken
INVARIANTS
    ReadAsWritten
    WaitsForBytes
    CleanBetween
    CutsMakeNoDifference
CHECK_DEADLOCK FALSE
