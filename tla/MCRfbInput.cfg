\* A keyboard, a mouse or a touch screen with three fingers, and one change of mode.  The
\* user and the server may stop for good.
SPECIFICATION Spec
CONSTANTS
    Scenes = {"keys", "mouse", "touch"}
    MaxFingers = 3
    MaxModes = 1
INVARIANTS
    NoStuckKey
    NoStuckButton
    PointerCatchesUp
    OneGesture
CHECK_DEADLOCK FALSE
