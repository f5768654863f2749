\* The touch screen and two changes of mode: the viewport is dragged, the mode is switched
\* off, and a long press is made.
SPECIFICATION Spec
CONSTANTS
    Scenes = {"touch"}
    MaxFingers = 1
    MaxModes = 2
INVARIANT
    LongPressReleased
CHECK_DEADLOCK FALSE
