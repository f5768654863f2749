\* The colours of a cursor are those the server sent (rfb.js:3345).
SPECIFICATION Spec
CONSTANTS
    HextileSize = 2
    ZrleSize = 2
    Shown <- MCShown
    Back <- A
    Scripts <- ColouredCursor
    Spoken = {}
INVARIANT
    CursorAsSent
CHECK_DEADLOCK FALSE
