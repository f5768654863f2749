\* What waits in the queue is drawn as the server sent it (display.js:17).
SPECIFICATION Spec
CONSTANTS
    Widths = {1, 2}
    Rects <- MCRects
    RectCounts = {0, 2}
    MaxUpdates = 2
    MaxMoves = 1
INVARIANT
    DrawnAsSent
CHECK_DEADLOCK FALSE
