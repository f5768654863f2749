\* Two updates of at most two rectangles on a screen of one or two columns, one move of
\* the viewport.  The server may stop for good.
SPECIFICATION Spec
CONSTANTS
    Widths = {1, 2}
    Rects <- MCRects
    RectCounts = {0, 2}
    MaxUpdates = 2
    MaxMoves = 1
INVARIANTS
    DrawnInOrder
    StaleIsDamaged
    UpdateAsked
    WaitEnds
CHECK_DEADLOCK FALSE
