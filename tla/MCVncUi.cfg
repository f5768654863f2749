\* Two connections in a row, every offer of the server.  The user may stop for good.
SPECIFICATION Spec
CONSTANTS
    MaxResumes = 1
    MaxNormal = 1
    MaxSessions = 2
    Offers <- MCOffers
INVARIANTS
    ReleasedWhenDown
    UiFollowsRfb
    UserHasAWay
    NoMessageForgotten
    NoReadAhead
CHECK_DEADLOCK FALSE
