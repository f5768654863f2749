\* From a lab to another and away: a socket stays behind (useTrafficWebSocket.js:176).
SPECIFICATION WebSpec
CONSTANTS
    MaxVisits = 2
    MaxBuilds = 2
    MaxPlace = 2  MaxRequests = 2  MaxGestures = 2
    labA = labA  labB = labB  Labs = {labA, labB}
    Sockets = {s1, s2, s3}
    n1 = n1  n2 = n2  n3 = n3  Nodes = {n1, n2, n3}
    i1 = i1  i2 = i2  Ifaces = {i1, i2}
    Texts = {t1}
    Home <- MCHome
    Wires <- MCWires  SrcDefault = i1  DstDefault = i2
INVARIANT NoFeedAfterwards
CHECK_DEADLOCK FALSE
