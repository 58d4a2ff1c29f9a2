SPECIFICATION Spec
CONSTANTS
    c1 = c1
    c2 = c2
    s1 = s1
    s2 = s2
    X = X
    Y = Y
    T = T
    U = U
    NoSock = NoSock
    NoSession = NoSession
    Clients = {c1, c2}
    Servers = {s1, s2}
    Sessions = {X, Y, T, U}
    Plans <- CutPlans
ACTION_CONSTRAINT LocalFirst
PROPERTY CancelAborts
CHECK_DEADLOCK FALSE
