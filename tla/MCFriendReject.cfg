CONSTANTS
    r1 = r1
    r2 = r2
    Players <- MCPlayers
    Requests <- MCRequests
    Start <- MCStart
    MaxFriends = 1
    MaxPending = 1
SPECIFICATION Spec

PROPERTY RejectDeletesApplication
CHECK_DEADLOCK FALSE
