CONSTANTS
    c1 = c1
    c2 = c2
    c3 = c3
    c4 = c4
    g1 = g1
    g2 = g2
    Conns <- MCConns
    Logins <- MCLogins
    Gates <- MCGates
    GateOf <- MCGateOf
SPECIFICATION FairSpec
INVARIANTS OwnSession LoadsAfterSave
PROPERTIES NotLockedOut NoGhost
CHECK_DEADLOCK FALSE
