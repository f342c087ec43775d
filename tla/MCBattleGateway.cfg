CONSTANTS
    p1 = p1
    Players = {p1}
    Convs <- MCConvs
    MaxMsgs <- MCMaxMsgs
SPECIFICATION FairSpec
INVARIANT ReadyAgrees
CHECK_DEADLOCK FALSE
PROPERTIES SnapshotComes GoneLeaves
