CONSTANTS
    Players = {p1, p2, p3}
    Leavers = {p1, p2}
SPECIFICATION FairSpec
INVARIANTS
    AllocUndisturbed
    SessionsFreed
    EnoughPlayers
PROPERTIES
    NeverWrittenBack
    LeaveAnswered
    GameEnds
CHECK_DEADLOCK FALSE
