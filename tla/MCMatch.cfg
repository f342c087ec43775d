CONSTANTS
    Players = {p1, p2}
    Modes = {1}
    Segments = {0, 1, 2}
    MaxVersion = 2
    MaxAge = 1
    PlayerNum <- MCPlayerNum
    MaxExpand <- MCMaxExpand
SPECIFICATION FairSpec
INVARIANTS
    HandOverUndisturbed
    NothingLeftBehind
    BatchWithinReach
PROPERTIES
    AllocatingResolved
    PairMatched
