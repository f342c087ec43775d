CONSTANTS
    Slots = {s1}
    Clients = {c1}
    Singles = {}
    TxLen = 2
SPECIFICATION FairSpec
PROPERTIES
    TxContinued
CHECK_DEADLOCK FALSE
