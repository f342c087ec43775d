CONSTANTS
    Slots = {s1, s2}
    Clients = {c1, c2, c3}
    Singles = {c3}
    TxLen = 2
SPECIFICATION FairSpec
PROPERTIES
    ImplementsAtomicTx
    EveryoneServed
CHECK_DEADLOCK FALSE
