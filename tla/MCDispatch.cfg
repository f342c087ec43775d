CONSTANTS
    s1 = s1
    s2 = s2
    m1 = m1
    m2 = m2
    w1 = w1
    w2 = w2
    timer = timer
    Services <- MCServices
    Boot = s1
    Msgs <- MCMsgs
    Workers <- MCWorkers
    Others <- MCOthers
    Timer = timer
    Weight <- MCWeight
    Nil = Nil
SPECIFICATION FairSpec
INVARIANTS NoneStranded NoUseAfterFree
PROPERTIES ImplementsActors EverySettled Reclaimed AllStop
