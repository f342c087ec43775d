CONSTANTS
    Modes = {m1}
    Rooms = {r1, r2, r3}
    Allocs = {a1, a2}
    Refillers = {f1, f2}
    MinIdle = 2
    MaxIdle = 2
SPECIFICATION FairSpec
INVARIANTS
    IdleBounded
    CreatedForCaller
    ClosedForgotten
PROPERTY FlagComesDown
CHECK_DEADLOCK FALSE
