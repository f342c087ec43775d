----------------------------- MODULE MCDispatch -----------------------------
EXTENDS Dispatch
CONSTANTS s1, s2, m1, m2, w1, w2, timer
MCServices == {s1, s2}
MCMsgs == {m1, m2}
MCWorkers == {w1, w2}
MCOthers == {timer}
\* The first worker takes one message at a time, the second a whole queue.
MCWeight == [w \in MCWorkers |-> IF w = w1 THEN -1 ELSE 0]
=============================================================================
