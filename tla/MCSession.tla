----------------------------- MODULE MCSession -----------------------------
EXTENDS Session
CONSTANTS c1, c2, c3, c4, g1, g2
MCConns == {c1, c2, c3, c4}
MCLogins == {c1, c3, c4}
MCGates == {g1, g2}
\* Three connections to one gateway and one to another.
MCGateOf == [c \in MCConns |-> IF c = c4 THEN g2 ELSE g1]
=============================================================================
