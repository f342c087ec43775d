------------------------------- MODULE MCKcp -------------------------------
EXTENDS Kcp
CONSTANTS a, b
MCPeers == {a, b}
MCOther == [p \in MCPeers |-> IF p = a THEN b ELSE a]
MCSizes == [p \in MCPeers |-> IF p = a THEN <<2, 1, 1>> ELSE <<>>]
MCMaxNet == [p \in MCPeers |-> IF p = b THEN 2 ELSE 1]
=============================================================================
