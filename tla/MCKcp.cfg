CONSTANTS
    a = a
    b = b
    Peers <- MCPeers
    Other <- MCOther
    FragLimit = 3
    SndWnd = 2
    RcvWnd = 3
    Sizes <- MCSizes
    MaxNet <- MCMaxNet
SPECIFICATION KcpFairSpec
PROPERTIES ImplementsStream AllReceived
