SPECIFICATION FairSpec
CONSTANTS
    Peers = {p1, p2}
    DefaultHandshakes = 2
    TCPErrors = FALSE
PROPERTY OthersServed
CHECK_DEADLOCK FALSE
