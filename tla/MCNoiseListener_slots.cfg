SPECIFICATION FairSpec
CONSTANTS
    Peers = {p1, p2, p3}
    DefaultHandshakes = 2
    TCPErrors = TRUE
INVARIANTS TypeOK SlotsConserved NoConnectionLost
PROPERTIES ShutsDown HandshakesEnd
CHECK_DEADLOCK FALSE
