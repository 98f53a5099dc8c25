SPECIFICATION RfbSpec
CONSTANTS
    Conn = {1}
    Offers = {"none"}
    MaxMessages = 2
    MaxBroadcasts = 0
CHECK_DEADLOCK FALSE
INVARIANT DisconnectIsHarmless
