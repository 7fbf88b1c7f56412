SPECIFICATION ClosingSpec
CONSTANTS
    Blocks = 2
    InitialTx = 2
    MaxWire = 2
    MaxHistory = 2
    MaxUpdate = 1
    Changes = {}
    Openings = {1}
    MaxAcks = 1
    None = None
PROPERTIES ClosedSessionTold
CHECK_DEADLOCK FALSE
