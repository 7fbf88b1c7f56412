SPECIFICATION Spec
CONSTANTS
    Blocks = 3
    InitialTx = 2
    MaxWire = 2
    MaxHistory = 2
    MaxUpdate = 3
    Changes = {{2}, {3}}
    Openings = {1, 3}
    MaxAcks = 2
    None = None
INVARIANTS TypeOK TransmissionGoesOn WindowKept 
CHECK_DEADLOCK FALSE
