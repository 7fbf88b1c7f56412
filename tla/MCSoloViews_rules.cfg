SPECIFICATION ViewFairSpec
CONSTANTS
    u1 = u1
    u2 = u2
    u3 = u3
    server = server
    everyone = everyone
    Server = server
    Everyone = everyone
    None = None
    MaxAge = 2
    StreamId = {1, 2}
    User = {u1, u2}
    Admin = {u2}
    Observer = u2
    AudioType = {"voice"}
    Settings <- Ruled
INVARIANTS
    TypeOK
    QueueTimed
    OneSpeaker
    QueueOfSenders
PROPERTIES
    KeepsFloor
    KeepsOrder
    MemberShownChanges
    StaleHeadGoes
    LongStreamEnds
