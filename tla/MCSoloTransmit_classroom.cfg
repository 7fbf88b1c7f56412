SPECIFICATION FairSpec
CONSTANTS
    u1 = u1
    u2 = u2
    u3 = u3
    server = server
    everyone = everyone
    Server = server
    Everyone = everyone
    None = None
    MaxAge = 2
    StreamId = {1, 2}
    User = {u1, u2}
    Admin = {}
    AudioType = {"voice"}
    Settings <- Classroom
PROPERTIES
    StaleHeadGoes
