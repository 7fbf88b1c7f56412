SPECIFICATION FairSpec
CONSTANTS
    Conn = {1, 2}
    Sends <- MCSends
    web1 = web1
    web2 = web2
    local = local
    Ip = {i1}
    Name = {web1, web2, local}
    WebName = {web1, web2}
    MultiLogin = {web2}
    Bannable = {i1, web1}
    MaxLoginAttempts = 2
    LoginDelay = TRUE
    MaxCommands = 1
    Denied = Denied
    None = None
INVARIANTS TypeOK QueueWaitsForAnswer
PROPERTIES  WebLoginAnswered
CHECK_DEADLOCK FALSE
