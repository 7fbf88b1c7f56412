SPECIFICATION Spec
CONSTANTS
    User = {u1, u2, u3}
    Ip = {i1, i2}
    Account <- SessionAccounts
    Username <- MCUsername
    Channel = {root, c1}
    Root = root
    ChannelName = {n1}
    Capacity = {3}
    MaxUsers = 3
    MaxLoginsPerIp = 1
    OpPasswordKnown = TRUE
    None = None
    amy = amy
    bob = bob
    admin = admin
SYMMETRY Symmetry
INVARIANTS
    TypeOK
    MembershipConsistent
    AdminCacheExact
    OperatorsHaveSessions
    SingleSession
    IpNotOverfull
