SPECIFICATION ViewSpec
CONSTANTS
    User = {u1}
    Ip = {i1}
    Account <- TreeAccounts
    Username = {anyone}
    Channel = {root, c1}
    Root = root
    ChannelName = {n1}
    Capacity = {3}
    MaxUsers = 3
    MaxLoginsPerIp = 0
    OpPasswordKnown = FALSE
    None = None
    anyone = anyone
SYMMETRY Symmetry
INVARIANTS
    ForgetsRemovedChannels
