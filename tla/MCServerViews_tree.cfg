SPECIFICATION ViewSpec
CONSTANTS
    User = {u1, u2}
    Ip = {i1}
    Account <- TreeAccounts
    Username = {anyone}
    Channel = {root, c1, c2}
    Root = root
    ChannelName = {n1, n2}
    Capacity = {3}
    MaxUsers = 3
    MaxLoginsPerIp = 0
    OpPasswordKnown = FALSE
    None = None
    anyone = anyone
SYMMETRY Symmetry
INVARIANTS
    ViewOK
    
    ListsAllUsers
    
    TreeWellFormed
    SiblingNamesDiffer
PROPERTIES
    
    
    
    ImplementsRooms
