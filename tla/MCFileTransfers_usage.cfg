SPECIFICATION Spec
CONSTANTS
    User = {u1, u2}
    Admin = {}
    Channel = {c1}
    Permanent = {c1}
    Name = {n1, n2}
    Size = {2}
    Transfer = {t1, t2, t3}
    MaxTransfers = 1
    DiskQuota = 4
    MaxDiskUsage = 2
    MaxId = 2
    MaxData = 6
    None = None
SYMMETRY Symmetry
INVARIANTS
    DiskUsageKept
