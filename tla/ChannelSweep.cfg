SPECIFICATION Spec
CONSTANTS
    User = {u1, u2}
    Depth = 4
    None = None
PROPERTIES
    SweepAgrees
