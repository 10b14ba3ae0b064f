SPECIFICATION Spec
CONSTANTS
    root = root
    u1 = u1
    k1 = k1
    k2 = k2
    r1 = r1
    r2 = r2
    Users <- MCUsers
    Keys <- MCKeys
    Requests <- MCRequests
    AdminName = root
    MaxKeys = 1
    Changes <- MCChanges
SYMMETRY AccountSymmetry
INVARIANTS
    AdminRemains
    KeyLimit
PROPERTIES
    RevokedStaysRevoked
