SPECIFICATION Spec
CONSTANTS
    r1 = r1
    r2 = r2
    v6a = v6a
    v6b = v6b
    v4 = v4
    net6 = net6
    net4 = net4
    BucketOf <- MCBucketOf
    Requests = {r1, r2}
    Clients = {v6a, v4}
    Buckets = {net6, net4}
    MaxAttempts = 2
    Window = 2
    Block = 3
    Lag = 1
    MaxTime = 5
SYMMETRY MCSymmetry
INVARIANTS
    TypeOK
    BlockIsEarned
    LateLoginsBounded
    GcIsInvisible
PROPERTIES
    BlockStays
