SPECIFICATION Spec
CONSTANTS
    p1 = p1
    p2 = p2
    p3 = p3
    A = A
    B = B
    r1 = r1
    r2 = r2
    Absent = Absent
    None = None
    Partial = Partial
    Places <- MCFixed
    Requests = {r1, r2}
    Paths = {p1, p3}
    Contents = {A, B}
    CacheSize = 1
    MaxLeftovers = 1
SYMMETRY MCExchange
INVARIANTS
    TypeOK
    ThumbsAreWhole
    TmpsAreOwned
    CacheBounded
    RightBytes
    RightThumbs
