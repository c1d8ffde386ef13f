SPECIFICATION Spec
CONSTANTS
    p1 = p1
    p2 = p2
    p3 = p3
    A = A
    B = B
    r1 = r1
    r2 = r2
    Absent = Absent
    None = None
    Partial = Partial
    Places <- MCAll
    Requests = {r1}
    Paths = {p1}
    Contents = {A, B}
    CacheSize = 1
    MaxLeftovers = 0
SYMMETRY MCSymmetry
INVARIANTS
    UrlNamesContent
