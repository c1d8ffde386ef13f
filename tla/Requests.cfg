SPECIFICATION MCSpec
CONSTANTS
    Zero = 48
    Lower <- MCLower
    NameSet <- MCNames
    QuerySet <- MCQueries
    Star = 42
    Percent = 37
    Underscore = 95
    Backslash = 92
    PadWidth = 2
    MaxNumber = 105
    Leaves <- MCLeaves
    Files <- MCFiles
    MaxPageBytes = 4
    MaxI64 = 3
    PageNumbers <- MCPageNumbers
    MaxU64 = 7
    MaxU32 = 20
    Blank = Blank
    Junk = Junk
    Opaque = Opaque
    NoAnswer = NoAnswer
    Ladder = {2, 4, 8, 16}
    Widths = {0, 2, 3, 16, 17, 21}
    Addresses = {c, d, p, q}
    Trusted = {p, q}
    MaxHops = 2
    MaxLines = 2
    Lengths = {0, 1, 3, 5}
    Numbers = {0, 1, 2, 3, 4, 5, 6, 8}
    Chunks = {0, 2}
    MaxInterrupts = 2
    MaxReplaced = 1
INVARIANTS
    NamesAreOrdered
    KeysFollowNames
    SearchIsLiteral
    ForgedHopsDoNotCount
    WidthsMeet
    RangeIsRight
    
    ResumedIsWhole
PROPERTIES
    DownloadEnds
CHECK_DEADLOCK FALSE
