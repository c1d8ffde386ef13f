SPECIFICATION FeedSpec
CONSTANTS
    lib = lib
    sub = sub
    other = other
    issue = issue
    extra = extra
    none = none
    A = A
    B = B
    Parent <- MCParent
    SizeOf <- MCSizeOf
    Rank <- MCRank
    FolderLimit = 1
    BookLimit = 1
    Nowhere = none
    Absent = Absent
    Folders = {lib, sub, other}
    Books = {issue}
    Hidden = {}
    Roots = {lib}
    Contents = {A}
    Oversize = {}
    Readable = {A}
    MaxTime = 2
    MaxChanges = 0
    MaxScans = 3
    MaxFaults = 1
    Searches <- MCSearches
    Asked = {other}
    Framed = {other}
    MaxPaints = 1
    ClockSteps = FALSE
    Restamped = FALSE
INVARIANTS
    FeedTypeOK
    FeedIsOfOneFolder
    CoverIsBelow
    RescansDontFlicker
    FeedShowsLibrary
    CoverMatchesVersion
CHECK_DEADLOCK FALSE
