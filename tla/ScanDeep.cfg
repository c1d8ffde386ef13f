SPECIFICATION Spec
CONSTANTS
    lib = lib
    sub = sub
    deep = deep
    dot = dot
    issue = issue
    extra = extra
    none = none
    A = A
    B = B
    X = X
    Parent <- MCParent
    SizeOf <- MCSizeOf
    Nowhere = none
    Absent = Absent
    Folders = {lib, sub, deep, dot}
    Books = {issue}
    Hidden = {dot}
    Roots = {lib, sub, dot}
    Contents = {A, X}
    Oversize = {X}
    Readable = {A, X}
    MaxTime = 2
    MaxChanges = 2
    MaxScans = 3
    MaxFaults = 2
    ClockSteps = TRUE
    Restamped = FALSE
INVARIANTS
    RowsFollowPaths
    WalkHasParents
    SeenSurvives
    ScanRemovesRest
CHECK_DEADLOCK FALSE
