SPECIFICATION Spec
CONSTANTS
    lib = lib
    sub = sub
    deep = deep
    dot = dot
    issue = issue
    extra = extra
    none = none
    A = A
    B = B
    X = X
    Parent <- MCParent
    SizeOf <- MCSizeOf
    Nowhere = none
    Absent = Absent
    Folders = {lib, sub}
    Books = {issue, extra}
    Hidden = {}
    Roots = {lib}
    Contents = {A, B, X}
    Oversize = {}
    Readable = {A, B}
    MaxTime = 2
    MaxChanges = 2
    MaxScans = 2
    MaxFaults = 1
    ClockSteps = FALSE
    Restamped = FALSE
INVARIANTS
    TypeOK
    StampsAreSound
    ScanFindsAll
PROPERTIES
    ScanEnds
CHECK_DEADLOCK FALSE
