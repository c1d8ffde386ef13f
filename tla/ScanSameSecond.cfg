SPECIFICATION Spec
CONSTANTS
    lib = lib
    sub = sub
    deep = deep
    dot = dot
    issue = issue
    extra = extra
    none = none
    A = A
    B = B
    X = X
    Parent <- MCParent
    SizeOf <- MCSizeOf
    Nowhere = none
    Absent = Absent
    Folders = {lib, sub}
    Books = {issue, extra}
    Hidden = {}
    Roots = {lib}
    Contents = {A}
    Oversize = {}
    Readable = {A}
    MaxTime = 1
    MaxChanges = 1
    MaxScans = 2
    MaxFaults = 0
    ClockSteps = FALSE
    Restamped = FALSE
INVARIANTS
    RefreshAtAnyTime
CHECK_DEADLOCK FALSE
