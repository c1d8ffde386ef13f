SPECIFICATION Spec
CONSTANTS
    Capacity = 1
    MaxVersion = 3
    MaxInbox = 2
    MaxFaults = 1
INVARIANTS
    TypeOK
    NoLostRequest
    NoLostNotice
PROPERTIES
    Promise
    NoticedChangeScanned
    PolledChangeScanned
