SPECIFICATION Spec
CONSTANTS
    Capacity = 1
    MaxVersion = 2
    MaxInbox = 1
    MaxFaults = 0
PROPERTIES
    WatchedLibraryIsRefreshed
