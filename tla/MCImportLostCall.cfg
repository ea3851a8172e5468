SPECIFICATION Spec
CONSTANTS
    main = main
    dev = dev
    Oid = {1, 2, 3}
    Kind <- MCKind
    Links <- MCLinks
    Branch = {main, dev}
    Remotes <- MCRemotes
    Requests <- MCRequests
    Object = Object
    Other = Other
    None = None
    Withheld = {}
    MaxRedirects = 1
    MaxAttempts = 3
    MaxRegistryFailures = 0
    MaxStorageFaults = 0
    MaxLostCalls = 1
    MaxEvictions = 0
INVARIANTS
    PublishedKept
