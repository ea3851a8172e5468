SPECIFICATION FairSpec
CONSTANTS
    main = main
    dev = dev
    Oid = {1, 2, 3}
    Kind <- MCKind
    Links <- MCLinks
    Branch = {main, dev}
    Remotes <- MCRemotes
    Requests <- MCRequests
    Object = Object
    Other = Other
    None = None
    Withheld = {1}
    MaxRedirects = 1
    MaxAttempts = 3
    MaxRegistryFailures = 2
    MaxStorageFaults = 1
    MaxLostCalls = 1
    MaxEvictions = 1
INVARIANTS
    TypeOK
    AttemptsBounded
    ImportExact
PROPERTIES
    KeepsPromise
    PublicationResumes
    ForeignRowKept
    GivesUpForCause
    JobEnds
