SPECIFICATION FairSpec
CONSTANTS
    main = main
    tag = tag
    c1 = c1
    c2 = c2
    Oid <- MCOid
    Kind <- MCKind
    Links <- MCLinks
    Ref = {main, tag}
    Branch = {main}
    Client = {c1}
    None = None
    Keep = Keep
    Turn = Turn
    Destroyer = Destroyer
    Reader = {}
    MarkBatch = 1
    RepackBatch = 2
    InitialRepositories <- MCRepositories
    MaxPushes = 1
    MaxEvictions = 1
    MaxDeletions = 0
INVARIANTS
    TypeOK
    MarkNeverFails
    IndexExact
PROPERTIES
    AtomicPushWhole
    MaintenanceSettles
    PushAnswered
