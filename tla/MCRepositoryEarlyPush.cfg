SPECIFICATION SpecEarly
CONSTANTS
    main = main
    tag = tag
    c1 = c1
    c2 = c2
    Oid <- SmallOid
    Kind <- SmallKind
    Links <- SmallLinks
    Ref = {main, tag}
    Branch = {main}
    Client = {c1}
    None = None
    Keep = Keep
    Turn = Turn
    Destroyer = Destroyer
    Reader = {}
    MarkBatch = 1
    RepackBatch = 2
    InitialRepositories <- MCEmptyRepository
    MaxPushes = 2
    MaxEvictions = 0
    MaxDeletions = 0
INVARIANTS
    RefsConnected
