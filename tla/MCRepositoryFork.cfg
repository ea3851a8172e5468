SPECIFICATION ForkSpec
CONSTANTS
    main = main
    tag = tag
    Oid <- MCOid
    Kind <- MCKind
    Links <- MCLinks
    Ref = {main, tag}
    Branch = {main}
    Client = {c1}
    None = None
    Keep = Keep
    Turn = Turn
    Destroyer = Destroyer
    Reader = {Forker}
    Forker = Forker
    MarkBatch = 2
    RepackBatch = 4
    InitialRepositories <- MCRepositories
    MaxPushes = 1
    MaxEvictions = 1
    MaxDeletions = 0
INVARIANTS
    SnapshotStable
    ForkExact
    OnlyUnpushedMissing
