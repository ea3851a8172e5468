SPECIFICATION Spec
CONSTANTS
    main = main
    tag = tag
    c1 = c1
    c2 = c2
    Oid <- SmallOid
    Kind <- SmallKind
    Links <- SmallLinks
    Ref = {main}
    Branch = {main}
    Client = {c1, c2}
    None = None
    Keep = Keep
    Turn = Turn
    Destroyer = Destroyer
    Reader = {}
    MarkBatch = 1
    RepackBatch = 2
    InitialRepositories <- MCEmptyRepository
    MaxPushes = 2
    MaxEvictions = 1
    MaxDeletions = 1
SYMMETRY Symmetry
INVARIANTS
    IInv
    ServedRefsConnected
PROPERTIES
    NoLostUpdate
    LiveObjectsKept
    DestroyWaits
