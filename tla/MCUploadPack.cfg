SPECIFICATION Spec
CONSTANTS
    Oid = {1, 2, 3, 4, 5, 6, 7}
    Kind <- MCKind
    Links <- MCLinks
    None = None
    Absent = Absent
    Tips = {6, 7}
    Wants = {6}
    ClientTips = {5, 6}
    Bases <- MCBases
    Grafts <- MCGrafts
    Depths = {0, 2}
    MaxPushes = 1
    Uploads <- MCUploads
    MaxRequest = 40
    SizeModulus = 64
INVARIANTS
    GunzipExact
    FetchWhole
    FailsOnlyWhenMoved
PROPERTIES
    DeltasResolve
