\* A four-partition KEY table with an indirection and a tablet array.
CONSTANTS
    W = 8
    PartIdBits = 3
    PartNum = 4
    PartSpace = 1
    PartLevel = "ONE"
    PartFuncType = "KEY"
    PartArray <- MCPartArray4
    TabletArray <- MCTabletArray4
    Garbage <- MCGarbage
    None = None
    Values = {"a", "b", "c"}
    MurmurHash <- MCMurmurHash
    LegacyHash <- MCLegacyHash
    ClusterVersions = {3, 4}
    NeedAccurate = TRUE
    ObjCounts = {1, 2}
    Nums = {0, 5}
    PushMayFail = TRUE
    MaxCalls = 3
INIT Init
NEXT Next
INVARIANTS
    TypeOK
    RoutedPartitionsMatchSpec
