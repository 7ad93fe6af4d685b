\* ObColumnInfo values, one with a collation id of 128 or more.
CONSTANTS
    Vals = {1}
    ObjSerSize <- MCObjSerSize
    ColumnInfos <- MCColumnInfos
INIT Init
NEXT Next
INVARIANT
    ColumnInfoRoundTrip
