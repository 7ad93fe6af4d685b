\* Rows of up to two cells with projectors of up to two entries, serialized,
\* deserialized into caller-allocated rows, and deep-copied into one buffer.
CONSTANTS
    Vals = {1, 2}
    ObjSerSize <- MCObjSerSize
    ObjDeepSize <- MCObjDeepSize
    NullPtr = NullPtr
    MaxCount = 2
    BufLen = 40
    MaxCalls = 3
INIT Init
NEXT Next
INVARIANTS
    DeserializeWithinArrays
    DeserializeRestoresRow
    DeepCopyWithinBuffer
    DeepCopyIsFaithful
