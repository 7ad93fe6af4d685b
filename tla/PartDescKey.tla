------------------------------ MODULE PartDescKey ------------------------------
(***************************************************************************)
(* The KEY/HASH partition router ObPartDescKey                             *)
(* (src/share/part/ob_part_desc_key.cpp): get_part maps one literal to a   *)
(* partition id and tablet id, get_part_by_num a partition number.         *)
(*                                                                         *)
(* The caller routes the values of a relation one call after another into  *)
(* the same part_ids / tablet_ids arrays; a cast, accuracy or argument     *)
(* error drops that value and the caller goes on, a failed push_back (out  *)
(* of memory) ends the request.                                            *)
(*                                                                         *)
(* int64_t is scaled to W bits: hashes are W-bit two's complement values, *)
(* OB_PART_IDS_BITNUM is PartIdBits, and `<<` / `|` act on W-bit words.   *)
(***************************************************************************)
EXTENDS Integers, Sequences, Bitwise

CONSTANTS
    W,               \* width of int64_t in the model
    PartIdBits,      \* OB_PART_IDS_BITNUM
    PartNum,         \* part_num_
    PartSpace,       \* part_space_
    PartLevel,       \* part_level_: "ONE" or "TWO"
    PartFuncType,    \* part_func_type_
    PartArray,       \* part_array_: [0..PartNum-1 -> physical id], or None
    TabletArray,     \* tablet_id_array_: [0..PartNum-1 -> tablet id], or None
    Garbage,         \* what an out-of-bounds read of either array may return
    None,            \* NULL
    Values,          \* literals the caller routes
    MurmurHash,      \* [Values -> signed W-bit]: ObObj::hash_murmur as int64_t
    LegacyHash,      \* [Values -> signed W-bit]: ObObj::hash as int64_t
    ClusterVersions, \* cluster versions the session may report
    NeedAccurate,    \* ctx.need_accurate()
    ObjCounts,       \* obj counts of the range start key the caller may pass
    Nums,            \* partition numbers passed to get_part_by_num
    PushMayFail,     \* whether ObIArray::push_back may fail
    MaxCalls         \* bound: values pushed in one request

ASSUME PartNum > 0 /\ W > PartIdBits /\ MaxCalls \in Nat

MinInt == -(2 ^ (W - 1))
Word == 2 ^ W
ToUnsigned(x) == x % Word
ToSigned(u) == IF u >= 2 ^ (W - 1) THEN u - Word ELSE u

\* C's `%` truncates toward zero.
CRem(a, b) == IF a >= 0 THEN a % b ELSE -((-a) % b)

VARIABLES
    partIds,         \* part_ids
    tabletIds,       \* tablet_ids
    ret,             \* return code of the last call
    clusterVersion,  \* ctx.get_cluster_version()
    stopped,         \* the caller gave up after a failed push_back
    routed           \* ghost: what each pushed part id was routed from

vars == <<partIds, tabletIds, ret, clusterVersion, stopped, routed>>

-----------------------------------------------------------------------------

\* Variant that forgets the 4.0-and-later disjunct (selection check).
UseMurmur_pre4_only(ver) == ver < 4 /\ PartFuncType \in {"KEY_V3", "KEY_IMPLICIT_V2"}

\* Lines 69-76: murmur for KEY_V3 / KEY_IMPLICIT_V2 before 4.0, and always
\* from 4.0 on.
UseMurmur(ver) ==
    \/ ver < 4 /\ PartFuncType \in {"KEY_V3", "KEY_IMPLICIT_V2"}
    \/ ver >= 4

HashOf(v, ver) == IF UseMurmur(ver) THEN MurmurHash[v] ELSE LegacyHash[v]

\* Variant without the negation of line 77 (sign check).
PartIdxOutcomes_no_abs(h) == {CRem(h, PartNum)}

\* Line 77: `result_num < 0 ? -result_num : result_num`.  Negating INT64_MIN
\* is undefined; the build either wraps (INT64_MIN stays negative and the
\* signed `%` is negative) or, assuming the result is non-negative, divides
\* it as unsigned.  Line 78 then takes `% part_num_`.
PartIdxOutcomes(h) ==
    IF h = MinInt THEN {CRem(h, PartNum), (-h) % PartNum}
    ELSE {CRem(IF h < 0 THEN -h ELSE h, PartNum)}

\* A read of part_array_ / tablet_id_array_: out of bounds is undefined.
ReadArray(arr, i) == IF i \in DOMAIN arr THEN {arr[i]} ELSE Garbage

\* Lines 79-82: the physical id, through part_array_ for level ONE only.
PhysOutcomes(idx) ==
    IF PartLevel = "ONE" /\ PartArray # None THEN ReadArray(PartArray, idx) ELSE {idx}

\* Line 83: `part_space_ << OB_PART_IDS_BITNUM | part_id` on a W-bit word.
ComposePartId(phys) ==
    ToSigned(ToUnsigned(PartSpace * 2 ^ PartIdBits) | ToUnsigned(phys))

PushResults == IF PushMayFail THEN BOOLEAN ELSE {TRUE}

Init ==
    /\ partIds = <<>>
    /\ tabletIds = <<>>
    /\ ret = "SUCCESS"
    /\ clusterVersion \in ClusterVersions
    /\ stopped = FALSE
    /\ routed = <<>>

CanCall == ~stopped /\ Len(routed) + 1 <= MaxCalls

\* Lines 84-88 (and 105-109): push the part id, then the tablet id of the
\* same logical index; the caller stops when a push fails.
PushPart(idx, src, okPart, okTablet) ==
    \E phys \in PhysOutcomes(idx),
       tab \in IF TabletArray = None THEN {None} ELSE ReadArray(TabletArray, idx) :
        IF ~okPart
        THEN /\ ret' = "ALLOCATE_MEMORY_FAILED" /\ stopped' = TRUE
             /\ UNCHANGED <<partIds, tabletIds, routed>>
        ELSE /\ partIds' = Append(partIds, ComposePartId(phys))
             /\ routed' = Append(routed, src)
             /\ IF TabletArray = None \/ okTablet
                THEN /\ tabletIds' = IF TabletArray = None THEN tabletIds
                                     ELSE Append(tabletIds, tab)
                     /\ ret' = "SUCCESS" /\ stopped' = FALSE
                ELSE /\ ret' = "ALLOCATE_MEMORY_FAILED" /\ stopped' = TRUE
                     /\ UNCHANGED tabletIds

\* get_part: one literal.  Lines 44-47 reject a key of more than one
\* object; lines 52-66 may fail building the cast parameters, casting, or
\* in the accuracy check, and the value is dropped.
get_part ==
    /\ CanCall
    /\ \E v \in Values, cnt \in ObjCounts, okPart, okTablet \in PushResults,
          outcome \in {"ok", "dtc_failed", "cast_failed"}
                      \cup (IF NeedAccurate THEN {"accuracy_failed"} ELSE {}) :
         IF cnt # 1 \/ outcome # "ok"
         THEN /\ ret' = IF cnt # 1 THEN "INVALID_ARGUMENT" ELSE outcome
              /\ UNCHANGED <<partIds, tabletIds, stopped, routed>>
         ELSE \E idx \in PartIdxOutcomes(HashOf(v, clusterVersion)) :
                  PushPart(idx, [value |-> v], okPart, okTablet)
    /\ UNCHANGED clusterVersion

\* get_part_by_num: lines 99-109.
get_part_by_num ==
    /\ CanCall
    /\ \E n \in Nums, okPart, okTablet \in PushResults :
         PushPart(CRem(n, PartNum), [num |-> n], okPart, okTablet)
    /\ UNCHANGED clusterVersion

\* The request is over: every value routed, or a push failed.
Finished ==
    /\ ~CanCall
    /\ UNCHANGED vars

Next == get_part \/ get_part_by_num \/ Finished

Spec == Init /\ [][Next]_vars

-----------------------------------------------------------------------------
(* Properties.                                                             *)

PartitionId == 0..(2 ^ (W - 1) - 1)
RetCodes == {"SUCCESS", "INVALID_ARGUMENT", "dtc_failed", "cast_failed",
             "accuracy_failed", "ALLOCATE_MEMORY_FAILED"}

(* Partition ids are non-negative int64 values.                           *)
TypeOK ==
    /\ partIds \in Seq(PartitionId)
    /\ tabletIds \in Seq(Int)
    /\ ret \in RetCodes
    /\ clusterVersion \in ClusterVersions
    /\ stopped \in BOOLEAN

\* Spec 4.3: the absolute value of the signed hash modulo part_num, the
\* physical id through the indirection array, `(part_space << BITS) | id`.
SpecHash(v) ==
    IF clusterVersion >= 4 \/ PartFuncType \in {"KEY_V3", "KEY_IMPLICIT_V2"}
    THEN MurmurHash[v] ELSE LegacyHash[v]

SpecPartIdx(src) ==
    IF "value" \in DOMAIN src
    THEN LET h == SpecHash(src.value) IN (IF h < 0 THEN -h ELSE h) % PartNum
    ELSE src.num % PartNum

SpecPartId(idx) ==
    PartSpace * 2 ^ PartIdBits
    + (IF PartLevel = "ONE" /\ PartArray # None THEN PartArray[idx] ELSE idx)

(* Every value routed lands where spec 4.3 says: the i-th part id is the   *)
(* partition of the i-th value the caller routed (hash selection, abs,    *)
(* modulo, part_array_ indirection, part space), the i-th tablet id is    *)
(* the tablet of the same logical index, and tablet_ids falls behind      *)
(* part_ids only after the failed push that ended the request.            *)
RoutedPartitionsMatchSpec ==
    /\ \A i \in 1..Len(partIds) : partIds[i] = SpecPartId(SpecPartIdx(routed[i]))
    /\ TabletArray # None =>
          /\ \A i \in 1..Len(tabletIds) : tabletIds[i] = TabletArray[SpecPartIdx(routed[i])]
          /\ Len(tabletIds) = Len(partIds) \/ (stopped /\ Len(tabletIds) = Len(partIds) - 1)

====
