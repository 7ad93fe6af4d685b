------------------------------- MODULE ObNewRow -------------------------------
(***************************************************************************)
(* ObNewRow (src/common/ob_row.cpp): a row is an array cells_ of count_   *)
(* ObObj cells and an optional projector_ of projector_size_ int32        *)
(* column indexes.  The model follows one row the caller serializes, a    *)
(* row it deserializes into (its arrays allocated by the caller, count_   *)
(* and projector_size_ giving their capacity), and a row it deep-copies   *)
(* into one buffer of BufLen bytes.                                        *)
(*                                                                         *)
(* ob_row.h and ObObj are not part of this repository: get_count and      *)
(* get_cell are written after the header, and a cell's deep copy takes    *)
(* ObjDeepSize extra bytes.  The byte encoding is UnisCodec's.            *)
(***************************************************************************)
EXTENDS Integers, Sequences, SequencesExt, UnisCodec

CONSTANTS
    ObjDeepSize,  \* ObObj::get_deep_copy_size of each value
    NullPtr,      \* a NULL cells_ or projector_
    MaxCount,     \* bound on count_ and projector_size_
    BufLen,       \* len of the deep_copy buffer
    MaxCalls      \* bound on the calls made

VARIABLES
    wire,   \* the bytes the last serialize() wrote
    sent,   \* the row those bytes came from
    dst,    \* the row deserialize() fills
    got,    \* [ret, row]: the last deserialize() and the row its bytes came from
    copy,   \* the row deep_copy() fills
    pos,    \* pos in the deep_copy buffer
    dc,     \* [ret, src, from]: the last deep_copy()
    calls

vars == <<wire, sent, dst, got, copy, pos, dc, calls>>

OBJ_SIZE == 16      \* sizeof(ObObj)
INT32_SIZE == 4     \* sizeof(int32_t)

-----------------------------------------------------------------------------
(* ObNewRow                                                                *)

\* reset()
reset == [cells |-> NullPtr, count |-> 0, proj |-> NullPtr, psize |-> 0]

\* get_count() and get_cell(i) of ob_row.h: through the projector when it
\* has entries; an index out of range gives no cell (NullPtr).
get_count(r) == IF r.psize > 0 THEN r.psize ELSE r.count
get_cell(r, i) ==
    LET real == IF r.psize > 0 THEN r.proj[i + 1] ELSE i
    IN  IF r.cells # NullPtr /\ 0 <= real /\ real < r.count THEN r.cells[real + 1] ELSE NullPtr

\* operator==: the same count and, index by index, both cells absent or
\* both present and equal.
RowEquals(r1, r2) ==
    /\ get_count(r1) = get_count(r2)
    /\ \A i \in 0..get_count(r1) - 1 : get_cell(r1, i) = get_cell(r2, i)

\* The first count_ cells and projector_size_ projector entries of a row.
Cells(r) == IF r.count = 0 THEN <<>> ELSE SubSeq(r.cells, 1, r.count)
Proj(r) == IF r.psize = 0 THEN <<>> ELSE SubSeq(r.proj, 1, r.psize)

\* Mutant: the projector left out of the size.
get_deep_copy_size_no_projector(r) ==
    OBJ_SIZE * r.count + FoldLeft(LAMBDA acc, v : acc + ObjDeepSize[v], 0, Cells(r))

\* get_deep_copy_size(): the cell array, the projector, each cell's data.
get_deep_copy_size(r) ==
    OBJ_SIZE * r.count + INT32_SIZE * r.psize
    + FoldLeft(LAMBDA acc, v : acc + ObjDeepSize[v], 0, Cells(r))

\* serialize(): OB_UNIS_ENCODE_ARRAY of the cells, then of the projector.
RowBytes(r) ==
    EncodeVi(r.count) \o FoldLeft(LAMBDA acc, v : acc \o ObjBytes(v), <<>>, Cells(r))
    \o EncodeVi(r.psize) \o FoldLeft(LAMBDA acc, x : acc \o EncodeVi(x), <<>>, Proj(r))

get_serialize_size(r) ==
    ViLen(r.count) + FoldLeft(LAMBDA acc, v : acc + ObjSerSize[v], 0, Cells(r))
    + ViLen(r.psize) + FoldLeft(LAMBDA acc, x : acc + ViLen(x), 0, Proj(r))

Capacity(arr) == IF arr = NullPtr THEN 0 ELSE Len(arr)

\* arr with its first Len(vals) slots overwritten.
Overwrite(arr, vals) == [i \in DOMAIN arr |-> IF i <= Len(vals) THEN vals[i] ELSE arr[i]]

\* Mutant: `count_ + 1 >= count`.
DecodeHalf_off_by_one(r, b, p, cap, arr, kind) ==
    LET n == Vi(b, p)
        items == DecodeArray(kind, b, n.next, n.val, <<>>)
        stored == [r EXCEPT ![cap] = n.val]
    IN  CASE ~n.ok             -> [ret |-> "OB_DESERIALIZE_ERROR", row |-> r, next |-> n.next]
          [] r[cap] + 1 < n.val -> [ret |-> "OB_ERR_SYS", row |-> r, next |-> n.next]
          [] n.val = 0          -> [ret |-> OK, row |-> stored, next |-> n.next]
          [] r[arr] = NullPtr   -> [ret |-> "OB_NOT_INIT", row |-> stored, next |-> n.next]
          [] OTHER ->
               [ret |-> IF items.ok THEN OK ELSE "OB_DESERIALIZE_ERROR",
                row |-> [stored EXCEPT ![arr] = Overwrite(@, items.vals)],
                next |-> items.next]

\* Mutant: the count read is checked but not stored in count_.
DecodeHalf_no_store(r, b, p, cap, arr, kind) ==
    LET n == Vi(b, p)
        items == DecodeArray(kind, b, n.next, n.val, <<>>)
    IN  CASE ~n.ok            -> [ret |-> "OB_DESERIALIZE_ERROR", row |-> r, next |-> n.next]
          [] r[cap] < n.val    -> [ret |-> "OB_ERR_SYS", row |-> r, next |-> n.next]
          [] n.val = 0         -> [ret |-> OK, row |-> r, next |-> n.next]
          [] r[arr] = NullPtr  -> [ret |-> "OB_NOT_INIT", row |-> r, next |-> n.next]
          [] OTHER ->
               [ret |-> IF items.ok THEN OK ELSE "OB_DESERIALIZE_ERROR",
                row |-> [r EXCEPT ![arr] = Overwrite(@, items.vals)],
                next |-> items.next]

\* One half of deserialize(): the count read at p must not exceed the
\* capacity field (count_ or projector_size_) and is stored in it; then
\* the items are read into the array, which must not be NULL when there
\* are any.  [ret, row, next].
DecodeHalf(r, b, p, cap, arr, kind) ==
    LET n == Vi(b, p)
        items == DecodeArray(kind, b, n.next, n.val, <<>>)
        stored == [r EXCEPT ![cap] = n.val]
    IN  CASE ~n.ok            -> [ret |-> "OB_DESERIALIZE_ERROR", row |-> r, next |-> n.next]
          [] r[cap] < n.val    -> [ret |-> "OB_ERR_SYS", row |-> r, next |-> n.next]
          [] n.val = 0         -> [ret |-> OK, row |-> stored, next |-> n.next]
          [] r[arr] = NullPtr  -> [ret |-> "OB_NOT_INIT", row |-> stored, next |-> n.next]
          [] OTHER ->
               [ret |-> IF items.ok THEN OK ELSE "OB_DESERIALIZE_ERROR",
                row |-> [stored EXCEPT ![arr] = Overwrite(@, items.vals)],
                next |-> items.next]

\* deserialize(): the cells, then (only if they succeeded) the projector.
deserialize(r, b) ==
    LET c == DecodeHalf(r, b, 1, "count", "cells", "obj")
    IN  IF c.ret # OK THEN c ELSE DecodeHalf(c.row, b, c.next, "psize", "proj", "vi")

\* ObObj::deep_copy of each cell into the buffer, from pos: a cell whose
\* data does not fit stops the loop with OB_SIZE_OVERFLOW.
RECURSIVE CopyCells(_, _, _, _)
CopyCells(vals, i, p, acc) ==
    IF i > Len(vals) THEN [ret |-> OK, cells |-> acc, pos |-> p]
    ELSE IF p + ObjDeepSize[vals[i]] > BufLen THEN [ret |-> "OB_SIZE_OVERFLOW", cells |-> acc, pos |-> p]
    ELSE CopyCells(vals, i + 1, p + ObjDeepSize[vals[i]], [acc EXCEPT ![i] = vals[i]])

\* Mutant: the projector entries copied, projector_size_ not set.
deep_copy_no_projector_size(r, src, p) ==
    IF get_deep_copy_size(src) + p > BufLen
    THEN [ret |-> "OB_SIZE_OVERFLOW", row |-> r, pos |-> p]
    ELSE LET cc == CopyCells(Cells(src), 1, p + OBJ_SIZE * src.count,
                             [i \in 1..src.count |-> NullPtr])
             r1 == [r EXCEPT !.cells = cc.cells, !.count = src.count]
         IN  IF cc.ret = OK /\ src.psize > 0
             THEN [ret |-> OK, row |-> [r1 EXCEPT !.proj = Proj(src)],
                   pos |-> cc.pos + INT32_SIZE * src.psize]
             ELSE [ret |-> cc.ret, row |-> r1, pos |-> cc.pos]

\* deep_copy(src, buf, len, pos): refused when get_deep_copy_size(src) does
\* not fit; else a new cell array (null cells) at pos, the cells' data,
\* and the projector array when src has one.  A projector-less src leaves
\* the row's projector as it was.
deep_copy(r, src, p) ==
    IF get_deep_copy_size(src) + p > BufLen
    THEN [ret |-> "OB_SIZE_OVERFLOW", row |-> r, pos |-> p]
    ELSE LET cc == CopyCells(Cells(src), 1, p + OBJ_SIZE * src.count,
                             [i \in 1..src.count |-> NullPtr])
             r1 == [r EXCEPT !.cells = cc.cells, !.count = src.count]
         IN  IF cc.ret = OK /\ src.psize > 0
             THEN [ret |-> OK, row |-> [r1 EXCEPT !.proj = Proj(src), !.psize = src.psize],
                   pos |-> cc.pos + INT32_SIZE * src.psize]
             ELSE [ret |-> cc.ret, row |-> r1, pos |-> cc.pos]

-----------------------------------------------------------------------------
(* The rows a caller builds: up to MaxCount cells, and a projector of up   *)
(* to MaxCount entries indexing them.                                      *)

RowsOf(n) ==
    {[cells |-> c, count |-> n, proj |-> IF Len(pj) = 0 THEN NullPtr ELSE pj, psize |-> Len(pj)] :
        c \in [1..n -> Vals], pj \in BoundedSeq(0..n - 1, MaxCount)}
Rows == UNION {RowsOf(n) : n \in 0..MaxCount}

\* A row prepared for deserialize (ObNewRow::assign and the projector
\* fields set by the caller): an array of a null cells with count_ = n, a
\* projector array of pa zero entries with projector_size_ = pn.  A count
\* below the array's length is what an earlier deserialize of a shorter
\* row leaves.
Allocated(a, n, pa, pn) ==
    [cells |-> IF a = 0 THEN NullPtr ELSE [i \in 1..a |-> NullPtr], count |-> n,
     proj |-> IF pa = 0 THEN NullPtr ELSE [i \in 1..pa |-> 0], psize |-> pn]

Allocations ==
    {r \in {Allocated(a, n, pa, pn) : a, n, pa, pn \in 0..MaxCount} :
        r.count <= Capacity(r.cells) /\ r.psize <= Capacity(r.proj)}

Step == calls < MaxCalls /\ calls' = calls + 1

\* serialize() into a buffer of get_serialize_size() bytes.
Serialize(r) ==
    /\ Step
    /\ wire' = IF Len(RowBytes(r)) <= get_serialize_size(r) THEN RowBytes(r) ELSE <<>>
    /\ sent' = r
    /\ UNCHANGED <<dst, got, copy, pos, dc>>

Deserialize ==
    /\ Step
    /\ wire # <<>>
    /\ LET z == deserialize(dst, wire)
       IN  /\ dst' = z.row
           /\ got' = [ret |-> z.ret, row |-> sent]
    /\ UNCHANGED <<wire, sent, copy, pos, dc>>

Assign(r) ==
    /\ Step
    /\ dst' = r
    /\ got' = [got EXCEPT !.ret = "none"]
    /\ UNCHANGED <<wire, sent, copy, pos, dc>>

DeepCopy(src) ==
    /\ Step
    /\ LET z == deep_copy(copy, src, pos)
       IN  /\ copy' = z.row
           /\ pos' = z.pos
           /\ dc' = [ret |-> z.ret, src |-> src, from |-> pos]
    /\ UNCHANGED <<wire, sent, dst, got>>

Reset ==
    /\ Step
    /\ copy' = reset
    /\ dc' = [dc EXCEPT !.ret = "none"]
    /\ UNCHANGED <<wire, sent, dst, got, pos>>

Init ==
    /\ wire = <<>>
    /\ sent = reset
    /\ dst \in Allocations
    /\ got = [ret |-> "none", row |-> reset]
    /\ copy = reset
    /\ pos = 0
    /\ dc = [ret |-> "none", src |-> reset, from |-> 0]
    /\ calls = 0

Next ==
    \/ \E r \in Rows : Serialize(r) \/ DeepCopy(r)
    \/ Deserialize
    \/ \E r \in Allocations : Assign(r)
    \/ Reset
    \/ calls = MaxCalls /\ UNCHANGED vars

Spec == Init /\ [][Next]_vars

-----------------------------------------------------------------------------
(* Properties                                                              *)

\* deserialize() stores in count_ and projector_size_ only counts that fit
\* the arrays the caller allocated, however many rows were deserialized
\* into the same row before: the capacity check reads the count_ an earlier
\* call may have shrunk, never more than the array holds.
DeserializeWithinArrays ==
    /\ dst.count <= Capacity(dst.cells)
    /\ dst.psize <= Capacity(dst.proj)

\* A deserialize() that returns OB_SUCCESS leaves the row equal (operator==)
\* to the row serialize() wrote, with the same cells and projector: the
\* count stored, the cell items and the projector read after them.
DeserializeRestoresRow ==
    got.ret = OK =>
        /\ RowEquals(dst, got.row)
        /\ Cells(dst) = Cells(got.row)
        /\ Proj(dst) = Proj(got.row)

\* Every byte deep_copy() places lies inside the buffer, and a successful
\* copy advances pos by exactly get_deep_copy_size(src): the one up-front
\* size check covers the cell array, the cells' data and the projector,
\* which is written without a check of its own.
DeepCopyWithinBuffer ==
    /\ pos <= BufLen
    /\ dc.ret = OK => pos = dc.from + get_deep_copy_size(dc.src)

\* A successful deep_copy() gives the row src's count, cells and, when src
\* has one, its projector.
DeepCopyIsFaithful ==
    dc.ret = OK =>
        /\ Cells(copy) = Cells(dc.src)
        /\ dc.src.psize > 0 => Proj(copy) = Proj(dc.src)

====
