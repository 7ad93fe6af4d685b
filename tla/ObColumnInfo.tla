------------------------------ MODULE ObColumnInfo ------------------------------
(***************************************************************************)
(* ObColumnInfo (src/common/ob_row.cpp, lines 22-48): a column index and  *)
(* a collation, serialized by a caller into a buffer of                    *)
(* get_serialize_size() bytes and deserialized from it.  ObCollationType  *)
(* values are MySQL collation ids.                                         *)
(***************************************************************************)
EXTENDS Integers, Sequences, UnisCodec

CONSTANT ColumnInfos  \* ObColumnInfo values [index, cs_type]

VARIABLES
    col,    \* the ObColumnInfo serialized
    phase,  \* "start", "serialized", "done"
    sret,   \* what serialize() returned
    buf,    \* the bytes it wrote
    back    \* [ret, ci]: what deserialize() returned and filled

vars == <<col, phase, sret, buf, back>>

\* serialize(buf, buf_len, pos): index_ then cs_type_ as an int32, each
\* OB_SIZE_OVERFLOW when it does not fit in buf_len.
ci_serialize(ci, buf_len) ==
    LET a == EncodeVi(ci.index)
        b == EncodeVi(ci.cs_type)
    IN  CASE Len(a) > buf_len          -> [ret |-> "OB_SIZE_OVERFLOW", buf |-> <<>>]
          [] Len(a) + Len(b) > buf_len -> [ret |-> "OB_SIZE_OVERFLOW", buf |-> a]
          [] OTHER                     -> [ret |-> OK, buf |-> a \o b]

ci_deserialize(b) ==
    LET i == Vi(b, 1)
        c == Vi(b, i.next)
    IN  [ret |-> IF i.ok /\ c.ok THEN OK ELSE "OB_DESERIALIZE_ERROR",
         ci |-> [index |-> i.val, cs_type |-> c.val]]

\* get_serialize_size(): the length of index_, and of a local cs_type_int
\* that is 0.
ci_get_serialize_size(ci) == ViLen(ci.index) + ViLen(0)

Init ==
    /\ col \in ColumnInfos
    /\ phase = "start"
    /\ sret = OK
    /\ buf = <<>>
    /\ back = [ret |-> OK, ci |-> col]

\* serialize() into a buffer of get_serialize_size() bytes.
Serialize ==
    /\ phase = "start"
    /\ LET s == ci_serialize(col, ci_get_serialize_size(col))
       IN  sret' = s.ret /\ buf' = s.buf
    /\ phase' = "serialized"
    /\ UNCHANGED <<col, back>>

Deserialize ==
    /\ phase = "serialized"
    /\ back' = ci_deserialize(buf)
    /\ phase' = "done"
    /\ UNCHANGED <<col, sret, buf>>

Done == phase = "done" /\ UNCHANGED vars

Next == Serialize \/ Deserialize \/ Done

Spec == Init /\ [][Next]_vars

\* An ObColumnInfo serialized into a buffer of get_serialize_size() bytes
\* fits, and deserialize() gives it back: the size computation counts the
\* bytes serialize() writes for index_ and cs_type_.
ColumnInfoRoundTrip ==
    phase = "done" => sret = OK /\ back.ret = OK /\ back.ci = col

====
