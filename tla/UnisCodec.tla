------------------------------- MODULE UnisCodec -------------------------------
(***************************************************************************)
(* The unified serialization the rows of src/common/ob_row.cpp are written *)
(* with (OB_UNIS_ENCODE / OB_UNIS_DECODE, lib/utility/serialization.h, not *)
(* part of this repository), after the library: a byte string is a        *)
(* sequence of 0..255; an int64 or int32 is the 7-bit variable-length      *)
(* integer of encode_vi64 / encode_vi32; an ObObj is a small integer code  *)
(* whose image is the code followed by zero bytes.                         *)
(***************************************************************************)
EXTENDS Integers, Sequences

CONSTANTS
    Vals,         \* ObObj values (codes >= 1)
    ObjSerSize    \* ObObj::get_serialize_size of each value

OK == "OB_SUCCESS"

\* encode_vi64 / encode_vi32 of a non-negative value: 7 bits per byte, the
\* high bit set on every byte but the last.
RECURSIVE EncodeVi(_)
EncodeVi(v) == IF v < 128 THEN <<v>> ELSE <<(v % 128) + 128>> \o EncodeVi(v \div 128)

\* encoded_length_vi64 / encoded_length_vi32.
ViLen(v) == Len(EncodeVi(v))

\* decode_vi64 / decode_vi32 at p: [ok, val, next]; OB_DESERIALIZE_ERROR
\* when the bytes end first.
RECURSIVE DecodeVi(_, _, _, _)
DecodeVi(b, p, shift, acc) ==
    IF p > Len(b) THEN [ok |-> FALSE, val |-> acc, next |-> p]
    ELSE IF b[p] < 128 THEN [ok |-> TRUE, val |-> acc + b[p] * shift, next |-> p + 1]
    ELSE DecodeVi(b, p + 1, shift * 128, acc + (b[p] - 128) * shift)
Vi(b, p) == DecodeVi(b, p, 1, 0)

ObjBytes(v) == <<v>> \o [i \in 1..ObjSerSize[v] - 1 |-> 0]

DecodeObj(b, p) ==
    IF p <= Len(b) /\ b[p] \in Vals /\ p + ObjSerSize[b[p]] - 1 <= Len(b)
    THEN [ok |-> TRUE, val |-> b[p], next |-> p + ObjSerSize[b[p]]]
    ELSE [ok |-> FALSE, val |-> 0, next |-> p]

\* OB_UNIS_DECODE_ARRAY: n items of a kind ("obj" or "vi"), stopping at
\* the first that fails; [ok, vals, next].
RECURSIVE DecodeArray(_, _, _, _, _)
DecodeArray(kind, b, p, n, acc) ==
    LET x == IF kind = "obj" THEN DecodeObj(b, p) ELSE Vi(b, p)
    IN  IF n = 0 THEN [ok |-> TRUE, vals |-> acc, next |-> p]
        ELSE IF ~x.ok THEN [ok |-> FALSE, vals |-> acc, next |-> p]
        ELSE DecodeArray(kind, b, x.next, n - 1, Append(acc, x.val))

====
