----------------------------- MODULE MySQLPackets -----------------------------
(***************************************************************************)
(* The MySQL handshake response and EOF packets as obproxy writes and     *)
(* reads them (src/rpc/obmysql/packet/ompk_handshake_response.cpp and     *)
(* ompk_eof.cpp).  A packet body is a sequence of bytes (0..255); strings *)
(* are byte sequences.  serialize and get_serialize_size are operators    *)
(* over a packet object, decode an operator over the bytes of hdr_.len_.  *)
(*                                                                         *)
(* The ObMySQLUtil store_* / get_* helpers are not part of this           *)
(* repository; they are written here after the MySQL client/server       *)
(* protocol they implement: little-endian fixed integers, length-encoded  *)
(* integers and strings, NUL-terminated strings.                          *)
(***************************************************************************)
EXTENDS Integers, Sequences, SequencesExt, FiniteSets

CONSTANTS
    Names,      \* byte strings used for username_, database_, auth_plugin_name_
    Auths,      \* byte strings used for auth_response_
    AttrKeys,   \* byte strings used as connect attribute keys
    AttrValues, \* byte strings used as connect attribute values
    MaxAttrs,   \* bound on connect_attrs_.count()
    MaxPacket,  \* max_packet_size_ values
    Charsets,   \* character_set_ values
    Words,      \* warning_count_ / server_status_.flags_ values of an EOF
    CutShort    \* whether decode is handed every proper prefix of the bytes

VARIABLES
    pkt,  \* the OMPKHandshakeResponse object handed to serialize
    eof,  \* the OMPKEOF object handed to serialize
    d     \* a decode() of the bytes serialize wrote, or of a prefix of them

vars == <<pkt, eof, d>>

-----------------------------------------------------------------------------
(* Capability flags (ObMySQLCapabilityFlags) and their bit values.         *)
CONNECT_WITH_DB == 8
PROTOCOL_41 == 512
SECURE_CONNECTION == 32768
PLUGIN_AUTH == 524288
CONNECT_ATTRS == 1048576
PLUGIN_AUTH_LENENC_CLIENT_DATA == 2097152
CapFlags == {CONNECT_WITH_DB, PROTOCOL_41, SECURE_CONNECTION, PLUGIN_AUTH,
             CONNECT_ATTRS, PLUGIN_AUTH_LENENC_CLIENT_DATA}

CapValue(S) == FoldSet(LAMBDA f, acc : acc + f, 0, S)
Has(cap, flag) == (cap \div flag) % 2 = 1

HAND_SHAKE_RESPONSE_RESERVED_SIZE == 23

-----------------------------------------------------------------------------
(* ObMySQLUtil, after the protocol.                                        *)

\* store_int1 / store_int2 / store_int4: n bytes, little-endian.
StoreInt(v, n) == [i \in 1..n |-> (v \div (2 ^ (8 * (i - 1)))) % 256]

\* get_uint1 / get_uint2 / get_uint4 at (1-based) position p.
GetUint(b, p, n) ==
    LET byte(i) == IF p + i - 1 <= Len(b) THEN b[p + i - 1] ELSE 0
    IN  FoldSet(LAMBDA i, acc : acc + byte(i) * 2 ^ (8 * (i - 1)), 0, 1..n)

\* get_number_store_len and store_length: the length-encoded integer.
get_number_store_len(v) ==
    CASE v < 251 -> 1 [] v < 65536 -> 3 [] v < 16777216 -> 4 [] OTHER -> 9
StoreLength(v) ==
    CASE v < 251      -> <<v>>
      [] v < 65536    -> <<252>> \o StoreInt(v, 2)
      [] v < 16777216 -> <<253>> \o StoreInt(v, 3)
      [] OTHER        -> <<254>> \o StoreInt(v, 8)

\* get_length at p: [ok, val, inc]; 251 (NULL) and 255 are refused.
GetLength(b, p) ==
    LET first == IF p <= Len(b) THEN b[p] ELSE 0
        wide(n) == [ok |-> TRUE, val |-> GetUint(b, p + 1, n), inc |-> n + 1]
    IN  CASE first < 251  -> [ok |-> TRUE, val |-> first, inc |-> 1]
          [] first = 252  -> wide(2)
          [] first = 253  -> wide(3)
          [] first = 254  -> wide(8)
          [] OTHER        -> [ok |-> FALSE, val |-> 0, inc |-> 1]

\* store_obstr_zt / store_obstr (length-encoded) / store_str_vnzt.
StoreZt(s) == s \o <<0>>
StoreObstr(s) == StoreLength(Len(s)) \o s

\* ObString::make_string(pos) with strlen: up to the first NUL.  A string
\* without NUL before end runs past the buffer: `over` records it.
MakeString(b, p) ==
    LET nul == {j \in p..Len(b) : b[j] = 0}
    IN  IF nul = {} THEN [str |-> SubSeq(b, p, Len(b)), next |-> Len(b) + 2, over |-> TRUE]
        ELSE LET j == Min(nul) IN [str |-> SubSeq(b, p, j - 1), next |-> j + 1, over |-> FALSE]

\* The bytes [p, p + n) of the packet; `over` when they pass end.
Slice(b, p, n) == [str |-> SubSeq(b, p, Min({p + n - 1, Len(b)})), over |-> p + n - 1 > Len(b)]

-----------------------------------------------------------------------------
(* OMPKHandshakeResponse                                                   *)

OK == "OB_SUCCESS"

\* reset(): every field zero or empty.
ResetPacket ==
    [capability |-> 0, max_packet_size |-> 0, character_set |-> 0,
     username |-> <<>>, auth_response |-> <<>>, database |-> <<>>,
     auth_plugin_name |-> <<>>, connect_attrs |-> <<>>]

\* get_connect_attrs_len(): the attribute bytes after the total's own length.
get_connect_attrs_len(p) ==
    IF Has(p.capability, CONNECT_ATTRS)
    THEN FoldLeft(LAMBDA acc, kv : acc + get_number_store_len(Len(kv.key)) + Len(kv.key)
                                       + get_number_store_len(Len(kv.value)) + Len(kv.value),
                  0, p.connect_attrs)
    ELSE 0

\* The auth-response encoding chosen by the capability flags.
AuthMode(cap) ==
    CASE Has(cap, PLUGIN_AUTH_LENENC_CLIENT_DATA) -> "lenenc"
      [] Has(cap, SECURE_CONNECTION)              -> "secure"
      [] OTHER                                    -> "zt"

get_serialize_size_no_attr_lenenc(p) ==
    LET cap == p.capability
        auth == CASE AuthMode(cap) = "lenenc" -> get_number_store_len(Len(p.auth_response))
                                                 + Len(p.auth_response)
                  [] AuthMode(cap) = "secure" -> 1 + Len(p.auth_response)
                  [] OTHER                    -> Len(p.auth_response) + 1
    IN  4 + 4 + 1 + HAND_SHAKE_RESPONSE_RESERVED_SIZE + Len(p.username) + 1 + auth
        + (IF Has(cap, CONNECT_WITH_DB) THEN Len(p.database) + 1 ELSE 0)
        + (IF Has(cap, PLUGIN_AUTH) THEN Len(p.auth_plugin_name) + 1 ELSE 0)
        + (IF Has(cap, CONNECT_ATTRS) THEN get_connect_attrs_len(p) ELSE 0)

get_serialize_size(p) ==
    LET cap == p.capability
        auth == CASE AuthMode(cap) = "lenenc" -> get_number_store_len(Len(p.auth_response))
                                                 + Len(p.auth_response)
                  [] AuthMode(cap) = "secure" -> 1 + Len(p.auth_response)
                  [] OTHER                    -> Len(p.auth_response) + 1
        attrs == get_connect_attrs_len(p)
    IN  4 + 4 + 1 + HAND_SHAKE_RESPONSE_RESERVED_SIZE + Len(p.username) + 1 + auth
        + (IF Has(cap, CONNECT_WITH_DB) THEN Len(p.database) + 1 ELSE 0)
        + (IF Has(cap, PLUGIN_AUTH) THEN Len(p.auth_plugin_name) + 1 ELSE 0)
        + (IF Has(cap, CONNECT_ATTRS) THEN attrs + get_number_store_len(attrs) ELSE 0)

\* The store_* calls of serialize, in order, one piece of bytes each.
Pieces(p) ==
    LET cap == p.capability
        a == p.auth_response
        kvs == p.connect_attrs
        auth == CASE AuthMode(cap) = "lenenc" -> <<StoreObstr(a)>>
                  [] AuthMode(cap) = "secure" -> <<StoreInt(Len(a) % 256, 1), a>>
                  [] OTHER                    -> <<StoreZt(a)>>
        attrs == [i \in 1..2 * Len(kvs) |->
                    LET kv == kvs[(i + 1) \div 2]
                    IN  StoreObstr(IF i % 2 = 1 THEN kv.key ELSE kv.value)]
    IN  <<StoreInt(cap, 4), StoreInt(p.max_packet_size, 4), StoreInt(p.character_set, 1),
          [i \in 1..HAND_SHAKE_RESPONSE_RESERVED_SIZE |-> 0], StoreZt(p.username)>>
        \o auth
        \o (IF Has(cap, CONNECT_WITH_DB) THEN <<StoreZt(p.database)>> ELSE <<>>)
        \o (IF Has(cap, PLUGIN_AUTH) THEN <<StoreZt(p.auth_plugin_name)>> ELSE <<>>)
        \o (IF Has(cap, CONNECT_ATTRS)
            THEN <<StoreLength(get_connect_attrs_len(p))>> \o attrs ELSE <<>>)

\* Each store_* fails with OB_SIZE_OVERFLOW when its bytes pass length, and
\* the OB_SUCC chain stops there.
RECURSIVE Store(_, _, _)
Store(pieces, length, buf) ==
    IF pieces = <<>> THEN [ret |-> OK, buf |-> buf]
    ELSE IF Len(buf) + Len(Head(pieces)) > length
         THEN [ret |-> "OB_SIZE_OVERFLOW", buf |-> buf]
         ELSE Store(Tail(pieces), length, buf \o Head(pieces))

serialize(p, length) ==
    IF length < get_serialize_size(p)
    THEN [ret |-> "OB_INVALID_ARGUMENT", buf |-> <<>>]
    ELSE Store(Pieces(p), length, <<>>)

\* Mutant: a value must end before the packet's last byte.
AttrIter_strict_end(b, pos, all, attrs, mcj) ==
    LET end == Len(b) + 1                      \* one past the last byte
        Res(ret, p2, all2, attrs2, o) ==
            [ret |-> ret, pos |-> p2, all |-> all2, attrs |-> attrs2, over |-> o]
        k == GetLength(b, pos)
        kp == pos + k.inc                      \* the key's first byte
        ko == kp - 1 >= end
    IN
    IF ~k.ok THEN Res("OB_ERROR", kp, all, attrs, ko)
    ELSE IF ~(all > k.inc) THEN Res(OK, kp, all, attrs, ko)
    ELSE IF ~(all - k.inc > k.val) THEN Res(OK, kp, all - k.inc, attrs, ko)
    ELSE
      LET all2 == all - k.inc - k.val
          vp == kp + k.val                     \* pos after the key
          v == GetLength(b, vp)
          vd == vp + v.inc                     \* the value's first byte
          vo == ko \/ vd - 1 >= end
          kv == [key |-> SubSeq(b, kp, vp - 1), value |-> SubSeq(b, vd, vd + v.val - 1)]
      IN
      IF vp > end
      THEN Res(IF mcj THEN "OB_INVALID_ARGUMENT" ELSE "OB_ERR_UNEXPECTED", vp, all2, attrs, ko)
      ELSE IF ~v.ok THEN Res("OB_ERROR", vd, all2, attrs, vo)
      ELSE IF ~(all2 >= v.inc /\ vd <= end) THEN Res(OK, vd, all2, attrs, vo)
      ELSE IF ~(all2 - v.inc >= v.val) THEN Res(OK, vd, all2 - v.inc, attrs, vo)
      ELSE IF end - vd > v.val
           THEN Res(OK, vd + v.val, all2 - v.inc - v.val, Append(attrs, kv), vo)
           ELSE Res(OK, vd, all2 - v.inc - v.val, attrs, vo)

\* One pass of the connect-attribute while loop body, from pos with
\* all_attrs_len = all: [ret, pos, all, attrs, over], `over` when a read
\* passed end.
AttrIter(b, pos, all, attrs, mcj) ==
    LET end == Len(b) + 1                      \* one past the last byte
        Res(ret, p2, all2, attrs2, o) ==
            [ret |-> ret, pos |-> p2, all |-> all2, attrs |-> attrs2, over |-> o]
        k == GetLength(b, pos)
        kp == pos + k.inc                      \* the key's first byte
        ko == kp - 1 >= end
    IN
    IF ~k.ok THEN Res("OB_ERROR", kp, all, attrs, ko)
    ELSE IF ~(all > k.inc) THEN Res(OK, kp, all, attrs, ko)
    ELSE IF ~(all - k.inc > k.val) THEN Res(OK, kp, all - k.inc, attrs, ko)
    ELSE
      LET all2 == all - k.inc - k.val
          vp == kp + k.val                     \* pos after the key
          v == GetLength(b, vp)
          vd == vp + v.inc                     \* the value's first byte
          vo == ko \/ vd - 1 >= end
          kv == [key |-> SubSeq(b, kp, vp - 1), value |-> SubSeq(b, vd, vd + v.val - 1)]
      IN
      IF vp > end
      THEN Res(IF mcj THEN "OB_INVALID_ARGUMENT" ELSE "OB_ERR_UNEXPECTED", vp, all2, attrs, ko)
      ELSE IF ~v.ok THEN Res("OB_ERROR", vd, all2, attrs, vo)
      ELSE IF ~(all2 >= v.inc /\ vd <= end) THEN Res(OK, vd, all2, attrs, vo)
      ELSE IF ~(all2 - v.inc >= v.val) THEN Res(OK, vd, all2 - v.inc, attrs, vo)
      ELSE IF end - vd >= v.val
           THEN Res(OK, vd + v.val, all2 - v.inc - v.val, Append(attrs, kv), vo)
           ELSE Res(OK, vd, all2 - v.inc - v.val, attrs, vo)

(***************************************************************************)
(* decode() as a decoder stepping through the function's stages.  `d` is  *)
(* its state: the stage, the bytes `in` of length hdr_.len_, ret, pos      *)
(* (1-based), maybe_connector_j, all_attrs_len, the object being filled,  *)
(* and `over`, set once any read has passed end.                          *)
(***************************************************************************)
End == Len(d.in) + 1
Live == d.ret = OK /\ d.pos < End
Cap == d.obj.capability

\* A NUL-terminated field read with make_string / strlen.
Take(field, m) ==
    [d EXCEPT !.obj[field] = m.str, !.pos = m.next, !.over = @ \/ m.over]

StartDecode(b) ==
    /\ d.phase = "idle"
    /\ d' = [phase |-> "header", in |-> b, ret |-> OK, pos |-> 1, mcj |-> FALSE,
             all |-> 0, obj |-> ResetPacket, over |-> FALSE]
    /\ UNCHANGED <<pkt, eof>>

\* len < 2 is refused; a 4-byte packet must speak protocol 4.1; then the
\* fixed header and the 23 reserved bytes.
DecodeHeader ==
    /\ d.phase = "header"
    /\ LET b == d.in
           cap2 == GetUint(b, 1, 2)
       IN  d' = CASE Len(b) < 2 ->
                       [d EXCEPT !.ret = "OB_ERR_UNEXPECTED", !.phase = "username"]
                  [] Len(b) = 4 /\ ~Has(cap2, PROTOCOL_41) ->
                       [d EXCEPT !.ret = "OB_NOT_SUPPORTED", !.obj.capability = cap2,
                                 !.phase = "username"]
                  [] OTHER ->
                       [d EXCEPT !.obj.capability = GetUint(b, 1, 4),
                                 !.obj.max_packet_size = GetUint(b, 5, 4),
                                 !.obj.character_set = GetUint(b, 9, 1),
                                 !.pos = 10 + HAND_SHAKE_RESPONSE_RESERVED_SIZE,
                                 !.over = Len(b) < 9, !.phase = "username"]
    /\ UNCHANGED <<pkt, eof>>

DecodeUsername ==
    /\ d.phase = "username"
    /\ d' = [(IF Live THEN Take("username", MakeString(d.in, d.pos)) ELSE d)
                EXCEPT !.phase = "auth"]
    /\ UNCHANGED <<pkt, eof>>

DecodeAuth ==
    /\ d.phase = "auth"
    /\ LET b == d.in
           g == GetLength(b, d.pos)
           n == b[d.pos]
           lenenc == Slice(b, d.pos + g.inc, g.val)
           secure == Slice(b, d.pos + 1, n)
           next == CASE ~Live -> d
                     [] AuthMode(Cap) = "lenenc" /\ ~g.ok -> [d EXCEPT !.ret = "OB_ERROR"]
                     [] AuthMode(Cap) = "lenenc" ->
                          [d EXCEPT !.obj.auth_response = lenenc.str,
                                    !.pos = d.pos + g.inc + g.val,
                                    !.over = @ \/ lenenc.over \/ d.pos + g.inc - 1 >= End]
                     [] AuthMode(Cap) = "secure" ->
                          [d EXCEPT !.obj.auth_response = secure.str,
                                    !.pos = d.pos + 1 + n, !.over = @ \/ secure.over]
                     [] OTHER -> Take("auth_response", MakeString(b, d.pos))
       IN  d' = [next EXCEPT !.phase = "database"]
    /\ UNCHANGED <<pkt, eof>>

\* Without CONNECT_WITH_DB a zero byte here marks a connector/j client.
DecodeDatabase ==
    /\ d.phase = "database"
    /\ LET next == CASE ~Live -> d
                     [] Has(Cap, CONNECT_WITH_DB) -> Take("database", MakeString(d.in, d.pos))
                     [] d.in[d.pos] = 0 -> [d EXCEPT !.mcj = TRUE]
                     [] OTHER -> d
       IN  d' = [next EXCEPT !.phase = "plugin"]
    /\ UNCHANGED <<pkt, eof>>

DecodePlugin ==
    /\ d.phase = "plugin"
    /\ LET next == IF Live /\ Has(Cap, PLUGIN_AUTH)
                   THEN Take("auth_plugin_name", MakeString(d.in, d.pos)) ELSE d
       IN  d' = [next EXCEPT !.phase = "attrs"]
    /\ UNCHANGED <<pkt, eof>>

\* The total length of the attributes, then the loop.
DecodeAttrs ==
    /\ d.phase = "attrs"
    /\ LET t == GetLength(d.in, d.pos)
       IN  d' = CASE ~(Live /\ Has(Cap, CONNECT_ATTRS)) -> [d EXCEPT !.phase = "done"]
                  [] ~t.ok -> [d EXCEPT !.ret = "OB_INVALID_ARGUMENT", !.phase = "attrs_end"]
                  [] OTHER -> [d EXCEPT !.all = t.val, !.pos = d.pos + t.inc,
                                        !.over = @ \/ d.pos + t.inc - 1 >= End,
                                        !.phase = "attr_loop"]
    /\ UNCHANGED <<pkt, eof>>

DecodeAttrIter ==
    /\ d.phase = "attr_loop"
    /\ d.all > 0 /\ Live
    /\ LET r == AttrIter(d.in, d.pos, d.all, d.obj.connect_attrs, d.mcj)
       IN  d' = [d EXCEPT !.ret = r.ret, !.pos = r.pos, !.all = r.all,
                          !.obj.connect_attrs = r.attrs, !.over = @ \/ r.over]
    /\ UNCHANGED <<pkt, eof>>

DecodeAttrLoopExit ==
    /\ d.phase = "attr_loop"
    /\ ~(d.all > 0 /\ Live)
    /\ d' = [d EXCEPT !.phase = "attrs_end"]
    /\ UNCHANGED <<pkt, eof>>

\* A bad attribute length from a connector/j client is let go.
DecodeAttrsEnd ==
    /\ d.phase = "attrs_end"
    /\ d' = IF d.ret = "OB_INVALID_ARGUMENT" /\ d.mcj
            THEN [d EXCEPT !.ret = OK, !.obj.connect_attrs = <<>>, !.phase = "done"]
            ELSE [d EXCEPT !.phase = "done"]
    /\ UNCHANGED <<pkt, eof>>

\* add_connect_attr(string_kv): an empty key is refused, else push_back.
add_connect_attr(kv) ==
    /\ Len(pkt.connect_attrs) < MaxAttrs
    /\ d.phase = "idle"
    /\ pkt' = IF kv.key = <<>> THEN pkt
              ELSE [pkt EXCEPT !.connect_attrs = Append(@, kv)]
    /\ UNCHANGED <<eof, d>>

-----------------------------------------------------------------------------
(* OMPKEOF                                                                 *)

EofSize == 1 + 2 + 2

eof_serialize(e, len) ==
    IF len < EofSize THEN [ret |-> "OB_INVALID_ARGUMENT", buf |-> <<>>]
    ELSE Store(<<StoreInt(e.field_count, 1), StoreInt(e.warning_count, 2),
                 StoreInt(e.flags, 2)>>, len, <<>>)

eof_decode_no_end_check(b) ==
    [ret  |-> OK,
     e    |-> [field_count |-> GetUint(b, 1, 1), warning_count |-> GetUint(b, 2, 2),
               flags |-> GetUint(b, 4, 2)],
     over |-> Len(b) < EofSize]

\* decode(): three reads, then pos must be end.
eof_decode(b) ==
    [ret  |-> IF EofSize # Len(b) THEN "OB_ERR_UNEXPECTED" ELSE OK,
     e    |-> [field_count |-> GetUint(b, 1, 1), warning_count |-> GetUint(b, 2, 2),
               flags |-> GetUint(b, 4, 2)],
     over |-> Len(b) < EofSize]

-----------------------------------------------------------------------------
(* The objects handed to serialize: a handshake response with its fields  *)
(* set and its attributes added one by one; an EOF as constructed (field  *)
(* count 0xfe) with its counters set.                                      *)

Init ==
    /\ pkt \in {[ResetPacket EXCEPT !.capability = CapValue(S), !.max_packet_size = m,
                   !.character_set = c, !.username = u, !.auth_response = a,
                   !.database = db, !.auth_plugin_name = n] :
                  S \in SUBSET CapFlags, m \in MaxPacket, c \in Charsets,
                  u \in Names, a \in Auths, db \in Names, n \in Names}
    /\ eof \in [field_count : {254}, warning_count : Words, flags : Words]
    /\ d = [phase |-> "idle", in |-> <<>>, ret |-> OK, pos |-> 1, mcj |-> FALSE,
            all |-> 0, obj |-> ResetPacket, over |-> FALSE]

Wire(p) == serialize(p, get_serialize_size(p))

\* What decode is handed: the bytes serialize wrote, or each proper prefix.
Inputs ==
    LET w == Wire(pkt).buf
    IN  IF CutShort THEN {SubSeq(w, 1, n) : n \in 0..Len(w) - 1} ELSE {w}

\* The decode has returned.
Decoded == d.phase = "done" /\ UNCHANGED vars

Next ==
    \/ \E k \in AttrKeys, v \in AttrValues : add_connect_attr([key |-> k, value |-> v])
    \/ \E b \in Inputs : StartDecode(b)
    \/ DecodeHeader \/ DecodeUsername \/ DecodeAuth \/ DecodeDatabase \/ DecodePlugin
    \/ DecodeAttrs \/ DecodeAttrIter \/ DecodeAttrLoopExit \/ DecodeAttrsEnd
    \/ Decoded

Spec == Init /\ [][Next]_vars

-----------------------------------------------------------------------------
(* Properties                                                              *)

NoNul(s) == 0 \notin Range(s)

\* The fields a NUL-terminated encoding can carry hold no NUL byte.
Representable(p) ==
    /\ NoNul(p.username)
    /\ AuthMode(p.capability) = "zt" => NoNul(p.auth_response)
    /\ Has(p.capability, CONNECT_WITH_DB) => NoNul(p.database)
    /\ Has(p.capability, PLUGIN_AUTH) => NoNul(p.auth_plugin_name)

\* What serialize writes of p: the fields its capability flags select.
Carried(p) ==
    [p EXCEPT !.database = IF Has(p.capability, CONNECT_WITH_DB) THEN @ ELSE <<>>,
              !.auth_plugin_name = IF Has(p.capability, PLUGIN_AUTH) THEN @ ELSE <<>>,
              !.connect_attrs = IF Has(p.capability, CONNECT_ATTRS) THEN @ ELSE <<>>]

\* serialize into a buffer of exactly get_serialize_size() bytes succeeds
\* and fills it: the size computation and the store_* calls agree for every
\* combination of capability flags and attributes.
SerializeFillsSize ==
    Wire(pkt).ret = OK /\ Len(Wire(pkt).buf) = get_serialize_size(pkt)

\* decode() of what serialize() wrote succeeds, reads nothing past the
\* packet's end, and gives back every field the flags carry: the flag-driven
\* auth encodings, the connector/j database probe and the attribute loop's
\* length bookkeeping never lose or shift a field.
HandshakeRoundTrip ==
    d.phase = "done" /\ d.in = Wire(pkt).buf /\ Representable(pkt) =>
        d.ret = OK /\ ~d.over /\ d.obj = Carried(pkt)

\* An EOF packet decodes to what serialize() wrote, and decode() refuses a
\* body one byte short or one byte long.
EofRoundTrip ==
    LET w == eof_serialize(eof, EofSize).buf
    IN  /\ eof_decode(w).ret = OK /\ eof_decode(w).e = eof
        /\ eof_decode(Front(w)).ret # OK
        /\ eof_decode(w \o <<0>>).ret # OK

\* decode() reads only the hdr_.len_ bytes it is given: a body cut short,
\* here any prefix of a well-formed response, is refused or decoded without
\* a read past end by the fixed-size header reads, strlen or get_length.
DecodeReadsWithinPacket == ~d.over

====
