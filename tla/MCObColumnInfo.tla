---------------------------- MODULE MCObColumnInfo ----------------------------
(***************************************************************************)
(* Column indexes with a one- and a two-byte encoding, and the collations *)
(* utf8mb4_general_ci (45) and utf8mb4_unicode_ci (224).                   *)
(***************************************************************************)
EXTENDS ObColumnInfo

MCObjSerSize == [v \in {1} |-> 1]
MCColumnInfos == {[index |-> i, cs_type |-> c] : i \in {3, 200}, c \in {45, 224}}
====
