------------------------------ MODULE MCObNewRow ------------------------------
(***************************************************************************)
(* Two ObObj values: 1, an integer cell (2 serialized bytes, no data to   *)
(* deep-copy), and 2, a varchar cell (5 serialized bytes, 3 bytes of      *)
(* data).                                                                  *)
(***************************************************************************)
EXTENDS ObNewRow

MCObjSerSize == [v \in {1, 2} |-> IF v = 1 THEN 2 ELSE 5]
MCObjDeepSize == [v \in {1, 2} |-> IF v = 1 THEN 0 ELSE 3]
====
