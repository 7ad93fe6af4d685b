---------------------------- MODULE MCPartDescKey ----------------------------
(***************************************************************************)
(* Instantiates PartDescKey for TLC with 8-bit words (INT64_MIN is -128)   *)
(* and OB_PART_IDS_BITNUM = 3.  The three literals hash to INT64_MIN, a    *)
(* negative and a positive value under one algorithm and to other values  *)
(* under the other, so the hash selection shows in the partition.         *)
(***************************************************************************)
EXTENDS PartDescKey, TLC

MCMurmurHash == [v \in {"a", "b", "c"} |-> CASE v = "a" -> -128 [] v = "b" -> -7 [] v = "c" -> 5]
MCLegacyHash == [v \in {"a", "b", "c"} |-> CASE v = "a" -> 9 [] v = "b" -> 127 [] v = "c" -> -1]

MCGarbage == {-1, 99}

\* Four partitions after a reorganisation: physical ids 0, 2, 5, 6.
MCPartArray4 == (0 :> 0) @@ (1 :> 2) @@ (2 :> 5) @@ (3 :> 6)
MCTabletArray4 == (0 :> 100) @@ (1 :> 101) @@ (2 :> 102) @@ (3 :> 103)

\* Three partitions, physical ids 1, 3, 4.
MCPartArray3 == (0 :> 1) @@ (1 :> 3) @@ (2 :> 4)
MCTabletArray3 == (0 :> 100) @@ (1 :> 101) @@ (2 :> 102)

====
