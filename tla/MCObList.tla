------------------------------- MODULE MCObList -------------------------------
(***************************************************************************)
(* Instantiates ObList for TLC: three nodes of memory, two values, and a   *)
(* two-element container for assign and deserialize.                      *)
(***************************************************************************)
EXTENDS ObList, TLC

MCContainers == {<<"a", "b">>}

====
