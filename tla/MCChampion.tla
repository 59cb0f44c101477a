------------------------------ MODULE MCChampion ------------------------------
(***************************************************************************)
(* A genesis improver, a child whose proposal touches a component nobody   *)
(* has classified, and a grandchild with a plain one.  Calls are           *)
(* interchangeable.                                                        *)
(***************************************************************************)
EXTENDS Champion, TLC

CONSTANTS genesis, child, grandchild, s1, s2

Line == {genesis, child, grandchild}
Parents == [i \in Line |-> CASE i = genesis -> None [] i = child -> genesis [] OTHER -> child]
Components ==
  [i \in Line |-> CASE i = genesis -> {} [] i = child -> {"unknown"} [] OTHER -> {"modifiable"}]
Both == Permutations({s1, s2})
===============================================================================
