---------------------------- MODULE MCInvestigation ----------------------------
(***************************************************************************)
(* Findings and calls are interchangeable.                                 *)
(***************************************************************************)
EXTENDS Investigation, TLC

CONSTANTS f1, f2, s1, s2

Same == Permutations({f1, f2}) \cup Permutations({s1, s2})
===============================================================================
