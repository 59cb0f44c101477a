------------------------------- MODULE MCRecords -------------------------------
(***************************************************************************)
(* The claims of anamnesis and the tournaments of arete: two subsystems    *)
(* with nothing to say to each other, in one model.  A behaviour is of one *)
(* of them, and the other stays at its start.                              *)
(*                                                                         *)
(* Of the three claims two are drawn for the same text, and the evidence   *)
(* lists take every way through the loop of the insertions.  Results and   *)
(* calls are interchangeable.                                              *)
(***************************************************************************)
EXTENDS Memory, TLC

CONSTANTS
  c1, c2, c3, text, other, s1, s2,                             \* Memory
  Tournaments, Results, NoOne, Declared, MaxCorrections, MaxDecisions,
  r1, r2, r3

Drawn3 == {c1, c2, c3}
Texts == [i \in Drawn3 |-> IF i = c3 THEN other ELSE text]
Lists == {{Trial}, {c1}, {Trial, NoKey}}
Same == Permutations({s1, s2}) \cup Permutations({r1, r2, r3})

VARIABLES
  server,     \* the one this behaviour is of
  tournament, result, decisions, pulled, play, corrected, ran

Arete == INSTANCE Tournament WITH
  call <- play, evidence <- pulled, None <- NoOne

ASSUME TournamentsAssumption == Arete!TournamentAssumption

areteVars == <<tournament, result, decisions, pulled, play, corrected, ran>>

Start == server \in {"anamnesis", "arete"} /\ Init /\ Arete!Init

Step ==
  \/ server = "anamnesis" /\ Next /\ UNCHANGED <<server, areteVars>>
  \/ server = "arete" /\ Arete!Next /\ UNCHANGED <<server, vars>>

Servers == Start /\ [][Step]_<<server, vars, areteVars>>

-----------------------------------------------------------------------------
\* What Tournament says of a tournament nothing met on.
SealedWhenAlone == Arete!SealedWhenAlone
================================================================================
