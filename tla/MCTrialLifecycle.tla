--------------------------- MODULE MCTrialLifecycle ---------------------------
(***************************************************************************)
(* Instances of TrialLifecycle for TLC.                                    *)
(***************************************************************************)
EXTENDS TrialLifecycle, TLC

\* Trials and callers are interchangeable: no action or safety property names
\* one.
Interchangeable == Permutations(Trials) \cup Permutations(Callers)
=============================================================================
