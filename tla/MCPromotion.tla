----------------------------- MODULE MCPromotion -----------------------------
(* Instances of Promotion for TLC. *)
EXTENDS Promotion, SequencesExt, TLC

Interchangeable == Permutations(Candidates)

\* get_incumbent as it is written: the table newest first, noting what was rolled
\* back, up to the first promotion that was not.
Scan(d, found) ==
  IF found.incumbent # Nobody THEN found
  ELSE IF d.verdict = "rollback"
    THEN [found EXCEPT !.rolledBack = @ \cup {d.candidate}]
  ELSE IF d.verdict = "promote" /\ d.candidate \notin found.rolledBack
    THEN [found EXCEPT !.incumbent = d.candidate]
  ELSE found

\* The scan finds the incumbent, in all short tables.
Tables == SeqOf({Decision(x, v, Nobody) : x \in Candidates, v \in Verdicts \ {"hold"}}, 3)
ASSUME ScanFindsIncumbent ==
  \A ds \in Tables :
    Incumbent(ds) =
      FoldRight(Scan, ds, [rolledBack |-> {}, incumbent |-> Nobody]).incumbent
=============================================================================
