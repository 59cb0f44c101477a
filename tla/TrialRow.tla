------------------------------- MODULE TrialRow -------------------------------
(***************************************************************************)
(* What a trial's durable row promises to its readers, whoever writes it   *)
(* and in whatever order: it starts once, ends once, is labelled completed *)
(* only over evidence of a completed run, and once it has ended its label  *)
(* changes only by a correction that the row records.  A later write of    *)
(* the record replaces the corrections in it.                              *)
(***************************************************************************)
EXTENDS ExecutorRecord, Sequences

CONSTANT Trials

VARIABLES status, output, trail
rowVars == <<status, output, trail>>

Ends == {"completed", "failed", "retryable"}

\* The row may carry label s over record r.
Supported(s, r) == s = "completed" => EvidencesCompletion(r)

Init ==
  /\ status = [t \in Trials |-> "designed"]
  /\ output = [t \in Trials |-> NoRecord]
  /\ trail  = [t \in Trials |-> << >>]

Begin(t) ==
  /\ status[t] = "designed"
  /\ status' = [status EXCEPT ![t] = "running"]
  /\ UNCHANGED <<output, trail>>

Abandon(t) ==
  /\ status[t] = "designed"
  /\ status' = [status EXCEPT ![t] = "abandoned"]
  /\ UNCHANGED <<output, trail>>

\* The run ends under a label, over the old record or over a new one.
Settle(t) ==
  /\ status[t] = "running"
  /\ \E s \in Ends, r \in Record :
       /\ Supported(s, r)
       /\ status' = [status EXCEPT ![t] = s]
       /\ \/ r = output[t] /\ UNCHANGED <<output, trail>>
          \/ /\ output' = [output EXCEPT ![t] = r]
             /\ trail'  = [trail EXCEPT ![t] = << >>]

\* The record of a started trial is replaced; its label still stands.
Rewrite(t) ==
  /\ status[t] \in Ends \cup {"running"}
  /\ \E r \in Record :
       /\ Supported(status[t], r)
       /\ output' = [output EXCEPT ![t] = r]
  /\ trail' = [trail EXCEPT ![t] = << >>]
  /\ UNCHANGED status

Relabel(t) ==
  /\ status[t] \in Ends
  /\ \E s \in Ends :
       /\ Supported(s, output[t])
       /\ status' = [status EXCEPT ![t] = s]
       /\ trail'  = [trail EXCEPT ![t] =
                       Append(@, [from |-> status[t], to |-> s])]
  /\ UNCHANGED output

Next == \E t \in Trials :
  Begin(t) \/ Abandon(t) \/ Settle(t) \/ Rewrite(t) \/ Relabel(t)

Spec == Init /\ [][Next]_rowVars
=============================================================================
