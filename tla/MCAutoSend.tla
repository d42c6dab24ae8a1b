----------------------------- MODULE MCAutoSend -----------------------------
(* AutoSend for TLC: senders and contractors are interchangeable where no  *)
(* liveness is checked.                                                    *)
EXTENDS AutoSend, TLC

Symmetry == Permutations(Senders) \cup Permutations(Gcs)

\* The run with two dates: one command and a crash or a call that raises, or
\* neither and two commands, the second after the date has moved off a run.
\* Only commands, crashes and errors are cut off, which need not happen.
Scenarios ==
    \/ commands <= 1 /\ crashes + faults <= 1
    \/ /\ crashes + faults = 0 /\ human = "none" /\ changedAt = 0 /\ enabled /\ estimate = 1
       /\ \E d \in Dates : run[d].status # "none" /\ d # bidDate
=============================================================================
