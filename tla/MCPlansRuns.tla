---------------------------- MODULE MCPlansRuns ----------------------------
(* PlansRuns for TLC: workers are interchangeable in the safety run, and    *)
(* the retry of the main group starts from rows without late duplicates.   *)
EXTENDS PlansRuns, TLC

WorkerSymmetry == Permutations(Workers)

\* Late duplicates before the main group's retry, or of the retry, not both: it
\* is made only where every row before it stands in its first slot.
OneDuplicate ==
    RowsOf(Main(2)) # {} => \A r \in Rows : rows[r] # "none" /\ r[1] # Main(2) => r[2] = 1
=============================================================================
