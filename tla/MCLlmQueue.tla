----------------------------- MODULE MCLlmQueue -----------------------------
(* LlmQueue for TLC: processes are interchangeable in the safety runs.     *)
EXTENDS LlmQueue, TLC

WorkerSymmetry == Permutations(Workers)

Worked == {jobs[j].target : j \in JobIds} \ {NoTarget}
Targeted == Worked \cup {o.target : o \in ops} \cup {t \in Targets : domain[t] # "none"}
Enqueued == {j \in JobIds : jobs[j].status # "absent"}

\* The safety run explores three scenarios of one instance: a re-startable row
\* under up to two jobs and two commands, a thread and a handler per process,
\* while nothing fails; that row under one job and one command while two database calls raise;
\* and a run under one job and two disturbances: a command, a database error,
\* a shutdown or a crash.
OneScenario ==
    \/ /\ Targeted \subseteq Materials
       /\ \A w \in Workers : /\ process[w] = "up"
                            /\ Cardinality({e \in execs : e.worker = w}) <= 1
                            /\ Cardinality({o \in ops : o.worker = w}) <= 1
       /\ faults = 0 \/ (Cardinality(Enqueued) <= 1 /\ commands <= 1)
    \/ /\ Targeted \subseteq Runs
       /\ Cardinality(Enqueued) <= 1 /\ commands <= 1 /\ faults <= 1
       /\ commands + faults + Gone("dead") + Gone("stopping") <= 2

\* The liveness run takes two of the rows at a time, and explores two
\* scenarios as well: processes that shut down, and a crash and an error with
\* an analysis and a run.  What is cut off is never a fair step: a start, a
\* stop, a crash or an error, which need not happen.
Gentle ==
    /\ Cardinality({t \in Targets : domain[t] # "none"}) <= 2
    /\ \/ Undisturbed
       \/ Gone("stopping") = 0 /\ \A c \in Chats : domain[c] = "none"
=============================================================================
