----------------------------- MODULE JobLedger -----------------------------
(***************************************************************************)
(* What the job queue promises about a job, without leases, attempts that  *)
(* overrun them, sweeps or lost calls: a job is submitted once, is held by *)
(* at most one process at a time, every hold is a new numbered turn, a job *)
(* given up goes back to waiting without losing its count, and a settled   *)
(* job is settled for good, with one outcome.  No two unsettled jobs share *)
(* a target.                                                               *)
(***************************************************************************)
EXTENDS Naturals

CONSTANTS Jobs, Owners, Nobody, Goals, NoGoal

Outcomes == {"succeeded", "failed", "canceled"}
Unsettled == {"queued", "running"}

VARIABLES phase, goal, holder, turns

ledger == <<phase, goal, holder, turns>>

Init ==
    /\ phase = [j \in Jobs |-> "absent"]
    /\ goal = [j \in Jobs |-> NoGoal]
    /\ holder = [j \in Jobs |-> Nobody]
    /\ turns = [j \in Jobs |-> 0]

Submit(j, g) ==
    /\ phase[j] = "absent"
    /\ \A i \in Jobs : goal[i] = g => phase[i] \notin Unsettled
    /\ phase' = [phase EXCEPT ![j] = "queued"]
    /\ goal' = [goal EXCEPT ![j] = g]
    /\ UNCHANGED <<holder, turns>>

\* One process takes some waiting jobs, each for its next turn.
Take(w, batch) ==
    /\ \A j \in batch : phase[j] = "queued"
    /\ phase' = [j \in Jobs |-> IF j \in batch THEN "running" ELSE phase[j]]
    /\ holder' = [j \in Jobs |-> IF j \in batch THEN w ELSE holder[j]]
    /\ turns' = [j \in Jobs |-> IF j \in batch THEN turns[j] + 1 ELSE turns[j]]
    /\ UNCHANGED goal

GiveBack(j) ==
    /\ phase[j] = "running"
    /\ phase' = [phase EXCEPT ![j] = "queued"]
    /\ holder' = [holder EXCEPT ![j] = Nobody]
    /\ UNCHANGED <<goal, turns>>

\* Only a held job can succeed.
Settle(j, outcome) ==
    /\ phase[j] \in Unsettled
    /\ outcome = "succeeded" => phase[j] = "running"
    /\ phase' = [phase EXCEPT ![j] = outcome]
    /\ holder' = [holder EXCEPT ![j] = Nobody]
    /\ UNCHANGED <<goal, turns>>

Next ==
    \/ \E j \in Jobs :
          \/ \E g \in Goals : Submit(j, g)
          \/ GiveBack(j)
          \/ \E outcome \in Outcomes : Settle(j, outcome)
    \/ \E w \in Owners, batch \in SUBSET Jobs : Take(w, batch)

Spec == Init /\ [][Next]_ledger
=============================================================================
