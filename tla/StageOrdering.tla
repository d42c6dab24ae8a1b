--------------------------- MODULE StageOrdering ----------------------------
(***************************************************************************)
(* What the stage machine promises: a lane moves one task at a time and    *)
(* never back, except that a decision about bidding can be taken back      *)
(* before anything follows from it, a priced bid goes back to Verify, and a *)
(* submission recorded by hand can be undone as a whole.                   *)
(***************************************************************************)
EXTENDS StageTables

CONSTANT None

VARIABLES
    pos,    \* the lanes
    prior   \* the lanes before the submission recorded by hand, or None

Init == pos = Start /\ prior = None

\* The head task of an open lane is done.
Forward(l) ==
    /\ Active(pos, l)
    /\ pos' = [pos EXCEPT ![l] = @ + 1]
    /\ UNCHANGED prior

\* A locked lane opens on its first task.
Open(l) ==
    /\ pos[l] = Locked /\ ShouldActivate(pos, l)
    /\ pos' = [pos EXCEPT ![l] = 1]
    /\ UNCHANGED prior

\* A Go is taken back while nothing else has begun.
Reconsider ==
    /\ pos["intake"] = ToEstimator
    /\ \A l \in Lanes \ {"intake"} : pos[l] = Locked
    /\ pos' = [pos EXCEPT !["intake"] = GoNoGo]
    /\ UNCHANGED prior

\* The price changed after Verify; and, once verified again, the bid is back
\* where it was.
Bounce ==
    /\ pos["send_out"] \in PastVerify
    /\ pos' = [pos EXCEPT !["send_out"] = Verify]
    /\ UNCHANGED prior

Return ==
    /\ pos["send_out"] = Verify
    /\ \E stage \in PastVerify : pos' = [pos EXCEPT !["send_out"] = stage]
    /\ UNCHANGED prior

\* Once Go/No-Go is behind it a bid can be recorded as submitted.
Submit ==
    /\ pos["intake"] > GoNoGo /\ pos["send_out"] \notin GoneOutHeads
    /\ pos' = AllSubmitted
    /\ prior' \in {None, pos}

Revert ==
    /\ prior # None /\ pos["send_out"] = Submitted
    /\ pos' = prior
    /\ prior' = None

Next ==
    \/ \E l \in Lanes : Forward(l) \/ Open(l)
    \/ Reconsider \/ Bounce \/ Return \/ Submit \/ Revert

Spec == Init /\ [][Next]_<<pos, prior>>
=============================================================================
