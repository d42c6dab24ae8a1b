---------------------------- MODULE StageTables -----------------------------
(***************************************************************************)
(* The tables of services/workflow.py: six lanes of tasks, which lanes must *)
(* be complete before a lane opens, and which may open it early.           *)
(*                                                                         *)
(* A lane's row (current_task, status) is one number: 0 while it is locked *)
(* on its first task, i while it is active on its i-th task, and one more  *)
(* than its length once it is complete on its last.                        *)
(***************************************************************************)
EXTENDS Naturals, Sequences, FiniteSets

Tasks ==
    [intake           |-> <<"intake", "go_no_go", "to_estimator">>,
     material_numbers |-> <<"estimate_received", "rfqs", "receive_quotes">>,
     labor_numbers    |-> <<"labor_numbers">>,
     select_vendors   |-> <<"select_vendors">>,
     markup           |-> <<"markup">>,
     send_out         |-> <<"gc_pricing", "verify", "send_out", "submitted", "bid_outcome">>]

Lanes == DOMAIN Tasks
CategoryOrder == <<"intake", "material_numbers", "labor_numbers", "select_vendors",
                   "markup", "send_out">>

Prereqs ==
    [intake           |-> {},
     material_numbers |-> {"intake"},
     labor_numbers    |-> {"intake"},
     select_vendors   |-> {"material_numbers"},
     markup           |-> {"select_vendors", "labor_numbers"},
     send_out         |-> {"intake", "labor_numbers", "select_vendors", "markup"}]

SoftPrereqs(l) ==
    IF l = "select_vendors" THEN {"material_numbers"}
    ELSE IF l = "markup" THEN {"select_vendors", "labor_numbers"} ELSE {}

Locked == 0
Complete(l) == Len(Tasks[l]) + 1
Positions == {pos \in [Lanes -> 0 .. 6] : \A l \in Lanes : pos[l] <= Complete(l)}
Start == [l \in Lanes |-> IF l = "intake" THEN 1 ELSE Locked]

Active(pos, l) == pos[l] \in 1 .. Len(Tasks[l])
HeadTask(pos, l) == Tasks[l][IF pos[l] = Locked THEN 1
                             ELSE IF pos[l] = Complete(l) THEN Len(Tasks[l]) ELSE pos[l]]

HardMet(pos, l) == \A k \in Prereqs[l] : pos[k] = Complete(k)
ShouldActivate(pos, l) == HardMet(pos, l) \/ \E k \in SoftPrereqs(l) : Active(pos, k)

\* One round of the fan-out's loop, and the lanes that one pass opens: in
\* CategoryOrder, so that a lane it opens can open a later one.
Opened(pos, l) ==
    IF pos[l] = Locked /\ ShouldActivate(pos, l) THEN [pos EXCEPT ![l] = 1] ELSE pos

Unlocked(pos) ==
    LET material == Opened(Opened(pos, "intake"), "material_numbers")
        labor    == Opened(material, "labor_numbers")
        vendors  == Opened(labor, "select_vendors")
        after    == Opened(Opened(vendors, "markup"), "send_out")
    IN {l \in Lanes : after[l] # pos[l]}

\* Positions of the intake lane and of the send_out lane.
GoNoGo == 2
ToEstimator == 3
Verify == 2
SendOut == 3
Submitted == 4
BidOutcome == 5
PastVerify == {SendOut, Submitted, BidOutcome}
GoneOutHeads == {Submitted, BidOutcome, Complete("send_out")}

\* The bid marked as submitted: every other lane done.
AllSubmitted == [l \in Lanes |-> IF l = "send_out" THEN Submitted ELSE Complete(l)]

-----------------------------------------------------------------------------
(* The headline: the furthest task in work, send_out before anything else.  *)

StageOrder == <<"intake", "go_no_go", "to_estimator", "estimate_received", "rfqs",
                "receive_quotes", "select_vendors", "labor_numbers", "markup",
                "gc_pricing", "verify", "send_out", "submitted", "bid_outcome">>
Stages == {StageOrder[i] : i \in DOMAIN StageOrder} \cup {"declined"}

Furthest(tasks) ==
    StageOrder[CHOOSE i \in DOMAIN StageOrder :
                /\ StageOrder[i] \in tasks
                /\ \A j \in DOMAIN StageOrder : j > i => StageOrder[j] \notin tasks]

Headline(pos) ==
    LET heads(ls) == {HeadTask(pos, l) : l \in ls}
        active == {l \in Lanes : Active(pos, l)}
        current == {l \in active : HardMet(pos, l)}
    IN IF pos["send_out"] # Locked THEN HeadTask(pos, "send_out")
       ELSE Furthest(heads(IF current # {} THEN current
                           ELSE IF active # {} THEN active
                           ELSE {l \in Lanes : pos[l] = Complete(l)}))
=============================================================================
