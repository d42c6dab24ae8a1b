------------------------ MODULE WorkflowStagesProofs ------------------------
(***************************************************************************)
(* Theorems about WorkflowStages for any number of handlers, any figures   *)
(* and any number of crashes: the types, the refinement of StageOrdering,  *)
(* and what is recorded beside the lanes.                                  *)
(***************************************************************************)
EXTENDS WorkflowStages, TLAPS

-----------------------------------------------------------------------------
(* The inductive invariant, in three layers.                                *)

\* The steps that a handler goes through, and its lane.
Moves == {"load", "move", "fanout", "unlock", "headline", "point"}
Steps == Moves \cup {"idle", "look", "decline", "kill", "reopen", "decide", "price", "commit",
                    "leave", "return", "unmark", "bounce", "mark", "reset", "record"}
OnRoute(why, at) ==
    /\ why = "none" => at = "idle"
    /\ why \in {"enter", "advance", "sent"} => at \in Moves
    /\ why = "go" => at \in Moves \cup {"decide"}
    /\ why = "no_go" => at \in {"decline", "kill", "decide"}
    /\ why = "undo" => at \in {"reopen", "headline", "point", "decide"}
    /\ why = "commit" => at \in Moves \cup {"price", "commit", "leave", "return", "unmark"}
    /\ why = "outcome" => at \in Moves \cup {"record"}
    /\ why = "edit" => at \in {"look", "bounce", "mark", "reset", "headline", "point"}
OnIntake == {"enter", "go", "no_go", "undo"}
OnSendOut == {"commit", "sent", "outcome", "edit"}
Whys == {"none", "advance"} \cup OnIntake \cup OnSendOut

Asked == [at : Steps, why : Whys, lane : Lanes, head : 0 .. 6, to : {None} \cup 0 .. 6,
          opens : SUBSET Lanes, stage : Stages \cup {"none"}, figures : Figures \cup {None}]

AskedOK(q) ==
    /\ OnRoute(q.why, q.at)
    /\ q.why \in OnIntake => q.lane = "intake"
    /\ q.why \in OnSendOut => q.lane = "send_out"
    /\ q.at = "move" => q.to \in 1 .. Complete(q.lane)
    /\ q.at = "return" => q.to \in PastVerify
    /\ q.at \in {"bounce", "mark"} => q.to \in Heads
    /\ q.at = "bounce" => q.head \in PastVerify
    /\ q.at = "point" => q.stage \in Stages \ {"declined"}
    /\ q.at = "commit" => q.figures \in Figures
    /\ q.at = "unlock" => q.opens # {}

Begun(x) == x \in Positions /\ x["intake"] >= 1
Saved == [pos : {x \in Positions : Begun(x)}, stage : Stages, back : Heads,
          figures : Figures, snapshot : Figures \cup {None}, missed : BOOLEAN]

\* Layer 1: types.
RowsOK ==
    /\ Begun(pos) /\ stage \in Stages
    /\ back \in Heads /\ left \in Heads
    /\ figures \in Figures /\ snapshot \in Figures \cup {None}
    /\ decision \in {"none", "go", "no_go"} /\ outcome \in BOOLEAN
    /\ external = None \/ external \in Saved
    /\ missed \in BOOLEAN /\ crashes \in Nat
AsksOK == req \in [Requests -> Asked] /\ \A p \in Requests : AskedOK(req[p])
Typed == RowsOK /\ AsksOK

\* Layer 2: who has which lane in hand, and what a handler may rely on.
Exclusive ==
    \A p, q \in Requests : p # q /\ Uses(p) \cap Uses(q) # {}
        => req[p].why = "edit" /\ req[q].why = "edit"

\* Until intake is complete nothing else has begun; a declined bid is parked.
Shape(x, st) ==
    /\ x["intake"] # Complete("intake") => \A l \in Lanes \ {"intake"} : x[l] = Locked
    /\ st = "declined" => x["intake"] \in {GoNoGo, ToEstimator}

Shaped ==
    /\ Shape(pos, stage)
    /\ external # None => /\ Shape(external.pos, external.stage)
                          /\ external.pos["intake"] > GoNoGo /\ external.stage # "declined"

\* A lane that a fan-out is to open can be opened when its turn comes.
Coming(p, l) == l \in req[p].opens \/ pos[l] # Locked
Ready(p, l) ==
    /\ l # "intake" /\ pos[l] = Locked
    /\ l = "select_vendors" => Coming(p, "material_numbers")
    /\ l = "markup" => Coming(p, "select_vendors") /\ Coming(p, "labor_numbers")
    /\ l = "send_out" => HardMet(pos, l)

KnowsIntake(q, head, st) ==
    /\ q.why = "enter" => /\ head = IF q.at \in {"load", "move"} THEN 1 ELSE GoNoGo
                          /\ st # "declined"
    /\ q.why = "go" => head = IF q.at \in {"load", "move"} THEN GoNoGo ELSE ToEstimator
    /\ q.why = "no_go" => head = GoNoGo
    /\ q.why = "undo" => head \in (IF q.at = "reopen" THEN {GoNoGo, ToEstimator} ELSE {GoNoGo})
    /\ q.why = "advance" /\ q.lane = "intake" =>
          IF q.at \in {"load", "move"} THEN head = ToEstimator /\ st # "declined"
                                       ELSE head = Complete("intake")

KnowsSendOut(q, head) ==
    /\ q.why = "commit" /\ q.at \in {"price", "commit", "leave"} => head = q.head
    /\ q.why = "commit" /\ q.at \in {"leave", "load", "move", "return"} => head = Verify
    /\ q.why = "commit" /\ q.at = "unmark" => head \in PastVerify
    /\ q.why = "edit" /\ q.at \in {"mark", "reset", "headline", "point"} => head = Verify
    /\ q.at \in {"load", "move"} =>
          /\ q.why = "advance" /\ q.lane = "send_out" => head \notin {Verify, SendOut, Submitted}
          /\ q.why = "sent" => head = SendOut
          /\ q.why = "outcome" => head = Submitted
    /\ q.why = "outcome" /\ q.at = "record" => head = q.head

Knows(p) ==
    LET q == req[p] IN
    /\ q.at \notin {"idle", "look"} /\ q.lane # "intake"
          => pos["intake"] = Complete("intake") /\ pos[q.lane] # Locked
    /\ q.at = "move" => Active(pos, q.lane) /\ q.to = pos[q.lane] + 1
    /\ q.at = "unlock" => /\ q.opens # {} /\ pos["intake"] = Complete("intake")
                          /\ \A l \in q.opens : Ready(p, l)
    /\ q.at # "unlock" => q.opens = {}
    /\ KnowsIntake(q, pos["intake"], stage)
    /\ KnowsSendOut(q, pos["send_out"])

Kept == Exclusive /\ Shaped /\ \A p \in Requests : Knows(p)

\* Layer 3: as long as no handler died half way.
Marked == back = IF pos["send_out"] = Verify THEN left ELSE None
Marking == \E p \in Requests : req[p].at \in {"mark", "unmark"}

Carries(q) ==
    /\ q.at = "bounce" => q.to = q.head
    /\ q.at = "mark" => left = q.to /\ q.to \in PastVerify
    /\ q.at = "unmark" => left = None
    /\ q.why = "commit" /\ q.at \in {"load", "move"} => back = None

MarkOK ==
    /\ Marked \/ Marking
    /\ \A p \in Requests : Carries(req[p])
    /\ external # None /\ external.pos["send_out"] # Verify => external.back = None

Deciding(p) ==
    \/ req[p].why = "go" /\ req[p].at \in {"fanout", "unlock", "headline", "point", "decide"}
    \/ req[p].why = "no_go" /\ req[p].at = "decide"
    \/ req[p].why = "undo" /\ req[p].at \in {"headline", "point", "decide"}

Decided == /\ decision = "no_go" <=> stage = "declined"
           /\ decision = "go" <=> pos["intake"] > GoNoGo

Judged(q) == q.at = "decide" => (q.why = "no_go" <=> stage = "declined")
DecisionOK == /\ Decided \/ \E p \in Requests : Deciding(p)
              /\ \A p \in Requests : Judged(req[p])

\* An edit whose figures are saved and that is still to pull the bid back.
Looking == \E p \in Requests : req[p].at = "look"
Edited == Looking \/ \E p \in Requests : req[p].at = "bounce" /\ req[p].head = pos["send_out"]

Priced(q) ==
    /\ q.at = "commit" => q.figures = figures \/ Looking \/ missed
    /\ q.why = "commit" /\ q.at \in {"leave", "load", "move", "return"}
          => snapshot = figures \/ Looking \/ missed

\* A commit that has read the figures and is to write them down.
Stamping == \E p \in Requests : req[p].at = "commit"

PriceOK ==
    /\ pos["send_out"] \in PastVerify => snapshot = figures \/ Edited \/ missed \/ Stamping
    /\ \A p \in Requests : Priced(req[p])
    /\ external # None /\ external.pos["send_out"] \in PastVerify
          => external.snapshot = external.figures \/ external.missed

\* A locked lane is one that a fan-out is to open, or Send Out before its time.
Waits(x, l) == l = "send_out" /\ ~HardMet(x, l)
Opens(l) == \E p \in Requests :
    req[p].at = "fanout" \/ (req[p].at = "unlock" /\ l \in req[p].opens)
OpenOK ==
    /\ pos["intake"] = Complete("intake") =>
        \A l \in Lanes : pos[l] = Locked => Opens(l) \/ Waits(pos, l)
    /\ external # None /\ external.pos["intake"] = Complete("intake") =>
        \A l \in Lanes : external.pos[l] = Locked => Waits(external.pos, l)

Unbroken == MarkOK /\ DecisionOK /\ PriceOK /\ OpenOK
IInv == Typed /\ (Calm => Kept /\ (crashes = 0 => Unbroken))

-----------------------------------------------------------------------------
USE WorkflowAssumption DEF WorkflowAssumption

(* The tables.                                                              *)

LEMMA Lengths ==
    /\ Lanes = {"intake", "material_numbers", "labor_numbers", "select_vendors", "markup",
                "send_out"}
    /\ Complete("intake") = 4 /\ Complete("material_numbers") = 4
    /\ Complete("labor_numbers") = 2 /\ Complete("select_vendors") = 2
    /\ Complete("markup") = 2 /\ Complete("send_out") = 6
    /\ \A l \in Lanes : Complete(l) \in 2 .. 6
    /\ \A l \in Lanes : Len(Tasks[l]) \in 1 .. 5 /\ Len(Tasks[l]) = Complete(l) - 1
<1>1. Lanes = {"intake", "material_numbers", "labor_numbers", "select_vendors", "markup",
               "send_out"}
  BY DEF Lanes, Tasks
<1>2. /\ Len(Tasks["intake"]) = 3 /\ Len(Tasks["material_numbers"]) = 3
      /\ Len(Tasks["labor_numbers"]) = 1 /\ Len(Tasks["select_vendors"]) = 1
      /\ Len(Tasks["markup"]) = 1 /\ Len(Tasks["send_out"]) = 5
  BY DEF Tasks
<1>4. /\ Complete("intake") = 4 /\ Complete("material_numbers") = 4
      /\ Complete("labor_numbers") = 2 /\ Complete("select_vendors") = 2
      /\ Complete("markup") = 2 /\ Complete("send_out") = 6
  BY <1>2 DEF Complete
<1>5. ASSUME NEW l \in Lanes
      PROVE  Complete(l) \in 2 .. 6 /\ Len(Tasks[l]) \in 1 .. 5 /\ Len(Tasks[l]) = Complete(l) - 1
  <2>1. Len(Tasks[l]) \in {1, 3, 5}
    BY <1>1, <1>2
  <2>2. Complete(l) = Len(Tasks[l]) + 1
    BY DEF Complete
  <2>3. \A n, m : n \in {1, 3, 5} /\ m = n + 1
                        => m \in 2 .. 6 /\ n \in 1 .. 5 /\ n = m - 1
    OBVIOUS
  <2>. QED BY <2>1, <2>2, <2>3
<1>. QED BY <1>1, <1>4, <1>5

LEMMA HeadsAre ==
    /\ PastVerify = {3, 4, 5} /\ GoneOutHeads = {4, 5, 6}
    /\ Heads = {None, 3, 4, 5} /\ Verify = 2 /\ GoNoGo = 2 /\ ToEstimator = 3
    /\ SendOut = 3 /\ Submitted = 4 /\ BidOutcome = 5 /\ Locked = 0
BY Lengths DEF PastVerify, GoneOutHeads, Heads, Verify, GoNoGo, ToEstimator, SendOut, Submitted,
   BidOutcome, Locked

LEMMA Starting ==
    /\ Begun(Start) /\ Begun(AllSubmitted)
    /\ \A l \in Lanes : Start[l] = (IF l = "intake" THEN 1 ELSE 0)
    /\ \A l \in Lanes : AllSubmitted[l] = IF l = "send_out" THEN Submitted ELSE Complete(l)
<1>1. Start \in [Lanes -> 0 .. 6] /\ AllSubmitted \in [Lanes -> 0 .. 6]
  BY Lengths DEF Start, AllSubmitted, Locked, Submitted
<1>. QED BY <1>1, Lengths DEF Start, AllSubmitted, Begun, Positions, Locked, Submitted

\* A lane that moves within its length keeps the lanes well formed.
LEMMA LaneSet ==
    ASSUME NEW x, Begun(x), NEW l \in Lanes, NEW n \in 0 .. Complete(l), l = "intake" => n >= 1
    PROVE  Begun([x EXCEPT ![l] = n])
<1>1. n \in 0 .. 6 /\ x \in [Lanes -> 0 .. 6] /\ x["intake"] >= 1 /\ "intake" \in Lanes
  BY Lengths DEF Begun, Positions
<1>2. \A k \in Lanes : x[k] <= Complete(k)
  BY DEF Begun, Positions
<1>3. [x EXCEPT ![l] = n] \in [Lanes -> 0 .. 6]
  BY <1>1
<1>4. \A k \in Lanes : [x EXCEPT ![l] = n][k] <= Complete(k)
  BY <1>1, <1>2
<1>. QED BY <1>1, <1>3, <1>4 DEF Begun, Positions

LEMMA TaskKnown ==
    ASSUME NEW l \in Lanes, NEW i \in 1 .. Len(Tasks[l])
    PROVE  \E j \in DOMAIN StageOrder : StageOrder[j] = Tasks[l][i]
<1>. USE DEF Tasks, StageOrder
<1>1. CASE l = "intake"
  <2>1. i \in {1, 2, 3}
    BY <1>1
  <2>. QED BY <1>1, <2>1
<1>2. CASE l = "material_numbers"
  <2>1. i \in {1, 2, 3}
    BY <1>2
  <2>. QED BY <1>2, <2>1
<1>3. CASE l = "labor_numbers"
  BY <1>3
<1>4. CASE l = "select_vendors"
  BY <1>4
<1>5. CASE l = "markup"
  BY <1>5
<1>6. CASE l = "send_out"
  <2>1. i \in {1, 2, 3, 4, 5}
    BY <1>6
  <2>. QED BY <1>6, <2>1
<1>. QED BY <1>1, <1>2, <1>3, <1>4, <1>5, <1>6, Lengths

LEMMA HeadKnown ==
    ASSUME NEW x, Begun(x), NEW l \in Lanes
    PROVE  \E j \in DOMAIN StageOrder : StageOrder[j] = HeadTask(x, l)
<1>1. x[l] \in 0 .. Complete(l)
  BY DEF Begun, Positions
<1>2. \E i \in 1 .. Len(Tasks[l]) : HeadTask(x, l) = Tasks[l][i]
  <2>1. Len(Tasks[l]) \in 1 .. 5 /\ Len(Tasks[l]) = Complete(l) - 1 /\ Complete(l) \in 2 .. 6
    BY Lengths
  <2>2. x[l] = Locked => HeadTask(x, l) = Tasks[l][1]
    BY DEF HeadTask
  <2>3. x[l] # Locked /\ x[l] = Complete(l) => HeadTask(x, l) = Tasks[l][Len(Tasks[l])]
    BY DEF HeadTask
  <2>4. x[l] # Locked /\ x[l] # Complete(l) => /\ HeadTask(x, l) = Tasks[l][x[l]]
                                              /\ x[l] \in 1 .. Len(Tasks[l])
    BY <1>1, <2>1 DEF HeadTask, Locked
  <2>5. 1 \in 1 .. Len(Tasks[l]) /\ Len(Tasks[l]) \in 1 .. Len(Tasks[l])
    BY <2>1
  <2>. QED BY <2>2, <2>3, <2>4, <2>5
<1>. QED BY <1>2, TaskKnown

LEMMA InOrder == \A j \in DOMAIN StageOrder : StageOrder[j] \in Stages \ {"declined"}
<1>1. \A j \in 1 .. 14 : StageOrder[j] # "declined"
  BY DEF StageOrder
<1>2. DOMAIN StageOrder = 1 .. 14
  BY DEF StageOrder
<1>. QED BY <1>1, <1>2 DEF Stages

LEMMA Topmost ==
    ASSUME NEW set, set \subseteq 1 .. 14, set # {}
    PROVE  \E i \in set : \A j \in set : j <= i
<1>1. SUFFICES ASSUME \A i \in set : \E j \in set : j > i PROVE FALSE
  OBVIOUS
<1>2. 14 \notin set
  BY <1>1
<1>3. 13 \notin set
  BY <1>1, <1>2
<1>4. 12 \notin set
  BY <1>1, <1>2, <1>3
<1>5. 11 \notin set
  BY <1>1, <1>2, <1>3, <1>4
<1>6. 10 \notin set
  BY <1>1, <1>2, <1>3, <1>4, <1>5
<1>7. 9 \notin set
  BY <1>1, <1>2, <1>3, <1>4, <1>5, <1>6
<1>8. 8 \notin set
  BY <1>1, <1>2, <1>3, <1>4, <1>5, <1>6, <1>7
<1>9. 7 \notin set
  BY <1>1, <1>2, <1>3, <1>4, <1>5, <1>6, <1>7, <1>8
<1>10. 6 \notin set
  BY <1>1, <1>2, <1>3, <1>4, <1>5, <1>6, <1>7, <1>8, <1>9
<1>11. 5 \notin set
  BY <1>1, <1>2, <1>3, <1>4, <1>5, <1>6, <1>7, <1>8, <1>9, <1>10
<1>12. 4 \notin set
  BY <1>1, <1>2, <1>3, <1>4, <1>5, <1>6, <1>7, <1>8, <1>9, <1>10, <1>11
<1>13. 3 \notin set
  BY <1>1, <1>2, <1>3, <1>4, <1>5, <1>6, <1>7, <1>8, <1>9, <1>10, <1>11, <1>12
<1>14. 2 \notin set
  BY <1>1, <1>2, <1>3, <1>4, <1>5, <1>6, <1>7, <1>8, <1>9, <1>10, <1>11, <1>12, <1>13
<1>15. 1 \notin set
  BY <1>1, <1>2, <1>3, <1>4, <1>5, <1>6, <1>7, <1>8, <1>9, <1>10, <1>11, <1>12, <1>13, <1>14
<1>16. PICK n \in set : n \in 1 .. 14
  OBVIOUS
<1>. QED BY <1>2, <1>3, <1>4, <1>5, <1>6, <1>7, <1>8, <1>9, <1>10, <1>11, <1>12, <1>13, <1>14,
            <1>15, <1>16

\* The furthest of some tasks is one of them.
LEMMA FurthestIs ==
    ASSUME NEW tasks, NEW j \in DOMAIN StageOrder, StageOrder[j] \in tasks
    PROVE  Furthest(tasks) \in Stages \ {"declined"}
<1> DEFINE There == {i \in DOMAIN StageOrder : StageOrder[i] \in tasks}
<1>0. DOMAIN StageOrder = 1 .. 14
  BY DEF StageOrder
<1>1. There \subseteq 1 .. 14 /\ There # {}
  BY <1>0
<1>2. PICK i \in There : \A k \in There : k <= i
  BY <1>1, Topmost
<1>3. ASSUME NEW k \in DOMAIN StageOrder, k > i PROVE StageOrder[k] \notin tasks
  BY <1>0, <1>2, <1>3
<1>. QED BY <1>2, <1>3, InOrder DEF Furthest

LEMMA HeadlineIs ==
    ASSUME NEW x, Begun(x)
    PROVE  Headline(x) \in Stages \ {"declined"}
<1> DEFINE Tops(ls) == {HeadTask(x, l) : l \in ls}
           Working == {l \in Lanes : Active(x, l)}
           Current == {l \in Working : HardMet(x, l)}
           Shown == IF Current # {} THEN Current
                    ELSE IF Working # {} THEN Working
                    ELSE {l \in Lanes : x[l] = Complete(l)}
<1>1. Shown \subseteq Lanes /\ Shown # {}
  <2>1. x["intake"] \in 1 .. Complete("intake") /\ "intake" \in Lanes
    BY Lengths DEF Begun, Positions
  <2>2. Active(x, "intake") \/ x["intake"] = Complete("intake")
    BY <2>1, Lengths DEF Active
  <2>. QED BY <2>1, <2>2
<1>2. Furthest(Tops(Shown)) \in Stages \ {"declined"}
  <2>1. PICK l \in Shown : TRUE
    BY <1>1
  <2>2. PICK j \in DOMAIN StageOrder : StageOrder[j] = HeadTask(x, l)
    BY <1>1, HeadKnown
  <2>3. StageOrder[j] \in Tops(Shown)
    BY <2>2
  <2>. QED BY <2>3, FurthestIs
<1>3. HeadTask(x, "send_out") \in Stages \ {"declined"}
  BY HeadKnown, InOrder, Lengths
<1>4. Headline(x) \in {HeadTask(x, "send_out"), Furthest(Tops(Shown))}
  BY DEF Headline
<1>. QED BY <1>2, <1>3, <1>4

-----------------------------------------------------------------------------
(* Types.                                                                   *)

LEMMA IdleOK == Idle \in Asked /\ AskedOK(Idle)
BY Lengths DEF Idle, Asked, AskedOK, OnRoute, Steps, Moves, Whys, OnIntake, OnSendOut

LEMMA Positive == ASSUME Begun(pos), NEW l \in Lanes PROVE pos[l] \in 0 .. Complete(l) /\ pos[l] \in 0 .. 6
BY Lengths DEF Begun, Positions

LEMMA ActiveIs ==
    ASSUME NEW x, Begun(x), NEW l \in Lanes
    PROVE  /\ Active(x, l) <=> x[l] # 0 /\ x[l] # Complete(l)
           /\ Active(x, l) => x[l] + 1 \in 1 .. Complete(l) /\ x[l] + 1 \in 0 .. 6
<1>1. x[l] \in 0 .. Complete(l)
  BY DEF Begun, Positions
<1>2. Complete(l) \in 2 .. 6 /\ Len(Tasks[l]) \in 1 .. 5 /\ Len(Tasks[l]) = Complete(l) - 1
  BY Lengths
<1>3. \A n, c, i : c \in 2 .. 6 /\ n \in 1 .. 5 /\ n = c - 1 /\ i \in 0 .. c =>
        /\ i \in 1 .. n <=> i # 0 /\ i # c
        /\ i \in 1 .. n => i + 1 \in 1 .. c /\ i + 1 \in 0 .. 6
  OBVIOUS
<1>. QED BY <1>1, <1>2, <1>3 DEF Active

LEMMA TypedInit == Init => Typed
<1>. SUFFICES ASSUME Init PROVE Typed
  OBVIOUS
<1>1. "intake" \in Stages
  BY InOrder DEF StageOrder, Stages
<1>. QED BY <1>1, Starting, IdleOK DEF Init, Typed, RowsOK, AsksOK, Heads

LEMMA Taken ==
    ASSUME AsksOK, NEW p \in Requests, NEW q \in Asked, AskedOK(q), req' = [req EXCEPT ![p] = q]
    PROVE  AsksOK'
BY DEF AsksOK

LEMMA Ended == ASSUME AsksOK, NEW p \in Requests, Done(p) PROVE AsksOK'
BY IdleOK, Taken DEF Done

LEMMA Went ==
    ASSUME AsksOK, NEW p \in Requests, NEW at \in Steps \ {"move", "unlock", "return", "bounce", "point", "commit"},
           Goto(p, at), OnRoute(req[p].why, at), at = "mark" => req[p].at = "bounce"
    PROVE  AsksOK'
<1>1. [req[p] EXCEPT !.at = at] \in Asked
  BY DEF AsksOK, Asked
<1>2. AskedOK([req[p] EXCEPT !.at = at])
  BY DEF AsksOK, Asked, AskedOK
<1>. QED BY <1>1, <1>2, Taken DEF Goto

Firsts == {"load", "decline", "reopen", "price", "record"}
Starts(at, why, lane) ==
    /\ at \in Firsts /\ why \in Whys \ {"none"} /\ lane \in Lanes /\ OnRoute(why, at)
    /\ why \in OnIntake => lane = "intake"
    /\ why \in OnSendOut => lane = "send_out"

LEMMA BeginTyped ==
    ASSUME Typed, NEW p \in Requests, NEW at, NEW why, NEW lane, Starts(at, why, lane),
           Begin(p, at, why, lane)
    PROVE  Typed'
<1> DEFINE q == [Idle EXCEPT !.at = at, !.why = why, !.lane = lane, !.head = pos[lane]]
<1>1. q \in Asked
  BY IdleOK, Positive DEF Typed, RowsOK, Starts, Firsts, Asked, Steps, Moves
<1>2. AskedOK(q)
  BY IdleOK DEF Asked, AskedOK, Starts, Firsts
<1>. QED BY <1>1, <1>2, Taken DEF Begin, rows, Typed, RowsOK

LEMMA StartAdvanceIs ==
    ASSUME Typed, NEW p \in Requests, NEW l \in Lanes, StartAdvance(p, l)
    PROVE  \E why \in {"enter", "advance"} :
              /\ Begin(p, "load", why, l) /\ Starts("load", why, l)
              /\ Active(pos, l) /\ stage # "declined"
              /\ why = "enter" => l = "intake" /\ pos[l] = 1
              /\ why = "advance" /\ l = "intake" => pos[l] = ToEstimator
              /\ why = "advance" /\ l = "send_out" => pos[l] \notin {Verify, SendOut, Submitted}
<1>0. pos[l] \in 1 .. Len(Tasks[l]) /\ Len(Tasks[l]) \in 1 .. 5 /\ Len(Tasks[l]) = Complete(l) - 1
  BY Lengths DEF StartAdvance, Active
<1>1. HeadTask(pos, l) = Tasks[l][pos[l]]
  <2>1. pos[l] # Locked /\ pos[l] # Complete(l)
    BY <1>0, Lengths DEF Locked
  <2>. QED BY <2>1 DEF HeadTask
<1>2. /\ l = "intake" => /\ pos[l] \in {1, 2, 3}
                         /\ Tasks[l][1] = "intake" /\ Tasks[l][2] = "go_no_go"
                         /\ Tasks[l][3] = "to_estimator"
      /\ l = "send_out" => /\ pos[l] \in {1, 2, 3, 4, 5}
                           /\ Tasks[l][2] = "verify" /\ Tasks[l][3] = "send_out"
                           /\ Tasks[l][4] = "submitted"
  <2>1. /\ Tasks["intake"] = <<"intake", "go_no_go", "to_estimator">>
        /\ Tasks["send_out"] = <<"gc_pricing", "verify", "send_out", "submitted", "bid_outcome">>
    BY DEF Tasks
  <2>2. /\ l = "intake" => pos[l] \in {1, 2, 3}
        /\ l = "send_out" => pos[l] \in {1, 2, 3, 4, 5}
    BY SMTT(60), <1>0, Lengths
  <2>. QED BY <2>1, <2>2
<1>3. ASSUME l # "intake" PROVE Tasks[l][pos[l]] # "intake"
  <2>1. l \in {"material_numbers", "labor_numbers", "select_vendors", "markup", "send_out"}
    BY <1>3, Lengths
  <2>2. /\ Tasks["labor_numbers"] = <<"labor_numbers">> /\ Tasks["markup"] = <<"markup">>
        /\ Tasks["select_vendors"] = <<"select_vendors">>
        /\ Tasks["material_numbers"] = <<"estimate_received", "rfqs", "receive_quotes">>
        /\ Tasks["send_out"] = <<"gc_pricing", "verify", "send_out", "submitted", "bid_outcome">>
    BY DEF Tasks
  <2>3. /\ l \in {"labor_numbers", "markup", "select_vendors"} => pos[l] = 1
        /\ l = "material_numbers" => pos[l] \in {1, 2, 3}
        /\ l = "send_out" => pos[l] \in {1, 2, 3, 4, 5}
    BY <1>0, Lengths
  <2>. QED BY <2>1, <2>2, <2>3
<1>4. StartAdvance(p, l) =>
        /\ HeadTask(pos, l) = "intake" => Begin(p, "load", "enter", l)
        /\ HeadTask(pos, l) # "intake" => Begin(p, "load", "advance", l)
        /\ HeadTask(pos, l) \notin {"go_no_go", "verify", "send_out", "submitted"}
        /\ stage # "declined" /\ Active(pos, l)
  BY DEF StartAdvance, PanelOwnedHeads
<1>5. Starts("load", "advance", l) /\ (l = "intake" => Starts("load", "enter", l))
  BY DEF Starts, Firsts, Whys, OnIntake, OnSendOut, OnRoute, Moves
<1>. QED BY <1>1, <1>2, <1>3, <1>4, <1>5, Lengths, HeadsAre

\* The fan-out opens its lanes in CategoryOrder.
LEMMA FirstIs ==
    ASSUME NEW lanes, lanes \subseteq Lanes, lanes # {}
    PROVE  LET l == FirstOf(lanes) IN
           /\ l \in lanes
           /\ l = "select_vendors" => "material_numbers" \notin lanes
           /\ l = "markup" => "labor_numbers" \notin lanes /\ "select_vendors" \notin lanes
<1>1. /\ DOMAIN CategoryOrder = 1 .. 6 /\ CategoryOrder[1] = "intake"
      /\ CategoryOrder[2] = "material_numbers" /\ CategoryOrder[3] = "labor_numbers"
      /\ CategoryOrder[4] = "select_vendors" /\ CategoryOrder[5] = "markup"
      /\ CategoryOrder[6] = "send_out"
  BY DEF CategoryOrder
<1> DEFINE First(i) == /\ CategoryOrder[i] \in lanes
                       /\ \A j \in 1 .. i - 1 : CategoryOrder[j] \notin lanes
<1>2. \E i \in DOMAIN CategoryOrder : First(i)
  <2>1. SUFFICES ASSUME \A i \in 1 .. 6 : ~First(i) PROVE FALSE
    BY <1>1
  <2>2. "intake" \notin lanes
    BY <1>1, <2>1
  <2>3. "material_numbers" \notin lanes
    BY <1>1, <2>1, <2>2
  <2>4. "labor_numbers" \notin lanes
    BY <1>1, <2>1, <2>2, <2>3
  <2>5. "select_vendors" \notin lanes
    BY <1>1, <2>1, <2>2, <2>3, <2>4
  <2>6. "markup" \notin lanes
    BY <1>1, <2>1, <2>2, <2>3, <2>4, <2>5
  <2>7. "send_out" \notin lanes
    BY <1>1, <2>1, <2>2, <2>3, <2>4, <2>5, <2>6
  <2>. QED BY <2>2, <2>3, <2>4, <2>5, <2>6, <2>7, Lengths
<1> DEFINE i == CHOOSE i \in DOMAIN CategoryOrder : First(i)
<1>3. i \in 1 .. 6 /\ First(i) /\ FirstOf(lanes) = CategoryOrder[i]
  BY <1>1, <1>2 DEF FirstOf
<1>. HIDE DEF i
<1>4. /\ CategoryOrder[i] = "select_vendors" => i = 4
      /\ CategoryOrder[i] = "markup" => i = 5
  BY <1>1, <1>3
<1>. QED BY <1>1, <1>3, <1>4

LEMMA TypedRequest ==
    ASSUME Typed, NEW p \in Requests, Request(p)
    PROVE  Typed'
<1>. USE DEF Starts, Firsts, Whys, OnIntake, OnSendOut, OnRoute, Moves
<1>0. "intake" \in Lanes /\ "send_out" \in Lanes
  BY Lengths
<1>1. ASSUME NEW l \in Lanes, StartAdvance(p, l) PROVE Typed'
  BY <1>1, StartAdvanceIs, BeginTyped
<1>2. ASSUME NEW verdict \in {"go", "no_go"}, StartDecide(p, verdict) PROVE Typed'
  BY <1>0, <1>2, BeginTyped DEF StartDecide
<1>3. CASE StartUndo(p)
  BY <1>0, <1>3, BeginTyped DEF StartUndo
<1>4. CASE StartCommit(p)
  BY <1>0, <1>4, BeginTyped DEF StartCommit
<1>5. CASE StartDoneSending(p)
  BY <1>0, <1>5, BeginTyped DEF StartDoneSending
<1>6. CASE StartOutcome(p)
  BY <1>0, <1>6, BeginTyped DEF StartOutcome
<1>7. CASE StartEdit(p)
  <2>1. [Idle EXCEPT !.at = "look", !.why = "edit", !.lane = "send_out"] \in Asked
    BY <1>0, IdleOK DEF Asked, Steps
  <2>2. AskedOK([Idle EXCEPT !.at = "look", !.why = "edit", !.lane = "send_out"])
    BY IdleOK DEF AskedOK, Asked
  <2>. QED BY <1>7, <2>1, <2>2, Taken DEF StartEdit, Typed, RowsOK
<1>. QED BY <1>1, <1>2, <1>3, <1>4, <1>5, <1>6, <1>7 DEF Request

LEMMA TypedHandler ==
    ASSUME Typed, NEW p \in Requests, Handler(p)
    PROVE  Typed'
<1>. USE DEF Typed, RowsOK, rows, At
<1>0. /\ req[p] \in Asked /\ AskedOK(req[p]) /\ req \in [Requests -> Asked]
      /\ "intake" \in Lanes /\ "send_out" \in Lanes
  BY Lengths DEF AsksOK
<1>1. CASE Load(p)
  <2>1. CASE Active(pos, req[p].lane)
    <3> DEFINE q == [req[p] EXCEPT !.at = "move", !.to = NextPosition(req[p].lane)]
    <3>1. NextPosition(req[p].lane) \in 1 .. Complete(req[p].lane) /\ NextPosition(req[p].lane) \in 0 .. 6
      <4>1. req[p].lane \in Lanes
        BY <1>0 DEF Asked
      <4>. QED BY <2>1, <4>1, ActiveIs DEF NextPosition
    <3>2. q \in Asked
      BY <1>0, <3>1 DEF Asked, Steps, Moves
    <3>3. AskedOK(q)
      BY <1>0, <1>1, <3>1 DEF AskedOK, Asked, OnRoute, Moves, Load
    <3>4. req' = [req EXCEPT ![p] = q]
      BY <1>0, <1>1, <2>1 DEF Load
    <3>. QED BY <1>1, <3>2, <3>3, <3>4, Taken DEF Load
  <2>. QED BY <1>1, <2>1, Ended DEF Load
<1>2. CASE Move(p)
  <2>1. Begun(pos')
    <3>1. req[p].lane \in Lanes /\ req[p].to \in 1 .. Complete(req[p].lane)
      BY <1>0, <1>2 DEF Move, AskedOK, Asked
    <3>2. req[p].to \in 0 .. Complete(req[p].lane) /\ req[p].to >= 1
      BY <3>1, Lengths
    <3>. QED BY <1>2, <3>1, <3>2, LaneSet DEF Move
  <2>2. AsksOK'
    BY <1>0, <1>2, Went DEF Move, Steps, Moves, AskedOK, OnRoute
  <2>3. left' \in Heads
    BY <1>2 DEF Move, Heads
  <2>. QED BY <1>2, <2>1, <2>2, <2>3 DEF Move
<1>3. CASE Fanout(p)
  <2>0. Unlocked(pos) \in SUBSET Lanes
    BY DEF Unlocked
  <2> DEFINE q == [req[p] EXCEPT !.at = IF Unlocked(pos) = {} THEN "headline" ELSE "unlock",
                                 !.opens = Unlocked(pos)]
  <2>1. q \in Asked
    BY <1>0, <2>0 DEF Asked, Steps, Moves
  <2>2. AskedOK(q)
    BY <1>0, <1>3 DEF AskedOK, Asked, OnRoute, Moves, Fanout
  <2>. QED BY <1>3, <2>1, <2>2, Taken DEF Fanout
<1>4. CASE Unlock(p)
  <2>0. req[p].opens \subseteq Lanes /\ req[p].opens # {}
    BY <1>0, <1>4 DEF Unlock, AskedOK, Asked
  <2>1. PICK l : l = FirstOf(req[p].opens)
    OBVIOUS
  <2>2. l \in Lanes /\ l \in req[p].opens
    BY <2>0, <2>1, FirstIs
  <2>3. 1 \in 0 .. Complete(l) /\ 1 >= 1
    BY <2>2, Lengths
  <2>4. pos' = [pos EXCEPT ![l] = 1]
    BY <1>4, <2>1 DEF Unlock
  <2>5. Begun(pos')
    BY <2>2, <2>3, <2>4, LaneSet
  <2> DEFINE q == [req[p] EXCEPT !.at = IF req[p].opens = {l} THEN "headline" ELSE "unlock",
                                 !.opens = @ \ {l}]
  <2>6. q \in Asked
    BY <1>0 DEF Asked, Steps, Moves
  <2>7. AskedOK(q)
    BY <1>0, <1>4, <2>2 DEF AskedOK, Asked, OnRoute, Moves, Unlock
  <2>8. req' = [req EXCEPT ![p] = q]
    BY <1>0, <1>4, <2>1 DEF Unlock
  <2>. QED BY <1>4, <2>5, <2>6, <2>7, <2>8, Taken DEF Unlock
<1>5. CASE ReadHeadline(p)
  <2>0. Headline(pos) \in Stages \ {"declined"}
    BY HeadlineIs
  <2> DEFINE q == [req[p] EXCEPT !.at = "point", !.stage = Headline(pos)]
  <2>1. q \in Asked
    BY <1>0, <2>0 DEF Asked, Steps, Moves
  <2>2. AskedOK(q)
    BY <1>0, <1>5, <2>0 DEF AskedOK, Asked, OnRoute, Moves, ReadHeadline
  <2>. QED BY <1>5, <2>1, <2>2, Taken DEF ReadHeadline
<1>6. CASE WriteHeadline(p)
  <2>1. stage' \in Stages
    BY <1>0, <1>6 DEF WriteHeadline, AskedOK
  <2>2. AsksOK'
    <3>1. PICK next \in Afterwards(req[p].why) :
            IF next = "idle" THEN Done(p)
            ELSE req' = [req EXCEPT ![p] =
                            [Idle EXCEPT !.at = next, !.lane = req[p].lane,
                                         !.why = CASE next = "load" -> "go"
                                                   [] next = "decline" -> "no_go"
                                                   [] OTHER -> req[p].why]]
      BY <1>6 DEF WriteHeadline
    <3>2. CASE next = "idle"
      BY <3>1, <3>2, Ended
    <3>3. CASE next # "idle"
      <4>1. \/ next = "load" /\ req[p].why = "enter"
            \/ next = "decline" /\ req[p].why = "enter"
            \/ next = "decide" /\ req[p].why \in {"go", "undo"}
        BY <3>3 DEF Afterwards
      <4>2. PICK why \in Whys :
              /\ req' = [req EXCEPT ![p] = [Idle EXCEPT !.at = next, !.lane = req[p].lane,
                                                        !.why = why]]
              /\ OnRoute(why, next) /\ why \in OnIntake
        BY <3>1, <3>3, <4>1 DEF Whys, OnRoute, Moves, OnIntake, OnSendOut
      <4>3. [Idle EXCEPT !.at = next, !.lane = req[p].lane, !.why = why] \in Asked
        BY <1>0, <4>1, IdleOK DEF Asked, Steps, Moves
      <4>4. AskedOK([Idle EXCEPT !.at = next, !.lane = req[p].lane, !.why = why])
        BY <1>0, <4>1, <4>2, IdleOK DEF AskedOK, Asked, OnIntake, OnSendOut
      <4>. QED BY <4>2, <4>3, <4>4, Taken
    <3>. QED BY <3>2, <3>3
  <2>. QED BY <1>6, <2>1, <2>2 DEF WriteHeadline
<1>7. CASE Decline(p) \/ Reopen(p)
  <2>1. pos' = [pos EXCEPT !["intake"] = GoNoGo]
    BY <1>7 DEF Decline, Reopen, Park
  <2>2. Begun(pos')
    <3>1. GoNoGo \in 0 .. Complete("intake") /\ GoNoGo >= 1
      BY Lengths DEF GoNoGo
    <3>. QED BY <1>0, <2>1, <3>1, LaneSet
  <2>3. AsksOK'
    BY <1>0, <1>7, Went DEF Decline, Reopen, Park, Steps, Moves, AskedOK, OnRoute
  <2>. QED BY <1>7, <2>2, <2>3 DEF Decline, Reopen, Park
<1>8. CASE Kill(p)
  <2>1. AsksOK'
    BY <1>0, <1>8, Went DEF Kill, Steps, Moves, AskedOK, OnRoute
  <2>. QED BY <1>8, <2>1 DEF Kill, Stages
<1>9. CASE Decide(p)
  <2>1. decision' \in {"none", "go", "no_go"}
    BY <1>0, <1>9 DEF Decide, AskedOK, OnRoute, Moves, Asked, Whys, OnIntake, OnSendOut
  <2>. QED BY <1>9, <2>1, Ended DEF Decide
<1>10. CASE Price(p)
  <2> DEFINE q == [req[p] EXCEPT !.at = "commit", !.figures = figures]
  <2>1. q \in Asked
    BY <1>0 DEF Asked, Steps, Moves
  <2>2. AskedOK(q)
    BY <1>0, <1>10 DEF AskedOK, Asked, OnRoute, Moves, Price
  <2>. QED BY <1>10, <2>1, <2>2, Taken DEF Price
<1>11. CASE Commit(p)
  <2>1. snapshot' \in Figures
    BY <1>0, <1>11 DEF Commit, AskedOK
  <2> DEFINE q == [req[p] EXCEPT !.at = "leave", !.figures = None]
  <2>2. q \in Asked
    BY <1>0 DEF Asked, Steps, Moves
  <2>3. AskedOK(q)
    BY <1>0, <1>11 DEF AskedOK, Asked, OnRoute, Moves, Commit
  <2>4. AsksOK'
    <3>1. CASE req[p].head = Verify
      <4>1. req' = [req EXCEPT ![p] = q]
        BY <1>0, <1>11, <3>1 DEF Commit
      <4>. QED BY <2>2, <2>3, <4>1, Taken
    <3>. QED BY <1>11, <3>1, Ended DEF Commit
  <2>. QED BY <1>11, <2>1, <2>4 DEF Commit
<1>12. CASE Resume(p)
  <2> DEFINE q == [req[p] EXCEPT !.at = "load"]
             r == [req[p] EXCEPT !.at = "return", !.to = back]
  <2>1. q \in Asked /\ AskedOK(q)
    BY <1>0, <1>12 DEF AskedOK, Asked, OnRoute, Moves, Resume, Steps
  <2>2. ASSUME back # None PROVE r \in Asked /\ AskedOK(r)
    <3>1. back \in PastVerify /\ back \in 0 .. 6
      BY <2>2, HeadsAre DEF Heads
    <3>. QED BY ZenonT(60), <1>0, <1>12, <3>1 DEF AskedOK, Asked, OnRoute, Moves, Resume, Steps
  <2>. QED BY <1>12, <2>1, <2>2, Taken DEF Resume
<1>13. CASE Return(p)
  <2>1. Begun(pos')
    <3>1. req[p].to \in 0 .. Complete("send_out") /\ req[p].to >= 1
      BY <1>0, <1>13, HeadsAre, Lengths DEF Return, AskedOK
    <3>. QED BY <1>0, <1>13, <3>1, LaneSet DEF Return
  <2>2. AsksOK'
    BY <1>0, <1>13, Went DEF Return, Steps, Moves, AskedOK, OnRoute
  <2>. QED BY <1>13, <2>1, <2>2 DEF Return, Heads
<1>14. CASE Unmark(p)
  <2>1. AsksOK'
    BY <1>0, <1>14, Went DEF Unmark, Steps, Moves, AskedOK, OnRoute
  <2>. QED BY <1>14, <2>1 DEF Unmark, Heads
<1>15. CASE Look(p)
  <2>1. CASE MustBounce
    <3>1. PICK to : to = IF back = None THEN pos["send_out"] ELSE None
      OBVIOUS
    <3>2. to \in Heads /\ to \in {None} \cup 0 .. 6 /\ pos["send_out"] \in PastVerify
      BY <2>1, <3>1, HeadsAre DEF MustBounce, Heads
    <3> DEFINE q == [req[p] EXCEPT !.at = "bounce", !.head = pos["send_out"], !.to = to]
    <3>3. q \in Asked
      <4>1. pos["send_out"] \in 0 .. 6
        BY <3>2, HeadsAre
      <4>. QED BY <1>0, <3>2, <4>1 DEF Asked, Steps
    <3>4. AskedOK(q)
      BY <1>0, <1>15, <3>2 DEF AskedOK, Asked, OnRoute, Moves, Look
    <3>5. req' = [req EXCEPT ![p] = q]
      BY <1>0, <1>15, <2>1, <3>1 DEF Look
    <3>. QED BY <1>15, <3>3, <3>4, <3>5, Taken DEF Look
  <2>. QED BY <1>15, <2>1, Ended DEF Look
<1>16. CASE Bounce(p)
  <2>1. Begun(pos')
    <3>1. Verify \in 0 .. Complete("send_out")
      BY Lengths DEF Verify
    <3>. QED BY <1>0, <1>16, <3>1, LaneSet DEF Bounce
  <2>2. AsksOK'
    BY <1>0, <1>16, Went, Ended DEF Bounce, Steps, Moves, AskedOK, OnRoute
  <2>3. left' \in Heads
    BY <1>0, <1>16 DEF Bounce, AskedOK, Heads
  <2>. QED BY <1>16, <2>1, <2>2, <2>3 DEF Bounce
<1>17. CASE Mark(p)
  <2>1. AsksOK'
    BY <1>0, <1>17, Went DEF Mark, Steps, Moves, AskedOK, OnRoute
  <2>2. back' \in Heads
    BY <1>0, <1>17 DEF Mark, At, AskedOK
  <2>. QED BY <1>17, <2>1, <2>2 DEF Mark, At
<1>18. CASE Reset(p)
  <2>1. AsksOK'
    BY <1>0, <1>18, Went DEF Reset, Steps, Moves, AskedOK, OnRoute
  <2>. QED BY <1>18, <2>1 DEF Reset
<1>19. CASE Record(p)
  <2>1. AsksOK'
    BY <1>0, <1>19, Went, Ended DEF Record, Steps, Moves, AskedOK, OnRoute
  <2>. QED BY <1>19, <2>1 DEF Record
<1>. QED
  BY <1>1, <1>2, <1>3, <1>4, <1>5, <1>6, <1>7, <1>8, <1>9, <1>10, <1>11, <1>12, <1>13, <1>14,
     <1>15, <1>16, <1>17, <1>18, <1>19 DEF Handler

LEMMA TypedSubmit ==
    ASSUME Typed, NEW undoable \in BOOLEAN, MarkSubmitted(undoable)
    PROVE  Typed'
<1>. USE DEF Typed, RowsOK
<1>1. Begun(pos')
  BY Starting DEF MarkSubmitted
<1>2. stage' \in Stages
  BY InOrder DEF MarkSubmitted, Stages, StageOrder
<1>3. [pos |-> pos, stage |-> stage, back |-> back, figures |-> figures, snapshot |-> snapshot,
       missed |-> missed] \in Saved
  BY DEF Saved, Begun
<1>. QED BY <1>1, <1>2, <1>3 DEF MarkSubmitted, Heads, AsksOK

LEMMA TypedUndo == Typed /\ UndoSubmitted => Typed'
BY DEF Typed, RowsOK, UndoSubmitted, Saved, Begun, AsksOK

LEMMA TypedStep == Typed /\ [Next]_vars => Typed'
<1>. SUFFICES ASSUME Typed, [Next]_vars PROVE Typed'
  OBVIOUS
<1>1. ASSUME NEW p \in Requests, Crash(p) PROVE Typed'
  BY <1>1, Ended DEF Crash, rows, Typed, RowsOK
<1>2. CASE UNCHANGED vars
  BY <1>2 DEF vars, rows, Typed, RowsOK, AsksOK
<1>. QED BY <1>1, <1>2, TypedRequest, TypedHandler, TypedSubmit, TypedUndo DEF Next

\* The types of WorkflowStages, for any timing: every position is within its lane, and
\* the head that an advance is about to write (advance_category) is one of the lane.
THEOREM TypeCorrect == Spec => []TypeOK
<1>1. Typed => TypeOK
  BY DEF Typed, RowsOK, AsksOK, Saved, Begun, Asked, AskedOK, TypeOK
<1>. QED BY <1>1, TypedInit, TypedStep, PTL DEF Spec

-----------------------------------------------------------------------------
(* The fan-out.                                                             *)

Middle == {"material_numbers", "labor_numbers", "select_vendors", "markup"}

LEMMA ActivateIs ==
    ASSUME NEW x, Begun(x)
    PROVE  /\ ShouldActivate(x, "material_numbers") <=> x["intake"] = 4
           /\ ShouldActivate(x, "labor_numbers") <=> x["intake"] = 4
           /\ ShouldActivate(x, "select_vendors") <=> x["material_numbers"] # 0
           /\ ShouldActivate(x, "markup") <=> \/ x["select_vendors"] = 1 \/ x["labor_numbers"] = 1
                                              \/ x["select_vendors"] = 2 /\ x["labor_numbers"] = 2
           /\ ShouldActivate(x, "send_out") <=> HardMet(x, "send_out")
           /\ HardMet(x, "send_out") <=> /\ x["intake"] = 4 /\ x["labor_numbers"] = 2
                                         /\ x["select_vendors"] = 2 /\ x["markup"] = 2
<1>1. /\ Prereqs["material_numbers"] = {"intake"} /\ Prereqs["labor_numbers"] = {"intake"}
      /\ Prereqs["select_vendors"] = {"material_numbers"}
      /\ Prereqs["markup"] = {"select_vendors", "labor_numbers"}
      /\ Prereqs["send_out"] = {"intake", "labor_numbers", "select_vendors", "markup"}
  BY DEF Prereqs
<1>2. /\ Active(x, "material_numbers") <=> x["material_numbers"] # 0 /\ x["material_numbers"] # 4
      /\ Active(x, "select_vendors") <=> x["select_vendors"] = 1
      /\ Active(x, "labor_numbers") <=> x["labor_numbers"] = 1
  <2>1. /\ x["select_vendors"] \in 0 .. 2 /\ x["labor_numbers"] \in 0 .. 2
        /\ {"material_numbers", "select_vendors", "labor_numbers"} \subseteq Lanes
    BY SMTT(60), Lengths DEF Begun, Positions
  <2>2. \A l \in Lanes : Active(x, l) <=> x[l] # 0 /\ x[l] # Complete(l)
    BY ActiveIs
  <2>3. /\ Active(x, "material_numbers") <=> x["material_numbers"] # 0 /\ x["material_numbers"] # 4
        /\ Active(x, "select_vendors") <=> x["select_vendors"] # 0 /\ x["select_vendors"] # 2
        /\ Active(x, "labor_numbers") <=> x["labor_numbers"] # 0 /\ x["labor_numbers"] # 2
    BY <2>1, <2>2, Lengths
  <2>. QED BY <2>1, <2>3
<1>3. /\ SoftPrereqs("material_numbers") = {} /\ SoftPrereqs("labor_numbers") = {}
      /\ SoftPrereqs("select_vendors") = {"material_numbers"}
      /\ SoftPrereqs("markup") = {"select_vendors", "labor_numbers"}
      /\ SoftPrereqs("send_out") = {}
  BY DEF SoftPrereqs
<1>4. /\ HardMet(x, "material_numbers") <=> x["intake"] = 4
      /\ HardMet(x, "labor_numbers") <=> x["intake"] = 4
      /\ HardMet(x, "select_vendors") <=> x["material_numbers"] = 4
      /\ HardMet(x, "markup") <=> x["select_vendors"] = 2 /\ x["labor_numbers"] = 2
      /\ HardMet(x, "send_out") <=> /\ x["intake"] = 4 /\ x["labor_numbers"] = 2
                                    /\ x["select_vendors"] = 2 /\ x["markup"] = 2
  BY <1>1, Lengths DEF HardMet
<1>. QED BY <1>2, <1>3, <1>4 DEF ShouldActivate

LEMMA OpenedIs ==
    ASSUME NEW x, Begun(x), NEW l \in Lanes
    PROVE  /\ Begun(Opened(x, l))
           /\ \A k \in Lanes \ {l} : Opened(x, l)[k] = x[k]
           /\ Opened(x, l)[l] = IF x[l] = 0 /\ ShouldActivate(x, l) THEN 1 ELSE x[l]
<1>1. 1 \in 0 .. Complete(l)
  BY Lengths
<1>2. x \in [Lanes -> 0 .. 6]
  BY DEF Begun, Positions
<1>3. CASE x[l] = Locked /\ ShouldActivate(x, l)
  <2>1. Opened(x, l) = [x EXCEPT ![l] = 1]
    BY <1>3 DEF Opened
  <2>2. Begun([x EXCEPT ![l] = 1])
    <3>1. l = "intake" => 1 >= 1
      OBVIOUS
    <3>. QED BY <1>1, <3>1, LaneSet
  <2>. QED BY <1>2, <1>3, <2>1, <2>2 DEF Locked
<1>4. CASE ~(x[l] = Locked /\ ShouldActivate(x, l))
  BY <1>4 DEF Opened, Locked
<1>. QED BY <1>3, <1>4

\* Once intake is complete a fan-out opens every lane that is locked, except
\* Send Out before its time; before, it opens nothing.
LEMMA UnlockedIs ==
    ASSUME NEW x, Begun(x)
    PROVE  /\ Unlocked(x) \subseteq Lanes \ {"intake"}
           /\ \A l \in Unlocked(x) : x[l] = Locked
           /\ "send_out" \in Unlocked(x) => HardMet(x, "send_out")
           /\ x["intake"] = 4 => \A l \in Middle : x[l] = Locked => l \in Unlocked(x)
           /\ x["intake"] = 4 /\ x["send_out"] = Locked /\ HardMet(x, "send_out")
                 => "send_out" \in Unlocked(x)
           /\ x["intake"] # 4 /\ (\A l \in Lanes \ {"intake"} : x[l] = Locked) => Unlocked(x) = {}
<1> DEFINE a == Opened(x, "intake")
           b == Opened(a, "material_numbers")
           c == Opened(b, "labor_numbers")
           d == Opened(c, "select_vendors")
           e == Opened(d, "markup")
           f == Opened(e, "send_out")
<1>0. Unlocked(x) = {l \in Lanes : f[l] # x[l]}
  BY DEF Unlocked
<1>1. a = x
  BY DEF Opened, Begun, Locked
<1>2. /\ Begun(b) /\ \A k \in Lanes \ {"material_numbers"} : b[k] = x[k]
      /\ b["material_numbers"] = IF x["material_numbers"] = 0 /\ x["intake"] = 4 THEN 1
                                 ELSE x["material_numbers"]
  <2>1. "material_numbers" \in Lanes /\ b = Opened(x, "material_numbers")
    BY <1>1, Lengths
  <2>. QED BY <2>1, OpenedIs, ActivateIs
<1>3. /\ Begun(c) /\ \A k \in Lanes \ {"labor_numbers"} : c[k] = b[k]
      /\ c["labor_numbers"] = IF b["labor_numbers"] = 0 /\ b["intake"] = 4 THEN 1
                              ELSE b["labor_numbers"]
  <2>. HIDE DEF b
  <2>. QED BY <1>2, OpenedIs, ActivateIs, Lengths
<1>4. /\ Begun(d) /\ \A k \in Lanes \ {"select_vendors"} : d[k] = c[k]
      /\ d["select_vendors"] = IF c["select_vendors"] = 0 /\ c["material_numbers"] # 0 THEN 1
                               ELSE c["select_vendors"]
  <2>. HIDE DEF c
  <2>. QED BY <1>3, OpenedIs, ActivateIs, Lengths
<1>5. /\ Begun(e) /\ \A k \in Lanes \ {"markup"} : e[k] = d[k]
      /\ e["markup"] = IF /\ d["markup"] = 0
                          /\ \/ d["select_vendors"] = 1 \/ d["labor_numbers"] = 1
                             \/ d["select_vendors"] = 2 /\ d["labor_numbers"] = 2
                       THEN 1 ELSE d["markup"]
  <2>. HIDE DEF d
  <2>. QED BY ZenonT(60), <1>4, OpenedIs, ActivateIs, Lengths
<1>6. /\ Begun(f) /\ \A k \in Lanes \ {"send_out"} : f[k] = e[k]
      /\ f["send_out"] = IF e["send_out"] = 0 /\ HardMet(e, "send_out") THEN 1 ELSE e["send_out"]
  <2>. HIDE DEF e
  <2>. QED BY <1>5, OpenedIs, ActivateIs, Lengths
<1>7. /\ x["select_vendors"] \in 0 .. 2 /\ x["labor_numbers"] \in 0 .. 2
      /\ x["intake"] \in 0 .. 4 /\ x["markup"] \in 0 .. 2
  BY Lengths DEF Begun, Positions
<1>. HIDE DEF a, b, c, d, e, f
<1>8. HardMet(e, "send_out") <=> HardMet(x, "send_out")
  <2>1. /\ e["intake"] = x["intake"] /\ e["labor_numbers"] = c["labor_numbers"]
        /\ e["select_vendors"] = d["select_vendors"]
        /\ b["labor_numbers"] = x["labor_numbers"] /\ c["select_vendors"] = x["select_vendors"]
        /\ d["markup"] = x["markup"]
    BY <1>2, <1>3, <1>4, <1>5, Lengths
  <2>2. /\ e["labor_numbers"] = 2 <=> x["labor_numbers"] = 2
        /\ e["select_vendors"] = 2 <=> x["select_vendors"] = 2
        /\ e["markup"] = 2 <=> x["markup"] = 2
    BY <1>3, <1>4, <1>5, <2>1
  <2>3. HardMet(e, "send_out") <=> /\ e["intake"] = 4 /\ e["labor_numbers"] = 2
                                  /\ e["select_vendors"] = 2 /\ e["markup"] = 2
    BY <1>5, ActivateIs
  <2>4. HardMet(x, "send_out") <=> /\ x["intake"] = 4 /\ x["labor_numbers"] = 2
                                  /\ x["select_vendors"] = 2 /\ x["markup"] = 2
    BY ActivateIs
  <2>. QED BY <2>1, <2>2, <2>3, <2>4
<1>9. /\ f["intake"] = x["intake"]
      /\ f["material_numbers"] = b["material_numbers"] /\ f["labor_numbers"] = c["labor_numbers"]
      /\ f["select_vendors"] = d["select_vendors"] /\ f["markup"] = e["markup"]
  BY <1>2, <1>3, <1>4, <1>5, <1>6, Lengths
<1>10. \A l \in Lanes : f[l] # x[l] => x[l] = Locked /\ l # "intake"
  BY <1>2, <1>3, <1>4, <1>5, <1>6, <1>9, Lengths DEF Locked
<1>11. f["send_out"] # x["send_out"] <=> x["send_out"] = 0 /\ HardMet(x, "send_out")
  BY <1>2, <1>3, <1>4, <1>5, <1>6, <1>8, Lengths
<1>12. ASSUME x["intake"] = 4, NEW l \in Middle, x[l] = Locked PROVE f[l] # x[l]
  <2>1. b["material_numbers"] # 0 /\ c["labor_numbers"] # 0
    BY <1>2, <1>3, <1>12, Lengths
  <2>2. d["select_vendors"] # 0
    BY <1>3, <1>4, <2>1, Lengths
  <2>3. d["labor_numbers"] \in {1, 2} /\ d["select_vendors"] \in {1, 2}
    BY <1>2, <1>3, <1>4, <1>7, <2>1, <2>2, Lengths
  <2>4. e["markup"] # 0
    BY <1>5, <2>3
  <2>. QED BY <1>9, <1>12, <2>1, <2>2, <2>4 DEF Middle, Locked
<1>13. ASSUME x["intake"] # 4, \A l \in Lanes \ {"intake"} : x[l] = Locked
       PROVE  \A l \in Lanes : f[l] = x[l]
  <2>1. b["material_numbers"] = 0 /\ c["labor_numbers"] = 0 /\ d["select_vendors"] = 0
    BY <1>2, <1>3, <1>4, <1>13, Lengths DEF Locked
  <2>2. e["markup"] = 0
    BY <1>2, <1>3, <1>4, <1>5, <1>13, <2>1, Lengths DEF Locked
  <2>3. ~HardMet(x, "send_out")
    BY <1>13, ActivateIs
  <2>. QED BY <1>9, <1>11, <1>13, <2>1, <2>2, <2>3, Lengths DEF Locked
<1>. QED BY <1>0, <1>10, <1>11, <1>12, <1>13, Lengths DEF Middle, Locked

-----------------------------------------------------------------------------
(* Who has which lane in hand.                                              *)

Acts(p) == Request(p) \/ Handler(p) \/ Crash(p)

LEMMA AskOf ==
    ASSUME Typed, NEW p \in Requests
    PROVE  /\ req[p] \in Asked /\ AskedOK(req[p]) /\ req \in [Requests -> Asked]
           /\ "intake" \in Lanes /\ "send_out" \in Lanes /\ req[p].lane \in Lanes
           /\ req[p].at = "idle" <=> req[p].why = "none"
<1>1. /\ req[p] \in Asked /\ AskedOK(req[p]) /\ req \in [Requests -> Asked]
      /\ "intake" \in Lanes /\ "send_out" \in Lanes
  BY Lengths DEF Typed, AsksOK
<1>. QED BY <1>1 DEF Asked, AskedOK, OnRoute, Whys, OnIntake, OnSendOut, Moves

\* A handler's step leaves what the others are doing.
LEMMA Others ==
    ASSUME Typed, NEW p \in Requests, Acts(p), NEW q \in Requests \ {p}
    PROVE  req'[q] = req[q]
<1>0. req \in [Requests -> Asked]
  BY AskOf
<1>1. ASSUME NEW at, NEW why, NEW lane, Begin(p, at, why, lane) PROVE req'[q] = req[q]
  BY <1>0, <1>1 DEF Begin
<1>2. ASSUME NEW at, Goto(p, at) PROVE req'[q] = req[q]
  BY <1>0, <1>2 DEF Goto
<1>3. ASSUME Done(p) PROVE req'[q] = req[q]
  BY <1>0, <1>3 DEF Done
<1>4. CASE Request(p)
  BY <1>0, <1>1, <1>4 DEF Request, StartAdvance, StartDecide, StartUndo, StartCommit,
     StartDoneSending, StartOutcome, StartEdit
<1>5. CASE Handler(p)
  <2>1. CASE \/ Load(p) \/ Fanout(p) \/ Unlock(p) \/ ReadHeadline(p) \/ WriteHeadline(p)
             \/ Price(p) \/ Commit(p) \/ Resume(p) \/ Look(p)
    BY <1>0, <1>2, <1>3, <2>1 DEF Load, Fanout, Unlock, ReadHeadline, WriteHeadline,
       Price, Commit, Resume, Look
  <2>2. CASE \/ Move(p) \/ Decline(p) \/ Kill(p) \/ Reopen(p) \/ Decide(p) \/ Return(p)
             \/ Unmark(p) \/ Bounce(p) \/ Mark(p) \/ Reset(p) \/ Record(p)
    BY <1>2, <1>3, <2>2 DEF Move, Decline, Kill, Reopen, Park, Decide, Return, Unmark, Bounce,
       Mark, Reset, Record
  <2>. QED BY <1>5, <2>1, <2>2 DEF Handler
<1>6. CASE Crash(p)
  BY <1>3, <1>6 DEF Crash
<1>. QED BY <1>4, <1>5, <1>6 DEF Acts

\* Where a handler goes on from the headline.
Follows(why, next, then) ==
    \/ why = "enter" /\ next = "load" /\ then = "go"
    \/ why = "enter" /\ next = "decline" /\ then = "no_go"
    \/ why \in {"go", "undo"} /\ next = "decide" /\ then = why

LEMMA WroteIs ==
    ASSUME Typed, NEW p \in Requests, WriteHeadline(p)
    PROVE  \/ Done(p) /\ req[p].why \notin {"go", "undo"}
           \/ \E next, then : /\ Follows(req[p].why, next, then)
                              /\ req' = [req EXCEPT ![p] = [Idle EXCEPT
                                            !.at = next, !.lane = req[p].lane, !.why = then]]
<1>1. PICK next \in Afterwards(req[p].why) :
        IF next = "idle" THEN Done(p)
        ELSE req' = [req EXCEPT ![p] =
                        [Idle EXCEPT !.at = next, !.lane = req[p].lane,
                                     !.why = CASE next = "load" -> "go"
                                               [] next = "decline" -> "no_go"
                                               [] OTHER -> req[p].why]]
  BY DEF WriteHeadline
<1>2. CASE next = "idle"
  <2>1. req[p].why \notin {"go", "undo"}
    BY <1>2 DEF Afterwards
  <2>. QED BY <1>1, <1>2, <2>1
<1>3. CASE next # "idle"
  <2>1. \/ next = "load" /\ req[p].why = "enter"
        \/ next = "decline" /\ req[p].why = "enter"
        \/ next = "decide" /\ req[p].why \in {"go", "undo"}
    BY <1>3 DEF Afterwards
  <2>. QED BY <1>1, <1>3, <2>1 DEF Follows
<1>. QED BY <1>2, <1>3

\* A lane that a request takes in hand is in nobody's, or all are edits.
Took(p) ==
    /\ \A l \in Uses(p)' \ Uses(p) : \A q \in Requests \ {p} :
        l \in Uses(q) => req[q].why = "edit" /\ req'[p].why = "edit"
    /\ req[p].why = "edit" /\ Uses(p)' # {} => req'[p].why = "edit"

LEMMA TookLane ==
    ASSUME Typed, Kept, Calm, NEW p \in Requests, Acts(p)
    PROVE  Took(p)
<1>0. /\ req[p] \in Asked /\ AskedOK(req[p]) /\ req \in [Requests -> Asked]
      /\ req[p].at = "idle" <=> req[p].why = "none"
      /\ req[p].at # "unlock" => req[p].opens = {}
  BY AskOf DEF Kept, Knows
<1>1. ASSUME NEW at \in Firsts, NEW why, NEW lane, Begin(p, at, why, lane) PROVE Took(p)
  BY <1>0, <1>1 DEF Begin, Clear, Uses, Idle, Firsts, Took
<1>2. ASSUME NEW at \in Steps \ {"idle", "look"}, Goto(p, at), req[p].at \notin {"idle", "look"}
      PROVE  Took(p)
  <2>1. Uses(p)' = Uses(p) /\ req'[p].why = req[p].why
    BY <1>0, <1>2 DEF Goto, Uses
  <2>. QED BY <2>1 DEF Took
<1>3. ASSUME Done(p) PROVE Took(p)
  <2>1. Uses(p)' = {}
    BY <1>0, <1>3 DEF Done, Uses, Idle
  <2>. QED BY <2>1 DEF Took
<1>31. ASSUME NEW r, req' = [req EXCEPT ![p] = r], r.why = req[p].why, r.lane = req[p].lane,
              r.opens \subseteq req[p].opens, req[p].at \notin {"idle", "look"}
       PROVE  Took(p)
  <2>1. Uses(p)' \subseteq Uses(p) /\ req'[p].why = req[p].why
    BY <1>0, <1>31 DEF Uses
  <2>. QED BY <2>1 DEF Took
<1>4. CASE Request(p)
  <2>1. CASE StartEdit(p)
    <3>1. Uses(p)' = {} 
      BY <1>0, <2>1 DEF StartEdit, Uses, Idle
    <3>. QED BY <3>1 DEF Took
  <2>. QED BY <1>1, <1>4, <2>1 DEF Request, StartAdvance, StartDecide, StartUndo, StartCommit,
     StartDoneSending, StartOutcome, Firsts
<1>5. CASE Handler(p)
  <2>1. CASE Load(p)
    <3>1. CASE Active(pos, req[p].lane)
      <4> DEFINE r == [req[p] EXCEPT !.at = "move", !.to = NextPosition(req[p].lane)]
      <4>1. req' = [req EXCEPT ![p] = r]
        BY <1>0, <2>1, <3>1 DEF Load
      <4>2. r.why = req[p].why /\ r.lane = req[p].lane /\ r.opens = req[p].opens
        BY <1>0 DEF Asked
      <4>. HIDE DEF r
      <4>. QED BY <1>31, <2>1, <4>1, <4>2 DEF Load, At
    <3>. QED BY <1>3, <2>1, <3>1 DEF Load
  <2>2. CASE Fanout(p)
    <3>1. req'[p].why = req[p].why
      BY <1>0, <2>2 DEF Fanout, Asked
    <3>2. Uses(p)' \subseteq Uses(p) \cup Unlocked(pos)
      BY <1>0, <2>2 DEF Fanout, At, Asked, Uses
    <3>3. \A q \in Requests \ {p} : Uses(q) \cap Unlocked(pos) = {}
      BY <2>2 DEF Fanout, Clear
    <3>. QED BY <3>1, <3>2, <3>3 DEF Took
  <2>3. CASE Unlock(p)
    <3>1. PICK l : l = FirstOf(req[p].opens)
      OBVIOUS
    <3> DEFINE r == [req[p] EXCEPT !.at = IF req[p].opens = {l} THEN "headline" ELSE "unlock",
                                   !.opens = req[p].opens \ {l}]
    <3>2. req' = [req EXCEPT ![p] = r]
      BY <1>0, <2>3, <3>1 DEF Unlock
    <3>3. r.why = req[p].why /\ r.lane = req[p].lane /\ r.opens \subseteq req[p].opens
      BY <1>0 DEF Asked
    <3>. HIDE DEF r
    <3>. QED BY <1>31, <2>3, <3>2, <3>3 DEF Unlock, At
  <2>4. CASE ReadHeadline(p)
    <3> DEFINE r == [req[p] EXCEPT !.at = "point", !.stage = Headline(pos)]
    <3>1. req' = [req EXCEPT ![p] = r]
      BY <1>0, <2>4 DEF ReadHeadline
    <3>2. r.why = req[p].why /\ r.lane = req[p].lane /\ r.opens = req[p].opens
      BY <1>0 DEF Asked
    <3>. HIDE DEF r
    <3>. QED BY <1>31, <2>4, <3>1, <3>2 DEF ReadHeadline, At
  <2>5. CASE WriteHeadline(p)
    <3>0. req[p].at = "point"
      BY <2>5 DEF WriteHeadline, At
    <3>1. Uses(p)' \subseteq Uses(p)
      <4>1. CASE Done(p)
        BY <1>3, <4>1, <1>0 DEF Done, Idle, Uses
      <4>2. ASSUME NEW next, NEW then,
                   req' = [req EXCEPT ![p] = [Idle EXCEPT
                              !.at = next, !.lane = req[p].lane, !.why = then]]
            PROVE  Uses(p)' \subseteq Uses(p)
        <5>1. req'[p].lane = req[p].lane /\ req'[p].opens = {}
          BY <1>0, <4>2 DEF Idle
        <5>. QED BY <3>0, <5>1 DEF Uses
      <4>. QED BY <2>5, <4>1, <4>2, WroteIs
    <3>2. req[p].why = "edit" => Uses(p)' = {}
      BY <1>0, <2>5 DEF WriteHeadline, Afterwards, Done, Idle, Uses
    <3>. QED BY <3>1, <3>2 DEF Took
  <2>6. CASE Price(p)
    <3> DEFINE r == [req[p] EXCEPT !.at = "commit", !.figures = figures]
    <3>1. req' = [req EXCEPT ![p] = r]
      BY <1>0, <2>6 DEF Price
    <3>2. r.why = req[p].why /\ r.lane = req[p].lane /\ r.opens = req[p].opens
      BY <1>0 DEF Asked
    <3>. HIDE DEF r
    <3>. QED BY <1>31, <2>6, <3>1, <3>2 DEF Price, At
  <2>7. CASE Commit(p)
    <3> DEFINE r == [req[p] EXCEPT !.at = "leave", !.figures = None]
    <3>1. Done(p) \/ req' = [req EXCEPT ![p] = r]
      BY <1>0, <2>7 DEF Commit
    <3>2. r.why = req[p].why /\ r.lane = req[p].lane /\ r.opens = req[p].opens
      BY <1>0 DEF Asked
    <3>. HIDE DEF r
    <3>. QED BY <1>3, <1>31, <2>7, <3>1, <3>2 DEF Commit, At
  <2>8. CASE Resume(p)
    <3> DEFINE r == [req[p] EXCEPT !.at = "load"]
               s == [req[p] EXCEPT !.at = "return", !.to = back]
    <3>1. req' = [req EXCEPT ![p] = r] \/ req' = [req EXCEPT ![p] = s]
      BY <1>0, <2>8 DEF Resume
    <3>2. /\ r.why = req[p].why /\ r.lane = req[p].lane /\ r.opens = req[p].opens
          /\ s.why = req[p].why /\ s.lane = req[p].lane /\ s.opens = req[p].opens
      BY <1>0 DEF Asked
    <3>. HIDE DEF r, s
    <3>. QED BY <1>31, <2>8, <3>1, <3>2 DEF Resume, At
  <2>9. CASE Look(p)
    <3>1. req[p].why = "edit" /\ req[p].lane = "send_out" /\ req[p].opens = {}
      BY <1>0, <2>9 DEF Look, At, AskedOK, OnRoute, Moves, Asked, Whys, OnIntake, OnSendOut
    <3>2. Uses(p)' \subseteq {"send_out"} /\ (Uses(p)' # {} => req'[p].why = "edit")
      BY <1>0, <2>9, <3>1 DEF Look, Done, Idle, Uses, Asked
    <3>3. MustBounce => \A q \in Requests : "send_out" \in Uses(q) => req[q].why = "edit"
      BY <2>9 DEF Look
    <3>4. ~MustBounce => Done(p)
      BY <2>9 DEF Look
    <3>. QED BY <1>3, <3>2, <3>3, <3>4 DEF Took
  <2>10. CASE \/ Move(p) \/ Decline(p) \/ Kill(p) \/ Reopen(p) \/ Decide(p) \/ Return(p)
             \/ Unmark(p) \/ Bounce(p) \/ Mark(p) \/ Reset(p) \/ Record(p)
    BY <1>2, <1>3, <2>10 DEF Move, Decline, Kill, Reopen, Park, Decide, Return, Unmark, Bounce,
       Mark, Reset, Record, At, Steps, Moves
  <2>. QED BY <1>5, <2>1, <2>2, <2>3, <2>4, <2>5, <2>6, <2>7, <2>8, <2>9, <2>10 DEF Handler
<1>6. CASE Crash(p)
  BY <1>3, <1>6 DEF Crash
<1>. QED BY <1>4, <1>5, <1>6 DEF Acts

LEMMA ExclusiveStep ==
    ASSUME Typed, Kept, Calm, NEW p \in Requests, Acts(p)
    PROVE  Exclusive'
<1>1. \A q \in Requests \ {p} : req'[q] = req[q] /\ Uses(q)' = Uses(q)
  BY Others DEF Uses
<1>2. ASSUME NEW q \in Requests \ {p}, Uses(p)' \cap Uses(q)' # {}
      PROVE  req'[p].why = "edit" /\ req'[q].why = "edit"
  <2>1. PICK l : l \in Uses(p)' /\ l \in Uses(q)
    BY <1>1, <1>2
  <2>2. CASE l \in Uses(p)
    <3>1. req[p].why = "edit" /\ req[q].why = "edit"
      BY <2>1, <2>2 DEF Kept, Exclusive
    <3>. QED BY <1>1, <2>1, <3>1, TookLane DEF Took
  <2>3. CASE l \notin Uses(p)
    BY <1>1, <2>1, <2>3, TookLane DEF Took
  <2>. QED BY <2>2, <2>3
<1>. QED BY <1>1, <1>2, Others DEF Exclusive, Kept

-----------------------------------------------------------------------------
(* What a handler's step does to the lanes.                                 *)

Moved(p) ==
    /\ \A l \in Lanes \ Uses(p) : pos'[l] = pos[l]
    /\ \A l \in Lanes : pos[l] # Locked => pos'[l] # Locked
    /\ \A l \in Lanes \ {"send_out"} : pos[l] = Complete(l) => pos'[l] = Complete(l)
    /\ stage' = "declined" => stage = "declined" \/ "intake" \in Uses(p)
    /\ req[p].why = "edit" => pos'["send_out"] \in {pos["send_out"], Verify}
    /\ external' = external

LEMMA MovedLane ==
    ASSUME Typed, Kept, Calm, NEW p \in Requests, Acts(p)
    PROVE  Moved(p)
<1>0. /\ req[p] \in Asked /\ AskedOK(req[p]) /\ req[p].lane \in Lanes
      /\ "intake" \in Lanes /\ "send_out" \in Lanes /\ Knows(p)
      /\ req[p].at = "idle" <=> req[p].why = "none"
  BY AskOf DEF Kept
<1>1. pos \in [Lanes -> 0 .. 6] /\ \A l \in Lanes : Complete(l) \in 2 .. 6
  BY Lengths DEF Typed, RowsOK, Begun, Positions
<1>2. req[p].at \notin {"idle", "look"} => req[p].lane \in Uses(p)
  BY DEF Uses
<1>3. ASSUME pos' = pos, external' = external,
             stage' = stage \/ stage' # "declined" \/ "intake" \in Uses(p)
      PROVE  Moved(p)
  BY <1>3 DEF Moved
<1>4. ASSUME NEW l \in Uses(p) \cap Lanes, NEW n \in 1 .. 6, pos' = [pos EXCEPT ![l] = n],
             l # "send_out" => pos[l] # Complete(l), req[p].why = "edit" => n = Verify,
             stage' = stage, external' = external
      PROVE  Moved(p)
  BY <1>1, <1>4, Lengths DEF Moved, Locked
<1>5. CASE Request(p)
  BY <1>3, <1>5 DEF Request, StartAdvance, StartDecide, StartUndo, StartCommit,
     StartDoneSending, StartOutcome, StartEdit, Begin, rows
<1>6. CASE Crash(p)
  BY <1>3, <1>6 DEF Crash, rows
<1>7. CASE Handler(p)
  <2>1. CASE Move(p)
    <3>1. /\ Active(pos, req[p].lane) /\ req[p].to = pos[req[p].lane] + 1
          /\ req[p].why # "edit" /\ req[p].at = "move"
      BY <1>0, <2>1 DEF Move, Knows, AskedOK, OnRoute
    <3>2. pos[req[p].lane] # Complete(req[p].lane) /\ req[p].to \in 1 .. Complete(req[p].lane)
      BY <1>0, <3>1, ActiveIs DEF Typed, RowsOK
    <3>3. req[p].to \in 1 .. 6
      BY <1>0, <1>1, <3>2
    <3>4. pos' = [pos EXCEPT ![req[p].lane] = req[p].to] /\ stage' = stage /\ external' = external
      BY <2>1 DEF Move
    <3>. QED BY <1>0, <1>2, <1>4, <3>1, <3>2, <3>3, <3>4
  <2>2. CASE Unlock(p)
    <3>1. req[p].opens \subseteq Lanes /\ req[p].opens # {} /\ req[p].at = "unlock" /\ req[p].why # "edit"
      BY <1>0, <2>2 DEF Unlock, At, AskedOK, Asked, OnRoute
    <3>2. PICK l : l = FirstOf(req[p].opens)
      OBVIOUS
    <3>3. l \in req[p].opens /\ l \in Lanes
      BY <3>1, <3>2, FirstIs
    <3>4. pos[l] # Complete(l)
      BY <1>0, <1>1, <3>1, <3>3 DEF Knows, Ready, Locked
    <3>5. pos' = [pos EXCEPT ![l] = 1] /\ stage' = stage /\ external' = external
      BY <2>2, <3>2 DEF Unlock
    <3>6. l \in Uses(p) \cap Lanes /\ 1 \in 1 .. 6
      BY <3>1, <3>3 DEF Uses
    <3>. QED BY <1>4, <3>1, <3>4, <3>5, <3>6
  <2>3. CASE Decline(p) \/ Reopen(p)
    <3>1. req[p].at \in {"decline", "reopen"} /\ req[p].why \in {"no_go", "undo"}
      BY <1>0, <2>3 DEF Decline, Reopen, Park, At, AskedOK, OnRoute, Asked, Whys, OnIntake, OnSendOut, Moves
    <3>2. req[p].lane = "intake" /\ pos["intake"] \in {GoNoGo, ToEstimator}
      BY <1>0, <3>1 DEF AskedOK, OnIntake, Knows, KnowsIntake
    <3>3. pos' = [pos EXCEPT !["intake"] = GoNoGo] /\ stage' = stage /\ external' = external
      BY <2>3 DEF Decline, Reopen, Park
    <3>4. GoNoGo \in 1 .. 6 /\ pos["intake"] # Complete("intake") /\ "intake" \in Uses(p)
      BY <1>2, <3>1, <3>2, HeadsAre, Lengths
    <3>. QED BY <1>0, <1>4, <3>1, <3>3, <3>4
  <2>4. CASE Return(p)
    <3>1. req[p].at = "return" /\ req[p].why = "commit" /\ req[p].lane = "send_out"
      BY <1>0, <2>4 DEF Return, AskedOK, OnRoute, Asked, Whys, OnIntake, OnSendOut, Moves
    <3>2. pos' = [pos EXCEPT !["send_out"] = req[p].to] /\ stage' = stage /\ external' = external
      BY <2>4 DEF Return
    <3>3. req[p].to \in 1 .. 6 /\ "send_out" \in Uses(p)
      BY <1>0, <1>2, <3>1, HeadsAre DEF AskedOK
    <3>. QED BY <1>0, <1>4, <3>1, <3>2, <3>3
  <2>5. CASE Bounce(p)
    <3>1. req[p].at = "bounce" /\ req[p].why = "edit" /\ req[p].lane = "send_out"
      BY <1>0, <2>5 DEF Bounce, AskedOK, OnRoute, Asked, Whys, OnIntake, OnSendOut, Moves
    <3>2. /\ pos' = pos \/ pos' = [pos EXCEPT !["send_out"] = Verify]
          /\ stage' = stage /\ external' = external
      BY <2>5 DEF Bounce
    <3>3. Verify \in 1 .. 6 /\ "send_out" \in Uses(p)
      BY <1>2, <3>1, HeadsAre
    <3>. QED BY <1>0, <1>3, <1>4, <3>1, <3>2, <3>3
  <2>6. CASE WriteHeadline(p)
    <3>1. stage' # "declined" /\ pos' = pos /\ external' = external
      BY <1>0, <2>6 DEF WriteHeadline, At, AskedOK
    <3>. QED BY <1>3, <3>1
  <2>7. CASE Kill(p)
    <3>1. req[p].why = "no_go" /\ req[p].at = "kill"
      BY <1>0, <2>7 DEF Kill, At, AskedOK, OnRoute, Asked, Whys, OnIntake, OnSendOut, Moves
    <3>2. "intake" \in Uses(p)
      BY <1>0, <1>2, <3>1 DEF AskedOK, OnIntake
    <3>. QED BY <1>3, <2>7, <3>2 DEF Kill
  <2>8. CASE \/ Load(p) \/ Fanout(p) \/ ReadHeadline(p) \/ Decide(p) \/ Price(p) \/ Commit(p)
             \/ Resume(p) \/ Unmark(p) \/ Look(p) \/ Mark(p) \/ Reset(p) \/ Record(p)
    BY <1>3, <2>8 DEF Load, Fanout, ReadHeadline, Decide, Price, Commit, Resume, Unmark, Look,
       Mark, Reset, Record, rows
  <2>. QED BY <1>7, <2>1, <2>2, <2>3, <2>4, <2>5, <2>6, <2>7, <2>8 DEF Handler
<1>. QED BY <1>5, <1>6, <1>7 DEF Acts

\* What another handler relies on stays as it read it.
LEMMA KnowsOthers ==
    ASSUME Typed, Kept, Calm, NEW p \in Requests, Acts(p), NEW q \in Requests \ {p}
    PROVE  Knows(q)'
<1>0. /\ req[q] \in Asked /\ AskedOK(req[q]) /\ req[q].lane \in Lanes
      /\ "intake" \in Lanes /\ "send_out" \in Lanes /\ Knows(q) /\ req'[q] = req[q]
      /\ req[q].at = "idle" <=> req[q].why = "none"
  BY AskOf, Others DEF Kept
<1>1. Moved(p)
  BY MovedLane
<1>2. \A l \in Uses(q) \cap Lanes : pos'[l] = pos[l] \/ (req[p].why = "edit" /\ req[q].why = "edit")
  BY <1>1 DEF Kept, Exclusive, Moved
<1>3. req[q].why # "edit" => \A l \in Uses(q) \cap Lanes : pos'[l] = pos[l]
  BY <1>2
<1>4. req[q].at \notin {"idle", "look"} => req[q].lane \in Uses(q)
  BY DEF Uses
<1>5. /\ pos["intake"] = Complete("intake") => pos'["intake"] = Complete("intake")
      /\ \A l \in Lanes : pos[l] # Locked => pos'[l] # Locked
  BY <1>0, <1>1 DEF Moved
<1>6. req[q].at \notin {"idle", "look"} /\ req[q].lane # "intake"
          => pos'["intake"] = Complete("intake") /\ pos'[req[q].lane] # Locked
  BY <1>0, <1>5 DEF Knows
<1>7. ASSUME req[q].at = "move"
      PROVE  Active(pos', req[q].lane) /\ req[q].to = pos'[req[q].lane] + 1
  <2>1. req[q].why # "edit"
    BY <1>0, <1>7 DEF AskedOK, OnRoute
  <2>2. pos'[req[q].lane] = pos[req[q].lane]
    BY <1>0, <1>3, <1>4, <1>7, <2>1
  <2>. QED BY <1>0, <1>7, <2>2 DEF Knows, Active
<1>8. ASSUME req[q].at = "unlock"
      PROVE  /\ req[q].opens # {} /\ pos'["intake"] = Complete("intake")
             /\ \A l \in req[q].opens : Ready(q, l)'
  <2>1. req[q].why # "edit"
    BY <1>0, <1>8 DEF AskedOK, OnRoute
  <2>2. /\ req[q].opens # {} /\ pos["intake"] = Complete("intake") /\ req[q].opens \subseteq Lanes
        /\ \A l \in req[q].opens : Ready(q, l)
    BY <1>0, <1>8 DEF Knows, Asked
  <2>3. ASSUME NEW l \in req[q].opens PROVE Ready(q, l)'
    <3>1. l \in Uses(q) \cap Lanes
      BY <1>8, <2>2 DEF Uses
    <3>2. pos'[l] = pos[l] /\ Ready(q, l)
      BY <1>3, <2>1, <2>2, <3>1
    <3>3. \A k \in {"material_numbers", "select_vendors", "labor_numbers"} :
            Coming(q, k) => Coming(q, k)'
      BY <1>0, <1>5, Lengths DEF Coming
    <3>4. HardMet(pos, "send_out") => HardMet(pos', "send_out")
      <4>1. Prereqs["send_out"] \subseteq Lanes \ {"send_out"}
        BY Lengths DEF Prereqs
      <4>. QED BY <1>1, <4>1 DEF HardMet, Moved
    <3>. QED BY <3>2, <3>3, <3>4 DEF Ready
  <2>. QED BY <1>5, <2>2, <2>3
<1>9. req[q].at # "unlock" => req[q].opens = {}
  BY <1>0 DEF Knows
<1>10. KnowsIntake(req[q], pos["intake"], stage)'
  <2>1. CASE req[q].why \notin OnIntake /\ ~(req[q].why = "advance" /\ req[q].lane = "intake")
    BY <1>0, <2>1 DEF KnowsIntake, OnIntake
  <2>2. CASE req[q].why \in OnIntake \/ (req[q].why = "advance" /\ req[q].lane = "intake")
    <3>1. req[q].lane = "intake" /\ req[q].at \notin {"idle", "look"} /\ req[q].why # "edit"
      BY <1>0, <2>2 DEF AskedOK, OnRoute, OnIntake, Moves
    <3>2. "intake" \in Uses(q) /\ pos'["intake"] = pos["intake"]
      BY <1>0, <1>3, <1>4, <3>1
    <3>3. "intake" \notin Uses(p)
      BY <3>1, <3>2 DEF Kept, Exclusive
    <3>4. stage # "declined" => stage' # "declined"
      BY <1>1, <3>3 DEF Moved
    <3>5. KnowsIntake(req[q], pos["intake"], stage)
      BY <1>0 DEF Knows
    <3>. QED BY <1>0, <3>2, <3>4, <3>5 DEF KnowsIntake
  <2>. QED BY <2>1, <2>2
<1>11. KnowsSendOut(req[q], pos["send_out"])'
  <2>0. KnowsSendOut(req[q], pos["send_out"])
    BY <1>0 DEF Knows
  <2>1. CASE req[q].at \in {"idle", "look"}
    BY <1>0, <2>1 DEF KnowsSendOut, AskedOK, OnRoute, Moves
  <2>2. CASE req[q].lane # "send_out"
    BY <1>0, <2>2 DEF KnowsSendOut, AskedOK, OnSendOut
  <2>3. CASE req[q].at \notin {"idle", "look"} /\ req[q].lane = "send_out"
    <3>1. \/ pos'["send_out"] = pos["send_out"]
          \/ req[q].why = "edit" /\ pos'["send_out"] = Verify
      BY <1>0, <1>1, <1>2, <1>4, <2>3 DEF Moved
    <3>. QED BY <1>0, <2>0, <3>1 DEF KnowsSendOut
  <2>. QED BY <2>1, <2>2, <2>3
<1>. QED BY <1>0, <1>6, <1>7, <1>8, <1>9, <1>10, <1>11 DEF Knows

-----------------------------------------------------------------------------
(* What a handler relies on after its own step.                             *)

LEMMA KnowsIdle ==
    ASSUME NEW p \in Requests, req'[p] = Idle
    PROVE  Knows(p)'
BY DEF Knows, KnowsIntake, KnowsSendOut, Idle

LEMMA EndKnown ==
    ASSUME Typed, NEW p \in Requests, Done(p)
    PROVE  Knows(p)'
BY AskOf, KnowsIdle DEF Done

\* Intake first: a lane that has begun has intake behind it.
LEMMA IntakeFirst ==
    ASSUME Typed, Kept, NEW l \in Lanes \ {"intake"}, pos[l] # Locked
    PROVE  pos["intake"] = Complete("intake")
BY DEF Kept, Shaped, Shape

LEMMA KnowsRequest ==
    ASSUME Typed, Kept, Calm, NEW p \in Requests, Request(p)
    PROVE  Knows(p)'
<1>0. /\ req \in [Requests -> Asked] /\ "intake" \in Lanes /\ "send_out" \in Lanes
      /\ pos["send_out"] \in Nat
  BY AskOf, Positive DEF Typed, RowsOK
<1>1. ASSUME NEW at \in Firsts, NEW why \in Whys, NEW lane \in Lanes, Begin(p, at, why, lane),
             lane # "intake" => pos[lane] # Locked,
             KnowsIntake([Idle EXCEPT !.at = at, !.why = why, !.lane = lane, !.head = pos[lane]],
                         pos["intake"], stage),
             KnowsSendOut([Idle EXCEPT !.at = at, !.why = why, !.lane = lane, !.head = pos[lane]],
                          pos["send_out"])
      PROVE  Knows(p)'
  <2>1. req'[p] = [Idle EXCEPT !.at = at, !.why = why, !.lane = lane, !.head = pos[lane]]
    BY <1>0, <1>1 DEF Begin
  <2>2. pos' = pos /\ stage' = stage
    BY <1>1 DEF Begin, rows
  <2>3. lane # "intake" => pos["intake"] = Complete("intake")
    BY <1>1, IntakeFirst
  <2>4. /\ req'[p].at = at /\ req'[p].lane = lane /\ req'[p].opens = {}
    BY <2>1 DEF Idle
  <2>5. KnowsIntake(req'[p], pos'["intake"], stage')
    BY <1>1, <2>1, <2>2 DEF KnowsIntake
  <2>6. KnowsSendOut(req'[p], pos'["send_out"])
    BY <1>1, <2>1, <2>2 DEF KnowsSendOut
  <2>. QED BY <1>1, <2>2, <2>3, <2>4, <2>5, <2>6 DEF Knows, Firsts
<1>. USE DEF KnowsIntake, KnowsSendOut, Idle, Firsts, Whys, OnIntake, OnSendOut
<1>2. ASSUME NEW l \in Lanes, StartAdvance(p, l) PROVE Knows(p)'
  <2>1. PICK why \in {"enter", "advance"} :
              /\ Begin(p, "load", why, l) /\ Starts("load", why, l)
              /\ Active(pos, l) /\ stage # "declined"
              /\ why = "enter" => l = "intake" /\ pos[l] = 1
              /\ why = "advance" /\ l = "intake" => pos[l] = ToEstimator
              /\ why = "advance" /\ l = "send_out" => pos[l] \notin {Verify, SendOut, Submitted}
    BY <1>2, StartAdvanceIs
  <2>2. pos[l] # Locked
    BY <2>1, ActiveIs DEF Locked, Typed, RowsOK
  <2>. QED BY <1>1, <2>1, <2>2
<1>3. ASSUME NEW verdict \in {"go", "no_go"}, StartDecide(p, verdict) PROVE Knows(p)'
  BY <1>0, <1>1, <1>3 DEF StartDecide
<1>4. CASE StartUndo(p)
  <2>1. pos["intake"] \in {GoNoGo, ToEstimator}
    BY <1>4 DEF StartUndo, UndoBlocked, Kept, Shaped, Shape
  <2>. QED BY <1>0, <1>1, <1>4, <2>1 DEF StartUndo
<1>5. CASE StartCommit(p)
  <2>1. pos["send_out"] # Locked
    BY <1>0, <1>5 DEF StartCommit, CanCommit, Verify, Locked
  <2>. QED BY <1>0, <1>1, <1>5, <2>1 DEF StartCommit
<1>6. CASE StartDoneSending(p)
  BY <1>0, <1>1, <1>6, HeadsAre DEF StartDoneSending
<1>7. CASE StartOutcome(p)
  <2>1. pos["send_out"] # Locked
    BY <1>0, <1>7, HeadsAre, Lengths DEF StartOutcome
  <2>. QED BY <1>0, <1>1, <1>7, <2>1 DEF StartOutcome
<1>8. CASE StartEdit(p)
  <2>1. req'[p] = [Idle EXCEPT !.at = "look", !.why = "edit", !.lane = "send_out"]
    BY <1>0, <1>8 DEF StartEdit
  <2>. QED BY <2>1 DEF Knows
<1>. QED BY <1>2, <1>3, <1>4, <1>5, <1>6, <1>7, <1>8 DEF Request

\* A step within a handler that leaves the lanes: where it goes must be known there.
LEMMA KnowsStay ==
    ASSUME Typed, Kept, Calm, NEW p \in Requests, NEW r, req' = [req EXCEPT ![p] = r],
           pos' = pos, req[p].at \notin {"idle", "look"}, r.lane = req[p].lane, r.opens = {},
           r.at \notin {"move", "unlock"},
           KnowsIntake(r, pos'["intake"], stage'), KnowsSendOut(r, pos'["send_out"])
    PROVE  Knows(p)'
<1>1. req'[p] = r /\ Knows(p)
  BY AskOf DEF Kept
<1>. QED BY <1>1 DEF Knows, KnowsIntake, KnowsSendOut

LEMMA KnowsHandler ==
    ASSUME Typed, Kept, Calm, NEW p \in Requests, Handler(p)
    PROVE  Knows(p)'
<1>0. /\ req[p] \in Asked /\ AskedOK(req[p]) /\ req \in [Requests -> Asked]
      /\ "intake" \in Lanes /\ "send_out" \in Lanes /\ req[p].lane \in Lanes
      /\ req[p].at = "idle" <=> req[p].why = "none"
      /\ Knows(p) /\ Moved(p)
  BY AskOf, MovedLane DEF Kept, Acts
<1>1. pos \in [Lanes -> 0 .. 6] /\ \A l \in Lanes : Complete(l) \in 2 .. 6
  BY Lengths DEF Typed, RowsOK, Begun, Positions
<1>2. /\ KnowsIntake(req[p], pos["intake"], stage) /\ KnowsSendOut(req[p], pos["send_out"])
      /\ OnRoute(req[p].why, req[p].at)
      /\ req[p].why \in Whys
      /\ req[p].why \in OnIntake => req[p].lane = "intake"
      /\ req[p].why \in OnSendOut => req[p].lane = "send_out"
  BY <1>0 DEF Knows, AskedOK, Asked
<1>3. ASSUME NEW at, Goto(p, at), pos' = pos, stage' = stage \/ at = "decide",
             req[p].at \in Steps \ {"idle", "look", "unlock"}, at \notin {"move", "unlock"},
             KnowsIntake([req[p] EXCEPT !.at = at], pos'["intake"], stage'),
             KnowsSendOut([req[p] EXCEPT !.at = at], pos["send_out"])
      PROVE  Knows(p)'
  <2> DEFINE r == [req[p] EXCEPT !.at = at]
  <2>1. req' = [req EXCEPT ![p] = r] /\ req'[p] = r
    BY <1>0, <1>3 DEF Goto
  <2>2. r.lane = req[p].lane /\ r.opens = {} /\ r.at = at
    BY <1>0, <1>3 DEF Asked, Knows
  <2>3. KnowsSendOut(r, pos'["send_out"])
    BY <1>3 DEF KnowsSendOut
  <2>. HIDE DEF r
  <2>4. KnowsIntake(r, pos'["intake"], stage')
    BY <1>3 DEF r
  <2>. QED BY <1>3, <2>1, <2>2, <2>3, <2>4, KnowsStay
<1>4. CASE Load(p)
  <2>1. CASE Active(pos, req[p].lane)
    <3> DEFINE r == [req[p] EXCEPT !.at = "move", !.to = NextPosition(req[p].lane)]
    <3>1. req' = [req EXCEPT ![p] = r] /\ req'[p] = r
      BY <1>0, <1>4, <2>1 DEF Load
    <3>2. /\ r.lane = req[p].lane /\ r.opens = req[p].opens /\ r.at = "move" /\ r.why = req[p].why
          /\ r.to = pos[req[p].lane] + 1 /\ r.head = req[p].head
      BY <1>0 DEF Asked, NextPosition
    <3>3. req[p].at = "load" /\ pos' = pos /\ stage' = stage
      BY <1>4 DEF Load, At, rows
    <3>. HIDE DEF r
    <3>4. KnowsIntake(r, pos'["intake"], stage')
      BY <1>2, <3>2, <3>3 DEF KnowsIntake
    <3>5. KnowsSendOut(r, pos'["send_out"])
      BY <1>2, <3>2, <3>3 DEF KnowsSendOut
    <3>6. Active(pos', r.lane)
      BY <2>1, <3>2, <3>3 DEF Active
    <3>. QED BY <1>0, <3>1, <3>2, <3>3, <3>4, <3>5, <3>6 DEF Knows
  <2>. QED BY <1>4, <2>1, EndKnown DEF Load
<1>5. CASE Move(p)
  <2>1. /\ req[p].at = "move" /\ req[p].to = pos[req[p].lane] + 1 /\ Active(pos, req[p].lane)
        /\ req[p].opens = {}
        /\ pos' = [pos EXCEPT ![req[p].lane] = req[p].to] /\ stage' = stage
    BY <1>0, <1>5 DEF Move, Knows
  <2>2. req'[p] = [req[p] EXCEPT !.at = "fanout"]
    BY <1>0, <1>5 DEF Move, Goto
  <2>3. /\ req'[p].at = "fanout" /\ req'[p].lane = req[p].lane /\ req'[p].opens = {}
        /\ req'[p].why = req[p].why /\ req'[p].head = req[p].head
    BY <1>0, <2>1, <2>2 DEF Asked
  <2>4. req[p].lane # "intake" => pos'["intake"] = Complete("intake") /\ pos'[req[p].lane] # Locked
    BY <1>0, <1>1, <2>1 DEF Knows, Moved
  <2>5. KnowsIntake(req'[p], pos'["intake"], stage')
    <3>1. req[p].why \in OnIntake \/ req[p].lane = "intake" => pos'["intake"] = pos["intake"] + 1
      BY <1>0, <1>1, <1>2, <2>1
    <3>2. CASE req[p].why = "enter"
      BY <1>2, <2>1, <2>3, <3>1, <3>2, HeadsAre DEF KnowsIntake, OnIntake
    <3>3. CASE req[p].why = "go"
      BY <1>2, <2>1, <2>3, <3>1, <3>3, HeadsAre DEF KnowsIntake, OnIntake
    <3>4. CASE req[p].why = "advance"
      BY <1>2, <2>1, <2>3, <3>1, <3>4, HeadsAre, Lengths DEF KnowsIntake
    <3>5. req[p].why \notin {"no_go", "undo"}
      BY <1>2, <2>1 DEF OnRoute
    <3>. QED BY <2>3, <3>2, <3>3, <3>4, <3>5 DEF KnowsIntake
  <2>6. KnowsSendOut(req'[p], pos'["send_out"])
    BY <1>2, <2>1, <2>3 DEF KnowsSendOut, OnRoute, Moves
  <2>. QED BY <2>3, <2>4, <2>5, <2>6 DEF Knows
<1>6. CASE Fanout(p)
  <2>1. /\ req[p].at = "fanout" /\ pos' = pos /\ stage' = stage
    BY <1>6 DEF Fanout, At, rows
  <2>2. PICK at : at = IF Unlocked(pos) = {} THEN "headline" ELSE "unlock"
    OBVIOUS
  <2> DEFINE r == [req[p] EXCEPT !.at = at, !.opens = Unlocked(pos)]
  <2>3. req' = [req EXCEPT ![p] = r]
    BY <1>0, <1>6, <2>2 DEF Fanout
  <2>4. req'[p] = r
    BY <1>0, <2>3
  <2>5. /\ req'[p].at = at /\ req'[p].lane = req[p].lane /\ req'[p].opens = Unlocked(pos)
        /\ req'[p].why = req[p].why /\ req'[p].head = req[p].head
    BY <1>0, <2>4 DEF Asked
  <2>6. /\ Unlocked(pos) # {} => pos["intake"] = Complete("intake")
    BY Lengths, UnlockedIs DEF Typed, RowsOK, Kept, Shaped, Shape
  <2>7. ASSUME NEW l \in Unlocked(pos) PROVE Ready(p, l)'
    <3>1. l \in Lanes \ {"intake"} /\ pos[l] = Locked /\ (l = "send_out" => HardMet(pos, l))
      BY UnlockedIs DEF Typed, RowsOK
    <3>2. \A k \in Middle : Coming(p, k)'
      BY SMTT(60), <2>1, <2>5, <2>6, UnlockedIs, Lengths DEF Typed, RowsOK, Coming
    <3>. QED BY <2>1, <3>1, <3>2 DEF Ready, Middle
  <2>8. KnowsIntake(req'[p], pos'["intake"], stage')
    BY <1>2, <2>1, <2>2, <2>5 DEF KnowsIntake, OnRoute, Moves
  <2>9. KnowsSendOut(req'[p], pos'["send_out"])
    BY <1>2, <2>1, <2>2, <2>5 DEF KnowsSendOut, OnRoute, Moves
  <2>10. req[p].lane # "intake" => pos'["intake"] = Complete("intake") /\ pos'[req[p].lane] # Locked
    BY <1>0, <2>1 DEF Knows
  <2>. QED BY <2>1, <2>2, <2>5, <2>6, <2>7, <2>8, <2>9, <2>10 DEF Knows
<1>7. CASE Unlock(p)
  <2>1. /\ req[p].at = "unlock" /\ stage' = stage /\ req[p].opens # {} /\ req[p].opens \subseteq Lanes
        /\ pos["intake"] = Complete("intake") /\ \A l \in req[p].opens : Ready(p, l)
    BY <1>0, <1>7 DEF Unlock, At, Knows, Asked
  <2>2. PICK l : l = FirstOf(req[p].opens)
    OBVIOUS
  <2>3. l \in req[p].opens /\ l \in Lanes \ {"intake"} /\ pos[l] = Locked
    BY <2>1, <2>2, FirstIs DEF Ready
  <2>4. pos' = [pos EXCEPT ![l] = 1]
    BY <1>7, <2>2 DEF Unlock
  <2>5. PICK at : at = IF req[p].opens = {l} THEN "headline" ELSE "unlock"
    OBVIOUS
  <2> DEFINE r == [req[p] EXCEPT !.at = at, !.opens = req[p].opens \ {l}]
  <2>6. req' = [req EXCEPT ![p] = r]
    BY <1>0, <1>7, <2>2, <2>5 DEF Unlock
  <2>7. req'[p] = r
    BY <1>0, <2>6
  <2>8. /\ req'[p].at = at /\ req'[p].lane = req[p].lane /\ req'[p].opens = req[p].opens \ {l}
        /\ req'[p].why = req[p].why /\ req'[p].head = req[p].head
    BY <1>0, <2>7 DEF Asked
  <2>9. pos'["intake"] = pos["intake"] /\ pos'[l] # Locked /\ \A k \in Lanes \ {l} : pos'[k] = pos[k]
    BY <1>0, <1>1, <2>3, <2>4 DEF Locked
  <2>10. ASSUME NEW k \in req[p].opens \ {l} PROVE Ready(p, k)'
    <3>1. Ready(p, k) /\ pos'[k] = pos[k]
      BY <2>1, <2>9
    <3>2. \A m \in Middle : Coming(p, m) => Coming(p, m)'
      BY <1>0, <2>8, <2>9, Lengths DEF Coming, Moved, Middle
    <3>3. HardMet(pos, "send_out") => HardMet(pos', "send_out")
      <4>1. Prereqs["send_out"] \subseteq Lanes \ {"send_out"}
        BY Lengths DEF Prereqs
      <4>. QED BY <1>0, <4>1 DEF HardMet, Moved
    <3>. QED BY <3>1, <3>2, <3>3 DEF Ready, Middle
  <2>11. KnowsIntake(req'[p], pos'["intake"], stage')
    BY <1>2, <2>1, <2>5, <2>8, <2>9 DEF KnowsIntake, OnRoute, Moves
  <2>12. KnowsSendOut(req'[p], pos'["send_out"])
    BY <1>2, <2>1, <2>5, <2>8 DEF KnowsSendOut, OnRoute, Moves
  <2>13. req[p].lane # "intake" => pos'["intake"] = Complete("intake") /\ pos'[req[p].lane] # Locked
    BY <1>0, <2>1, <2>9 DEF Knows, Moved
  <2>. QED BY <2>1, <2>3, <2>5, <2>8, <2>9, <2>10, <2>11, <2>12, <2>13 DEF Knows
<1>8. CASE ReadHeadline(p)
  <2> DEFINE r == [req[p] EXCEPT !.at = "point", !.stage = Headline(pos)]
  <2>1. req' = [req EXCEPT ![p] = r]
    BY <1>0, <1>8 DEF ReadHeadline
  <2>2. /\ req[p].at = "headline" /\ pos' = pos /\ stage' = stage
        /\ req[p].opens = {}
    BY <1>0, <1>8 DEF ReadHeadline, At, rows, Knows
  <2>3. /\ r.lane = req[p].lane /\ r.opens = {} /\ r.why = req[p].why /\ r.at = "point"
        /\ r.head = req[p].head
    BY <1>0, <2>2 DEF Asked
  <2>. HIDE DEF r
  <2>4. KnowsIntake(r, pos'["intake"], stage') /\ KnowsSendOut(r, pos'["send_out"])
    BY <1>2, <2>2, <2>3 DEF KnowsIntake, KnowsSendOut
  <2>. QED BY <2>1, <2>2, <2>3, <2>4, KnowsStay
<1>9. CASE WriteHeadline(p)
  <2>1. req[p].at = "point" /\ pos' = pos
    BY <1>9 DEF WriteHeadline, At
  <2>2. ASSUME NEW next, NEW then, Follows(req[p].why, next, then),
               req' = [req EXCEPT ![p] = [Idle EXCEPT
                                            !.at = next, !.lane = req[p].lane, !.why = then]]
        PROVE  Knows(p)'
    <3> DEFINE r == [Idle EXCEPT !.at = next, !.lane = req[p].lane, !.why = then]
    <3>1. r.lane = req[p].lane /\ r.opens = {} /\ r.why = then /\ r.at = next
      BY DEF Idle
    <3>2. req' = [req EXCEPT ![p] = r]
      BY <2>2
    <3>. HIDE DEF r
    <3>3. KnowsIntake(r, pos'["intake"], stage') /\ KnowsSendOut(r, pos'["send_out"])
      BY <1>2, <2>1, <2>2, <3>1 DEF KnowsIntake, KnowsSendOut, Follows
    <3>4. next \notin {"move", "unlock"}
      BY <2>2 DEF Follows
    <3>. QED BY <2>1, <3>1, <3>2, <3>3, <3>4, KnowsStay
  <2>. QED BY <1>9, <2>2, WroteIs, EndKnown
<1>10. CASE Decline(p) \/ Reopen(p)
  <2>1. /\ pos' = [pos EXCEPT !["intake"] = GoNoGo] /\ stage' = stage
        /\ \/ req[p].at = "decline" /\ Goto(p, "kill")
           \/ req[p].at = "reopen" /\ Goto(p, "headline")
    BY <1>10 DEF Decline, Reopen, Park, At
  <2>2. /\ pos'["intake"] = GoNoGo /\ req'[p].why = req[p].why /\ req'[p].lane = req[p].lane
        /\ req'[p].opens = {}
        /\ \/ req[p].at = "decline" /\ req'[p].at = "kill"
           \/ req[p].at = "reopen" /\ req'[p].at = "headline"
    BY <1>0, <1>1, <2>1 DEF Goto, Asked, Knows
  <2>3. req[p].why \in {"no_go", "undo"} /\ req[p].lane = "intake"
    BY <1>2, <2>2 DEF OnRoute, Whys, OnIntake, OnSendOut, Moves
  <2>. QED BY <1>0, <2>1, <2>2, <2>3 DEF Knows, KnowsIntake, KnowsSendOut
<1>11. CASE Kill(p)
  <2>1. req[p].at = "kill" /\ req[p].why = "no_go" /\ pos' = pos /\ Goto(p, "decide")
    BY <1>2, <1>11 DEF Kill, At, OnRoute, Whys, OnIntake, OnSendOut, Moves
  <2>2. /\ req'[p].at = "decide" /\ req'[p].why = "no_go" /\ req'[p].lane = "intake"
        /\ req'[p].opens = {}
    BY <1>0, <1>2, <2>1 DEF Goto, Asked, Knows, OnIntake
  <2>. QED BY <1>2, <2>1, <2>2 DEF Knows, KnowsIntake, KnowsSendOut
<1>12. CASE Decide(p)
  BY <1>12, EndKnown DEF Decide
<1>. USE DEF KnowsIntake, KnowsSendOut
<1>13. CASE Price(p)
  <2> DEFINE r == [req[p] EXCEPT !.at = "commit", !.figures = figures]
  <2>1. req' = [req EXCEPT ![p] = r]
    BY <1>0, <1>13 DEF Price
  <2>2. req[p].at = "price" /\ pos' = pos /\ stage' = stage /\ req[p].opens = {}
    BY <1>0, <1>13 DEF Price, At, rows, Knows
  <2>3. /\ r.lane = req[p].lane /\ r.opens = {} /\ r.why = req[p].why /\ r.at = "commit"
        /\ r.head = req[p].head
    BY <1>0, <2>2 DEF Asked
  <2>. HIDE DEF r
  <2>4. KnowsIntake(r, pos'["intake"], stage') /\ KnowsSendOut(r, pos'["send_out"])
    BY <1>2, <2>2, <2>3 DEF OnRoute, Moves
  <2>. QED BY <2>1, <2>2, <2>3, <2>4, KnowsStay
<1>14. CASE Commit(p)
  <2>1. CASE req[p].head = Verify
    <3> DEFINE r == [req[p] EXCEPT !.at = "leave", !.figures = None]
    <3>1. req' = [req EXCEPT ![p] = r]
      BY <1>0, <1>14, <2>1 DEF Commit
    <3>2. req[p].at = "commit" /\ pos' = pos /\ stage' = stage /\ req[p].opens = {}
      BY <1>0, <1>14 DEF Commit, At, Knows
    <3>3. /\ r.lane = req[p].lane /\ r.opens = {} /\ r.why = req[p].why /\ r.at = "leave"
          /\ r.head = req[p].head
      BY <1>0, <3>2 DEF Asked
    <3>. HIDE DEF r
    <3>4. KnowsIntake(r, pos'["intake"], stage') /\ KnowsSendOut(r, pos'["send_out"])
      BY <1>2, <2>1, <3>2, <3>3 DEF OnRoute, Moves
    <3>. QED BY <3>1, <3>2, <3>3, <3>4, KnowsStay
  <2>. QED BY <1>14, <2>1, EndKnown DEF Commit
<1>15. CASE Resume(p)
  <2>1. /\ req[p].at = "leave" /\ req[p].why = "commit" /\ pos' = pos /\ stage' = stage
        /\ req[p].opens = {} /\ pos["send_out"] = Verify
    BY <1>0, <1>2, <1>15 DEF Resume, At, rows, OnRoute, Whys, OnIntake, OnSendOut, Moves, Knows
  <2> DEFINE r == [req[p] EXCEPT !.at = "load"]
             s == [req[p] EXCEPT !.at = "return", !.to = back]
  <2>2. req' = [req EXCEPT ![p] = r] \/ req' = [req EXCEPT ![p] = s]
    BY <1>0, <1>15 DEF Resume
  <2>3. /\ r.lane = req[p].lane /\ r.opens = {} /\ r.why = "commit" /\ r.at = "load"
        /\ s.lane = req[p].lane /\ s.opens = {} /\ s.why = "commit" /\ s.at = "return"
    BY <1>0, <2>1 DEF Asked
  <2>. HIDE DEF r, s
  <2>4. /\ KnowsIntake(r, pos'["intake"], stage') /\ KnowsSendOut(r, pos'["send_out"])
        /\ KnowsIntake(s, pos'["intake"], stage') /\ KnowsSendOut(s, pos'["send_out"])
    BY <2>1, <2>3
  <2>5. CASE req' = [req EXCEPT ![p] = r]
    BY <2>1, <2>3, <2>4, <2>5, KnowsStay
  <2>6. CASE req' = [req EXCEPT ![p] = s]
    BY <2>1, <2>3, <2>4, <2>6, KnowsStay
  <2>. QED BY <2>2, <2>5, <2>6
<1>16. CASE Return(p)
  <2>1. /\ req[p].at = "return" /\ req[p].why = "commit" /\ Goto(p, "unmark") /\ stage' = stage
        /\ pos' = [pos EXCEPT !["send_out"] = req[p].to] /\ req[p].lane = "send_out"
    BY <1>2, <1>16 DEF Return, OnRoute, Whys, OnIntake, OnSendOut, Moves
  <2>2. /\ req'[p].at = "unmark" /\ req'[p].why = "commit" /\ req'[p].lane = "send_out"
        /\ req'[p].opens = {}
    BY <1>0, <2>1 DEF Goto, Asked, Knows
  <2>3. pos'["send_out"] \in PastVerify /\ pos'["intake"] = pos["intake"]
    BY <1>0, <1>1, <2>1 DEF AskedOK
  <2>4. pos["intake"] = Complete("intake") /\ pos'["send_out"] # Locked
    BY <1>0, <2>1, <2>3, HeadsAre DEF Knows
  <2>. QED BY <2>2, <2>3, <2>4 DEF Knows
<1>17. CASE Unmark(p) \/ Mark(p) \/ Reset(p)
  <2>1. /\ pos' = pos /\ stage' = stage
        /\ \/ req[p].at = "unmark" /\ Goto(p, "headline")
           \/ req[p].at = "mark" /\ Goto(p, "reset")
           \/ req[p].at = "reset" /\ Goto(p, "headline")
    BY <1>17 DEF Unmark, Mark, Reset, At
  <2>2. PICK at \in {"headline", "reset"} :
            /\ Goto(p, at) /\ req[p].at \in {"unmark", "mark", "reset"}
            /\ at = "headline" => req[p].at # "mark"
    BY <2>1
  <2>3. req[p].why \in {"commit", "edit"} /\ (req[p].why = "edit" => pos["send_out"] = Verify)
    BY <1>2, <2>2 DEF OnRoute, Whys, OnIntake, OnSendOut, Moves
  <2>4. [req[p] EXCEPT !.at = at].why = req[p].why /\ [req[p] EXCEPT !.at = at].at = at
    BY <1>0 DEF Asked
  <2>5. KnowsIntake([req[p] EXCEPT !.at = at], pos'["intake"], stage')
    BY <2>3, <2>4
  <2>6. KnowsSendOut([req[p] EXCEPT !.at = at], pos["send_out"])
    BY <2>2, <2>3, <2>4
  <2>. QED BY <1>3, <2>1, <2>2, <2>5, <2>6 DEF Steps, Moves
<1>18. CASE Look(p)
  <2>1. CASE MustBounce
    <3>1. req[p].at = "look" /\ req[p].why = "edit" /\ req[p].lane = "send_out" /\ pos' = pos
      BY <1>2, <1>18 DEF Look, At, rows, OnRoute, Whys, OnIntake, OnSendOut, Moves
    <3>2. PICK to : to = IF back = None THEN pos["send_out"] ELSE None
      OBVIOUS
    <3>3. req' = [req EXCEPT ![p] = [req[p] EXCEPT !.at = "bounce", !.head = pos["send_out"],
                                                   !.to = to]]
      BY <1>0, <1>18, <2>1, <3>2 DEF Look
    <3>4. /\ req'[p].at = "bounce" /\ req'[p].why = "edit" /\ req'[p].lane = "send_out"
          /\ req'[p].opens = {}
      BY <1>0, <3>1, <3>3 DEF Asked, Knows
    <3>5. pos["send_out"] # Locked
      BY <2>1, HeadsAre DEF MustBounce
    <3>6. pos["intake"] = Complete("intake")
      BY <1>0, <3>5, IntakeFirst
    <3>. QED BY <3>1, <3>4, <3>5, <3>6 DEF Knows
  <2>. QED BY <1>18, <2>1, EndKnown DEF Look
<1>19. CASE Bounce(p)
  <2>1. CASE pos["send_out"] = req[p].head
    <3>1. /\ req[p].at = "bounce" /\ req[p].why = "edit" /\ req[p].lane = "send_out"
          /\ pos' = [pos EXCEPT !["send_out"] = Verify] /\ Goto(p, "mark")
      BY <1>2, <1>19, <2>1 DEF Bounce, OnRoute, Whys, OnIntake, OnSendOut, Moves
    <3>2. /\ req'[p].at = "mark" /\ req'[p].why = "edit" /\ req'[p].lane = "send_out"
          /\ req'[p].opens = {}
      BY <1>0, <3>1 DEF Goto, Asked, Knows
    <3>3. pos'["send_out"] = Verify /\ pos'["intake"] = pos["intake"]
      BY <1>0, <1>1, <3>1
    <3>4. pos["intake"] = Complete("intake") /\ pos'["send_out"] # Locked
      BY <1>0, <3>1, <3>3, HeadsAre DEF Knows
    <3>. QED BY <3>2, <3>3, <3>4 DEF Knows
  <2>. QED BY <1>19, <2>1, EndKnown DEF Bounce
<1>20. CASE Record(p)
  <2>1. CASE req[p].head = Submitted
    <3>1. /\ req[p].at = "record" /\ req[p].why = "outcome" /\ pos' = pos /\ stage' = stage
          /\ Goto(p, "load")
      BY <1>2, <1>20, <2>1 DEF Record, At, OnRoute, Whys, OnIntake, OnSendOut, Moves
    <3>2. [req[p] EXCEPT !.at = "load"].why = "outcome" /\ [req[p] EXCEPT !.at = "load"].at = "load"
      BY <1>0, <3>1 DEF Asked
    <3>3. pos["send_out"] = Submitted
      BY <1>2, <2>1, <3>1, HeadsAre
    <3>4. /\ KnowsIntake([req[p] EXCEPT !.at = "load"], pos'["intake"], stage')
          /\ KnowsSendOut([req[p] EXCEPT !.at = "load"], pos["send_out"])
      BY <3>2, <3>3
    <3>. QED BY <1>3, <3>1, <3>4 DEF Steps, Moves
  <2>. QED BY <1>20, <2>1, EndKnown DEF Record
<1>. QED
  BY <1>4, <1>5, <1>6, <1>7, <1>8, <1>9, <1>10, <1>11, <1>12, <1>13, <1>14, <1>15, <1>16, <1>17,
     <1>18, <1>19, <1>20 DEF Handler

\* Intake comes first, and a declined bid is parked at Go / No-Go or right behind it.
LEMMA ShapedStep ==
    ASSUME Typed, Kept, Calm, NEW p \in Requests, Acts(p)
    PROVE  Shaped'
<1>0. /\ req[p] \in Asked /\ AskedOK(req[p]) /\ req[p].lane \in Lanes
      /\ "intake" \in Lanes /\ "send_out" \in Lanes /\ Knows(p) /\ Moved(p)
      /\ KnowsIntake(req[p], pos["intake"], stage)
      /\ Shape(pos, stage)
      /\ req[p].at = "idle" <=> req[p].why = "none"
  BY AskOf, MovedLane DEF Kept, Knows, Shaped
<1>1. /\ pos \in [Lanes -> 0 .. 6] /\ \A l \in Lanes : Complete(l) \in 2 .. 6
      /\ Complete("intake") = 4 /\ GoNoGo = 2 /\ ToEstimator = 3
  BY Lengths, HeadsAre DEF Typed, RowsOK, Begun, Positions
<1>2. SUFFICES Shape(pos', stage')
  BY <1>0 DEF Kept, Shaped, Moved
<1>3. ASSUME pos' = pos, stage' = stage \/ stage' # "declined" PROVE Shape(pos', stage')
  BY <1>0, <1>3 DEF Shape
<1>4. ASSUME pos["intake"] = Complete("intake"), pos'["intake"] = Complete("intake"),
             stage' = stage
      PROVE  Shape(pos', stage')
  BY <1>0, <1>1, <1>4 DEF Shape
<1>5. ASSUME NEW n \in 2 .. 4, pos' = [pos EXCEPT !["intake"] = n], pos["intake"] # Complete("intake"),
             stage' = "declined" => n \in {GoNoGo, ToEstimator}
      PROVE  Shape(pos', stage')
  BY <1>0, <1>1, <1>5 DEF Shape
<1>6. CASE Request(p)
  BY <1>3, <1>6 DEF Request, StartAdvance, StartDecide, StartUndo, StartCommit,
     StartDoneSending, StartOutcome, StartEdit, Begin, rows
<1>7. CASE Crash(p)
  BY <1>3, <1>7 DEF Crash, rows
<1>8. CASE Handler(p)
  <2>1. CASE Move(p)
    <3>1. /\ Active(pos, req[p].lane) /\ req[p].to = pos[req[p].lane] + 1 /\ req[p].at = "move"
          /\ pos' = [pos EXCEPT ![req[p].lane] = req[p].to] /\ stage' = stage
      BY <1>0, <2>1 DEF Move, Knows
    <3>2. CASE req[p].lane = "intake"
      <4>1. req[p].why \in OnIntake \cup {"advance"} /\ req[p].why \notin {"no_go", "undo"}
        BY <1>0, <3>1, <3>2 DEF Asked, AskedOK, OnRoute, Whys, OnIntake, OnSendOut, Moves
      <4>2. /\ req[p].why = "enter" => pos["intake"] = 1 /\ stage # "declined"
            /\ req[p].why = "go" => pos["intake"] = 2
            /\ req[p].why = "advance" => pos["intake"] = 3 /\ stage # "declined"
        BY <1>0, <1>1, <3>1, <3>2 DEF KnowsIntake
      <4>3. pos["intake"] \in {1, 2, 3} /\ (stage = "declined" => pos["intake"] = 2)
        BY <4>1, <4>2 DEF OnIntake
      <4>4. pos["intake"] + 1 \in 2 .. 4
        BY <4>3
      <4>5. stage' = "declined" => pos["intake"] + 1 \in {GoNoGo, ToEstimator}
        BY <1>1, <3>1, <4>3
      <4>6. pos' = [pos EXCEPT !["intake"] = pos["intake"] + 1] /\ pos["intake"] # Complete("intake")
        BY <1>1, <3>1, <3>2, <4>3
      <4>. QED BY <1>5, <4>4, <4>5, <4>6
    <3>3. CASE req[p].lane # "intake"
      BY <1>0, <1>4, <3>1, <3>3 DEF Knows, Moved
    <3>. QED BY <3>2, <3>3
  <2>2. CASE Unlock(p)
    <3>1. pos["intake"] = Complete("intake") /\ stage' = stage
      BY <1>0, <2>2 DEF Unlock, At, Knows
    <3>. QED BY <1>0, <1>4, <3>1 DEF Moved
  <2>3. CASE Decline(p) \/ Reopen(p)
    <3>1. req[p].at \in {"decline", "reopen"} /\ req[p].why \in {"no_go", "undo"}
      BY <1>0, <2>3 DEF Decline, Reopen, Park, At, AskedOK, OnRoute, Asked, Whys, OnIntake, OnSendOut, Moves
    <3>2. pos["intake"] \in {GoNoGo, ToEstimator}
      BY <1>0, <3>1 DEF KnowsIntake
    <3>3. pos' = [pos EXCEPT !["intake"] = GoNoGo] /\ stage' = stage
      BY <2>3 DEF Decline, Reopen, Park
    <3>. QED BY <1>1, <1>5, <3>2, <3>3
  <2>4. CASE Return(p) \/ Bounce(p)
    <3>1. req[p].at \in {"return", "bounce"} /\ req[p].why \in OnSendOut /\ stage' = stage
      BY <1>0, <2>4 DEF Return, Bounce, AskedOK, OnRoute, Asked, Whys, OnIntake, OnSendOut, Moves
    <3>2. req[p].lane = "send_out"
      BY <1>0, <3>1 DEF AskedOK
    <3>. QED BY <1>0, <1>4, <3>1, <3>2 DEF Knows, Moved
  <2>5. CASE WriteHeadline(p)
    <3>1. stage' # "declined" /\ pos' = pos
      BY <1>0, <2>5 DEF WriteHeadline, At, AskedOK
    <3>. QED BY <1>3, <3>1
  <2>6. CASE Kill(p)
    <3>1. req[p].why = "no_go" /\ req[p].at = "kill" /\ pos' = pos
      BY <1>0, <2>6 DEF Kill, At, AskedOK, OnRoute, Asked, Whys, OnIntake, OnSendOut, Moves
    <3>2. pos["intake"] = 2
      BY <1>0, <1>1, <3>1 DEF KnowsIntake
    <3>. QED BY <1>0, <1>1, <3>1, <3>2 DEF Shape
  <2>7. CASE \/ Load(p) \/ Fanout(p) \/ ReadHeadline(p) \/ Decide(p) \/ Price(p) \/ Commit(p)
             \/ Resume(p) \/ Unmark(p) \/ Look(p) \/ Mark(p) \/ Reset(p) \/ Record(p)
    BY <1>3, <2>7 DEF Load, Fanout, ReadHeadline, Decide, Price, Commit, Resume, Unmark, Look,
       Mark, Reset, Record, rows
  <2>. QED BY <1>8, <2>1, <2>2, <2>3, <2>4, <2>5, <2>6, <2>7 DEF Handler
<1>. QED BY <1>6, <1>7, <1>8 DEF Acts

LEMMA KeptActs ==
    ASSUME Typed, Kept, Calm, NEW p \in Requests, Acts(p)
    PROVE  Kept'
<1>1. Exclusive' /\ Shaped'
  BY ExclusiveStep, ShapedStep
<1>2. ASSUME NEW q \in Requests PROVE Knows(q)'
  <2>1. CASE q # p
    BY <2>1, KnowsOthers
  <2>2. CASE q = p
    BY <2>2, KnowsRequest, KnowsHandler, EndKnown DEF Acts, Crash
  <2>. QED BY <2>1, <2>2
<1>. QED BY <1>1, <1>2 DEF Kept

\* The stored procedures run while no handler is under way.
LEMMA QuietKept ==
    ASSUME Typed, Kept, Quiet, UNCHANGED req, Shaped'
    PROVE  Kept'
<1>1. ASSUME NEW p \in Requests PROVE Knows(p)'
  <2>1. req'[p] = req[p] /\ req[p].at = "idle" /\ req[p].why = "none" /\ req[p].opens = {}
    BY AskOf DEF Quiet, Kept, Knows
  <2>. QED BY <2>1 DEF Knows, KnowsIntake, KnowsSendOut
<1>2. Exclusive'
  BY DEF Kept, Exclusive, Uses
<1>. QED BY <1>1, <1>2 DEF Kept

LEMMA KeptSubmit ==
    ASSUME Typed, Kept, Calm, NEW undoable \in BOOLEAN, MarkSubmitted(undoable)
    PROVE  Kept'
<1>1. pos' = AllSubmitted /\ stage' = "submitted" /\ AllSubmitted["intake"] = Complete("intake")
  BY Starting, Lengths DEF MarkSubmitted
<1>2. Shape(pos', stage')
  BY <1>1 DEF Shape
<1>3. external' # None => /\ external'.pos = pos /\ external'.stage = stage
                          /\ pos["intake"] > GoNoGo /\ stage # "declined"
  BY DEF MarkSubmitted, MaySubmit
<1>4. Shaped'
  BY <1>2, <1>3 DEF Kept, Shaped
<1>. QED BY <1>4, QuietKept DEF MarkSubmitted

LEMMA KeptUndo ==
    ASSUME Typed, Kept, Calm, UndoSubmitted
    PROVE  Kept'
<1>1. Shaped'
  BY DEF UndoSubmitted, Kept, Shaped
<1>. QED BY <1>1, QuietKept DEF UndoSubmitted

LEMMA KeptInit == Init => Kept
<1>. SUFFICES ASSUME Init PROVE Kept
  OBVIOUS
<1>1. \A p \in Requests : req[p] = Idle
  BY DEF Init
<1>2. Exclusive
  BY <1>1 DEF Exclusive, Uses, Idle
<1>3. Shaped
  BY Starting DEF Init, Shaped, Shape, Locked
<1>4. \A p \in Requests : Knows(p)
  BY <1>1 DEF Knows, KnowsIntake, KnowsSendOut, Idle
<1>. QED BY <1>2, <1>3, <1>4 DEF Kept

LEMMA KeptStep == ASSUME Typed, Kept, Calm, [Next]_vars PROVE Kept'
<1>1. CASE UNCHANGED vars
  <2>1. /\ UNCHANGED <<pos, stage, external, req>>
    BY <1>1 DEF vars, rows
  <2>2. Exclusive' /\ Shaped'
    BY <2>1 DEF Kept, Exclusive, Shaped, Uses
  <2>3. ASSUME NEW p \in Requests PROVE Knows(p)'
    <3>1. Knows(p)
      BY DEF Kept
    <3>2. \A l : Ready(p, l) => Ready(p, l)'
      BY <2>1 DEF Ready, Coming
    <3>. QED BY <2>1, <3>1, <3>2 DEF Knows
  <2>. QED BY <2>2, <2>3 DEF Kept
<1>. QED BY <1>1, KeptActs, KeptSubmit, KeptUndo DEF Next, Acts

-----------------------------------------------------------------------------
(* As long as no handler died half way: the lanes that are to be opened.    *)

LEMMA InHand ==
    ASSUME Typed, Kept, NEW p \in Requests
    PROVE  /\ req[p] \in Asked /\ AskedOK(req[p]) /\ req[p].lane \in Lanes
           /\ req \in [Requests -> Asked]
           /\ "intake" \in Lanes /\ "send_out" \in Lanes /\ Knows(p)
           /\ req[p].at = "idle" <=> req[p].why = "none"
           /\ req[p].why \in Whys
           /\ OnRoute(req[p].why, req[p].at)
           /\ req[p].why \in OnIntake => req[p].lane = "intake"
           /\ req[p].why \in OnSendOut => req[p].lane = "send_out"
           /\ KnowsIntake(req[p], pos["intake"], stage)
           /\ KnowsSendOut(req[p], pos["send_out"])
           /\ pos \in [Lanes -> 0 .. 6] /\ \A l \in Lanes : Complete(l) \in 2 .. 6
BY AskOf, Lengths DEF Kept, Knows, Typed, RowsOK, Begun, Positions, Asked, AskedOK

LEMMA SendOutWaits ==
    ASSUME NEW x, NEW y, \A l \in Lanes \ {"send_out"} : y[l] = Complete(l) => x[l] = Complete(l)
    PROVE  ~HardMet(x, "send_out") => ~HardMet(y, "send_out")
<1>1. Prereqs["send_out"] \subseteq Lanes \ {"send_out"}
  BY Lengths DEF Prereqs
<1>. QED BY <1>1 DEF HardMet

LEMMA OpenStep ==
    ASSUME Typed, Kept, Calm, OpenOK, NEW p \in Requests, Request(p) \/ Handler(p)
    PROVE  OpenOK'
<1>0. Acts(p) /\ Moved(p)
  BY MovedLane DEF Acts
<1>1. \A q \in Requests \ {p} : req'[q] = req[q]
  BY <1>0, Others
<1>2. SUFFICES ASSUME pos'["intake"] = Complete("intake"), NEW l \in Lanes, pos'[l] = Locked
               PROVE  Opens(l)' \/ Waits(pos', l)
  BY <1>0 DEF OpenOK, Moved
<1>. USE <1>2
<1>3. pos[l] = Locked
  BY <1>0 DEF Moved
<1>4. ASSUME pos["intake"] = Complete("intake"),
             \A k \in Lanes \ {"send_out"} : pos'[k] = Complete(k) => pos[k] = Complete(k),
             req[p].at = "fanout" \/ (req[p].at = "unlock" /\ l \in req[p].opens) => Opens(l)'
      PROVE  Opens(l)' \/ Waits(pos', l)
  <2>1. Opens(l) \/ Waits(pos, l)
    BY <1>3, <1>4 DEF OpenOK
  <2>2. Waits(pos, l) => Waits(pos', l)
    <3>1. ~HardMet(pos, "send_out") => ~HardMet(pos', "send_out")
      BY <1>4, SendOutWaits
    <3>. QED BY <3>1 DEF Waits
  <2>3. ASSUME NEW q \in Requests,
               req[q].at = "fanout" \/ (req[q].at = "unlock" /\ l \in req[q].opens)
        PROVE  Opens(l)'
    <3>1. CASE q = p
      BY <1>4, <2>3, <3>1
    <3>2. CASE q # p
      <4>1. req'[q].at = "fanout" \/ (req'[q].at = "unlock" /\ l \in req'[q].opens)
        BY <1>1, <2>3, <3>2
      <4>. QED BY <4>1 DEF Opens
    <3>. QED BY <3>1, <3>2
  <2>. QED BY <2>1, <2>2, <2>3 DEF Opens
<1>5. ASSUME pos' = pos, req[p].at \notin {"fanout", "unlock"}
      PROVE  Opens(l)' \/ Waits(pos', l)
  BY <1>4, <1>5
<1>6. CASE Request(p)
  BY <1>5, <1>6 DEF Request, StartAdvance, StartDecide, StartUndo, StartCommit,
     StartDoneSending, StartOutcome, StartEdit, Begin, rows
<1>7. CASE Move(p)
  <2>1. req'[p].at = "fanout"
    BY <1>7, InHand DEF Move, Goto, Asked
  <2>. QED BY <2>1 DEF Opens
<1>8. CASE Fanout(p)
  <2>1. req'[p].opens = Unlocked(pos) /\ (Unlocked(pos) # {} => req'[p].at = "unlock") /\ pos' = pos
    BY <1>8, InHand DEF Fanout, Asked, rows
  <2>2. l \in Unlocked(pos) => Opens(l)'
    BY <2>1 DEF Opens
  <2>3. l \in Unlocked(pos) \/ Waits(pos, l)
    BY <1>3, <2>1, UnlockedIs, Lengths DEF Typed, RowsOK, Middle, Waits, Begun, Locked
  <2>. QED BY <2>1, <2>2, <2>3
<1>9. CASE Unlock(p)
  <2>0. /\ req[p].opens # {} /\ req[p].opens \subseteq Lanes /\ req[p].at = "unlock"
        /\ pos["intake"] = Complete("intake") /\ \A k \in req[p].opens : Ready(p, k)
    BY <1>9, InHand DEF Unlock, At, Knows, Asked
  <2>1. PICK k : k = FirstOf(req[p].opens)
    OBVIOUS
  <2>2. k \in req[p].opens /\ k \in Lanes /\ pos' = [pos EXCEPT ![k] = 1]
    BY <1>9, <2>0, <2>1, FirstIs DEF Unlock
  <2>3. l # k /\ \A m \in Lanes \ {"send_out"} : pos'[m] = Complete(m) => pos[m] = Complete(m)
    BY <2>2, InHand DEF Locked
  <2>4. req' = [req EXCEPT ![p].at = IF req[p].opens = {k} THEN "headline" ELSE "unlock",
                           ![p].opens = @ \ {k}]
    BY <1>9, <2>1 DEF Unlock
  <2>5. /\ req'[p].opens = req[p].opens \ {k}
        /\ req[p].opens # {k} => req'[p].at = "unlock"
    BY <2>4, InHand DEF Asked
  <2>6. l \in req[p].opens => Opens(l)'
    BY <2>3, <2>5 DEF Opens
  <2>. QED BY <1>4, <2>0, <2>3, <2>6
<1>10. CASE Decline(p) \/ Reopen(p)
  <2>1. pos'["intake"] = GoNoGo
    BY <1>10, InHand DEF Decline, Reopen, Park
  <2>. QED BY <2>1, HeadsAre, Lengths
<1>11. CASE Return(p) \/ Bounce(p)
  <2>1. req[p].at \in {"return", "bounce"} /\ \A k \in Lanes \ {"send_out"} : pos'[k] = pos[k]
    BY <1>11, InHand DEF Return, Bounce
  <2>. QED BY <1>2, <1>4, <2>1, InHand, HeadsAre
<1>12. CASE ReadHeadline(p) \/ WriteHeadline(p) \/ Kill(p) \/ Decide(p) \/ Commit(p)
  BY <1>5, <1>12 DEF ReadHeadline, WriteHeadline, Kill, Decide, Commit, At, rows
<1>13. CASE \/ Load(p) \/ Price(p) \/ Resume(p) \/ Unmark(p) \/ Look(p) \/ Mark(p) \/ Reset(p)
            \/ Record(p)
  BY <1>5, <1>13 DEF Load, Price, Resume, Unmark, Look, Mark, Reset, Record, At, rows
<1>. QED BY <1>6, <1>7, <1>8, <1>9, <1>10, <1>11, <1>12, <1>13 DEF Handler

LEMMA OpenSubmit ==
    ASSUME Typed, Kept, Calm, OpenOK, NEW undoable \in BOOLEAN, MarkSubmitted(undoable)
    PROVE  OpenOK'
<1>1. \A l \in Lanes : pos'[l] # Locked
  BY Starting, Lengths, HeadsAre DEF MarkSubmitted
<1>2. \A p \in Requests : req[p].at = "idle"
  BY DEF MarkSubmitted, Quiet
<1>3. external' # None => external'.pos = pos
  BY DEF MarkSubmitted
<1>. QED BY <1>1, <1>2, <1>3 DEF OpenOK, Opens

LEMMA OpenUndo ==
    ASSUME Typed, Kept, Calm, OpenOK, UndoSubmitted
    PROVE  OpenOK'
BY DEF OpenOK, UndoSubmitted

-----------------------------------------------------------------------------
(* The mark of a bid that an edit has pulled back.                          *)

\* The steps of each handler on Send Out, and who may have it in hand.
LEMMA SendOutSteps ==
    ASSUME Typed, Kept, NEW p \in Requests
    PROVE  /\ req[p].at \in {"look", "bounce", "mark", "reset"} => req[p].why = "edit"
           /\ req[p].at \in {"price", "commit", "leave", "return", "unmark"} => req[p].why = "commit"
           /\ req[p].at = "record" => req[p].why = "outcome"
           /\ req[p].at \notin {"idle", "look"} => req[p].lane \in Uses(p)
           /\ req[p].at \notin {"idle", "look"} /\ req[p].why \in OnSendOut => "send_out" \in Uses(p)
           /\ req[p].at = "mark" => pos["send_out"] = Verify
<1>1. /\ req[p].at \in {"look", "bounce", "mark", "reset"} => req[p].why = "edit"
      /\ req[p].at \in {"price", "commit", "leave", "return", "unmark"} => req[p].why = "commit"
      /\ req[p].at = "record" => req[p].why = "outcome"
  BY InHand DEF OnRoute, Whys, OnIntake, OnSendOut, Moves
<1>2. req[p].at \notin {"idle", "look"} => req[p].lane \in Uses(p)
  BY DEF Uses
<1>3. req[p].at = "mark" => pos["send_out"] = Verify
  BY <1>1, InHand DEF KnowsSendOut
<1>. QED BY <1>1, <1>2, <1>3, InHand

LEMMA Solo ==
    ASSUME Kept, NEW p \in Requests, NEW q \in Requests \ {p}, NEW l, l \in Uses(p), l \in Uses(q)
    PROVE  req[p].why = "edit" /\ req[q].why = "edit"
BY DEF Kept, Exclusive

LEMMA CarriesOthers ==
    ASSUME Typed, Kept, Calm, MarkOK, NEW p \in Requests, Request(p) \/ Handler(p),
           NEW q \in Requests \ {p}
    PROVE  Carries(req[q])'
<1>0. req'[q] = req[q] /\ Carries(req[q])
  BY Others DEF Acts, MarkOK
<1>1. left' = left \/ ("send_out" \in Uses(p) /\ (req[p].why = "edit" => pos["send_out"] \in PastVerify))
  <2>1. CASE Move(p)
    <3>1. req[p].at = "move" /\ (left' = left \/ req[p].lane = "send_out")
      BY <2>1 DEF Move
    <3>2. req[p].why # "edit"
      BY <3>1, InHand DEF OnRoute
    <3>. QED BY <3>1, <3>2, SendOutSteps
  <2>2. CASE Return(p)
    <3>1. req[p].at = "return"
      BY <2>2 DEF Return
    <3>. QED BY <3>1, SendOutSteps DEF OnSendOut
  <2>3. CASE Bounce(p)
    <3>1. req[p].at = "bounce" /\ (left' = left \/ pos["send_out"] = req[p].head)
      BY <2>3 DEF Bounce
    <3>. QED BY <3>1, SendOutSteps, InHand DEF OnSendOut, AskedOK
  <2>4. CASE Request(p)
    BY <2>4 DEF Request, StartAdvance, StartDecide, StartUndo, StartCommit,
       StartDoneSending, StartOutcome, StartEdit, Begin
  <2>5. CASE Handler(p) /\ ~Move(p) /\ ~Return(p) /\ ~Bounce(p)
    BY <2>5 DEF Handler, Load, Fanout, Unlock, ReadHeadline, WriteHeadline, Decline, Kill, Reopen,
       Park, Decide, Price, Commit, Resume, Unmark, Look, Mark, Reset, Record, At
  <2>. QED BY <2>1, <2>2, <2>3, <2>4, <2>5
<1>2. back' = back \/ "send_out" \in Uses(p)
  <2>1. CASE Mark(p) \/ Unmark(p)
    <3>1. req[p].at \in {"mark", "unmark"}
      BY <2>1 DEF Mark, Unmark, At
    <3>. QED BY <3>1, SendOutSteps DEF OnSendOut
  <2>2. CASE Request(p)
    BY <2>2 DEF Request, StartAdvance, StartDecide, StartUndo, StartCommit,
       StartDoneSending, StartOutcome, StartEdit, Begin, rows
  <2>3. CASE Handler(p) /\ ~Mark(p) /\ ~Unmark(p)
    BY <2>3 DEF Handler, Load, Move, Fanout, Unlock, ReadHeadline, WriteHeadline, Decline, Kill,
       Reopen, Park, Decide, Price, Commit, Resume, Return, Look, Bounce, Reset, Record, rows
  <2>. QED BY <2>1, <2>2, <2>3
<1>3. req[q].at \in {"mark", "unmark"} => left' = left
  <2>1. SUFFICES ASSUME req[q].at \in {"mark", "unmark"}, left' # left PROVE FALSE
    OBVIOUS
  <2>2. "send_out" \in Uses(q)
    BY <2>1, SendOutSteps DEF OnSendOut
  <2>3. req[p].why = "edit" /\ req[q].why = "edit"
    BY <1>1, <2>1, <2>2, Solo
  <2>4. req[q].at = "mark"
    BY <2>1, <2>3, SendOutSteps
  <2>. QED BY <1>1, <2>1, <2>3, <2>4, SendOutSteps, HeadsAre
<1>4. req[q].why = "commit" /\ req[q].at \in {"load", "move"} => back' = back
  <2>1. SUFFICES ASSUME req[q].why = "commit", req[q].at \in {"load", "move"}, back' # back
                 PROVE FALSE
    OBVIOUS
  <2>2. "send_out" \in Uses(q)
    BY <2>1, SendOutSteps DEF OnSendOut
  <2>. QED BY <1>2, <2>1, <2>2, Solo
<1>. QED BY <1>0, <1>3, <1>4 DEF Carries

LEMMA MarkStep ==
    ASSUME Typed, Kept, Calm, MarkOK, NEW p \in Requests, Request(p) \/ Handler(p)
    PROVE  MarkOK'
<1>0. Acts(p) /\ Moved(p) /\ \A q \in Requests \ {p} : req'[q] = req[q]
  BY MovedLane, Others DEF Acts
<1>1. SUFFICES (Marked \/ Marking)' /\ Carries(req[p])'
  BY <1>0, CarriesOthers DEF MarkOK, Moved
<1>2. req'[p] = Idle => Carries(req[p])'
  BY DEF Carries, Idle
<1>3. Carries(req[p]) /\ (Marked \/ Marking)
  BY DEF MarkOK
<1>4. ASSUME back' = back, left' = left, req[p].at \notin {"mark", "unmark"},
             pos'["send_out"] = Verify <=> pos["send_out"] = Verify
      PROVE  (Marked \/ Marking)'
  <2>1. Marked => Marked'
    BY <1>4 DEF Marked
  <2>2. Marking => Marking'
    BY <1>0, <1>4 DEF Marking
  <2>. QED BY <1>3, <2>1, <2>2
<1>5. ASSUME back' = back, left' = left, req'[p].at \notin {"bounce", "mark", "unmark"},
             req'[p].why = "commit" /\ req'[p].at \in {"load", "move"} => back = None
      PROVE  Carries(req[p])'
  BY <1>5 DEF Carries
<1>6. CASE Request(p)
  <2>1. /\ back' = back /\ left' = left /\ pos' = pos /\ req[p].at = "idle"
        /\ req'[p].at \notin {"bounce", "mark", "unmark"}
        /\ req'[p].why = "commit" => req'[p].at = "price"
    <3>1. ASSUME NEW at \in Firsts, NEW why, NEW lane, why = "commit" => at = "price",
                 Begin(p, at, why, lane)
          PROVE  /\ back' = back /\ left' = left /\ pos' = pos /\ req[p].at = "idle"
                 /\ req'[p].at = at /\ req'[p].why = why
      BY <3>1, InHand DEF Begin, rows, Idle
    <3>2. CASE StartEdit(p)
      BY <3>2, InHand DEF StartEdit, Idle
    <3>. QED BY <1>6, <3>1, <3>2 DEF Request, StartAdvance, StartDecide, StartUndo, StartCommit,
       StartDoneSending, StartOutcome, Firsts
  <2>. QED BY <1>4, <1>5, <2>1
<1>7. CASE Load(p)
  <2>1. /\ back' = back /\ left' = left /\ pos' = pos /\ req[p].at = "load"
        /\ req'[p] = Idle \/ (req'[p].at = "move" /\ req'[p].why = req[p].why)
    BY <1>7, InHand DEF Load, At, rows, Done, Asked
  <2>2. req'[p].why = "commit" => back = None
    BY <1>3, <2>1 DEF Carries, Idle
  <2>. QED BY <1>2, <1>4, <1>5, <2>1, <2>2
<1>8. CASE Move(p)
  <2>1. /\ back' = back /\ req[p].at = "move" /\ req'[p].at = "fanout"
        /\ pos' = [pos EXCEPT ![req[p].lane] = req[p].to]
        /\ left' = IF req[p].lane = "send_out" THEN None ELSE left
    BY <1>8, InHand DEF Move, Goto, Asked
  <2>2. CASE req[p].lane # "send_out"
    <3>1. pos'["send_out"] = pos["send_out"]
      BY <2>1, <2>2, InHand
    <3>. QED BY <1>4, <1>5, <2>1, <2>2, <3>1
  <2>3. CASE req[p].lane = "send_out"
    <3>1. back = None
      <4>1. req[p].why = "commit" => back = None
        BY <1>3, <2>1 DEF Carries
      <4>2. ASSUME req[p].why # "commit" PROVE back = None
        <5>1. pos["send_out"] # Verify
          <6>1. req[p].why \in {"advance", "sent", "outcome"}
            BY <2>1, <2>3, <4>2, InHand DEF OnRoute, Whys, OnIntake, OnSendOut
          <6>. QED BY <2>1, <2>3, <6>1, InHand, HeadsAre DEF KnowsSendOut
        <5>2. ~Marking
          <6>1. ASSUME NEW q \in Requests, req[q].at \in {"mark", "unmark"} PROVE FALSE
            <7>1. q # p /\ "send_out" \in Uses(q) /\ "send_out" \in Uses(p)
              BY <2>1, <2>3, <6>1, SendOutSteps DEF OnSendOut
            <7>2. req[p].why = "edit"
              BY <7>1, Solo
            <7>. QED BY <2>1, <7>2, InHand DEF OnRoute
          <6>. QED BY <6>1 DEF Marking
        <5>. QED BY <1>3, <5>1, <5>2 DEF Marked
      <4>. QED BY <4>1, <4>2
    <3>2. Marked'
      BY <2>1, <2>3, <3>1 DEF Marked
    <3>. QED BY <2>1, <3>2 DEF Carries
  <2>. QED BY <2>2, <2>3
<1>9. CASE Unlock(p)
  <2>0. /\ req[p].opens # {} /\ req[p].opens \subseteq Lanes /\ req[p].at = "unlock"
        /\ \A k \in req[p].opens : Ready(p, k)
    BY <1>9, InHand DEF Unlock, At, Knows, Asked
  <2>1. PICK k : k = FirstOf(req[p].opens)
    OBVIOUS
  <2>2. /\ k \in req[p].opens /\ k \in Lanes /\ pos' = [pos EXCEPT ![k] = 1] /\ pos[k] = 0
        /\ back' = back /\ left' = left
    BY <1>9, <2>0, <2>1, FirstIs DEF Unlock, At, Ready, Locked
  <2>3. pos'["send_out"] = Verify <=> pos["send_out"] = Verify
    BY <2>2, InHand, HeadsAre
  <2>4. req'[p].at \in {"headline", "unlock"}
    BY <1>9, InHand DEF Unlock, Asked
  <2>. QED BY <1>4, <1>5, <2>0, <2>2, <2>3, <2>4
<1>10. CASE Fanout(p) \/ ReadHeadline(p) \/ Price(p)
  <2>1. /\ back' = back /\ left' = left /\ pos' = pos
        /\ req[p].at \in {"fanout", "headline", "price"}
        /\ req'[p].at \in {"headline", "unlock", "point", "commit"}
    BY <1>10, InHand DEF Fanout, ReadHeadline, Price, At, rows, Asked
  <2>. QED BY <1>4, <1>5, <2>1
<1>11. CASE WriteHeadline(p)
  <2>1. back' = back /\ left' = left /\ pos' = pos /\ req[p].at = "point"
    BY <1>11 DEF WriteHeadline, At
  <2>2. ASSUME NEW next, NEW then, Follows(req[p].why, next, then),
               req' = [req EXCEPT ![p] = [Idle EXCEPT
                                            !.at = next, !.lane = req[p].lane, !.why = then]]
        PROVE  (Marked \/ Marking)' /\ Carries(req[p])'
    <3>1. req'[p].at = next /\ req'[p].why = then
      BY <2>2, InHand DEF Idle
    <3>2. next \in {"load", "decline", "decide"} /\ then # "commit"
      BY <2>2 DEF Follows
    <3>. QED BY <1>4, <1>5, <2>1, <3>1, <3>2
  <2>3. Done(p) => req'[p] = Idle
    BY InHand DEF Done
  <2>. QED BY <1>2, <1>4, <1>11, <2>1, <2>2, <2>3, WroteIs
<1>12. CASE Decline(p) \/ Reopen(p) \/ Kill(p) \/ Reset(p)
  <2>1. /\ back' = back /\ left' = left /\ pos'["send_out"] = pos["send_out"]
        /\ req[p].at \in {"decline", "reopen", "kill", "reset"}
        /\ req'[p].at \in {"kill", "headline", "decide"}
    BY <1>12, InHand DEF Decline, Reopen, Park, Kill, Reset, At, Goto, Asked
  <2>. QED BY <1>4, <1>5, <2>1
<1>13. CASE Decide(p)
  <2>1. /\ back' = back /\ left' = left /\ pos' = pos /\ req[p].at = "decide" /\ req'[p] = Idle
    BY <1>13, InHand DEF Decide, At, Done
  <2>. QED BY <1>2, <1>4, <2>1
<1>14. CASE Commit(p)
  <2>1. /\ back' = back /\ left' = left /\ pos' = pos /\ req[p].at = "commit"
        /\ req'[p] = Idle \/ req'[p].at = "leave"
    BY <1>14, InHand DEF Commit, At, Done, Asked
  <2>. QED BY <1>2, <1>4, <1>5, <2>1
<1>15. CASE Resume(p)
  <2>1. /\ back' = back /\ left' = left /\ pos' = pos /\ req[p].at = "leave"
        /\ req'[p].at = "return" \/ (req'[p].at = "load" /\ back = None)
    BY <1>15, InHand DEF Resume, At, rows, Asked
  <2>. QED BY <1>4, <1>5, <2>1
<1>16. CASE Return(p)
  <2>1. req'[p].at = "unmark" /\ left' = None
    BY <1>16, InHand DEF Return, Goto, Asked
  <2>. QED BY <2>1 DEF Marking, Carries
<1>17. CASE Unmark(p)
  <2>1. req[p].at = "unmark" /\ back' = None /\ left' = left /\ req'[p].at = "headline"
    BY <1>17, InHand DEF Unmark, At, Goto, Asked
  <2>2. left' = None
    BY <1>3, <2>1 DEF Carries
  <2>. QED BY <2>1, <2>2 DEF Marked, Carries
<1>18. CASE Look(p)
  <2>1. back' = back /\ left' = left /\ pos' = pos /\ req[p].at = "look"
    BY <1>18 DEF Look, At, rows
  <2>2. CASE MustBounce
    <3>1. PICK to : to = IF back = None THEN pos["send_out"] ELSE None
      OBVIOUS
    <3>2. req' = [req EXCEPT ![p] = [req[p] EXCEPT !.at = "bounce", !.head = pos["send_out"],
                                                   !.to = to]]
      BY <1>18, <2>2, <3>1, InHand DEF Look
    <3>3. req'[p].at = "bounce" /\ req'[p].head = pos["send_out"] /\ req'[p].to = to
      BY <3>2, InHand DEF Asked
    <3>4. pos["send_out"] # Verify
      BY <2>2, HeadsAre DEF MustBounce
    <3>5. ~Marking
      <4>1. ASSUME NEW q \in Requests, req[q].at \in {"mark", "unmark"} PROVE FALSE
        <5>1. "send_out" \in Uses(q) /\ (req[q].at = "unmark" => req[q].why = "commit")
          BY <4>1, SendOutSteps DEF OnSendOut
        <5>2. req[q].why = "edit"
          BY <1>18, <2>2, <5>1 DEF Look
        <5>. QED BY <3>4, <4>1, <5>1, <5>2, SendOutSteps
      <4>. QED BY <4>1 DEF Marking
    <3>6. back = None
      BY <1>3, <3>4, <3>5 DEF Marked
    <3>7. to = pos["send_out"]
      BY <3>1, <3>6
    <3>8. (Marked \/ Marking)'
      BY <1>4, <2>1
    <3>. QED BY <3>3, <3>7, <3>8 DEF Carries
  <2>3. CASE ~MustBounce
    <3>1. req'[p] = Idle
      BY <1>18, <2>3, InHand DEF Look, Done
    <3>. QED BY <1>2, <1>4, <2>1, <3>1
  <2>. QED BY <2>2, <2>3
<1>19. CASE Bounce(p)
  <2>0. req[p].at = "bounce" /\ back' = back
    BY <1>19 DEF Bounce
  <2>1. CASE pos["send_out"] = req[p].head
    <3>1. req' = [req EXCEPT ![p] = [req[p] EXCEPT !.at = "mark"]] /\ left' = req[p].head
      BY <1>19, <2>1, InHand DEF Bounce, Goto
    <3>2. req'[p].at = "mark" /\ req'[p].to = req[p].to
      BY <3>1, InHand DEF Asked
    <3>3. req[p].to = req[p].head
      BY <1>3, <2>0 DEF Carries
    <3>4. req[p].head \in PastVerify
      BY <2>0, AskOf DEF AskedOK
    <3>. QED BY <3>1, <3>2, <3>3, <3>4 DEF Marking, Carries
  <2>2. CASE pos["send_out"] # req[p].head
    <3>1. left' = left /\ pos' = pos /\ req'[p] = Idle
      BY <1>19, <2>2, InHand DEF Bounce, Done
    <3>. QED BY <1>2, <1>4, <2>0, <3>1
  <2>. QED BY <2>1, <2>2
<1>20. CASE Mark(p)
  <2>1. /\ req[p].at = "mark" /\ left' = left /\ pos' = pos /\ req'[p].at = "reset"
        /\ back' = IF req[p].to = None THEN back ELSE req[p].to
    BY <1>20, InHand DEF Mark, At, Goto, Asked
  <2>2. left = req[p].to /\ req[p].to \in PastVerify /\ pos["send_out"] = Verify
    BY <1>3, <2>1, SendOutSteps DEF Carries
  <2>. QED BY <2>1, <2>2, HeadsAre DEF Marked, Carries
<1>21. CASE Record(p)
  <2>1. /\ back' = back /\ left' = left /\ pos' = pos /\ req[p].at = "record"
        /\ req'[p] = Idle \/ (req'[p].at = "load" /\ req'[p].why = req[p].why)
    BY <1>21, InHand DEF Record, At, Done, Goto, Asked
  <2>2. req[p].why # "commit"
    BY <2>1, SendOutSteps
  <2>. QED BY <1>2, <1>4, <1>5, <2>1, <2>2
<1>. QED
  BY <1>6, <1>7, <1>8, <1>9, <1>10, <1>11, <1>12, <1>13, <1>14, <1>15, <1>16, <1>17, <1>18, <1>19,
     <1>20, <1>21 DEF Handler

LEMMA MarkSubmit ==
    ASSUME Typed, Kept, Calm, MarkOK, NEW undoable \in BOOLEAN, MarkSubmitted(undoable)
    PROVE  MarkOK'
<1>1. /\ pos'["send_out"] = Submitted /\ back' = None /\ left' = None /\ UNCHANGED req
      /\ external' # None => external'.pos = pos /\ external'.back = back
  BY Starting, Lengths DEF MarkSubmitted
<1>2. \A p \in Requests : req[p].at = "idle" /\ req[p].why = "none"
  BY InHand DEF MarkSubmitted, Quiet
<1>3. pos["send_out"] # Verify => back = None
  BY <1>2 DEF MarkOK, Marked, Marking
<1>4. \A p \in Requests : Carries(req[p])'
  BY <1>1, <1>2 DEF Carries
<1>5. Marked'
  BY <1>1, HeadsAre DEF Marked
<1>. QED BY <1>1, <1>3, <1>4, <1>5 DEF MarkOK

LEMMA MarkUndo ==
    ASSUME Typed, Kept, Calm, MarkOK, UndoSubmitted
    PROVE  MarkOK'
<1>1. /\ pos' = external.pos /\ back' = external.back /\ left' = external.back /\ UNCHANGED req
      /\ external # None /\ external' = None
  BY DEF UndoSubmitted
<1>2. \A p \in Requests : req[p].at = "idle" /\ req[p].why = "none"
  BY InHand DEF UndoSubmitted, Quiet
<1>3. \A p \in Requests : Carries(req[p])'
  BY <1>1, <1>2 DEF Carries
<1>4. Marked'
  BY <1>1 DEF Marked, MarkOK
<1>. QED BY <1>1, <1>3, <1>4 DEF MarkOK

-----------------------------------------------------------------------------
(* The price that was committed.                                            *)

\* A request begins, or an edit is saved.
LEMMA BeginsOr ==
    ASSUME Typed, Kept, NEW p \in Requests, Request(p)
    PROVE  \/ /\ UNCHANGED <<rows, left>> /\ req[p].at = "idle" /\ req'[p].at \in Firsts
              /\ req'[p].why = "commit" => req'[p].at = "price"
           \/ /\ UNCHANGED <<pos, stage, back, snapshot, decision, outcome, external, left>>
              /\ req[p].at = "idle" /\ req'[p].at = "look" /\ req'[p].why = "edit"
<1>1. ASSUME NEW at \in Firsts, NEW why, NEW lane, why = "commit" => at = "price",
             Begin(p, at, why, lane)
      PROVE  /\ UNCHANGED <<rows, left>> /\ req[p].at = "idle"
             /\ req'[p].at = at /\ req'[p].why = why
  BY <1>1, InHand DEF Begin, rows, Idle
<1>2. CASE StartEdit(p)
  BY <1>2, InHand DEF StartEdit, Idle
<1>. QED BY <1>1, <1>2 DEF Request, StartAdvance, StartDecide, StartUndo, StartCommit,
   StartDoneSending, StartOutcome, Firsts

\* Only a commit that reads the figures again makes up for an edit it missed.
LEMMA MissedStays ==
    ASSUME NEW p \in Requests, Request(p) \/ Handler(p), req[p].at # "price"
    PROVE  missed => missed'
<1>1. CASE Request(p)
  BY <1>1 DEF Request, StartAdvance, StartDecide, StartUndo, StartCommit, StartDoneSending,
     StartOutcome, StartEdit, Begin
<1>2. CASE Handler(p)
  BY <1>2 DEF Handler, Load, Move, Fanout, Unlock, ReadHeadline, WriteHeadline, Decline, Kill,
     Reopen, Park, Decide, Price, Commit, Resume, Return, Unmark, Look, Bounce, Mark, Reset,
     Record, At
<1>. QED BY <1>1, <1>2

LEMMA PricedOthers ==
    ASSUME Typed, Kept, Calm, PriceOK, NEW p \in Requests, Request(p) \/ Handler(p),
           NEW q \in Requests \ {p}
    PROVE  Priced(req[q])'
<1>0. req'[q] = req[q] /\ Priced(req[q])
  BY Others DEF Acts, PriceOK
<1>1. figures' = figures \/ Looking'
  <2>1. CASE Request(p)
    BY <2>1, BeginsOr DEF Looking, rows
  <2>2. CASE Handler(p)
    BY <2>2 DEF Handler, Load, Move, Fanout, Unlock, ReadHeadline, WriteHeadline, Decline, Kill,
       Reopen, Park, Decide, Price, Commit, Resume, Return, Unmark, Look, Bounce, Mark, Reset,
       Record, rows
  <2>. QED BY <2>1, <2>2
<1>2. snapshot' = snapshot \/ "send_out" \in Uses(p)
  <2>1. CASE Commit(p) \/ Reset(p)
    <3>1. req[p].at \in {"commit", "reset"}
      BY <2>1 DEF Commit, Reset, At
    <3>. QED BY <3>1, SendOutSteps DEF OnSendOut
  <2>2. CASE Request(p)
    BY <2>2, BeginsOr DEF rows
  <2>3. CASE Handler(p) /\ ~Commit(p) /\ ~Reset(p)
    BY <2>3 DEF Handler, Load, Move, Fanout, Unlock, ReadHeadline, WriteHeadline, Decline, Kill,
       Reopen, Park, Decide, Price, Resume, Return, Unmark, Look, Bounce, Mark, Record, rows
  <2>. QED BY <2>1, <2>2, <2>3
<1>3. SUFFICES ASSUME req[q].why = "commit",
                      req[q].at \in {"commit", "leave", "load", "move", "return"}
               PROVE  Priced(req[q])'
  BY <1>0, SendOutSteps DEF Priced
<1>4. "send_out" \in Uses(q)
  BY <1>3, SendOutSteps DEF OnSendOut
<1>5. snapshot' = snapshot
  BY <1>2, <1>3, <1>4, Solo
<1>6. missed => missed'
  BY <1>3, <1>4, MissedStays, SendOutSteps, Solo DEF OnSendOut
<1>7. CASE Look(p)
  <2>1. UNCHANGED <<figures, snapshot>> /\ ~MustBounce
    BY <1>3, <1>4, <1>7 DEF Look, rows
  <2>2. Overtaken(req[q]) => missed'
    BY <1>7, <2>1 DEF Look
  <2>. QED BY <1>0, <1>3, <2>1, <2>2 DEF Priced, Overtaken
<1>8. CASE ~Look(p)
  <2>1. req[p].at # "look"
    <3>1. CASE Request(p)
      BY <3>1, BeginsOr
    <3>2. CASE Handler(p)
      BY <1>8, <3>2 DEF Handler, Load, Move, Fanout, Unlock, ReadHeadline, WriteHeadline, Decline,
         Kill, Reopen, Park, Decide, Price, Commit, Resume, Return, Unmark, Bounce, Mark, Reset,
         Record, At
    <3>. QED BY <3>1, <3>2
  <2>2. Looking => Looking'
    BY <2>1, Others DEF Looking, Acts
  <2>. QED BY <1>0, <1>1, <1>5, <1>6, <2>2 DEF Priced
<1>. QED BY <1>7, <1>8

LEMMA PriceStep ==
    ASSUME Typed, Kept, Calm, PriceOK, NEW p \in Requests, Request(p) \/ Handler(p)
    PROVE  PriceOK'
<1> DEFINE Fresh == pos["send_out"] \in PastVerify
                      => snapshot = figures \/ Edited \/ missed \/ Stamping
<1>0. Acts(p) /\ Moved(p) /\ \A q \in Requests \ {p} : req'[q] = req[q]
  BY MovedLane, Others DEF Acts
<1>1. SUFFICES Fresh' /\ Priced(req[p])'
  BY <1>0, PricedOthers DEF PriceOK, Moved
<1>2. Fresh /\ Priced(req[p])
  BY DEF PriceOK
<1>3. ASSUME snapshot' = snapshot, figures' = figures, pos'["send_out"] = pos["send_out"],
             req[p].at \notin {"look", "price", "commit"},
             req[p].at = "bounce" => pos["send_out"] # req[p].head
      PROVE  Fresh' /\ (Looking => Looking') /\ (missed => missed')
  <2>1. Looking => Looking'
    BY <1>0, <1>3 DEF Looking
  <2>2. Edited => Edited'
    BY <1>0, <1>3, <2>1 DEF Edited
  <2>3. (missed => missed') /\ (Stamping => Stamping')
    BY <1>0, <1>3, MissedStays DEF Stamping
  <2>. QED BY <1>2, <1>3, <2>1, <2>2, <2>3
<1>4. ASSUME req'[p].at \notin {"commit", "leave", "load", "move", "return"} PROVE Priced(req[p])'
  BY <1>4 DEF Priced
<1>5. ASSUME req'[p].at # "commit", req'[p].why # "commit" PROVE Priced(req[p])'
  BY <1>5 DEF Priced
<1>6. CASE Request(p)
  <2>1. CASE /\ UNCHANGED <<rows, left>> /\ req[p].at = "idle" /\ req'[p].at \in Firsts
             /\ req'[p].why = "commit" => req'[p].at = "price"
    BY <1>3, <1>4, <1>5, <2>1 DEF rows, Firsts
  <2>2. CASE req'[p].at = "look"
    BY <1>4, <2>2 DEF Edited, Looking
  <2>. QED BY <1>6, <2>1, <2>2, BeginsOr
<1>7. CASE Load(p)
  <2>1. /\ UNCHANGED <<snapshot, figures, pos>> /\ req[p].at = "load"
        /\ req'[p] = Idle \/ (req'[p].at = "move" /\ req'[p].why = req[p].why)
    BY <1>7, InHand DEF Load, At, rows, Done, Asked
  <2>2. Fresh' /\ (Looking => Looking') /\ (missed => missed')
    BY <1>3, <2>1
  <2>3. req'[p].why = "commit" => snapshot = figures \/ Looking \/ missed
    BY <1>2, <2>1 DEF Priced, Idle
  <2>4. req'[p].at # "commit"
    BY <2>1 DEF Idle
  <2>. QED BY <2>1, <2>2, <2>3, <2>4 DEF Priced
<1>8. CASE Move(p)
  <2>1. /\ UNCHANGED <<snapshot, figures>> /\ req[p].at = "move" /\ req'[p].at = "fanout"
        /\ pos' = [pos EXCEPT ![req[p].lane] = req[p].to] /\ req[p].to = pos[req[p].lane] + 1
    BY <1>8, InHand DEF Move, Goto, Asked, Knows
  <2>2. Priced(req[p])'
    BY <1>4, <2>1
  <2>3. CASE req[p].lane # "send_out"
    <3>1. pos'["send_out"] = pos["send_out"]
      BY <2>1, <2>3, InHand
    <3>. QED BY <1>3, <2>1, <2>2, <3>1
  <2>4. CASE req[p].lane = "send_out"
    <3>1. /\ Looking => Looking' /\ Edited'
          /\ missed => missed'
          /\ Stamping => Stamping'
      BY <1>0, <2>1, MissedStays DEF Looking, Edited, Stamping
    <3>2. CASE req[p].why = "commit"
      <4>1. snapshot = figures \/ Looking \/ missed
        BY <1>2, <2>1, <3>2 DEF Priced
      <4>. QED BY <2>1, <2>2, <3>1, <4>1
    <3>3. CASE req[p].why # "commit"
      <4>1. pos["send_out"] # Verify
        <5>1. req[p].why \in {"advance", "sent", "outcome"}
          BY <2>1, <2>4, <3>3, InHand DEF OnRoute, Whys, OnIntake, OnSendOut
        <5>. QED BY <2>1, <2>4, <5>1, InHand, HeadsAre DEF KnowsSendOut
      <4>2. pos'["send_out"] \in PastVerify => pos["send_out"] \in PastVerify
        BY <2>1, <2>4, <4>1, InHand, HeadsAre
      <4>3. Edited => Looking
        <5>1. ASSUME NEW q \in Requests, req[q].at = "bounce" PROVE FALSE
          <6>1. q # p /\ "send_out" \in Uses(q) /\ "send_out" \in Uses(p)
            BY <2>1, <2>4, <5>1, SendOutSteps DEF OnSendOut
          <6>2. req[p].why = "edit"
            BY <6>1, Solo
          <6>. QED BY <2>1, <6>2, InHand DEF OnRoute
        <5>. QED BY <5>1 DEF Edited
      <4>. QED BY <1>2, <2>1, <2>2, <3>1, <4>2, <4>3
    <3>. QED BY <3>2, <3>3
  <2>. QED BY <2>3, <2>4
<1>9. CASE Unlock(p)
  <2>0. /\ req[p].opens # {} /\ req[p].opens \subseteq Lanes /\ req[p].at = "unlock"
        /\ UNCHANGED <<snapshot, figures>>
    BY <1>9, InHand DEF Unlock, At, Knows, Asked
  <2>1. PICK k : k = FirstOf(req[p].opens)
    OBVIOUS
  <2>2. k \in Lanes /\ pos' = [pos EXCEPT ![k] = 1]
    BY <1>9, <2>0, <2>1, FirstIs DEF Unlock
  <2>3. req'[p].at \in {"headline", "unlock"}
    BY <1>9, InHand DEF Unlock, Asked
  <2>4. CASE k = "send_out"
    <3>1. pos'["send_out"] \notin PastVerify
      BY <2>2, <2>4, InHand, HeadsAre
    <3>. QED BY <1>4, <2>3, <3>1
  <2>5. CASE k # "send_out"
    <3>1. pos'["send_out"] = pos["send_out"]
      BY <2>2, <2>5, InHand
    <3>. QED BY <1>3, <1>4, <2>0, <2>3, <3>1
  <2>. QED BY <2>4, <2>5
<1>10. CASE Fanout(p) \/ ReadHeadline(p)
  <2>1. /\ UNCHANGED <<snapshot, figures, pos>> /\ req[p].at \in {"fanout", "headline"}
        /\ req'[p].at \in {"headline", "unlock", "point"}
    BY <1>10, InHand DEF Fanout, ReadHeadline, At, rows, Asked
  <2>. QED BY <1>3, <1>4, <2>1
<1>11. CASE WriteHeadline(p)
  <2>1. UNCHANGED <<snapshot, figures, pos>> /\ req[p].at = "point"
    BY <1>11 DEF WriteHeadline, At
  <2>2. ASSUME NEW next, NEW then, Follows(req[p].why, next, then),
               req' = [req EXCEPT ![p] = [Idle EXCEPT
                                            !.at = next, !.lane = req[p].lane, !.why = then]]
        PROVE  Priced(req[p])'
    <3>1. req'[p].at = next /\ req'[p].why = then
      BY <2>2, InHand DEF Idle
    <3>2. next \in {"load", "decline", "decide"} /\ then # "commit"
      BY <2>2 DEF Follows
    <3>. QED BY <1>5, <3>1, <3>2
  <2>3. Done(p) => Priced(req[p])'
    BY <1>4, InHand DEF Done, Idle
  <2>. QED BY <1>3, <1>11, <2>1, <2>2, <2>3, WroteIs
<1>12. CASE Decline(p) \/ Reopen(p) \/ Kill(p)
  <2>1. /\ UNCHANGED <<snapshot, figures>> /\ pos'["send_out"] = pos["send_out"]
        /\ req[p].at \in {"decline", "reopen", "kill"}
        /\ req'[p].at \in {"kill", "headline", "decide"}
    BY <1>12, InHand DEF Decline, Reopen, Park, Kill, At, Goto, Asked
  <2>. QED BY <1>3, <1>4, <2>1
<1>13. CASE Decide(p) \/ Unmark(p) \/ Mark(p)
  <2>1. /\ UNCHANGED <<snapshot, figures, pos>> /\ req[p].at \in {"decide", "unmark", "mark"}
        /\ req'[p].at \in {"idle", "headline", "reset"}
    BY <1>13, InHand DEF Decide, Unmark, Mark, At, Done, Goto, Asked, Idle
  <2>. QED BY <1>3, <1>4, <2>1
<1>14. CASE Price(p)
  <2>1. UNCHANGED figures /\ req'[p].at = "commit" /\ req'[p].figures = figures
    BY <1>14, InHand DEF Price, rows, Asked
  <2>. QED BY <2>1 DEF Priced, Stamping
<1>15. CASE Commit(p)
  <2>1. /\ UNCHANGED <<figures, pos>> /\ req[p].at = "commit" /\ snapshot' = req[p].figures
        /\ req'[p].at \in {"idle", "leave"}
    BY <1>15, InHand DEF Commit, At, Done, Asked, Idle
  <2>2. snapshot' = figures \/ Looking \/ missed
    BY <1>2, <2>1 DEF Priced
  <2>3. (Looking => Looking') /\ (missed => missed')
    BY <1>0, <2>1, MissedStays DEF Looking
  <2>. QED BY <2>1, <2>2, <2>3 DEF Edited, Priced
<1>16. CASE Resume(p)
  <2>1. /\ UNCHANGED <<snapshot, figures, pos>> /\ req[p].at = "leave"
        /\ req'[p].at \in {"return", "load"}
    BY <1>16, InHand DEF Resume, At, rows, Asked
  <2>2. Fresh' /\ (Looking => Looking') /\ (missed => missed')
    BY <1>3, <2>1
  <2>3. snapshot = figures \/ Looking \/ missed
    BY <1>2, <2>1, SendOutSteps DEF Priced
  <2>. QED BY <2>1, <2>2, <2>3 DEF Priced
<1>17. CASE Return(p)
  <2>1. UNCHANGED <<snapshot, figures>> /\ req[p].at = "return" /\ req'[p].at = "unmark"
    BY <1>17, InHand DEF Return, Goto, Asked
  <2>2. snapshot = figures \/ Looking \/ missed
    BY <1>2, <2>1, SendOutSteps DEF Priced
  <2>3. (Looking => Looking') /\ (missed => missed')
    BY <1>0, <2>1, MissedStays DEF Looking
  <2>. QED BY <1>4, <2>1, <2>2, <2>3 DEF Edited
<1>18. CASE Look(p)
  <2>1. UNCHANGED <<snapshot, figures, pos, stage>> /\ req[p].at = "look"
    BY <1>18 DEF Look, At, rows
  <2>2. CASE MustBounce
    <3>1. PICK to : to = IF back = None THEN pos["send_out"] ELSE None
      OBVIOUS
    <3>2. req' = [req EXCEPT ![p] = [req[p] EXCEPT !.at = "bounce", !.head = pos["send_out"],
                                                   !.to = to]]
      BY <1>18, <2>2, <3>1, InHand DEF Look
    <3>3. req'[p].at = "bounce" /\ req'[p].head = pos'["send_out"]
      BY <2>1, <3>2, InHand DEF Asked
    <3>. QED BY <1>4, <3>3 DEF Edited
  <2>3. CASE ~MustBounce
    <3>1. req'[p].at = "idle"
      BY <1>18, <2>3, InHand DEF Look, Done, Idle
    <3>2. pos["send_out"] \in PastVerify => FALSE
      <4>1. SUFFICES ASSUME pos["send_out"] \in PastVerify PROVE FALSE
        OBVIOUS
      <4>2. stage = "declined" /\ pos["send_out"] # Locked
        BY <2>3, <4>1, HeadsAre DEF MustBounce
      <4>3. pos["intake"] = Complete("intake") /\ pos["intake"] \in {GoNoGo, ToEstimator}
        BY <4>2, IntakeFirst, InHand DEF Kept, Shaped, Shape
      <4>. QED BY <4>3, HeadsAre, Lengths
    <3>. QED BY <1>4, <2>1, <3>1, <3>2
  <2>. QED BY <2>2, <2>3
<1>19. CASE Bounce(p)
  <2>0. UNCHANGED <<snapshot, figures>> /\ req[p].at = "bounce"
    BY <1>19 DEF Bounce
  <2>1. CASE pos["send_out"] = req[p].head
    <3>1. req'[p].at = "mark" /\ pos'["send_out"] = Verify
      BY <1>19, <2>1, InHand DEF Bounce, Goto, Asked
    <3>. QED BY <1>4, <3>1, HeadsAre
  <2>2. CASE pos["send_out"] # req[p].head
    <3>1. pos' = pos /\ req'[p].at = "idle"
      BY <1>19, <2>2, InHand DEF Bounce, Done, Idle
    <3>. QED BY <1>3, <1>4, <2>0, <2>2, <3>1
  <2>. QED BY <2>1, <2>2
<1>20. CASE Reset(p)
  <2>1. pos' = pos /\ req[p].at = "reset" /\ req'[p].at = "headline"
    BY <1>20, InHand DEF Reset, At, Goto, Asked
  <2>2. pos["send_out"] = Verify
    BY <2>1, SendOutSteps, InHand DEF KnowsSendOut
  <2>. QED BY <1>4, <2>1, <2>2, HeadsAre
<1>21. CASE Record(p)
  <2>1. /\ UNCHANGED <<snapshot, figures, pos>> /\ req[p].at = "record"
        /\ req'[p].at = "idle" \/ (req'[p].at = "load" /\ req'[p].why = req[p].why)
    BY <1>21, InHand DEF Record, At, Done, Goto, Asked, Idle
  <2>2. req[p].why # "commit"
    BY <2>1, SendOutSteps
  <2>. QED BY <1>3, <1>4, <1>5, <2>1, <2>2
<1>. QED
  BY <1>6, <1>7, <1>8, <1>9, <1>10, <1>11, <1>12, <1>13, <1>14, <1>15, <1>16, <1>17, <1>18, <1>19,
     <1>20, <1>21 DEF Handler

LEMMA PriceSubmit ==
    ASSUME Typed, Kept, Calm, PriceOK, NEW undoable \in BOOLEAN, MarkSubmitted(undoable)
    PROVE  PriceOK'
<1>1. /\ snapshot' = figures' /\ UNCHANGED req
      /\ external' # None => /\ external'.pos = pos /\ external'.snapshot = snapshot
                             /\ external'.figures = figures /\ external'.missed = missed
  BY DEF MarkSubmitted
<1>2. \A p \in Requests : req[p].at = "idle"
  BY InHand DEF MarkSubmitted, Quiet
<1>3. pos["send_out"] \in PastVerify => snapshot = figures \/ missed
  BY <1>2 DEF PriceOK, Edited, Looking, Stamping
<1>4. \A p \in Requests : Priced(req[p])'
  BY <1>1, <1>2 DEF Priced
<1>. QED BY <1>1, <1>3, <1>4 DEF PriceOK

LEMMA PriceUndo ==
    ASSUME Typed, Kept, Calm, PriceOK, UndoSubmitted
    PROVE  PriceOK'
<1>1. /\ pos' = external.pos /\ snapshot' = external.snapshot /\ figures' = external.figures
      /\ missed' = external.missed /\ UNCHANGED req /\ external # None /\ external' = None
  BY DEF UndoSubmitted
<1>2. \A p \in Requests : req[p].at = "idle"
  BY InHand DEF UndoSubmitted, Quiet
<1>3. \A p \in Requests : Priced(req[p])'
  BY <1>1, <1>2 DEF Priced
<1>. QED BY <1>1, <1>3 DEF PriceOK

-----------------------------------------------------------------------------
(* The decision on record.                                                  *)

LEMMA JudgedOthers ==
    ASSUME Typed, Kept, Calm, DecisionOK, NEW p \in Requests, Request(p) \/ Handler(p),
           NEW q \in Requests \ {p}
    PROVE  Judged(req[q])'
<1>0. req'[q] = req[q] /\ Judged(req[q])
  BY Others DEF Acts, DecisionOK
<1>1. SUFFICES ASSUME req[q].at = "decide" PROVE stage' = "declined" <=> stage = "declined"
  BY <1>0 DEF Judged
<1>2. /\ req[q].why \in {"go", "no_go", "undo"} /\ req[q].lane = "intake"
      /\ "intake" \in Uses(q) /\ pos["intake"] # Complete("intake")
  <2>1. req[q].why \in {"go", "no_go", "undo"}
    BY <1>1, InHand DEF OnRoute, Whys, OnIntake, OnSendOut, Moves
  <2>2. req[q].lane = "intake" /\ req[q].lane \in Uses(q)
    BY <1>1, <2>1, InHand, SendOutSteps DEF OnIntake
  <2>3. pos["intake"] \in {2, 3}
    BY <1>1, <2>1, InHand, HeadsAre DEF KnowsIntake
  <2>. QED BY <2>1, <2>2, <2>3, Lengths
<1>3. "intake" \notin Uses(p)
  BY <1>2, Solo
<1>4. CASE WriteHeadline(p)
  <2>1. req[p].at = "point"
    BY <1>4 DEF WriteHeadline, At
  <2>2. req[p].lane \in Uses(p)
    BY <2>1, SendOutSteps
  <2>3. pos["intake"] = Complete("intake")
    BY <1>3, <2>1, <2>2, InHand DEF Knows
  <2>. QED BY <1>2, <2>3
<1>5. CASE Kill(p)
  <2>1. req[p].at = "kill" /\ req[p].why = "no_go"
    BY <1>5, InHand DEF Kill, At, OnRoute, Whys, OnIntake, OnSendOut, Moves
  <2>2. "intake" \in Uses(p)
    BY <2>1, InHand, SendOutSteps DEF OnIntake
  <2>. QED BY <1>3, <2>2
<1>6. CASE Request(p)
  BY <1>6, BeginsOr DEF rows
<1>7. CASE Handler(p) /\ ~WriteHeadline(p) /\ ~Kill(p)
  BY <1>7 DEF Handler, Load, Move, Fanout, Unlock, ReadHeadline, Decline, Reopen, Park, Decide,
     Price, Commit, Resume, Return, Unmark, Look, Bounce, Mark, Reset, Record, rows
<1>. QED BY <1>4, <1>5, <1>6, <1>7

LEMMA DecisionStep ==
    ASSUME Typed, Kept, Calm, DecisionOK, NEW p \in Requests, Request(p) \/ Handler(p)
    PROVE  DecisionOK'
<1> DEFINE Some == \E q \in Requests : Deciding(q)
<1>0. Acts(p) /\ Moved(p) /\ \A q \in Requests \ {p} : req'[q] = req[q]
  BY MovedLane, Others DEF Acts
<1>1. SUFFICES (Decided \/ Some)' /\ Judged(req[p])'
  BY <1>0, JudgedOthers DEF DecisionOK
<1>2. (Decided \/ Some) /\ Judged(req[p])
  BY DEF DecisionOK
<1>3. \A q \in Requests \ {p} : Deciding(q) => Deciding(q)'
  BY <1>0 DEF Deciding
<1>4. ASSUME ~Deciding(p) \/ Deciding(p)', Decided => Decided' \/ Deciding(p)'
      PROVE  (Decided \/ Some)'
  BY <1>2, <1>3, <1>4
<1>5. ASSUME decision' = decision, stage' = stage, pos'["intake"] = pos["intake"],
             ~Deciding(p) \/ Deciding(p)'
      PROVE  (Decided \/ Some)'
  <2>1. Decided => Decided'
    BY <1>5 DEF Decided
  <2>. QED BY <1>4, <1>5, <2>1
<1>6. ASSUME req'[p].at # "decide" PROVE Judged(req[p])'
  BY <1>6 DEF Judged
<1>7. CASE Request(p)
  <2>1. ~Deciding(p) /\ decision' = decision /\ stage' = stage /\ pos' = pos /\ req'[p].at # "decide"
    BY <1>7, BeginsOr DEF rows, Deciding, Firsts
  <2>. QED BY <1>5, <1>6, <2>1
<1>8. CASE Move(p)
  <2>1. /\ req[p].at = "move" /\ decision' = decision /\ stage' = stage
        /\ pos' = [pos EXCEPT ![req[p].lane] = req[p].to] /\ req[p].to = pos[req[p].lane] + 1
        /\ req'[p].at = "fanout" /\ req'[p].why = req[p].why
    BY <1>8, InHand DEF Move, Goto, Asked, Knows
  <2>2. ~Deciding(p) /\ Judged(req[p])'
    BY <1>6, <2>1 DEF Deciding
  <2>3. CASE req[p].lane # "intake"
    <3>1. pos'["intake"] = pos["intake"]
      BY <2>1, <2>3, InHand
    <3>. QED BY <1>5, <2>1, <2>2, <3>1
  <2>4. CASE req[p].why = "go"
    <3>1. Deciding(p)'
      BY <2>1, <2>4 DEF Deciding
    <3>. QED BY <1>4, <2>2, <3>1
  <2>5. CASE req[p].lane = "intake" /\ req[p].why # "go"
    <3>1. req[p].why \in {"enter", "advance"}
      BY <2>1, <2>5, InHand DEF OnRoute, Whys, OnIntake, OnSendOut
    <3>2. /\ req[p].why = "enter" => pos["intake"] = 1
          /\ req[p].why = "advance" => pos["intake"] = 3
      BY <2>1, <2>5, InHand, HeadsAre DEF KnowsIntake
    <3>3. pos'["intake"] > GoNoGo <=> pos["intake"] > GoNoGo
      BY <2>1, <2>5, <3>1, <3>2, InHand, HeadsAre
    <3>. QED BY <1>4, <2>1, <2>2, <3>3 DEF Decided
  <2>. QED BY <2>3, <2>4, <2>5
<1>9. CASE Unlock(p)
  <2>0. /\ req[p].opens # {} /\ req[p].opens \subseteq Lanes /\ req[p].at = "unlock"
        /\ \A k \in req[p].opens : Ready(p, k)
        /\ decision' = decision /\ stage' = stage
    BY <1>9, InHand DEF Unlock, At, Knows, Asked
  <2>1. PICK k : k = FirstOf(req[p].opens)
    OBVIOUS
  <2>2. k \in Lanes \ {"intake"} /\ pos' = [pos EXCEPT ![k] = 1]
    BY <1>9, <2>0, <2>1, FirstIs DEF Unlock, Ready
  <2>3. req'[p].at \in {"headline", "unlock"} /\ req'[p].why = req[p].why
    BY <1>9, InHand DEF Unlock, Asked
  <2>4. pos'["intake"] = pos["intake"]
    BY <2>2, InHand
  <2>5. ~Deciding(p) \/ Deciding(p)'
    BY <2>0, <2>3 DEF Deciding
  <2>. QED BY <1>5, <1>6, <2>0, <2>3, <2>4, <2>5
<1>10. CASE Fanout(p) \/ ReadHeadline(p)
  <2>1. /\ UNCHANGED <<decision, stage, pos>>
        /\ \/ req[p].at = "fanout" /\ req'[p].at \in {"headline", "unlock"}
           \/ req[p].at = "headline" /\ req'[p].at = "point"
        /\ req'[p].why = req[p].why
    BY <1>10, InHand DEF Fanout, ReadHeadline, At, rows, Asked
  <2>2. ~Deciding(p) \/ Deciding(p)'
    BY <2>1 DEF Deciding
  <2>. QED BY <1>5, <1>6, <2>1, <2>2
<1>11. CASE WriteHeadline(p)
  <2>1. /\ UNCHANGED <<decision, pos>> /\ req[p].at = "point" /\ stage' = req[p].stage
        /\ stage' # "declined"
    BY <1>11, InHand DEF WriteHeadline, At, AskedOK
  <2>2. CASE req[p].why \in {"go", "undo"}
    <3>1. PICK next, then : /\ Follows(req[p].why, next, then)
                            /\ req' = [req EXCEPT ![p] = [Idle EXCEPT
                                            !.at = next, !.lane = req[p].lane, !.why = then]]
      BY <1>11, <2>2, WroteIs
    <3>2. req'[p].at = "decide" /\ req'[p].why \in {"go", "undo"}
      BY <2>2, <3>1, InHand DEF Follows, Idle
    <3>3. Deciding(p)' /\ Judged(req[p])'
      BY <2>1, <3>2 DEF Deciding, Judged
    <3>. QED BY <1>4, <3>3
  <2>3. CASE req[p].why \notin {"go", "undo"}
    <3>1. stage # "declined"
      <4>1. CASE req[p].lane # "intake"
        <5>1. pos["intake"] = Complete("intake")
          BY <2>1, <4>1, InHand DEF Knows
        <5>. QED BY <5>1, HeadsAre, Lengths DEF Kept, Shaped, Shape
      <4>2. CASE req[p].lane = "intake"
        <5>1. req[p].why \in {"enter", "advance"}
          BY <2>1, <2>3, <4>2, InHand DEF OnRoute, Whys, OnIntake, OnSendOut
        <5>2. req[p].why = "advance" => pos["intake"] = 4
          BY <2>1, <4>2, InHand, Lengths DEF KnowsIntake
        <5>3. req[p].why = "enter" => stage # "declined"
          BY InHand DEF KnowsIntake
        <5>. QED BY <5>1, <5>2, <5>3, HeadsAre DEF Kept, Shaped, Shape
      <4>. QED BY <4>1, <4>2
    <3>2. ~Deciding(p)
      BY <2>1, <2>3 DEF Deciding
    <3>3. Decided => Decided'
      BY <2>1, <3>1 DEF Decided
    <3>4. req'[p].at # "decide"
      <4>1. ASSUME NEW next, NEW then, Follows(req[p].why, next, then),
                   req' = [req EXCEPT ![p] = [Idle EXCEPT
                                            !.at = next, !.lane = req[p].lane, !.why = then]]
            PROVE  req'[p].at # "decide"
        BY <2>3, <4>1, InHand DEF Follows, Idle
      <4>2. Done(p) => req'[p].at # "decide"
        BY InHand DEF Done, Idle
      <4>. QED BY <1>11, <4>1, <4>2, WroteIs
    <3>. QED BY <1>4, <1>6, <3>2, <3>3, <3>4
  <2>. QED BY <2>2, <2>3
<1>12. CASE Decline(p)
  <2>1. /\ req[p].at = "decline" /\ decision' = decision /\ stage' = stage
        /\ pos' = [pos EXCEPT !["intake"] = GoNoGo] /\ req'[p].at = "kill"
    BY <1>12, InHand DEF Decline, Park, At, Goto, Asked
  <2>2. req[p].why = "no_go"
    BY <2>1, InHand DEF OnRoute, Whys, OnIntake, OnSendOut, Moves
  <2>3. pos'["intake"] = pos["intake"]
    BY <2>1, <2>2, InHand DEF KnowsIntake
  <2>. QED BY <1>5, <1>6, <2>1, <2>3 DEF Deciding
<1>13. CASE Reopen(p)
  <2>1. req[p].at = "reopen" /\ req'[p].at = "headline" /\ req'[p].why = req[p].why
    BY <1>13, InHand DEF Reopen, Park, At, Goto, Asked
  <2>2. req[p].why = "undo"
    BY <2>1, InHand DEF OnRoute, Whys, OnIntake, OnSendOut, Moves
  <2>. QED BY <1>4, <1>6, <2>1, <2>2 DEF Deciding
<1>14. CASE Kill(p)
  <2>1. req[p].at = "kill" /\ req'[p].at = "decide" /\ req'[p].why = req[p].why /\ stage' = "declined"
    BY <1>14, InHand DEF Kill, At, Goto, Asked
  <2>2. req[p].why = "no_go"
    BY <2>1, InHand DEF OnRoute, Whys, OnIntake, OnSendOut, Moves
  <2>. QED BY <1>4, <2>1, <2>2 DEF Deciding, Judged
<1>15. CASE Decide(p)
  <2>1. /\ req[p].at = "decide" /\ req'[p].at = "idle" /\ UNCHANGED <<pos, stage>>
        /\ decision' = IF req[p].why = "undo" THEN "none" ELSE req[p].why
    BY <1>15, InHand DEF Decide, At, Done, Idle
  <2>2. req[p].why \in {"go", "no_go", "undo"}
    BY <2>1, InHand DEF OnRoute, Whys, OnIntake, OnSendOut, Moves
  <2>3. IF req[p].why = "go" THEN pos["intake"] = 3 ELSE pos["intake"] = 2
    BY <2>1, <2>2, InHand, HeadsAre DEF KnowsIntake
  <2>4. req[p].why = "no_go" <=> stage = "declined"
    BY <1>2, <2>1 DEF Judged
  <2>5. Decided'
    BY <2>1, <2>2, <2>3, <2>4, HeadsAre DEF Decided
  <2>. QED BY <1>6, <2>1, <2>5
<1>16. CASE \/ Load(p) \/ Price(p) \/ Commit(p) \/ Resume(p)
  <2>1. /\ UNCHANGED <<decision, stage, pos>> /\ req[p].at \in {"load", "price", "commit", "leave"}
        /\ req'[p].at \in {"idle", "move", "commit", "leave", "load", "return"}
    BY <1>16, InHand DEF Load, Price, Commit, Resume, At, rows, Done, Asked, Idle
  <2>. QED BY <1>5, <1>6, <2>1 DEF Deciding
<1>17. CASE Return(p) \/ Bounce(p)
  <2>1. /\ UNCHANGED <<decision, stage>> /\ req[p].at \in {"return", "bounce"}
        /\ req'[p].at \in {"idle", "unmark", "mark"} /\ pos'["intake"] = pos["intake"]
    BY <1>17, InHand DEF Return, Bounce, Done, Goto, Asked, Idle
  <2>. QED BY <1>5, <1>6, <2>1 DEF Deciding
<1>18. CASE Unmark(p) \/ Mark(p) \/ Reset(p) \/ Record(p)
  <2>1. /\ UNCHANGED <<decision, stage, pos>> /\ req[p].at \in {"unmark", "mark", "reset", "record"}
        /\ req'[p].at \in {"idle", "headline", "reset", "load"}
    BY <1>18, InHand DEF Unmark, Mark, Reset, Record, At, Done, Goto, Asked, Idle
  <2>. QED BY <1>5, <1>6, <2>1 DEF Deciding
<1>19. CASE Look(p)
  <2>1. /\ UNCHANGED <<decision, stage, pos>> /\ req[p].at = "look"
    BY <1>19 DEF Look, At, rows
  <2>2. req'[p].at \in {"idle", "bounce"}
    <3>1. PICK to : to = IF back = None THEN pos["send_out"] ELSE None
      OBVIOUS
    <3>2. \/ Done(p)
          \/ req' = [req EXCEPT ![p] = [req[p] EXCEPT !.at = "bounce", !.head = pos["send_out"],
                                                      !.to = to]]
      BY <1>19, <3>1, InHand DEF Look
    <3>3. Done(p) => req'[p].at = "idle"
      BY InHand DEF Done, Idle
    <3>4. [req[p] EXCEPT !.at = "bounce", !.head = pos["send_out"], !.to = to].at = "bounce"
      BY InHand DEF Asked
    <3>. QED BY <3>2, <3>3, <3>4, InHand
  <2>. QED BY <1>5, <1>6, <2>1, <2>2 DEF Deciding
<1>. QED
  BY <1>7, <1>8, <1>9, <1>10, <1>11, <1>12, <1>13, <1>14, <1>15, <1>16, <1>17, <1>18, <1>19
  DEF Handler

LEMMA DecisionSubmit ==
    ASSUME Typed, Kept, Calm, DecisionOK, NEW undoable \in BOOLEAN, MarkSubmitted(undoable)
    PROVE  DecisionOK'
<1>1. /\ stage' = "submitted" /\ pos'["intake"] = 4 /\ UNCHANGED <<decision, req>>
      /\ stage # "declined" /\ pos["intake"] > GoNoGo
  BY Starting, Lengths DEF MarkSubmitted, MaySubmit
<1>2. \A p \in Requests : req[p].at = "idle"
  BY DEF MarkSubmitted, Quiet
<1>3. Decided
  BY <1>2 DEF DecisionOK, Deciding
<1>4. Decided'
  BY <1>1, <1>3, HeadsAre DEF Decided
<1>. QED BY <1>1, <1>2, <1>4 DEF DecisionOK, Judged

LEMMA DecisionUndo ==
    ASSUME Typed, Kept, Calm, DecisionOK, UndoSubmitted
    PROVE  DecisionOK'
<1>1. /\ stage' = external.stage /\ pos' = external.pos /\ UNCHANGED <<decision, req>>
      /\ external # None /\ pos["send_out"] = Submitted
  BY DEF UndoSubmitted
<1>2. \A p \in Requests : req[p].at = "idle"
  BY DEF UndoSubmitted, Quiet
<1>3. Decided
  BY <1>2 DEF DecisionOK, Deciding
<1>4. external.stage # "declined" /\ external.pos["intake"] > GoNoGo
  BY <1>1 DEF Kept, Shaped
<1>5. pos["intake"] = 4 /\ stage # "declined"
  BY SMTT(60), <1>1, HeadsAre, Lengths DEF Kept, Shaped, Shape
<1>6. Decided'
  BY <1>1, <1>3, <1>4, <1>5, HeadsAre DEF Decided
<1>. QED BY <1>1, <1>2, <1>6 DEF DecisionOK, Judged

-----------------------------------------------------------------------------
(* The inductive invariant.                                                 *)

LEMMA UnbrokenStep ==
    ASSUME Typed, Kept, Calm, crashes = 0, Unbroken, [Next]_vars, crashes' = 0
    PROVE  Unbroken'
<1>1. CASE UNCHANGED vars
  <2>1. UNCHANGED <<pos, stage, back, figures, snapshot, decision, external, req, left, missed>>
    BY <1>1 DEF vars, rows
  <2>2. MarkOK'
    BY <2>1 DEF Unbroken, MarkOK, Marked, Marking, Carries
  <2>3. DecisionOK'
    BY <2>1 DEF Unbroken, DecisionOK, Decided, Deciding, Judged
  <2>4. PriceOK'
    BY <2>1 DEF Unbroken, PriceOK, Edited, Looking, Stamping, Priced
  <2>5. OpenOK'
    BY <2>1 DEF Unbroken, OpenOK, Opens
  <2>. QED BY <2>2, <2>3, <2>4, <2>5 DEF Unbroken
<1>2. ASSUME NEW p \in Requests, Request(p) \/ Handler(p) PROVE Unbroken'
  BY <1>2, MarkStep, DecisionStep, PriceStep, OpenStep DEF Unbroken
<1>3. ASSUME NEW p \in Requests, Crash(p) PROVE FALSE
  BY <1>3 DEF Crash
<1>4. ASSUME NEW undoable \in BOOLEAN, MarkSubmitted(undoable) PROVE Unbroken'
  BY <1>4, MarkSubmit, DecisionSubmit, PriceSubmit, OpenSubmit DEF Unbroken
<1>5. CASE UndoSubmitted
  BY <1>5, MarkUndo, DecisionUndo, PriceUndo, OpenUndo DEF Unbroken
<1>. QED BY <1>1, <1>2, <1>3, <1>4, <1>5 DEF Next

LEMMA UnbrokenInit == Init => Unbroken
<1>. SUFFICES ASSUME Init PROVE Unbroken
  OBVIOUS
<1>1. /\ pos = Start /\ stage = "intake" /\ back = None /\ left = None /\ decision = "none"
      /\ external = None /\ \A p \in Requests : req[p] = Idle
      /\ Start["intake"] = 1 /\ Start["send_out"] = 0
  BY Starting, Lengths DEF Init
<1>2. MarkOK
  BY <1>1, HeadsAre DEF MarkOK, Marked, Carries, Idle
<1>3. DecisionOK
  BY <1>1, HeadsAre DEF DecisionOK, Decided, Judged, Idle
<1>4. PriceOK
  BY <1>1, HeadsAre DEF PriceOK, Priced, Idle
<1>5. OpenOK
  BY <1>1, Lengths DEF OpenOK
<1>. QED BY <1>2, <1>3, <1>4, <1>5 DEF Unbroken

\* A handler that dies is counted for ever.
LEMMA CrashesGrow == ASSUME Typed, [Next]_vars PROVE crashes' = 0 => crashes = 0
<1>1. CASE UNCHANGED vars
  BY <1>1 DEF vars
<1>2. ASSUME NEW p \in Requests, Request(p) PROVE crashes' = crashes
  BY <1>2 DEF Request, StartAdvance, StartDecide, StartUndo, StartCommit, StartDoneSending,
     StartOutcome, StartEdit, Begin
<1>3. ASSUME NEW p \in Requests, Handler(p) PROVE crashes' = crashes
  BY <1>3 DEF Handler, Load, Move, Fanout, Unlock, ReadHeadline, WriteHeadline, Decline, Kill,
     Reopen, Park, Decide, Price, Commit, Resume, Return, Unmark, Look, Bounce, Mark, Reset,
     Record, At
<1>4. ASSUME NEW p \in Requests, Crash(p) PROVE crashes' # 0
  <2>1. crashes \in Nat /\ crashes' = crashes + 1
    BY <1>4 DEF Typed, RowsOK, Crash
  <2>. QED BY <2>1
<1>. QED BY <1>1, <1>2, <1>3, <1>4 DEF Next, MarkSubmitted, UndoSubmitted

LEMMA InitInv == Init => IInv
BY TypedInit, KeptInit, UnbrokenInit DEF IInv

LEMMA StepInv == IInv /\ [Next]_vars => IInv'
<1>. SUFFICES ASSUME IInv, [Next]_vars PROVE IInv'
  OBVIOUS
<1>1. Typed'
  BY TypedStep DEF IInv
<1>2. Calm => Kept'
  BY KeptStep DEF IInv
<1>3. Calm /\ crashes' = 0 => Unbroken'
  BY UnbrokenStep, CrashesGrow DEF IInv
<1>. QED BY <1>1, <1>2, <1>3 DEF IInv

\* The invariant of the stage machine: who has which lane in hand, what a handler may rely
\* on between two of its calls, and what is recorded beside the lanes while it is half way.
THEOREM Invariance == Spec => []IInv
BY InitInv, StepInv, PTL DEF Spec

-----------------------------------------------------------------------------
(* What is recorded beside the lanes.                                       *)

LEMMA AtRest ==
    ASSUME Typed, Kept, Unbroken, Quiet
    PROVE  /\ Marked /\ Decided
           /\ pos["send_out"] \in PastVerify => snapshot = figures \/ missed
           /\ pos["intake"] = Complete("intake") =>
                \A l \in Lanes : pos[l] = Locked => Waits(pos, l)
<1>1. \A p \in Requests : req[p].at = "idle"
  BY DEF Quiet
<1>. QED BY <1>1 DEF Unbroken, MarkOK, Marking, DecisionOK, Deciding, PriceOK, Edited, Looking,
   Stamping, OpenOK, Opens

\* A bid past Verify stands on the live figures (commit_verify, maybe_reopen_verify_after_edit),
\* but for an edit that looked while the last commit was still at Verify; for any number of
\* edits, commits and submissions.
THEOREM PriceIsFresh == ASSUME Calm PROVE Spec => []FreshCommit
<1>1. IInv => FreshCommit
  BY AtRest DEF IInv, FreshCommit, CommittedIsLive
<1>. QED BY <1>1, Invariance, PTL

\* The mark of a bid pulled back to Verify (reopen_verify, return_from_reverify) and the
\* Go / No-Go decision (gono.finalize, gono.undo) are those the lanes show.
THEOREM RecordsKept == ASSUME Calm PROVE Spec => []RecordsAgree
<1>1. IInv => RecordsAgree
  BY AtRest DEF IInv, RecordsAgree, Marked, Decided
<1>. QED BY <1>1, Invariance, PTL

\* A bid at rest that is neither declined nor through with Send Out has a lane to work on:
\* _run_fanout opens every lane that the transitions before it allow.
THEOREM SomethingToDo == ASSUME Calm PROVE Spec => []NotWedged
<1>1. ASSUME IInv, Quiet, crashes = 0, stage # "declined", pos["send_out"] # Complete("send_out")
      PROVE  \E l \in Lanes : Active(pos, l)
  <2>0. Begun(pos) /\ Typed /\ Kept /\ Unbroken
    BY <1>1 DEF IInv, Typed, RowsOK
  <2>1. \A l \in Lanes : Active(pos, l) <=> pos[l] # 0 /\ pos[l] # Complete(l)
    BY <2>0, ActiveIs
  <2>2. pos["intake"] # 0 /\ "intake" \in Lanes /\ "send_out" \in Lanes
    BY <2>0, Lengths DEF Begun
  <2>3. CASE pos["intake"] # Complete("intake")
    BY <2>1, <2>2, <2>3
  <2>4. CASE pos["send_out"] # 0
    BY <1>1, <2>1, <2>2, <2>4
  <2>5. CASE pos["intake"] = Complete("intake") /\ pos["send_out"] = 0
    <3>1. \A l \in Lanes : pos[l] = Locked => Waits(pos, l)
      BY <1>1, <2>0, <2>5, AtRest
    <3>2. ~HardMet(pos, "send_out")
      BY <2>2, <2>5, <3>1 DEF Waits, Locked
    <3>3. PICK k \in {"intake", "labor_numbers", "select_vendors", "markup"} : pos[k] # Complete(k)
      BY <3>2 DEF HardMet, Prereqs
    <3>4. k \in Lanes /\ k # "send_out"
      BY Lengths
    <3>5. pos[k] # 0
      BY <3>1, <3>4 DEF Waits, Locked
    <3>. QED BY <2>1, <3>3, <3>4, <3>5
  <2>. QED BY <2>3, <2>4, <2>5
<1>2. IInv => NotWedged
  BY <1>1 DEF NotWedged
<1>. QED BY <1>2, Invariance, PTL

\* workflow.PANEL_OWNED_HEADS: no advance completes a task that has a panel of its own, as
\* long as one lane is in one handler's hands at a time.
THEOREM PanelsOwn == ASSUME Calm PROVE Spec => PanelOwned
<1>1. ASSUME IInv, NEW p \in Requests, Move(p),
             HeadTask(pos, req[p].lane) \in DOMAIN Owner
      PROVE  req[p].why = Owner[HeadTask(pos, req[p].lane)]
  <2>0. Typed /\ Kept /\ req[p].at = "move" /\ req[p].lane \in Lanes /\ Begun(pos)
    BY <1>1, InHand DEF IInv, Move, Typed, RowsOK
  <2>1. Active(pos, req[p].lane)
    BY <2>0, InHand DEF Knows
  <2>2. /\ HeadTask(pos, req[p].lane) = Tasks[req[p].lane][pos[req[p].lane]]
        /\ pos[req[p].lane] \in 1 .. Len(Tasks[req[p].lane])
    BY <2>0, <2>1, ActiveIs DEF HeadTask, Locked, Active
  <2>3. DOMAIN Owner = {"go_no_go", "verify", "send_out", "submitted"}
    BY DEF Owner
  <2>4. req[p].lane = "intake" \/ req[p].lane = "send_out"
    <3>1. SUFFICES ASSUME req[p].lane \in Middle PROVE FALSE
      BY <2>0, Lengths DEF Middle
    <3>2. /\ Tasks["labor_numbers"] = <<"labor_numbers">> /\ Tasks["markup"] = <<"markup">>
          /\ Tasks["select_vendors"] = <<"select_vendors">>
          /\ Tasks["material_numbers"] = <<"estimate_received", "rfqs", "receive_quotes">>
      BY DEF Tasks
    <3>3. HeadTask(pos, req[p].lane) \in {"labor_numbers", "markup", "select_vendors",
                                         "estimate_received", "rfqs", "receive_quotes"}
      <4>1. CASE req[p].lane = "material_numbers"
        <5>1. pos[req[p].lane] \in {1, 2, 3}
          BY <2>2, <3>2, <4>1
        <5>. QED BY <2>2, <3>2, <4>1, <5>1
      <4>2. CASE req[p].lane # "material_numbers"
        <5>1. pos[req[p].lane] = 1
          BY <2>2, <3>1, <3>2, <4>2 DEF Middle
        <5>. QED BY <2>2, <3>1, <3>2, <4>2, <5>1 DEF Middle
      <4>. QED BY <4>1, <4>2
    <3>. QED BY <1>1, <2>3, <3>3
  <2>5. CASE req[p].lane = "intake"
    <3>1. /\ Tasks["intake"] = <<"intake", "go_no_go", "to_estimator">>
          /\ pos["intake"] \in {1, 2, 3}
      BY <2>2, <2>5, Lengths DEF Tasks
    <3>2. HeadTask(pos, req[p].lane) = "go_no_go" /\ pos["intake"] = 2
      BY <1>1, <2>2, <2>3, <2>5, <3>1
    <3>3. req[p].why \in {"enter", "advance", "go"}
      BY <2>0, <2>5, InHand DEF OnRoute, Whys, OnIntake, OnSendOut
    <3>4. req[p].why = "go"
      BY <2>0, <2>5, <3>2, <3>3, InHand, HeadsAre DEF KnowsIntake
    <3>. QED BY <3>2, <3>4 DEF Owner
  <2>6. CASE req[p].lane = "send_out"
    <3>1. /\ Tasks["send_out"] = <<"gc_pricing", "verify", "send_out", "submitted", "bid_outcome">>
          /\ pos["send_out"] \in {1, 2, 3, 4, 5}
      BY <2>2, <2>6, Lengths DEF Tasks
    <3>2. \/ HeadTask(pos, req[p].lane) = "verify" /\ pos["send_out"] = 2
          \/ HeadTask(pos, req[p].lane) = "send_out" /\ pos["send_out"] = 3
          \/ HeadTask(pos, req[p].lane) = "submitted" /\ pos["send_out"] = 4
      BY <1>1, <2>2, <2>3, <2>6, <3>1
    <3>3. req[p].why \in {"commit", "advance", "sent", "outcome"}
      BY <2>0, <2>6, InHand DEF OnRoute, Whys, OnIntake, OnSendOut
    <3>4. /\ req[p].why = "commit" => pos["send_out"] = 2
          /\ req[p].why = "advance" => pos["send_out"] \notin {2, 3, 4}
          /\ req[p].why = "sent" => pos["send_out"] = 3
          /\ req[p].why = "outcome" => pos["send_out"] = 4
      BY <2>0, <2>6, InHand, HeadsAre DEF KnowsSendOut
    <3>. QED BY <3>2, <3>3, <3>4 DEF Owner
  <2>. QED BY <2>4, <2>5, <2>6
<1>2. IInv /\ [Next]_vars =>
        [\A p \in Requests : Move(p) /\ pos' # pos =>
            LET task == HeadTask(pos, req[p].lane) IN
            task \in DOMAIN Owner => req[p].why = Owner[task]]_vars
  BY <1>1
<1>. QED BY <1>2, Invariance, PTL DEF Spec, PanelOwned

-----------------------------------------------------------------------------
(* The lanes' own order.                                                    *)

Prior == IF external = None THEN None ELSE external.pos

\* StageOrdering reads the same tables.
LEMMA SameTables ==
    /\ Ordering!Lanes = Lanes /\ Ordering!Start = Start /\ Ordering!AllSubmitted = AllSubmitted
    /\ Ordering!Locked = Locked /\ Ordering!GoNoGo = GoNoGo /\ Ordering!ToEstimator = ToEstimator
    /\ Ordering!Verify = Verify /\ Ordering!Submitted = Submitted
    /\ Ordering!PastVerify = PastVerify /\ Ordering!GoneOutHeads = GoneOutHeads
    /\ \A x, l : Ordering!Active(x, l) <=> Active(x, l)
    /\ \A x, l : Ordering!ShouldActivate(x, l) <=> ShouldActivate(x, l)
<1>1. Ordering!Tasks = Tasks
  BY DEF Ordering!Tasks, Tasks
<1>2. /\ Ordering!Lanes = Lanes /\ Ordering!Locked = Locked /\ Ordering!GoNoGo = GoNoGo
      /\ Ordering!ToEstimator = ToEstimator /\ Ordering!Verify = Verify
      /\ Ordering!SendOut = SendOut /\ Ordering!Submitted = Submitted
      /\ Ordering!BidOutcome = BidOutcome
  BY <1>1 DEF Ordering!Lanes, Lanes, Ordering!Locked, Locked, Ordering!GoNoGo, GoNoGo,
     Ordering!ToEstimator, ToEstimator, Ordering!Verify, Verify, Ordering!SendOut, SendOut,
     Ordering!Submitted, Submitted, Ordering!BidOutcome, BidOutcome
<1>3. \A l : Ordering!Complete(l) = Complete(l)
  BY <1>1 DEF Ordering!Complete, Complete
<1>4. Ordering!PastVerify = PastVerify /\ Ordering!GoneOutHeads = GoneOutHeads
  BY <1>2, <1>3 DEF Ordering!PastVerify, PastVerify, Ordering!GoneOutHeads, GoneOutHeads
<1>5. Ordering!Start = Start /\ Ordering!AllSubmitted = AllSubmitted
  BY <1>2, <1>3 DEF Ordering!Start, Start, Ordering!AllSubmitted, AllSubmitted
<1>6. \A x, l : Ordering!Active(x, l) <=> Active(x, l)
  BY <1>1 DEF Ordering!Active, Active
<1>7. \A l : Ordering!Prereqs[l] = Prereqs[l] /\ Ordering!SoftPrereqs(l) = SoftPrereqs(l)
  BY DEF Ordering!Prereqs, Prereqs, Ordering!SoftPrereqs, SoftPrereqs
<1>8. \A x, l : Ordering!HardMet(x, l) <=> HardMet(x, l)
  BY <1>3, <1>7 DEF Ordering!HardMet, HardMet
<1>9. \A x, l : Ordering!ShouldActivate(x, l) <=> ShouldActivate(x, l)
  BY <1>6, <1>7, <1>8 DEF Ordering!ShouldActivate, ShouldActivate
<1>. QED BY <1>2, <1>4, <1>5, <1>6, <1>9

\* A lane that a fan-out opens may be opened at that moment.
LEMMA MayOpen ==
    ASSUME Typed, Kept, Calm, NEW p \in Requests, req[p].at = "unlock"
    PROVE  LET l == FirstOf(req[p].opens) IN
           l \in Lanes /\ pos[l] = Locked /\ ShouldActivate(pos, l)
<1>0. /\ req[p].opens # {} /\ req[p].opens \subseteq Lanes /\ Begun(pos)
      /\ pos["intake"] = Complete("intake") /\ \A k \in req[p].opens : Ready(p, k)
  BY InHand DEF Knows, Asked, Typed, RowsOK
<1>1. PICK l : l = FirstOf(req[p].opens)
  OBVIOUS
<1>2. /\ l \in req[p].opens
      /\ l = "select_vendors" => "material_numbers" \notin req[p].opens
      /\ l = "markup" => "labor_numbers" \notin req[p].opens /\ "select_vendors" \notin req[p].opens
  BY <1>0, <1>1, FirstIs
<1>3. l \in Lanes /\ l # "intake" /\ pos[l] = Locked /\ Ready(p, l)
  BY <1>0, <1>2 DEF Ready
<1>4. /\ l = "select_vendors" => pos["material_numbers"] # 0
      /\ l = "markup" => pos["select_vendors"] # 0 /\ pos["labor_numbers"] # 0
      /\ l = "send_out" => HardMet(pos, l)
  BY <1>2, <1>3 DEF Ready, Coming, Locked
<1>5. pos["select_vendors"] \in 0 .. 2 /\ pos["labor_numbers"] \in 0 .. 2 /\ pos["intake"] = 4
  BY <1>0, Lengths DEF Begun, Positions
<1>6. ShouldActivate(pos, l)
  <2>1. CASE l \in {"material_numbers", "labor_numbers", "select_vendors", "send_out"}
    BY <1>0, <1>4, <1>5, <2>1, ActivateIs
  <2>2. CASE l = "markup"
    <3>1. \/ pos["select_vendors"] = 1 \/ pos["labor_numbers"] = 1
          \/ pos["select_vendors"] = 2 /\ pos["labor_numbers"] = 2
      BY <1>4, <1>5, <2>2
    <3>. QED BY <1>0, <2>2, <3>1, ActivateIs
  <2>. QED BY <1>3, <2>1, <2>2, Lengths
<1>. QED BY <1>1, <1>3, <1>6

LEMMA HandlerOrdered ==
    ASSUME Typed, Kept, Calm, NEW p \in Requests, Acts(p)
    PROVE  Prior' = Prior /\ (pos' = pos \/ Ordering!Next)
<1>0. Prior' = Prior
  BY MovedLane DEF Prior, Moved
<1>. USE DEF Ordering!Next, Prior
<1>1. ASSUME NEW l \in Lanes, Ordering!Forward(l) \/ Ordering!Open(l) PROVE Ordering!Next
  BY <1>1, SameTables
<1>2. CASE Move(p)
  <2>1. /\ Active(pos, req[p].lane) /\ req[p].lane \in Lanes
        /\ pos' = [pos EXCEPT ![req[p].lane] = req[p].to] /\ req[p].to = pos[req[p].lane] + 1
    BY <1>2, InHand DEF Move, Knows
  <2>2. pos' = [pos EXCEPT ![req[p].lane] = @ + 1]
    BY <2>1
  <2>3. Ordering!Forward(req[p].lane)
    BY <1>0, <2>1, <2>2, SameTables DEF Ordering!Forward
  <2>. QED BY <1>0, <1>1, <2>1, <2>3
<1>3. CASE Unlock(p)
  <2>1. PICK l : l = FirstOf(req[p].opens)
    OBVIOUS
  <2>2. req[p].at = "unlock" /\ pos' = [pos EXCEPT ![l] = 1]
    BY <1>3, <2>1 DEF Unlock, At
  <2>3. l \in Lanes /\ pos[l] = Locked /\ ShouldActivate(pos, l)
    BY <2>1, <2>2, MayOpen
  <2>4. Ordering!Open(l)
    BY <1>0, <2>2, <2>3, SameTables DEF Ordering!Open
  <2>. QED BY <1>0, <1>1, <2>3, <2>4
<1>4. CASE Decline(p) \/ Reopen(p)
  <2>1. /\ req[p].at \in {"decline", "reopen"} /\ pos' = [pos EXCEPT !["intake"] = GoNoGo]
    BY <1>4 DEF Decline, Reopen, Park, At
  <2>2. req[p].why \in {"no_go", "undo"}
    BY <2>1, InHand DEF OnRoute, Whys, OnIntake, OnSendOut, Moves
  <2>3. pos["intake"] = GoNoGo \/ pos["intake"] = ToEstimator
    BY <2>1, <2>2, InHand DEF KnowsIntake
  <2>4. CASE pos["intake"] = GoNoGo
    <3>1. pos' = pos
      BY <2>1, <2>4, InHand
    <3>. QED BY <1>0, <3>1
  <2>5. CASE pos["intake"] = ToEstimator
    <3>1. \A l \in Lanes \ {"intake"} : pos[l] = Locked
      BY <2>5, HeadsAre, Lengths DEF Kept, Shaped, Shape
    <3>2. Ordering!Reconsider
      BY <1>0, <2>1, <2>5, <3>1, SameTables DEF Ordering!Reconsider
    <3>. QED BY <1>0, <3>2
  <2>. QED BY <2>3, <2>4, <2>5
<1>5. CASE Return(p)
  <2>1. req[p].at = "return" /\ pos' = [pos EXCEPT !["send_out"] = req[p].to]
    BY <1>5 DEF Return
  <2>2. req[p].to \in PastVerify /\ pos["send_out"] = Verify
    BY <2>1, InHand, SendOutSteps DEF AskedOK, KnowsSendOut
  <2>3. Ordering!Return
    BY <1>0, <2>1, <2>2, SameTables DEF Ordering!Return
  <2>. QED BY <1>0, <2>3
<1>6. CASE Bounce(p)
  <2>1. req[p].at = "bounce" /\ (pos' = pos \/ (pos["send_out"] = req[p].head
                                  /\ pos' = [pos EXCEPT !["send_out"] = Verify]))
    BY <1>6 DEF Bounce
  <2>2. req[p].head \in PastVerify
    BY <2>1, InHand DEF AskedOK
  <2>3. pos' # pos => Ordering!Bounce
    BY <1>0, <2>1, <2>2, SameTables DEF Ordering!Bounce
  <2>. QED BY <1>0, <2>3
<1>7. CASE Request(p)
  BY <1>0, <1>7, BeginsOr DEF rows
<1>8. CASE Crash(p)
  BY <1>0, <1>8 DEF Crash, rows
<1>9. CASE Handler(p) /\ ~Move(p) /\ ~Unlock(p) /\ ~Decline(p) /\ ~Reopen(p) /\ ~Return(p) /\ ~Bounce(p)
  <2>1. pos' = pos
    BY <1>9 DEF Handler, Load, Fanout, ReadHeadline, WriteHeadline, Kill, Decide, Price, Commit,
       Resume, Unmark, Look, Mark, Reset, Record, rows
  <2>. QED BY <1>0, <2>1
<1>. QED BY <1>2, <1>3, <1>4, <1>5, <1>6, <1>7, <1>8, <1>9 DEF Acts

\* Every write of a lane by services/workflow.py, by the routers that lead to it and by the
\* two stored procedures is one step of StageOrdering, or none: a lane goes on one task at
\* a time, a locked lane opens only when its prerequisites allow it, a bid past Verify goes
\* back there and returns, and a submission is recorded and undone as a whole.
THEOREM InOrdering == ASSUME Calm PROVE Spec => ImplementsOrdering
<1>1. Init => Ordering!Init
  BY SameTables DEF Init, Ordering!Init
<1>2. IInv /\ [Next]_vars => [Ordering!Next]_<<pos, Prior>>
  <2>. SUFFICES ASSUME IInv, [Next]_vars PROVE Ordering!Next \/ UNCHANGED <<pos, Prior>>
    OBVIOUS
  <2>0. Typed /\ Kept
    BY DEF IInv
  <2>1. ASSUME NEW p \in Requests, Acts(p) PROVE Ordering!Next \/ UNCHANGED <<pos, Prior>>
    BY <2>0, <2>1, HandlerOrdered
  <2>2. ASSUME NEW undoable \in BOOLEAN, MarkSubmitted(undoable) PROVE Ordering!Next
    <3>1. pos["intake"] > GoNoGo /\ pos["send_out"] \notin GoneOutHeads /\ pos' = AllSubmitted
      BY <2>2 DEF MarkSubmitted, MaySubmit, GoneOut
    <3>2. Prior' \in {None, pos}
      BY <2>2 DEF MarkSubmitted, Prior
    <3>3. Ordering!Submit
      BY <3>1, <3>2, SameTables DEF Ordering!Submit, Prior
    <3>. QED BY <3>3 DEF Ordering!Next
  <2>3. CASE UndoSubmitted
    <3>1. external.pos \in Positions
      BY <2>0, <2>3 DEF UndoSubmitted, Typed, RowsOK, Saved
    <3>2. /\ Prior = external.pos /\ Prior # None /\ pos["send_out"] = Submitted
          /\ pos' = external.pos /\ Prior' = None
      BY <2>3, <3>1 DEF UndoSubmitted, Prior
    <3>3. Ordering!Revert
      BY <3>2, SameTables DEF Ordering!Revert, Prior
    <3>. QED BY <3>3 DEF Ordering!Next
  <2>4. CASE UNCHANGED vars
    BY <2>4 DEF vars, rows, Prior
  <2>. QED BY <2>1, <2>2, <2>3, <2>4 DEF Next, Acts
<1>. QED BY <1>1, <1>2, Invariance, PTL DEF Spec, ImplementsOrdering, Ordering!Spec, Prior
=============================================================================
