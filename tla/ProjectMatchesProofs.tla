----------------------- MODULE ProjectMatchesProofs -----------------------
(***************************************************************************)
(* Theorems about ProjectMatches for any emails, projects, people and      *)
(* bounds, and Calm either way unless a theorem assumes it.                *)
(***************************************************************************)
EXTENDS ProjectMatches, TLAPS

Hands == [at : Steps, email : Emails \cup {None}, project : Projects \cup {None},
          kind : Statuses \cup {None}, row : 0..MaxRows, held : BOOLEAN, todo : SUBSET Rows]

MatchRows == [email : Emails \cup {None}, project : Projects \cup {None},
              kind : Kinds \cup {None}, state : RowStates, added : BOOLEAN]

\* A match row that was inserted names its email, its project and its kind.
RowOK(r) ==
    r.state # "free" => r.email \in Emails /\ r.project \in Projects /\ r.kind \in Kinds

\* What a thread needs for its next step is in its hand.
HandOK(l, rows) ==
    /\ l.at \in DecisionSteps =>
         l.email \in Emails /\ l.project \in Projects /\ l.kind \in Kinds
    /\ l.at \in DecisionSteps \ {"check", "open", "insert"} =>
         l.row \in Rows /\ rows[l.row].state # "free"
    /\ l.at = "judged" =>
         /\ l.email \in Emails
         /\ \/ l.kind \in Kinds /\ l.project \in Projects
            \/ l.kind \in {"review_match", "onward"}
    /\ l.at = "reject" => l.kind \in {"onward", "rejected_by_review"}
    /\ l.at \in UnmergeSteps => l.project \in Projects /\ l.row \in Rows
    /\ l.at = "park" => l.email \in Emails

EmailsOK == /\ status \in [Emails -> Statuses]
            /\ target \in [Emails -> Projects \cup {None}]
            /\ excluded \in [Emails -> SUBSET Projects]
LinksOK == /\ link \in [Projects -> [id : 0..MaxRows, match : 0..MaxRows] \cup {None}]
           /\ sent \in [Projects -> {"no", "sending", "sent"}]
           /\ shut \in SUBSET Projects
RowsOK == matches \in [Rows -> MatchRows] /\ \A m \in Rows : RowOK(matches[m])
HandsOK == th \in [Threads -> Hands] /\ \A t \in Threads : HandOK(th[t], matches)
OneOpenRow == \A e \in Emails : \A m, n \in OpenRows(e) : m = n

IInv == EmailsOK /\ LinksOK /\ RowsOK /\ HandsOK /\ OneOpenRow

USE MatchesAssumption

LEMMA Typed == IInv => TypeOK
BY DEF IInv, EmailsOK, LinksOK, RowsOK, HandsOK, OneOpenRow, TypeOK, MatchRows, Hands

-----------------------------------------------------------------------------
(* Steps that change one hand, and no row from inserted to free. *)

Inserted(m) == matches[m].state # "free"
Keeps == \A m \in Rows : Inserted(m) => matches'[m].state # "free"

\* Thread t takes l.
Takes(t, l) == th' = [th EXCEPT ![t] = l] /\ l \in Hands /\ HandOK(l, matches')

LEMMA Taken ==
    ASSUME HandsOK, Keeps, NEW t \in Threads, NEW l, Takes(t, l)
    PROVE  HandsOK'
BY DEF HandsOK, Keeps, Takes, HandOK, Inserted

LEMMA IdleHand == Idle \in Hands
BY DEF Idle, Hands, Steps, Rows

LEMMA IdleTaken ==
    ASSUME NEW t, Ends(t)
    PROVE  Takes(t, Idle)
BY IdleHand DEF Ends, Takes, Idle, HandOK, DecisionSteps, UnmergeSteps

LEMMA Going ==
    ASSUME HandsOK, NEW t \in Threads, NEW step \in Steps, Goes(t, step),
           HandOK([th[t] EXCEPT !.at = step], matches')
    PROVE  Takes(t, [th[t] EXCEPT !.at = step])
BY DEF HandsOK, Goes, Takes, Hands

LEMMA SameRows ==
    ASSUME RowsOK, OneOpenRow, UNCHANGED matches
    PROVE  RowsOK' /\ OneOpenRow' /\ Keeps
BY DEF RowsOK, RowOK, OneOpenRow, OpenRows, Keeps, Inserted

LEMMA RefusedHand ==
    ASSUME HandsOK, NEW t \in Threads, th[t].email \in Emails, Refused(t)
    PROVE  \E l : Takes(t, l)
<1>1. CASE t = Sweep
  <2>1. HandOK([th[t] EXCEPT !.at = "park"], matches')
    BY DEF HandsOK, Hands, HandOK, DecisionSteps, UnmergeSteps
  <2>. QED BY <1>1, <2>1, Going DEF Refused, Steps
<1>2. CASE t # Sweep
  BY <1>2, IdleTaken DEF Refused
<1>. QED BY <1>1, <1>2

LEMMA FailedHand ==
    ASSUME EmailsOK, NEW t \in Threads, Failed(t)
    PROVE  Takes(t, Idle) /\ status' \in [Emails -> Statuses]
BY IdleTaken DEF EmailsOK, Failed, Moves, Statuses

\* One row is superseded, closed, deleted or marked.
LEMMA OneRow ==
    ASSUME RowsOK, OneOpenRow, NEW m \in Rows, NEW r \in MatchRows,
           matches' = [matches EXCEPT ![m] = r], RowOK(r), r.state # "free",
           r.state = "open" => matches[m].state = "open" /\ matches[m].email = r.email
    PROVE  RowsOK' /\ OneOpenRow' /\ Keeps
<1>1. \A k \in Rows : matches'[k] = IF k = m THEN r ELSE matches[k]
  BY DEF RowsOK
<1>2. RowsOK' /\ Keeps
  BY <1>1 DEF RowsOK, RowOK, Keeps, Inserted
<1>3. ASSUME NEW e \in Emails PROVE OpenRows(e)' \subseteq OpenRows(e)
  BY <1>1 DEF OpenRows
<1>. QED BY <1>2, <1>3 DEF OneOpenRow

\* Steps that leave the match rows alone.
LEMMA HandOnly ==
    ASSUME IInv, EmailsOK', LinksOK', UNCHANGED matches, NEW t \in Threads,
           \E l : Takes(t, l)
    PROVE  IInv'
BY SameRows, Taken DEF IInv

LEMMA NoHand ==
    ASSUME IInv, EmailsOK', LinksOK', UNCHANGED <<matches, th>>
    PROVE  IInv'
BY SameRows DEF IInv, HandsOK

-----------------------------------------------------------------------------
(* The steps of a decision *)

LEMMA MeetOpenRowKeeps ==
    ASSUME IInv, NEW t \in Threads, MeetOpenRow(t)
    PROVE  IInv'
<1>. DEFINE e == th[t].email
<1>1. EmailsOK' /\ LinksOK'
  BY DEF IInv, EmailsOK, LinksOK, MeetOpenRow, tables, others
<1>2. /\ e \in Emails /\ th[t].project \in Projects /\ th[t].kind \in Kinds
      /\ th[t] \in Hands
  BY DEF IInv, HandsOK, HandOK, MeetOpenRow, DecisionSteps
<1>3. CASE UNCHANGED tables /\ Goes(t, "insert")
  <2>1. HandOK([th[t] EXCEPT !.at = "insert"], matches')
    BY <1>2 DEF HandOK, Hands, DecisionSteps, UnmergeSteps
  <2>. QED BY <1>1, <1>3, <2>1, SameRows, Going, Taken
           DEF IInv, tables, Steps, DecisionSteps
<1>4. CASE UNCHANGED tables /\ Refused(t)
  BY <1>1, <1>2, <1>4, RefusedHand, SameRows, Taken DEF IInv, tables
<1>5. ASSUME NEW m \in OpenRows(e), UNCHANGED tables,
             th' = [th EXCEPT ![t].row = m, ![t].held = StillLinked(m),
                              ![t].at = IF matches[m].added THEN "cas" ELSE "link"]
      PROVE  IInv'
  <2>. DEFINE l == [th[t] EXCEPT !.row = m, !.held = StillLinked(m),
                                 !.at = IF matches[m].added THEN "cas" ELSE "link"]
  <2>1. th' = [th EXCEPT ![t] = l]
    BY <1>5 DEF IInv, HandsOK
  <2>2. l \in Hands
    <3>1. StillLinked(m) \in BOOLEAN
      BY DEF StillLinked
    <3>2. m \in 0..MaxRows
      BY MatchesAssumption DEF OpenRows, Rows
    <3>. HIDE DEF l
    <3>3. l.at \in Steps /\ l = [th[t] EXCEPT !.row = m, !.held = StillLinked(m), !.at = l.at]
      BY <1>2 DEF l, Hands, Steps, DecisionSteps
    <3>. QED BY <1>2, <3>1, <3>2, <3>3 DEF Hands
  <2>3. HandOK(l, matches')
    BY <1>2, <1>5 DEF HandOK, Hands, DecisionSteps, UnmergeSteps, OpenRows, tables
  <2>. QED BY <1>1, <1>5, <2>1, <2>2, <2>3, SameRows, Taken DEF IInv, Takes, tables
<1>6. ASSUME NEW m \in OpenRows(e), matches' = [matches EXCEPT ![m].state = "superseded"],
             Goes(t, "insert")
      PROVE  IInv'
  <2>1. HandOK([th[t] EXCEPT !.at = "insert"], matches')
    BY <1>2 DEF HandOK, Hands, DecisionSteps, UnmergeSteps
  <2>2. RowsOK' /\ OneOpenRow' /\ Keeps
    <3>. DEFINE r == [matches[m] EXCEPT !.state = "superseded"]
    <3>1. matches' = [matches EXCEPT ![m] = r] /\ r \in MatchRows /\ RowOK(r) /\ m \in Rows
      BY <1>6 DEF IInv, RowsOK, RowOK, MatchRows, RowStates, OpenRows
    <3>. QED BY <3>1, OneRow DEF IInv, RowsOK, MatchRows
  <2>. QED BY <1>1, <1>6, <2>1, <2>2, Going, Taken DEF IInv, Steps, DecisionSteps
<1>. QED BY <1>3, <1>4, <1>5, <1>6 DEF MeetOpenRow

LEMMA InsertRowKeeps ==
    ASSUME IInv, NEW t \in Threads, InsertRow(t)
    PROVE  IInv'
<1>. DEFINE e == th[t].email
<1>1. /\ e \in Emails /\ th[t].project \in Projects /\ th[t].kind \in Kinds
      /\ th[t] \in Hands
  BY DEF IInv, HandsOK, HandOK, InsertRow, DecisionSteps
<1>2. LinksOK'
  BY DEF IInv, LinksOK, InsertRow, others
<1>3. CASE Failed(t) /\ UNCHANGED matches
  <2>1. EmailsOK'
    BY <1>3, FailedHand DEF IInv, EmailsOK, InsertRow
  <2>. QED BY <1>2, <1>3, <2>1, FailedHand, HandOnly DEF IInv
<1>4. ASSUME OpenRows(e) = {}, UNCHANGED status, NEW m \in Rows,
             matches[m].state = "free",
             matches' = [matches EXCEPT ![m] =
               [email |-> e, project |-> th[t].project, kind |-> th[t].kind,
                state |-> "open", added |-> FALSE]],
             th' = [th EXCEPT ![t].row = m,
                      ![t].at = IF th[t].kind = "merged" THEN "link" ELSE "cas"]
      PROVE  IInv'
  <2>. DEFINE r == [email |-> e, project |-> th[t].project, kind |-> th[t].kind,
                    state |-> "open", added |-> FALSE]
              l == [th[t] EXCEPT !.row = m,
                                 !.at = IF th[t].kind = "merged" THEN "link" ELSE "cas"]
  <2>1. EmailsOK'
    BY <1>4 DEF IInv, EmailsOK, InsertRow
  <2>2. r \in MatchRows /\ RowOK(r)
    BY <1>1 DEF MatchRows, RowOK, RowStates
  <2>. HIDE DEF r
  <2>3. \A k \in Rows : matches'[k] = IF k = m THEN r ELSE matches[k]
    BY <1>4 DEF IInv, RowsOK, r
  <2>4. RowsOK' /\ Keeps
    BY <1>4, <2>2, <2>3 DEF IInv, RowsOK, RowOK, Keeps, Inserted, r
  <2>5. ASSUME NEW f \in Emails PROVE OpenRows(f)' = IF f = e THEN {m} ELSE OpenRows(f)
    <3>1. r.email = e /\ r.state = "open"
      BY DEF r
    <3>. QED BY <1>4, <2>3, <3>1 DEF OpenRows
  <2>6. OneOpenRow'
    BY <2>5 DEF IInv, OneOpenRow
  <2>7. Takes(t, l)
    <3>1. th' = [th EXCEPT ![t] = l]
      BY <1>4 DEF IInv, HandsOK
    <3>2. m \in 0..MaxRows
      BY MatchesAssumption DEF Rows
    <3>3. l \in Hands
      BY <1>1, <3>2 DEF Hands, Steps, DecisionSteps
    <3>4. matches'[m].state = "open"
      BY <2>3 DEF r
    <3>5. HandOK(l, matches')
      BY <1>1, <3>4 DEF HandOK, Hands, DecisionSteps, UnmergeSteps
    <3>. QED BY <3>1, <3>3, <3>5 DEF Takes
  <2>. HIDE DEF l
  <2>. QED BY <1>2, <2>1, <2>4, <2>6, <2>7, Taken DEF IInv
<1>. QED BY <1>3, <1>4 DEF InsertRow

LEMMA InsertLinkKeeps ==
    ASSUME IInv, NEW t \in Threads, InsertLink(t)
    PROVE  IInv'
<1>. DEFINE p == th[t].project
<1>1. /\ th[t].email \in Emails /\ p \in Projects /\ th[t].kind \in Kinds
      /\ th[t].row \in Rows /\ Inserted(th[t].row) /\ th[t] \in Hands
  BY DEF IInv, HandsOK, HandOK, InsertLink, DecisionSteps, Inserted
<1>2. LinksOK'
  BY <1>1 DEF IInv, LinksOK, InsertLink, others, Hands
<1>3. EmailsOK'
  BY FailedHand DEF IInv, EmailsOK, InsertLink
<1>4. UNCHANGED matches
  BY DEF InsertLink
<1>5. \E l : Takes(t, l)
  <2>1. CASE Failed(t)
    BY <2>1, FailedHand DEF IInv
  <2>2. ASSUME NEW step \in {"exists", "mark"}, Goes(t, step) PROVE \E l : Takes(t, l)
    <3>1. HandOK([th[t] EXCEPT !.at = step], matches')
      BY <1>1, <1>4, <2>2 DEF HandOK, Hands, DecisionSteps, UnmergeSteps, Inserted
    <3>. QED BY <2>2, <3>1, Going DEF IInv, Steps, DecisionSteps
  <2>. QED BY <2>1, <2>2 DEF InsertLink
<1>. QED BY <1>2, <1>3, <1>4, <1>5, HandOnly

LEMMA MeetLinkKeeps ==
    ASSUME IInv, NEW t \in Threads, MeetLink(t)
    PROVE  IInv'
<1>. DEFINE m == th[t].row
<1>1. /\ th[t].email \in Emails /\ th[t].project \in Projects /\ th[t].kind \in Kinds
      /\ m \in Rows /\ Inserted(m) /\ th[t] \in Hands
  BY DEF IInv, HandsOK, HandOK, MeetLink, DecisionSteps, Inserted
<1>2. EmailsOK' /\ LinksOK'
  BY DEF IInv, EmailsOK, LinksOK, MeetLink, others
<1>3. CASE Goes(t, "mark") /\ UNCHANGED matches
  <2>1. HandOK([th[t] EXCEPT !.at = "mark"], matches')
    BY <1>1, <1>3 DEF HandOK, Hands, DecisionSteps, UnmergeSteps, Inserted
  <2>. QED BY <1>2, <1>3, <2>1, Going, HandOnly DEF IInv, Steps, DecisionSteps
<1>4. ASSUME matches' = [matches EXCEPT ![m].kind =
               IF matches[m].state = "deleted" THEN @ ELSE "duplicate"],
             th' = [th EXCEPT ![t].at = "cas", ![t].kind = "duplicate"]
      PROVE  IInv'
  <2>. DEFINE r == [matches[m] EXCEPT !.kind =
                      IF matches[m].state = "deleted" THEN @ ELSE "duplicate"]
              l == [th[t] EXCEPT !.at = "cas", !.kind = "duplicate"]
  <2>1. r \in MatchRows /\ RowOK(r) /\ r.state = matches[m].state /\ r.email = matches[m].email
    BY <1>1 DEF IInv, RowsOK, RowOK, MatchRows, Kinds
  <2>2. matches' = [matches EXCEPT ![m] = r]
    BY <1>4 DEF IInv, RowsOK
  <2>. HIDE DEF r
  <2>3. RowsOK' /\ OneOpenRow' /\ Keeps
    BY <1>1, <2>1, <2>2, OneRow DEF IInv, Inserted
  <2>4. Takes(t, l)
    <3>1. th' = [th EXCEPT ![t] = l]
      BY <1>4 DEF IInv, HandsOK
    <3>2. l \in Hands
      BY <1>1 DEF Hands, Steps, DecisionSteps, Statuses
    <3>3. HandOK(l, matches')
      BY <1>1, <2>3 DEF HandOK, Hands, DecisionSteps, UnmergeSteps, Keeps, Kinds
    <3>. QED BY <3>1, <3>2, <3>3 DEF Takes
  <2>. HIDE DEF l
  <2>. QED BY <1>2, <2>3, <2>4, Taken DEF IInv
<1>. QED BY <1>3, <1>4 DEF MeetLink

LEMMA MarkAddedKeeps ==
    ASSUME IInv, NEW t \in Threads, MarkAdded(t)
    PROVE  IInv'
<1>. DEFINE m == th[t].row
<1>1. /\ th[t].email \in Emails /\ th[t].project \in Projects /\ th[t].kind \in Kinds
      /\ m \in Rows /\ Inserted(m) /\ th[t] \in Hands
  BY DEF IInv, HandsOK, HandOK, MarkAdded, DecisionSteps, Inserted
<1>2. LinksOK'
  BY DEF IInv, LinksOK, MarkAdded, others
<1>3. EmailsOK'
  BY FailedHand DEF IInv, EmailsOK, MarkAdded
<1>4. CASE Failed(t) /\ UNCHANGED matches
  BY <1>2, <1>3, <1>4, FailedHand, HandOnly DEF IInv
<1>5. ASSUME NEW added \in BOOLEAN, matches' = [matches EXCEPT ![m].added = added],
             th' = [th EXCEPT ![t].at = "cas", ![t].held = TRUE]
      PROVE  IInv'
  <2>. DEFINE r == [matches[m] EXCEPT !.added = added]
              l == [th[t] EXCEPT !.at = "cas", !.held = TRUE]
  <2>1. r \in MatchRows /\ RowOK(r) /\ r.state = matches[m].state /\ r.email = matches[m].email
    BY <1>1 DEF IInv, RowsOK, RowOK, MatchRows
  <2>2. matches' = [matches EXCEPT ![m] = r]
    BY <1>5 DEF IInv, RowsOK
  <2>. HIDE DEF r
  <2>3. RowsOK' /\ OneOpenRow' /\ Keeps
    BY <1>1, <2>1, <2>2, OneRow DEF IInv, Inserted
  <2>4. Takes(t, l)
    <3>1. th' = [th EXCEPT ![t] = l]
      BY <1>5 DEF IInv, HandsOK
    <3>2. l \in Hands
      BY <1>1 DEF Hands, Steps, DecisionSteps
    <3>3. HandOK(l, matches')
      BY <1>1, <2>3 DEF HandOK, Hands, DecisionSteps, UnmergeSteps, Keeps
    <3>. QED BY <3>1, <3>2, <3>3 DEF Takes
  <2>. HIDE DEF l
  <2>. QED BY <1>2, <1>3, <2>3, <2>4, Taken DEF IInv
<1>. QED BY <1>4, <1>5 DEF MarkAdded

LEMMA DecideEmailKeeps ==
    ASSUME IInv, NEW t \in Threads, DecideEmail(t)
    PROVE  IInv'
<1>1. /\ th[t].email \in Emails /\ th[t].project \in Projects /\ th[t].kind \in Kinds
      /\ th[t].row \in Rows /\ Inserted(th[t].row) /\ th[t] \in Hands
  BY DEF IInv, HandsOK, HandOK, DecideEmail, DecisionSteps, Inserted
<1>2. EmailsOK' /\ LinksOK' /\ UNCHANGED matches
  BY <1>1 DEF IInv, EmailsOK, LinksOK, DecideEmail, Moves, Kinds, Statuses, others
<1>3. \E l : Takes(t, l)
  <2>1. CASE Ends(t)
    BY <2>1, IdleTaken
  <2>2. ASSUME NEW step \in {"unlink", "unrow"}, Goes(t, step) PROVE \E l : Takes(t, l)
    <3>1. HandOK([th[t] EXCEPT !.at = step], matches')
      BY <1>1, <1>2, <2>2 DEF HandOK, Hands, DecisionSteps, UnmergeSteps, Inserted
    <3>. QED BY <2>2, <3>1, Going DEF IInv, Steps, DecisionSteps
  <2>. QED BY <2>1, <2>2 DEF DecideEmail
<1>. QED BY <1>2, <1>3, HandOnly

LEMMA UndoLinkKeeps ==
    ASSUME IInv, NEW t \in Threads, UndoLink(t)
    PROVE  IInv'
<1>1. /\ th[t].email \in Emails /\ th[t].project \in Projects /\ th[t].kind \in Kinds
      /\ th[t].row \in Rows /\ Inserted(th[t].row) /\ th[t] \in Hands
  BY DEF IInv, HandsOK, HandOK, UndoLink, DecisionSteps, Inserted
<1>2. EmailsOK' /\ LinksOK' /\ UNCHANGED matches
  BY <1>1 DEF IInv, EmailsOK, LinksOK, UndoLink, others
<1>3. \E l : Takes(t, l)
  <2>1. CASE Refused(t)
    BY <1>1, <2>1, RefusedHand DEF IInv
  <2>2. CASE Goes(t, "unrow")
    <3>1. HandOK([th[t] EXCEPT !.at = "unrow"], matches')
      BY <1>1, <1>2 DEF HandOK, Hands, DecisionSteps, UnmergeSteps, Inserted
    <3>. QED BY <2>2, <3>1, Going DEF IInv, Steps, DecisionSteps
  <2>. QED BY <2>1, <2>2 DEF UndoLink
<1>. QED BY <1>2, <1>3, HandOnly

LEMMA UndoRowKeeps ==
    ASSUME IInv, NEW t \in Threads, UndoRow(t)
    PROVE  IInv'
<1>. DEFINE m == th[t].row
            r == [matches[m] EXCEPT !.state = "deleted"]
<1>1. /\ th[t].email \in Emails /\ m \in Rows /\ Inserted(m)
  BY DEF IInv, HandsOK, HandOK, UndoRow, DecisionSteps, Inserted
<1>2. EmailsOK'
  BY DEF IInv, EmailsOK, UndoRow
<1>3. LinksOK'
  <2>1. ASSUME NEW p \in Projects
        PROVE  (IF OnProject(p) /\ link[p].match = m THEN [link[p] EXCEPT !.match = 0]
                ELSE link[p]) \in [id : 0..MaxRows, match : 0..MaxRows] \cup {None}
    <3>1. link[p] \in [id : 0..MaxRows, match : 0..MaxRows] \cup {None}
      BY DEF IInv, LinksOK
    <3>2. 0 \in 0..MaxRows
      BY MatchesAssumption
    <3>. QED BY <3>1, <3>2 DEF OnProject
  <2>. QED BY <2>1 DEF IInv, LinksOK, UndoRow, others
<1>4. RowsOK' /\ OneOpenRow' /\ Keeps
  <2>1. r \in MatchRows /\ RowOK(r) /\ r.state = "deleted"
    BY <1>1 DEF IInv, RowsOK, RowOK, MatchRows, RowStates, Inserted
  <2>2. matches' = [matches EXCEPT ![m] = r]
    BY DEF IInv, RowsOK, UndoRow
  <2>. HIDE DEF r
  <2>. QED BY <1>1, <2>1, <2>2, OneRow DEF IInv
<1>5. \E l : Takes(t, l)
  BY <1>1, RefusedHand DEF IInv, UndoRow
<1>. QED BY <1>2, <1>3, <1>4, <1>5, Taken DEF IInv

LEMMA DecisionKeeps ==
    ASSUME IInv, NEW t \in Threads, Decision(t)
    PROVE  IInv'
BY MeetOpenRowKeeps, InsertRowKeeps, InsertLinkKeeps, MeetLinkKeeps, MarkAddedKeeps,
   DecideEmailKeeps, UndoLinkKeeps, UndoRowKeeps DEF Decision

-----------------------------------------------------------------------------
(* The sweep *)

LEMMA SweepKeeps ==
    ASSUME IInv, SweepChecks \/ SweepRoutes \/ SweepParks
    PROVE  IInv'
<1>. Sweep \in Threads
  BY DEF Threads
<1>1. th[Sweep] \in Hands /\ HandOK(th[Sweep], matches)
  BY DEF IInv, HandsOK
<1>2. UNCHANGED matches /\ LinksOK'
  BY DEF IInv, LinksOK, SweepChecks, SweepRoutes, SweepParks, tables, others
<1>3. EmailsOK'
  BY <1>1 DEF IInv, EmailsOK, HandOK, SweepChecks, SweepRoutes, SweepParks, Moves, Kinds,
              Statuses, tables
<1>4. \E l : Takes(Sweep, l)
  <2>1. CASE Ends(Sweep)
    BY <2>1, IdleTaken
  <2>2. CASE th[Sweep].at = "check" /\ Goes(Sweep, "open")
    <3>1. HandOK([th[Sweep] EXCEPT !.at = "open"], matches')
      BY <1>1, <2>2 DEF HandOK, Hands, DecisionSteps, UnmergeSteps
    <3>. QED BY <2>2, <3>1, Going DEF IInv, Steps, DecisionSteps
  <2>3. CASE th[Sweep].at = "check" /\ Refused(Sweep)
    BY <1>1, <2>3, RefusedHand DEF IInv, HandOK, DecisionSteps
  <2>4. CASE th[Sweep].at = "judged" /\ th[Sweep].kind \in Kinds /\ Goes(Sweep, "check")
    <3>1. HandOK([th[Sweep] EXCEPT !.at = "check"], matches')
      BY <1>1, <2>4 DEF HandOK, Hands, DecisionSteps, UnmergeSteps, Kinds
    <3>. QED BY <2>4, <3>1, Going DEF IInv, Steps, DecisionSteps
  <2>. QED BY <2>1, <2>2, <2>3, <2>4 DEF SweepChecks, SweepRoutes, SweepParks
<1>. QED BY <1>2, <1>3, <1>4, HandOnly

LEMMA SweepRowKeeps ==
    ASSUME IInv, NEW e \in Emails, SweepRow(e)
    PROVE  IInv'
<1>. Sweep \in Threads
  BY DEF Threads
<1>1. EmailsOK' /\ LinksOK' /\ UNCHANGED matches
  BY DEF IInv, EmailsOK, LinksOK, SweepRow, tables, others
<1>2. ASSUME NEW step \in {"check", "judged"}, NEW p \in Projects, NEW kind \in Kinds,
             th' = [th EXCEPT ![Sweep] = [Idle EXCEPT !.at = step, !.email = e,
                                                      !.project = p, !.kind = kind]]
      PROVE  \E l : Takes(Sweep, l)
  <2>. DEFINE l == [Idle EXCEPT !.at = step, !.email = e, !.project = p, !.kind = kind]
  <2>1. l \in Hands
    BY IdleHand DEF Hands, Steps, DecisionSteps, Kinds, Statuses
  <2>2. HandOK(l, matches')
    BY DEF Idle, HandOK, DecisionSteps, UnmergeSteps, Kinds
  <2>. QED BY <1>2, <2>1, <2>2 DEF Takes
<1>3. ASSUME NEW verdict \in {"review_match", "onward"},
             th' = [th EXCEPT ![Sweep] =
                      [Idle EXCEPT !.at = "judged", !.email = e, !.kind = verdict]]
      PROVE  \E l : Takes(Sweep, l)
  <2>. DEFINE l == [Idle EXCEPT !.at = "judged", !.email = e, !.kind = verdict]
  <2>1. l \in Hands
    BY IdleHand DEF Hands, Steps, DecisionSteps, Statuses
  <2>2. HandOK(l, matches')
    BY DEF Idle, HandOK, DecisionSteps, UnmergeSteps
  <2>. QED BY <1>3, <2>1, <2>2 DEF Takes
<1>4. ASSUME NEW m \in OpenRows(e) PROVE matches[m].project \in Projects
  BY DEF IInv, RowsOK, RowOK, OpenRows
<1>5. {"merged", "duplicate"} \subseteq Kinds
  BY DEF Kinds
<1>. QED BY ZenonT(60), <1>1, <1>2, <1>3, <1>4, <1>5, HandOnly DEF SweepRow

-----------------------------------------------------------------------------
(* What people do *)

LEMMA PersonDecidesKeeps ==
    ASSUME IInv, NEW h \in Threads, NEW e \in Emails, NEW p \in Projects, NEW kind \in Kinds,
           PersonDecides(h, e, p, kind)
    PROVE  IInv'
<1>. DEFINE l == [Idle EXCEPT !.at = "open", !.email = e, !.project = p, !.kind = kind]
<1>1. EmailsOK' /\ LinksOK' /\ UNCHANGED matches
  BY DEF IInv, EmailsOK, LinksOK, PersonDecides, Command, tables
<1>2. l \in Hands
  BY IdleHand DEF Hands, Steps, DecisionSteps, Kinds, Statuses
<1>3. HandOK(l, matches')
  BY DEF Idle, HandOK, DecisionSteps, UnmergeSteps
<1>4. Takes(h, l)
  BY <1>2, <1>3 DEF Takes, PersonDecides
<1>. QED BY <1>1, <1>4, HandOnly

LEMMA StartUnmergeKeeps ==
    ASSUME IInv, NEW h \in Threads, NEW m \in Rows, StartUnmerge(h, m)
    PROVE  IInv'
<1>. DEFINE r == matches[m]
            l == th'[h]
<1>1. EmailsOK' /\ LinksOK' /\ UNCHANGED matches
  BY DEF IInv, EmailsOK, LinksOK, StartUnmerge, Command, tables
<1>2. r.email \in Emails /\ r.project \in Projects /\ r.added \in BOOLEAN
  BY DEF IInv, RowsOK, RowOK, MatchRows, StartUnmerge
<1>3. m \in 0..MaxRows
  BY MatchesAssumption DEF Rows
<1>4. ASSUME NEW step \in {"detach", "close", "return"}, NEW held \in BOOLEAN,
             th' = [th EXCEPT ![h] = [Idle EXCEPT !.at = step, !.email = r.email,
                                 !.project = r.project, !.row = m, !.held = held]]
      PROVE  \E k : Takes(h, k)
  <2>. DEFINE k == [Idle EXCEPT !.at = step, !.email = r.email, !.project = r.project,
                                !.row = m, !.held = held]
  <2>1. k \in Hands
    BY <1>2, <1>3, IdleHand DEF Hands, Steps, UnmergeSteps
  <2>2. HandOK(k, matches')
    BY <1>2 DEF Idle, HandOK, DecisionSteps, UnmergeSteps
  <2>. QED BY <1>4, <2>1, <2>2 DEF Takes
<1>5. StillLinked(m) \in BOOLEAN /\ (r.added /\ ~StillLinked(m)) \in BOOLEAN
  BY DEF StillLinked
<1>6. CASE r.state = "open"
  <2>1. th' = [th EXCEPT ![h] = [Idle EXCEPT
                 !.at = IF StillLinked(m) THEN "detach" ELSE "close", !.email = r.email,
                 !.project = r.project, !.row = m, !.held = StillLinked(m)]]
    BY ZenonT(60), <1>6 DEF StartUnmerge, Idle
  <2>. QED BY <1>1, <1>4, <1>5, <2>1, HandOnly
<1>7. CASE r.state # "open"
  <2>1. th' = [th EXCEPT ![h] = [Idle EXCEPT !.at = "return", !.email = r.email,
                 !.project = r.project, !.row = m, !.held = r.added /\ ~StillLinked(m)]]
    BY <1>7 DEF StartUnmerge, Idle
  <2>. QED BY <1>1, <1>4, <1>5, <2>1, HandOnly
<1>. QED BY <1>6, <1>7

LEMMA UnmergingKeeps ==
    ASSUME IInv, NEW h \in Threads,
           Detach(h) \/ ReturnEmail(h) \/ SelectDuplicates(h) \/ ReturnDuplicate(h)
    PROVE  IInv'
<1>1. th[h] \in Hands /\ th[h].project \in Projects /\ th[h].row \in Rows
  BY DEF IInv, HandsOK, HandOK, UnmergeSteps, Detach, ReturnEmail, SelectDuplicates,
         ReturnDuplicate
<1>2. UNCHANGED matches /\ LinksOK'
  BY DEF IInv, LinksOK, Detach, ReturnEmail, SelectDuplicates, ReturnDuplicate, tables, others
<1>3. EmailsOK'
  BY <1>1 DEF IInv, EmailsOK, Detach, ReturnEmail, SelectDuplicates, ReturnDuplicate,
              Returned, Moves, Statuses, tables
<1>4. \E l : Takes(h, l)
  <2>1. CASE Ends(h)
    BY <2>1, IdleTaken
  <2>2. ASSUME NEW step \in {"close", "select", "cascade"}, Goes(h, step)
        PROVE  \E l : Takes(h, l)
    <3>1. HandOK([th[h] EXCEPT !.at = step], matches')
      BY <1>1, <2>2 DEF HandOK, Hands, DecisionSteps, UnmergeSteps
    <3>. QED BY <2>2, <3>1, Going DEF IInv, Steps, UnmergeSteps
  <2>3. ASSUME NEW todo \in SUBSET Rows,
               th' = [th EXCEPT ![h].at = "cascade", ![h].todo = todo]
        PROVE  \E l : Takes(h, l)
    <3>. DEFINE l == [th[h] EXCEPT !.at = "cascade", !.todo = todo]
    <3>1. th' = [th EXCEPT ![h] = l]
      BY <2>3 DEF IInv, HandsOK
    <3>2. l \in Hands
      BY <1>1 DEF Hands, Steps, UnmergeSteps
    <3>3. HandOK(l, matches')
      BY <1>1 DEF HandOK, Hands, DecisionSteps, UnmergeSteps
    <3>. QED BY <3>1, <3>2, <3>3 DEF Takes
  <2>. QED BY <2>1, <2>2, <2>3 DEF Detach, ReturnEmail, SelectDuplicates, ReturnDuplicate
<1>. QED BY <1>2, <1>3, <1>4, HandOnly

\* Rows that were open are closed.
LEMMA Closing ==
    ASSUME IInv, NEW S, \A m \in S : m \in Rows /\ matches[m].state = "open",
           matches' = [m \in Rows |-> IF m \in S THEN [matches[m] EXCEPT !.state = "closed"]
                                      ELSE matches[m]]
    PROVE  RowsOK' /\ OneOpenRow' /\ Keeps
<1>1. ASSUME NEW m \in Rows
      PROVE  /\ matches'[m] \in MatchRows /\ RowOK(matches'[m])
             /\ Inserted(m) => matches'[m].state # "free"
             /\ matches'[m].state = "open" => matches'[m] = matches[m]
  <2>1. matches[m] \in MatchRows /\ RowOK(matches[m])
    BY DEF IInv, RowsOK
  <2>. QED BY <2>1 DEF MatchRows, RowStates, RowOK, Inserted
<1>2. ASSUME NEW e \in Emails PROVE OpenRows(e)' \subseteq OpenRows(e)
  BY <1>1 DEF OpenRows
<1>3. OneOpenRow'
  BY <1>2 DEF IInv, OneOpenRow
<1>. QED BY <1>1, <1>3 DEF RowsOK, Keeps

LEMMA CloseRowKeeps ==
    ASSUME IInv, NEW h \in Threads, CloseRow(h)
    PROVE  IInv'
<1>. DEFINE m == th[h].row
<1>1. th[h] \in Hands /\ th[h].project \in Projects /\ m \in Rows
  BY DEF IInv, HandsOK, HandOK, UnmergeSteps, CloseRow
<1>2. EmailsOK' /\ LinksOK'
  BY DEF IInv, EmailsOK, LinksOK, CloseRow, others
<1>3. CASE Ends(h) /\ UNCHANGED matches
  BY <1>2, <1>3, IdleTaken, HandOnly
<1>4. ASSUME matches[m].state = "open",
             matches' = [matches EXCEPT ![m].state = "closed"],
             NEW held \in BOOLEAN,
             th' = [th EXCEPT ![h].at = "return", ![h].held = held]
      PROVE  IInv'
  <2>. DEFINE l == [th[h] EXCEPT !.at = "return", !.held = held]
  <2>1. matches' = [k \in Rows |-> IF k \in {m} THEN [matches[k] EXCEPT !.state = "closed"]
                                   ELSE matches[k]]
    BY <1>4 DEF IInv, RowsOK
  <2>2. RowsOK' /\ OneOpenRow' /\ Keeps
    BY <1>1, <1>4, <2>1, Closing
  <2>3. Takes(h, l)
    <3>1. th' = [th EXCEPT ![h] = l]
      BY <1>4 DEF IInv, HandsOK
    <3>2. l \in Hands
      BY <1>1 DEF Hands, Steps, UnmergeSteps
    <3>3. HandOK(l, matches')
      BY <1>1 DEF HandOK, Hands, DecisionSteps, UnmergeSteps
    <3>. QED BY <3>1, <3>2, <3>3 DEF Takes
  <2>. HIDE DEF l
  <2>. QED BY <1>2, <2>2, <2>3, Taken DEF IInv
<1>5. (matches[m].added /\ ~StillLinked(m)) \in BOOLEAN
  OBVIOUS
<1>. QED BY <1>3, <1>4, <1>5 DEF CloseRow

LEMMA CloseDuplicateKeeps ==
    ASSUME IInv, NEW h \in Threads, CloseDuplicate(h)
    PROVE  IInv'
<1>1. /\ th[h] \in Hands /\ th[h].project \in Projects /\ th[h].row \in Rows
      /\ th[h].at = "cascade"
  BY DEF IInv, HandsOK, HandOK, UnmergeSteps, CloseDuplicate
<1>2. EmailsOK' /\ LinksOK'
  BY DEF IInv, EmailsOK, LinksOK, CloseDuplicate, others
<1>3. CASE Ends(h) /\ UNCHANGED matches
  BY <1>2, <1>3, IdleTaken, HandOnly
<1>4. ASSUME NEW d \in th[h].todo, UNCHANGED matches,
             th' = [th EXCEPT ![h].todo = @ \ {d}]
      PROVE  IInv'
  <2>. DEFINE l == [th[h] EXCEPT !.todo = @ \ {d}]
  <2>1. th' = [th EXCEPT ![h] = l]
    BY <1>4 DEF IInv, HandsOK
  <2>2. l \in Hands
    BY <1>1 DEF Hands
  <2>3. HandOK(l, matches')
    BY <1>1 DEF HandOK, Hands, DecisionSteps, UnmergeSteps
  <2>. QED BY <1>2, <1>4, <2>1, <2>2, <2>3, HandOnly DEF Takes
<1>5. ASSUME NEW d \in th[h].todo, matches[d].state = "open",
             matches' = [matches EXCEPT ![d].state = "closed"],
             th' = [th EXCEPT ![h].at = "giveback", ![h].email = matches[d].email,
                              ![h].todo = @ \ {d}]
      PROVE  IInv'
  <2>. DEFINE l == [th[h] EXCEPT !.at = "giveback", !.email = matches[d].email,
                                 !.todo = @ \ {d}]
  <2>1. d \in Rows /\ matches[d].email \in Emails \cup {None}
    BY <1>1 DEF Hands, IInv, RowsOK, MatchRows
  <2>2. matches' = [k \in Rows |-> IF k \in {d} THEN [matches[k] EXCEPT !.state = "closed"]
                                   ELSE matches[k]]
    BY <1>5, <2>1 DEF IInv, RowsOK
  <2>3. RowsOK' /\ OneOpenRow' /\ Keeps
    BY <1>5, <2>1, <2>2, Closing
  <2>4. Takes(h, l)
    <3>1. th' = [th EXCEPT ![h] = l]
      BY <1>5 DEF IInv, HandsOK
    <3>2. l \in Hands
      BY <1>1, <2>1 DEF Hands, Steps, UnmergeSteps
    <3>3. HandOK(l, matches')
      BY <1>1 DEF HandOK, Hands, DecisionSteps, UnmergeSteps
    <3>. QED BY <3>1, <3>2, <3>3 DEF Takes
  <2>. HIDE DEF l
  <2>. QED BY <1>2, <2>3, <2>4, Taken DEF IInv
<1>. QED BY <1>3, <1>4, <1>5 DEF CloseDuplicate

LEMMA ReopenKeeps ==
    ASSUME IInv, NEW h \in Threads, NEW e \in Emails, Reopen(h, e)
    PROVE  IInv'
<1>. DEFINE l == [Idle EXCEPT !.at = "reopened", !.email = e]
<1>1. EmailsOK' /\ LinksOK' /\ UNCHANGED matches
  BY DEF IInv, EmailsOK, LinksOK, Reopen, Moves, Statuses, Command
<1>2. l \in Hands
  BY IdleHand DEF Hands, Steps
<1>3. HandOK(l, matches')
  BY DEF Idle, HandOK, DecisionSteps, UnmergeSteps
<1>. QED BY <1>1, <1>2, <1>3, HandOnly, NoHand DEF Reopen, Takes

LEMMA CloseReopenedKeeps ==
    ASSUME IInv, NEW h \in Threads, CloseReopened(h)
    PROVE  IInv'
<1>1. EmailsOK' /\ LinksOK'
  BY DEF IInv, EmailsOK, LinksOK, CloseReopened, others
<1>2. RowsOK' /\ OneOpenRow' /\ Keeps
  <2>. DEFINE S == OpenRows(th[h].email)
  <2>1. \A m \in S : m \in Rows /\ matches[m].state = "open"
    BY DEF OpenRows
  <2>2. S \subseteq Rows
    BY <2>1
  <2>3. matches' = [m \in Rows |-> IF m \in S THEN [matches[m] EXCEPT !.state = "closed"]
                                           ELSE matches[m]]
    BY DEF CloseReopened
  <2>. HIDE DEF S
  <2>. QED BY <2>1, <2>2, <2>3, Closing DEF IInv
<1>. QED BY <1>1, <1>2, IdleTaken, Taken DEF IInv, CloseReopened

LEMMA StartRejectKeeps ==
    ASSUME IInv, NEW h \in Threads, NEW e \in Emails,
           NEW to \in {"onward", "rejected_by_review"}, StartReject(h, e, to)
    PROVE  IInv'
<1>. DEFINE l == [Idle EXCEPT !.at = "reject", !.email = e, !.kind = to]
<1>1. EmailsOK' /\ LinksOK' /\ UNCHANGED matches
  BY DEF IInv, EmailsOK, LinksOK, StartReject, Command, tables
<1>2. l \in Hands
  BY IdleHand DEF Hands, Steps, Statuses
<1>3. HandOK(l, matches')
  BY DEF Idle, HandOK, DecisionSteps, UnmergeSteps
<1>4. Takes(h, l)
  BY <1>2, <1>3 DEF Takes, StartReject
<1>. QED BY <1>1, <1>4, HandOnly

LEMMA StartRemoveGcKeeps ==
    ASSUME IInv, NEW h \in Threads, NEW p \in Projects, StartRemoveGc(h, p)
    PROVE  IInv'
<1>. DEFINE l == [Idle EXCEPT !.at = "remove", !.project = p]
<1>1. EmailsOK' /\ LinksOK' /\ UNCHANGED matches
  BY DEF IInv, EmailsOK, LinksOK, StartRemoveGc, Command, tables
<1>2. l \in Hands
  BY IdleHand DEF Hands, Steps
<1>3. HandOK(l, matches')
  BY DEF Idle, HandOK, DecisionSteps, UnmergeSteps
<1>4. Takes(h, l)
  BY <1>2, <1>3 DEF Takes, StartRemoveGc
<1>. QED BY <1>1, <1>4, HandOnly

\* Steps that end a request, and a request or a sweep that is cut short.
LEMMA EndingKeeps ==
    ASSUME IInv, NEW t \in Threads, Reject(t) \/ RemoveGc(t) \/ Trouble(t)
    PROVE  IInv'
<1>1. th[t] \in Hands /\ HandOK(th[t], matches)
  BY DEF IInv, HandsOK
<1>2. LinksOK' /\ UNCHANGED matches
  BY DEF IInv, LinksOK, Reject, RemoveGc, Trouble, others
<1>3. EmailsOK'
  <2>1. CASE Reject(t) \/ RemoveGc(t)
    BY <1>1, <2>1 DEF IInv, EmailsOK, Reject, RemoveGc, Moves, HandOK, Statuses
  <2>2. CASE Trouble(t)
    BY <2>2, FailedHand DEF IInv, EmailsOK, Trouble
  <2>. QED BY <2>1, <2>2
<1>4. \E l : Takes(t, l)
  <2>1. CASE Ends(t)
    BY <2>1, IdleTaken
  <2>2. CASE Failed(t)
    BY <2>2, FailedHand DEF IInv
  <2>3. CASE th[t].at \in {"unlink", "unrow"} /\ Refused(t)
    BY <1>1, <2>3, RefusedHand DEF IInv, HandOK, DecisionSteps
  <2>. QED BY <2>1, <2>2, <2>3 DEF Reject, RemoveGc, Trouble
<1>. QED BY <1>2, <1>3, <1>4, HandOnly

LEMMA EmailCommandsKeep ==
    ASSUME IInv, NEW e \in Emails,
           RetryRow(e) \/ SetProjectName(e) \/ ParkBlockedSender(e) \/ DrainOnward(e)
    PROVE  IInv'
<1>1. UNCHANGED <<matches, th>> /\ LinksOK'
  BY DEF IInv, LinksOK, RetryRow, SetProjectName, ParkBlockedSender, DrainOnward, Redirect,
         Command, others
<1>2. EmailsOK'
  BY DEF IInv, EmailsOK, RetryRow, SetProjectName, ParkBlockedSender, DrainOnward, Redirect,
         Moves, Statuses
<1>. QED BY <1>1, <1>2, NoHand

LEMMA ProjectCommandsKeep ==
    ASSUME IInv, NEW p \in Projects,
           AddGc(p) \/ ClaimSend(p) \/ MarkSubmitted(p) \/ SettleSend(p) \/ CloseProject(p)
    PROVE  IInv'
<1>1. UNCHANGED <<matches, th>> /\ EmailsOK'
  BY DEF IInv, EmailsOK, AddGc, ClaimSend, MarkSubmitted, SettleSend, CloseProject, tables
<1>2. 0 \in 0..MaxRows
  BY MatchesAssumption
<1>3. LinksOK'
  BY <1>2 DEF IInv, LinksOK, AddGc, ClaimSend, MarkSubmitted, SettleSend, CloseProject,
              Command, tables
<1>. QED BY <1>1, <1>3, NoHand

-----------------------------------------------------------------------------
LEMMA Initially == Init => IInv
<1>. SUFFICES ASSUME Init PROVE IInv
  OBVIOUS
<1>1. EmailsOK /\ LinksOK
  BY DEF Init, EmailsOK, LinksOK, Statuses
<1>2. RowsOK /\ OneOpenRow
  BY DEF Init, RowsOK, RowOK, OneOpenRow, OpenRows, MatchRows, FreeRow, RowStates
<1>3. HandOK(Idle, matches)
  BY DEF Idle, HandOK, DecisionSteps, UnmergeSteps
<1>4. HandsOK
  BY <1>3, IdleHand DEF Init, HandsOK
<1>. QED BY <1>1, <1>2, <1>4 DEF IInv

LEMMA StepKeeps == IInv /\ [Next]_vars => IInv'
<1>. SUFFICES ASSUME IInv, [Next]_vars PROVE IInv'
  OBVIOUS
<1>. People \subseteq Threads
  BY DEF Threads
<1>1. CASE UNCHANGED vars
  BY <1>1, NoHand DEF vars, IInv, EmailsOK, LinksOK
<1>2. ASSUME NEW t \in Threads, Working(t) PROVE IInv'
  BY <1>2, DecisionKeeps, SweepKeeps, UnmergingKeeps, CloseRowKeeps, CloseDuplicateKeeps,
     CloseReopenedKeeps, EndingKeeps DEF Working, Unmerging
<1>3. ASSUME NEW h \in People, PersonActs(h) PROVE IInv'
  BY <1>3, PersonDecidesKeeps, StartUnmergeKeeps, StartRejectKeeps, ReopenKeeps,
     StartRemoveGcKeeps DEF PersonActs
<1>. QED BY <1>1, <1>2, <1>3, EndingKeeps, SweepRowKeeps, EmailCommandsKeep,
            ProjectCommandsKeep DEF Next

\* At every moment every email, link, match row and thread has its types, and
\* no email has two open match rows: rfp_project_matches_open_uidx holds
\* through every insert, reopen, cascade and undo.
THEOREM TypeCorrect == Spec => []TypeOK
<1>1. Spec => []IInv
  BY Initially, StepKeeps, PTL DEF Spec
<1>. QED BY <1>1, Typed, PTL

-----------------------------------------------------------------------------
\* A thread changes its own hand only.
LEMMA OwnHand ==
    ASSUME HandsOK, NEW t \in Threads, NEW h \in Threads, h # t, Working(t) \/ Trouble(t)
    PROVE  th'[h] = th[h]
<1>. DEFINE Mine == th'[h] = th[h]
<1>1. \A step : Goes(t, step) => Mine
  BY DEF HandsOK, Goes
<1>2. Ends(t) => Mine
  BY DEF HandsOK, Ends
<1>3. Refused(t) \/ Failed(t) => Mine
  BY <1>1, <1>2 DEF Refused, Failed
<1>4. MeetOpenRow(t) \/ InsertRow(t) \/ MeetLink(t) \/ MarkAdded(t) => Mine
  BY <1>1, <1>3 DEF HandsOK, MeetOpenRow, InsertRow, MeetLink, MarkAdded
<1>5. InsertLink(t) \/ DecideEmail(t) \/ UndoLink(t) \/ UndoRow(t) => Mine
  BY <1>1, <1>2, <1>3 DEF InsertLink, DecideEmail, UndoLink, UndoRow
<1>6. t = Sweep /\ (SweepChecks \/ SweepRoutes \/ SweepParks) => Mine
  BY <1>1, <1>2, <1>3 DEF SweepChecks, SweepRoutes, SweepParks
<1>7. Unmerging(t) => Mine
  BY <1>1, <1>2 DEF HandsOK, Unmerging, Detach, CloseRow, ReturnEmail, SelectDuplicates,
                    CloseDuplicate, ReturnDuplicate
<1>8. Reject(t) \/ CloseReopened(t) \/ RemoveGc(t) \/ Trouble(t) => Mine
  BY <1>2, <1>3 DEF Reject, CloseReopened, RemoveGc, Trouble
<1>. QED BY <1>4, <1>5, <1>6, <1>7, <1>8 DEF Working, Decision

\* Only Detach takes a request past the removal of the link.
LEMMA OnlyDetach ==
    ASSUME HandsOK, NEW h \in People, th[h].at = "detach", th'[h].at = "close", Next
    PROVE  Detach(h)
<1>. h \in Threads /\ People \subseteq Threads /\ h # Sweep
  BY DEF Threads
<1>1. ASSUME NEW t \in Threads, Working(t) \/ Trouble(t)
      PROVE  Detach(h)
  <2>1. t = h
    BY <1>1, OwnHand
  <2>2. ~ Decision(h)
    BY DEF Decision, MeetOpenRow, InsertRow, InsertLink, MeetLink, MarkAdded, DecideEmail,
           UndoLink, UndoRow
  <2>3. ~ (Reject(h) \/ CloseReopened(h) \/ RemoveGc(h))
    BY DEF Reject, CloseReopened, RemoveGc
  <2>4. ~ Trouble(h)
    BY DEF HandsOK, Trouble, Failed, Refused, Ends, Idle
  <2>5. Unmerging(h) => Detach(h)
    BY DEF Unmerging, CloseRow, ReturnEmail, SelectDuplicates, CloseDuplicate,
           ReturnDuplicate
  <2>. QED BY <1>1, <2>1, <2>2, <2>3, <2>4, <2>5 DEF Working
<1>2. ASSUME NEW g \in People, PersonActs(g)
      PROVE  FALSE
  <2>. g \in Threads
    BY DEF Threads
  <2>1. ASSUME NEW e \in Emails, Reopen(g, e) PROVE FALSE
    BY <2>1 DEF HandsOK, Reopen, Idle
  <2>2. ASSUME th[g] = Idle, NEW l, th' = [th EXCEPT ![g] = l] PROVE FALSE
    BY <2>2 DEF HandsOK, Idle
  <2>3. ASSUME NEW e \in Emails, NEW p \in Projects, NEW kind \in Kinds,
               PersonDecides(g, e, p, kind)
        PROVE  FALSE
    BY <2>2, <2>3 DEF PersonDecides
  <2>4. ASSUME NEW e \in Emails, NEW to, StartReject(g, e, to) PROVE FALSE
    BY <2>2, <2>4 DEF StartReject
  <2>5. ASSUME NEW p \in Projects, StartRemoveGc(g, p) PROVE FALSE
    BY <2>2, <2>5 DEF StartRemoveGc
  <2>6. ASSUME NEW m \in Rows, StartUnmerge(g, m) PROVE FALSE
    BY <2>2, <2>6 DEF StartUnmerge
  <2>. QED BY <1>2, <2>1, <2>3, <2>4, <2>5, <2>6 DEF PersonActs
<1>3. ASSUME NEW e \in Emails, SweepRow(e) PROVE FALSE
  BY <1>3 DEF HandsOK, SweepRow
<1>4. ASSUME UNCHANGED th PROVE FALSE
  BY <1>4
<1>5. ASSUME NEW e \in Emails,
             RetryRow(e) \/ SetProjectName(e) \/ ParkBlockedSender(e) \/ DrainOnward(e)
      PROVE  FALSE
  BY <1>4, <1>5 DEF RetryRow, SetProjectName, ParkBlockedSender, Redirect, DrainOnward
<1>6. ASSUME NEW p \in Projects,
             AddGc(p) \/ ClaimSend(p) \/ MarkSubmitted(p) \/ SettleSend(p) \/ CloseProject(p)
      PROVE  FALSE
  BY <1>4, <1>6 DEF AddGc, ClaimSend, MarkSubmitted, SettleSend, CloseProject
<1>. QED BY <1>1, <1>2, <1>3, <1>5, <1>6 DEF Next

\* An unmerge that takes the GC off a project does so while no proposal to it
\* went out or is going out, however long ago it first looked:
\* remove_project_gc_unless_sent looks again as it deletes.
THEOREM SentStaysHolds == Spec => SentStays
<1>. DEFINE Stays == \A h \in People, p \in Projects :
                       th[h].at = "detach" /\ th'[h].at = "close" /\ link[p] # link'[p]
                         => sent[p] = "no"
<1>1. Spec => []IInv
  BY Initially, StepKeeps, PTL DEF Spec
<1>2. IInv /\ [Next]_vars => [Stays]_vars
  <2>. SUFFICES ASSUME IInv, Next, NEW h \in People, NEW p \in Projects,
                       th[h].at = "detach", th'[h].at = "close", link[p] # link'[p]
                PROVE  sent[p] = "no"
    OBVIOUS
  <2>1. Detach(h) /\ th[h].project \in Projects
    BY OnlyDetach DEF IInv, HandsOK, HandOK, UnmergeSteps, Threads
  <2>2. p = th[h].project
    BY <2>1 DEF IInv, LinksOK, Detach
  <2>. QED BY <2>1, <2>2 DEF IInv, LinksOK, Detach
<1>. QED BY <1>1, <1>2, PTL DEF Spec, SentStays

-----------------------------------------------------------------------------
(* MergeIsWhole, under Calm.                                               *)

\* Deciding what becomes of the email in hand.
Claiming == DecisionSteps \cup {"judged", "reject", "reopened"}

\* With a match row of the decision in hand.
Carrying == {"link", "exists", "mark", "cas", "unlink", "unrow"}

Visibles == {"match", "review_match", "merged", "failed", "blocked_sender"}

\* The email is where its decider found it, or was parked since; the decider
\* holds the one row of the email that may be open.
Claims(t) ==
    LET l == th[t]
        e == l.email
    IN  l.at \in Claiming =>
          /\ e \in Emails /\ status[e] \in {ExpectedAt(t), "blocked_sender"}
          /\ l.at \in {"open", "insert"} \cup Carrying => l.project \notin excluded[e]
          /\ l.at \in Carrying =>
               /\ matches[l.row].email = e /\ matches[l.row].project = l.project
               /\ matches[l.row].kind = l.kind /\ matches[l.row].state # "deleted"
               /\ OpenRows(e) \subseteq {l.row}
          /\ l.at \in {"reject", "reopened"} \/ (l.at = "judged" /\ l.kind \notin Kinds)
               => ~HasOpenMerge(e)

\* One decider per email.
Apart == \A t, u \in Threads :
    th[t].at \in Claiming /\ th[u].at \in Claiming /\ th[t].email = th[u].email => t = u

\* What a cascade closes are duplicates.
Cascading == \A t \in Threads : \A d \in th[t].todo : Inserted(d) /\ matches[d].kind = "duplicate"

\* MergeIsWhole, but for what it says of quiet moments.
Visible(e) ==
    /\ HasOpenMerge(e) => status[e] \in Visibles
    /\ status[e] = "merged" =>
         /\ target[e] \notin excluded[e]
         /\ \E m \in Rows : /\ matches[m].email = e /\ matches[m].project = target[e]
                            /\ matches[m].kind = "merged"
                            /\ matches[m].state \notin {"free", "deleted"}

Claimed == (\A t \in Threads : Claims(t)) /\ Apart /\ Cascading /\ \A e \in Emails : Visible(e)

-----------------------------------------------------------------------------
(* What a step leaves to the other threads.                                *)

Others(t) == \A u \in Threads \ {t} : th'[u] = th[u]

LEMMA Went ==
    ASSUME HandsOK, NEW t \in Threads, NEW step, Goes(t, step)
    PROVE  /\ Others(t) /\ th'[t].at = step
           /\ th'[t].email = th[t].email /\ th'[t].project = th[t].project
           /\ th'[t].kind = th[t].kind /\ th'[t].row = th[t].row /\ th'[t].held = th[t].held
           /\ th'[t].todo = th[t].todo
BY DEF HandsOK, Hands, Goes, Others

LEMMA Ended ==
    ASSUME HandsOK, NEW t \in Threads, Ends(t)
    PROVE  Others(t) /\ th'[t] = Idle
BY DEF HandsOK, Ends, Others

LEMMA Left ==
    ASSUME HandsOK, NEW t \in Threads, Ends(t) \/ Refused(t) \/ Failed(t)
    PROVE  /\ Others(t) /\ th'[t].at \in {"idle", "park"} /\ th'[t].todo \subseteq th[t].todo
           /\ th'[t].project \in {th[t].project, None} /\ (t # Sweep => th'[t] = Idle)
<1>1. Ends(t) => Others(t) /\ th'[t] = Idle
  BY Ended
<1>2. t = Sweep /\ Goes(t, "park") => Others(t) /\ th'[t].at = "park"
                       /\ th'[t].todo = th[t].todo /\ th'[t].project = th[t].project
  BY Went
<1>3. Idle.at = "idle" /\ Idle.todo = {} /\ Idle.project = None
  BY DEF Idle
<1>. QED BY <1>1, <1>2, <1>3 DEF Refused, Failed

\* Match rows are never reused, and a duplicate never becomes a merge.
RowsFrame ==
    \A m \in Rows : Inserted(m) =>
        /\ Inserted(m)'
        /\ matches'[m].email = matches[m].email /\ matches'[m].project = matches[m].project
        /\ matches[m].kind = "duplicate" => matches'[m].kind = "duplicate"

LEMMA SameFrame ==
    ASSUME UNCHANGED matches
    PROVE  RowsFrame
BY DEF RowsFrame, Inserted

\* The rows of e: none is inserted or opened again.
NoneOpened(e) ==
    \A m \in Rows : matches'[m].email = e /\ matches'[m].state = "open" =>
                        matches[m].email = e /\ matches[m].state = "open"

SparesClaim(u) ==
    LET e == th[u].email
    IN  /\ th'[u] = th[u]
        /\ th[u].at \in Claiming =>
             /\ status'[e] \in {status[e], "blocked_sender"}
             /\ excluded'[e] = excluded[e]
             /\ NoneOpened(e)
             /\ \A m \in Rows : Inserted(m) /\ matches[m].email = e =>
                    /\ matches'[m].kind = matches[m].kind
                    /\ matches'[m].state = "deleted" => matches[m].state = "deleted"

LEMMA NoMoreOpen ==
    ASSUME RowsFrame, RowsOK, NEW e, NoneOpened(e)
    PROVE  OpenRows(e)' \subseteq OpenRows(e) /\ (HasOpenMerge(e)' => HasOpenMerge(e))
<1>1. OpenRows(e)' \subseteq OpenRows(e)
  BY DEF OpenRows, NoneOpened
<1>2. ASSUME NEW m \in OpenRows(e), matches'[m].kind = "merged"
      PROVE  matches[m].kind = "merged"
  BY <1>2 DEF OpenRows, RowsOK, RowOK, RowsFrame, Inserted, Kinds
<1>. QED BY <1>1, <1>2 DEF HasOpenMerge

LEMMA OtherClaims ==
    ASSUME IInv, RowsFrame, NEW u \in Threads, Claims(u), SparesClaim(u)
    PROVE  Claims(u)'
<1>. DEFINE e == th[u].email
<1>. SUFFICES ASSUME th[u].at \in Claiming PROVE Claims(u)'
  BY DEF Claims, SparesClaim
<1>1. OpenRows(e)' \subseteq OpenRows(e) /\ (HasOpenMerge(e)' => HasOpenMerge(e))
  BY NoMoreOpen DEF IInv, SparesClaim
<1>2. th[u].at \in Carrying => th[u].row \in Rows /\ Inserted(th[u].row)
  BY DEF IInv, HandsOK, HandOK, Carrying, DecisionSteps, Inserted
<1>3. th'[u] = th[u] /\ (OpenRows(th[u].email)' = OpenRows(e)') /\ HasOpenMerge(th[u].email)' = HasOpenMerge(e)'
  BY DEF SparesClaim
<1>4. e \in Emails /\ status'[e] \in {ExpectedAt(u), "blocked_sender"}
  BY DEF Claims, SparesClaim
<1>5. th[u].at \in {"open", "insert"} \cup Carrying => th[u].project \notin excluded'[e]
  BY DEF Claims, SparesClaim
<1>6. ASSUME th[u].at \in Carrying
      PROVE  /\ matches'[th[u].row].email = e /\ matches'[th[u].row].project = th[u].project
             /\ matches'[th[u].row].kind = th[u].kind /\ matches'[th[u].row].state # "deleted"
  BY <1>2, <1>6 DEF Claims, SparesClaim, RowsFrame
<1>7. th[u].at \in Carrying => OpenRows(e) \subseteq {th[u].row}
  BY DEF Claims
<1>8. th[u].at \in {"reject", "reopened"} \/ (th[u].at = "judged" /\ th[u].kind \notin Kinds)
        => ~HasOpenMerge(e)
  BY DEF Claims
<1>9. th'[u].email = e
  BY <1>3
<1>10. OpenRows(th[u].email)' = {m \in Rows : matches'[m].email = e /\ matches'[m].state = "open"}
  BY <1>3 DEF OpenRows
<1>. QED BY <1>1, <1>3, <1>4, <1>5, <1>6, <1>7, <1>8, <1>9, <1>10 DEF Claims, ExpectedAt

LEMMA ClaimedStep ==
    ASSUME IInv, Claimed, RowsFrame, NEW t \in Threads,
           \A u \in Threads \ {t} : SparesClaim(u), Claims(t)',
           th'[t].at \in Claiming => \A u \in Threads \ {t} :
               th[u].at \in Claiming => th[u].email # th'[t].email,
           \A d \in th'[t].todo : d \in th[t].todo \/ (Inserted(d) /\ matches[d].kind = "duplicate"),
           th'[t].todo \subseteq Rows, \A e \in Emails : Visible(e)'
    PROVE  Claimed'
<1>1. \A u \in Threads : Claims(u)'
  BY OtherClaims DEF Claimed
<1>2. \A u \in Threads \ {t} : th'[u] = th[u]
  BY DEF SparesClaim
<1>3. Apart'
  BY <1>2 DEF Apart, Claimed
<1>4. ASSUME NEW u \in Threads, NEW d \in th'[u].todo
      PROVE  Inserted(d)' /\ matches'[d].kind = "duplicate"
  <2>1. d \in Rows /\ Inserted(d) /\ matches[d].kind = "duplicate"
    BY <1>2, <1>4 DEF Claimed, Cascading, IInv, HandsOK, Hands
  <2>. QED BY <2>1 DEF RowsFrame
<1>5. Cascading'
  BY <1>4 DEF Cascading
<1>. QED BY <1>1, <1>3, <1>5 DEF Claimed

SparesEmail(e) ==
    /\ status'[e] = status[e] /\ target'[e] = target[e] /\ excluded'[e] = excluded[e]
    /\ NoneOpened(e)
    /\ status[e] = "merged" => \A m \in Rows : Inserted(m) /\ matches[m].email = e =>
          /\ matches'[m].kind = matches[m].kind
          /\ matches'[m].state = "deleted" => matches[m].state = "deleted"

LEMMA SameVisible ==
    ASSUME RowsOK, RowsFrame, NEW e \in Emails, Visible(e), SparesEmail(e)
    PROVE  Visible(e)'
<1>1. HasOpenMerge(e)' => HasOpenMerge(e)
  BY NoMoreOpen DEF SparesEmail
<1>2. HasOpenMerge(e)' => status'[e] \in Visibles
  BY <1>1 DEF Visible, SparesEmail
<1>3. ASSUME status'[e] = "merged"
      PROVE  \E m \in Rows : /\ matches'[m].email = e /\ matches'[m].project = target'[e]
                             /\ matches'[m].kind = "merged"
                             /\ matches'[m].state \notin {"free", "deleted"}
  <2>1. PICK m \in Rows : /\ matches[m].email = e /\ matches[m].project = target[e]
                          /\ matches[m].kind = "merged"
                          /\ matches[m].state \notin {"free", "deleted"}
    BY <1>3 DEF Visible, SparesEmail
  <2>2. Inserted(m) /\ Inserted(m)'
    BY <2>1 DEF Inserted, RowsFrame
  <2>. QED BY <1>3, <2>1, <2>2 DEF RowsFrame, SparesEmail, Inserted
<1>4. status'[e] = "merged" => target'[e] \notin excluded'[e]
  BY DEF Visible, SparesEmail
<1>. QED BY <1>2, <1>3, <1>4 DEF Visible

\* The email tables and the match rows are left alone.
LEMMA HandClaimed ==
    ASSUME IInv, Claimed, UNCHANGED <<status, target, excluded, matches>>,
           NEW t \in Threads, Others(t), Claims(t)',
           th'[t].at \in Claiming => \A u \in Threads \ {t} :
               th[u].at \in Claiming => th[u].email # th'[t].email,
           \A d \in th'[t].todo : d \in th[t].todo \/ (Inserted(d) /\ matches[d].kind = "duplicate"),
           th'[t].todo \subseteq Rows
    PROVE  Claimed'
<1>1. \A u \in Threads \ {t} : SparesClaim(u)
  BY DEF SparesClaim, Others, NoneOpened
<1>2. RowsOK
  BY DEF IInv
<1>3. ASSUME NEW e \in Emails PROVE Visible(e)'
  BY <1>2, SameFrame, SameVisible DEF SparesEmail, NoneOpened, Claimed
<1>. QED BY <1>1, <1>3, SameFrame, ClaimedStep

\* One email moves.
LEMMA EmailClaimed ==
    ASSUME IInv, Claimed, UNCHANGED matches, NEW e \in Emails,
           \A f \in Emails \ {e} : /\ status'[f] = status[f] /\ target'[f] = target[f]
                                   /\ excluded'[f] = excluded[f],
           NEW t \in Threads, Others(t), Claims(t)',
           th'[t].at \in Claiming => \A u \in Threads \ {t} :
               th[u].at \in Claiming => th[u].email # th'[t].email,
           \A u \in Threads \ {t} : th[u].at \in Claiming /\ th[u].email = e =>
               status'[e] \in {status[e], "blocked_sender"} /\ excluded'[e] = excluded[e],
           th'[t].todo \subseteq th[t].todo, Visible(e)'
    PROVE  Claimed'
<1>1. ASSUME NEW u \in Threads \ {t}, th[u].at \in Claiming PROVE th[u].email \in Emails
  BY <1>1 DEF Claimed, Claims
<1>2. \A u \in Threads \ {t} : SparesClaim(u)
  BY <1>1 DEF SparesClaim, Others, NoneOpened
<1>3. RowsOK /\ th[t].todo \subseteq Rows
  BY DEF IInv, HandsOK, Hands
<1>4. ASSUME NEW f \in Emails PROVE Visible(f)'
  <2>1. CASE f = e
    BY <2>1
  <2>2. CASE f # e
    BY <1>3, <2>2, SameFrame, SameVisible DEF SparesEmail, NoneOpened, Claimed
  <2>. QED BY <2>1, <2>2
<1>. QED BY <1>2, <1>3, <1>4, SameFrame, ClaimedStep

\* A thread that leaves its decision claims nothing.
LEMMA NoClaim ==
    ASSUME NEW t, th'[t].at \notin Claiming
    PROVE  Claims(t)'
BY DEF Claims

LEMMA LeftClaims ==
    ASSUME IInv, NEW t \in Threads, Ends(t) \/ Refused(t) \/ Failed(t)
    PROVE  Others(t) /\ Claims(t)' /\ th'[t].at \notin Claiming
           /\ th'[t].todo \subseteq th[t].todo /\ th[t].todo \subseteq Rows
<1>1. Others(t) /\ th'[t].at \in {"idle", "park"} /\ th'[t].todo \subseteq th[t].todo
  BY Left DEF IInv
<1>2. th'[t].at \notin Claiming
  BY <1>1 DEF Claiming, DecisionSteps
<1>. QED BY <1>1, <1>2, NoClaim DEF IInv, HandsOK, Hands

\* A thread gives up, and no table changes.
LEMMA LeftClaimed ==
    ASSUME IInv, Claimed, UNCHANGED <<status, target, excluded, matches>>, NEW t \in Threads,
           Ends(t) \/ Refused(t) \/ Failed(t)
    PROVE  Claimed'
BY LeftClaims, HandClaimed

\* What a thread at a step of a decision has in hand.
LEMMA AtDecision ==
    ASSUME IInv, Claimed, NEW t \in Threads, th[t].at \in DecisionSteps
    PROVE  /\ th[t] \in Hands /\ th[t].email \in Emails /\ th[t].project \in Projects
           /\ th[t].kind \in Kinds /\ Claims(t)
           /\ status[th[t].email] \in {ExpectedAt(t), "blocked_sender"}
           /\ \A u \in Threads \ {t} : th[u].at \in Claiming => th[u].email # th[t].email
           /\ th[t].at \in Carrying => th[t].row \in Rows /\ Inserted(th[t].row)
BY DEF IInv, HandsOK, HandOK, Claimed, Claims, Apart, Claiming, Carrying, DecisionSteps, Inserted

\* The next step of a decision on the same email, with no row yet.
LEMMA StepClaimed ==
    ASSUME IInv, Claimed, UNCHANGED <<status, target, excluded, matches>>, NEW t \in Threads,
           th[t].at \in DecisionSteps, NEW step \in DecisionSteps, Goes(t, step),
           step \in Carrying => th[t].at \in Carrying,
           step \in {"open", "insert"} => \/ th[t].at \in {"open", "insert"}
                                          \/ th[t].project \notin excluded[th[t].email]
    PROVE  Claimed'
<1>. PICK e : e = th[t].email
  OBVIOUS
<1>1. /\ Others(t) /\ th'[t].at = step
      /\ th'[t].email = e /\ th'[t].project = th[t].project
      /\ th'[t].kind = th[t].kind /\ th'[t].row = th[t].row /\ th'[t].todo = th[t].todo
  BY Went DEF IInv
<1>2. th[t].todo \subseteq Rows
  BY DEF IInv, HandsOK, Hands
<1>3. OpenRows(e)' = OpenRows(e)
  BY DEF OpenRows
<1>4. Claims(t)'
  BY <1>1, <1>3, AtDecision DEF Claims, Claiming, Carrying, DecisionSteps, ExpectedAt, OpenRows
<1>. QED BY <1>1, <1>2, <1>4, AtDecision, HandClaimed DEF Claiming

\* A thread goes on with row m in hand.
LEMMA CarryClaims ==
    ASSUME IInv, Claimed, NEW t \in Threads, th[t].at \in {"open", "insert"} \cup Carrying,
           UNCHANGED <<status, excluded>>, th'[t].at \in Carrying,
           th'[t].email = th[t].email, th'[t].project = th[t].project, NEW m, m = th'[t].row,
           matches'[m].email = th[t].email, matches'[m].project = th[t].project,
           matches'[m].kind = th'[t].kind, matches'[m].state # "deleted",
           \A k \in Rows : matches'[k].email = th[t].email /\ matches'[k].state = "open" => k = m
    PROVE  Claims(t)'
<1>1. th[t].at \in DecisionSteps /\ th[t].at \in Claiming
  BY DEF DecisionSteps, Carrying, Claiming
<1>2. OpenRows(th[t].email)' \subseteq {m}
  BY DEF OpenRows
<1>3. Claims(t) /\ th[t].email \in Emails
  BY <1>1, AtDecision
<1>4. th'[t].at \notin {"reject", "reopened", "judged"}
  BY DEF Carrying
<1>. QED BY <1>1, <1>2, <1>3, <1>4 DEF Claims, ExpectedAt

LEMMA MeetOpenRowClaimed ==
    ASSUME IInv, Claimed, NEW t \in Threads, MeetOpenRow(t)
    PROVE  Claimed'
<1>. PICK e : e = th[t].email
  OBVIOUS
<1>1. th[t].at = "open" /\ "open" \in DecisionSteps /\ "insert" \in DecisionSteps
  BY DEF MeetOpenRow, DecisionSteps
<1>2. CASE UNCHANGED tables /\ Goes(t, "insert")
  BY <1>1, <1>2, StepClaimed DEF tables, Carrying
<1>3. CASE UNCHANGED tables /\ Refused(t)
  BY <1>3, LeftClaimed DEF tables
<1>4. ASSUME NEW m \in OpenRows(e), UNCHANGED tables,
             matches[m].kind = "merged", matches[m].project = th[t].project, th[t].kind = "merged",
             th' = [th EXCEPT ![t].row = m, ![t].held = StillLinked(m),
                              ![t].at = IF matches[m].added THEN "cas" ELSE "link"]
      PROVE  Claimed'
  <2>1. /\ Others(t) /\ th'[t].at \in {"cas", "link"} /\ th'[t].email = e
        /\ th'[t].project = th[t].project /\ th'[t].kind = th[t].kind /\ th'[t].row = m
        /\ th'[t].todo = th[t].todo
    BY <1>4 DEF IInv, HandsOK, Hands, Others
  <2>2. th[t].todo \subseteq Rows
    BY DEF IInv, HandsOK, Hands
  <2>3. e \in Emails
    BY <1>1, AtDecision
  <2>4. OpenRows(e) \subseteq {m} /\ matches[m].email = e /\ matches[m].state # "deleted"
    BY <2>3 DEF IInv, OneOpenRow, OpenRows
  <2>5. \A k \in Rows : matches'[k].email = e /\ matches'[k].state = "open" => k = m
    BY <1>4, <2>4 DEF OpenRows, tables
  <2>6. Claims(t)'
    <3>1. UNCHANGED <<status, excluded, matches>>
      BY <1>4 DEF tables
    <3>2. th'[t].at \in Carrying /\ th[t].at \in {"open", "insert"} \cup Carrying
      BY <1>1, <2>1 DEF Carrying
    <3>3. /\ matches'[m].email = th[t].email /\ matches'[m].project = th[t].project
          /\ matches'[m].kind = th'[t].kind /\ matches'[m].state # "deleted"
      BY <1>4, <2>1, <2>4, <3>1
    <3>. QED BY <2>1, <2>5, <3>1, <3>2, <3>3, CarryClaims
  <2>. QED BY <1>1, <1>4, <2>1, <2>2, <2>6, AtDecision, HandClaimed DEF tables
<1>5. ASSUME NEW m \in OpenRows(e), matches' = [matches EXCEPT ![m].state = "superseded"],
             Goes(t, "insert"), UNCHANGED <<status, target, excluded, link>>
      PROVE  Claimed'
  <2>1. /\ Others(t) /\ th'[t].at = "insert"
        /\ th'[t].email = e /\ th'[t].project = th[t].project
        /\ th'[t].kind = th[t].kind /\ th'[t].todo = th[t].todo
    BY <1>5, Went DEF IInv
  <2>2. m \in Rows /\ matches[m].email = e /\ matches[m].state = "open"
    BY DEF OpenRows
  <2>3. /\ \A k \in Rows \ {m} : matches'[k] = matches[k]
        /\ matches'[m].state = "superseded" /\ matches'[m].kind = matches[m].kind
        /\ matches'[m].email = matches[m].email /\ matches'[m].project = matches[m].project
    BY <1>5, <2>2 DEF IInv, RowsOK, MatchRows
  <2>4. RowsFrame /\ \A f : NoneOpened(f)
    BY <2>2, <2>3 DEF RowsFrame, Inserted, NoneOpened
  <2>5. \A u \in Threads \ {t} : SparesClaim(u)
    BY <1>5, <2>1, <2>3, <2>4 DEF SparesClaim, Others
  <2>6. Claims(t)'
    BY <1>1, <1>5, <2>1, AtDecision
       DEF Claims, Claiming, Carrying, DecisionSteps, ExpectedAt
  <2>7. ASSUME NEW f \in Emails PROVE Visible(f)'
    <3>1. SparesEmail(f)
      BY <1>5, <2>3, <2>4 DEF SparesEmail
    <3>. QED BY <2>4, <3>1, SameVisible DEF IInv, Claimed
  <2>8. th'[t].todo \subseteq Rows
    BY <2>1 DEF IInv, HandsOK, Hands
  <2>. QED BY <1>1, <2>1, <2>4, <2>5, <2>6, <2>7, <2>8, AtDecision, ClaimedStep
<1>. QED BY <1>2, <1>3, <1>4, <1>5 DEF MeetOpenRow

LEMMA InsertRowClaimed ==
    ASSUME IInv, Claimed, NEW t \in Threads, InsertRow(t)
    PROVE  Claimed'
<1>. PICK e : e = th[t].email
  OBVIOUS
<1>1. th[t].at = "insert" /\ "insert" \in DecisionSteps
  BY DEF InsertRow, DecisionSteps
<1>2. e \in Emails /\ th[t].project \in Projects /\ th[t].kind \in Kinds
  BY <1>1, AtDecision
<1>3. CASE Failed(t) /\ UNCHANGED <<status, matches>>
  BY <1>3, LeftClaimed DEF InsertRow
<1>4. CASE Failed(t) /\ t = Sweep /\ Moves(e, "match", "failed") /\ UNCHANGED matches
  <2>1. /\ \A f \in Emails \ {e} : status'[f] = status[f]
        /\ status[e] = "match" /\ status'[e] = "failed"
    BY <1>2, <1>4 DEF Moves, IInv, EmailsOK
  <2>2. Visible(e)'
    BY <2>1 DEF Visible, Visibles
  <2>. QED BY <1>1, <1>2, <1>4, <2>1, <2>2, LeftClaims, AtDecision, EmailClaimed DEF InsertRow
<1>5. ASSUME OpenRows(e) = {}, UNCHANGED status, NEW m \in Rows,
             matches[m].state = "free",
             matches' = [matches EXCEPT ![m] =
               [email |-> e, project |-> th[t].project, kind |-> th[t].kind,
                state |-> "open", added |-> FALSE]],
             th' = [th EXCEPT ![t].row = m,
                      ![t].at = IF th[t].kind = "merged" THEN "link" ELSE "cas"]
      PROVE  Claimed'
  <2>1. /\ Others(t) /\ th'[t].at \in {"cas", "link"} /\ th'[t].email = e
        /\ th'[t].project = th[t].project /\ th'[t].kind = th[t].kind /\ th'[t].row = m
        /\ th'[t].todo = th[t].todo
    BY <1>5 DEF IInv, HandsOK, Hands, Others
  <2>2. /\ \A k \in Rows \ {m} : matches'[k] = matches[k]
        /\ matches'[m].email = e /\ matches'[m].project = th[t].project
        /\ matches'[m].kind = th[t].kind /\ matches'[m].state = "open"
    BY <1>5 DEF IInv, RowsOK
  <2>3. RowsFrame /\ \A f : f # e => NoneOpened(f)
    BY <1>5, <2>2 DEF RowsFrame, Inserted, NoneOpened
  <2>4. UNCHANGED <<status, target, excluded>>
    BY <1>5 DEF InsertRow
  <2>5. \A u \in Threads \ {t} : SparesClaim(u)
    <3>1. ASSUME NEW u \in Threads \ {t}, th[u].at \in Claiming PROVE th[u].email # e
      BY <1>1, <3>1, AtDecision
    <3>2. \A k \in Rows : Inserted(k) => k # m
      BY <1>5 DEF Inserted
    <3>. QED BY <2>1, <2>2, <2>3, <2>4, <3>1, <3>2 DEF SparesClaim, Others
  <2>6. \A k \in Rows : matches'[k].email = e /\ matches'[k].state = "open" => k = m
    BY <1>5, <2>2 DEF OpenRows
  <2>7. Claims(t)'
    BY <1>1, <2>1, <2>2, <2>4, <2>6, CarryClaims DEF Carrying
  <2>8. ASSUME NEW f \in Emails, f # e PROVE Visible(f)'
    <3>1. SparesEmail(f)
      BY <1>5, <2>2, <2>3, <2>4, <2>8 DEF SparesEmail, Inserted
    <3>. QED BY <2>3, <3>1, SameVisible DEF IInv, Claimed
  <2>9. Visible(e)'
    <3>1. status[e] \in {"match", "review_match", "blocked_sender"}
      BY <1>1, AtDecision DEF ExpectedAt
    <3>. QED BY <2>4, <3>1 DEF Visible, Visibles
  <2>10. th'[t].todo \subseteq Rows
    BY <2>1 DEF IInv, HandsOK, Hands
  <2>. QED BY <1>1, <2>1, <2>3, <2>5, <2>7, <2>8, <2>9, <2>10, AtDecision, ClaimedStep
<1>. QED BY <1>3, <1>4, <1>5 DEF InsertRow, Failed

LEMMA InsertLinkClaimed ==
    ASSUME IInv, Claimed, NEW t \in Threads, InsertLink(t)
    PROVE  Claimed'
<1>. PICK e : e = th[t].email
  OBVIOUS
<1>1. /\ th[t].at = "link" /\ "link" \in DecisionSteps /\ {"exists", "mark"} \subseteq DecisionSteps
      /\ UNCHANGED <<target, excluded, matches>>
  BY DEF InsertLink, DecisionSteps
<1>2. matches[th[t].row].state # "deleted"
  BY <1>1, AtDecision DEF Claims, Claiming, Carrying
<1>3. PICK step \in {"exists", "mark"} : Goes(t, step) /\ UNCHANGED status
  BY <1>2 DEF InsertLink
<1>. QED BY <1>1, <1>3, StepClaimed DEF Carrying

LEMMA MeetLinkClaimed ==
    ASSUME IInv, Claimed, NEW t \in Threads, MeetLink(t)
    PROVE  Claimed'
<1>. PICK e, m : e = th[t].email /\ m = th[t].row
  OBVIOUS
<1>1. /\ th[t].at = "exists" /\ {"exists", "mark"} \subseteq DecisionSteps
      /\ UNCHANGED <<status, target, excluded>>
  BY DEF MeetLink, DecisionSteps
<1>2. CASE Goes(t, "mark") /\ UNCHANGED matches
  BY <1>1, <1>2, StepClaimed DEF Carrying
<1>3. ASSUME matches' = [matches EXCEPT ![m].kind =
               IF matches[m].state = "deleted" THEN @ ELSE "duplicate"],
             th' = [th EXCEPT ![t].at = "cas", ![t].kind = "duplicate"]
      PROVE  Claimed'
  <2>1. /\ Others(t) /\ th'[t].at = "cas" /\ th'[t].email = e
        /\ th'[t].project = th[t].project /\ th'[t].kind = "duplicate" /\ th'[t].row = m
        /\ th'[t].todo = th[t].todo
    BY <1>3 DEF IInv, HandsOK, Hands, Others
  <2>2. /\ m \in Rows /\ Inserted(m) /\ matches[m].email = e /\ matches[m].state # "deleted"
        /\ matches[m].project = th[t].project /\ OpenRows(e) \subseteq {m}
    BY <1>1, AtDecision DEF Claims, Claiming, Carrying
  <2>3. /\ \A k \in Rows \ {m} : matches'[k] = matches[k]
        /\ matches'[m].email = e /\ matches'[m].project = th[t].project
        /\ matches'[m].kind = "duplicate" /\ matches'[m].state = matches[m].state
    BY <1>3, <2>2 DEF IInv, RowsOK, MatchRows
  <2>4. RowsFrame /\ \A f : NoneOpened(f)
    BY <2>2, <2>3 DEF RowsFrame, Inserted, NoneOpened
  <2>5. \A u \in Threads \ {t} : SparesClaim(u)
    BY <1>1, <2>1, <2>2, <2>3, <2>4, AtDecision DEF SparesClaim, Others
  <2>6. \A k \in Rows : matches'[k].email = e /\ matches'[k].state = "open" => k = m
    BY <2>2, <2>3 DEF OpenRows
  <2>7. Claims(t)'
    BY <1>1, <2>1, <2>2, <2>3, <2>6, CarryClaims DEF Carrying
  <2>8. ASSUME NEW f \in Emails PROVE Visible(f)'
    <3>1. status[e] # "merged"
      BY <1>1, AtDecision DEF ExpectedAt
    <3>2. SparesEmail(f)
      BY <1>1, <2>2, <2>3, <2>4, <3>1 DEF SparesEmail
    <3>. QED BY <2>4, <3>2, SameVisible DEF IInv, Claimed
  <2>9. th'[t].todo \subseteq Rows
    BY <2>1 DEF IInv, HandsOK, Hands
  <2>. QED BY <1>1, <2>1, <2>4, <2>5, <2>7, <2>8, <2>9, AtDecision, ClaimedStep
<1>. QED BY <1>2, <1>3 DEF MeetLink

LEMMA MarkAddedClaimed ==
    ASSUME IInv, Claimed, NEW t \in Threads, MarkAdded(t)
    PROVE  Claimed'
<1>. PICK e, m : e = th[t].email /\ m = th[t].row
  OBVIOUS
<1>1. th[t].at = "mark" /\ "mark" \in DecisionSteps /\ UNCHANGED <<target, excluded>>
  BY DEF MarkAdded, DecisionSteps
<1>2. e \in Emails
  BY <1>1, AtDecision
<1>3. CASE Failed(t) /\ UNCHANGED <<status, matches>>
  BY <1>1, <1>3, LeftClaimed
<1>4. CASE Failed(t) /\ t = Sweep /\ Moves(e, "match", "failed") /\ UNCHANGED matches
  <2>1. /\ \A f \in Emails \ {e} : status'[f] = status[f]
        /\ status[e] = "match" /\ status'[e] = "failed"
    BY <1>2, <1>4 DEF Moves, IInv, EmailsOK
  <2>2. Visible(e)'
    BY <2>1 DEF Visible, Visibles
  <2>. QED BY <1>1, <1>2, <1>4, <2>1, <2>2, LeftClaims, AtDecision, EmailClaimed
<1>5. ASSUME NEW added, matches' = [matches EXCEPT ![m].added = added], UNCHANGED status,
             th' = [th EXCEPT ![t].at = "cas", ![t].held = TRUE]
      PROVE  Claimed'
  <2>1. /\ Others(t) /\ th'[t].at = "cas" /\ th'[t].email = e
        /\ th'[t].project = th[t].project /\ th'[t].kind = th[t].kind /\ th'[t].row = m
        /\ th'[t].todo = th[t].todo
    BY <1>5 DEF IInv, HandsOK, Hands, Others
  <2>2. m \in Rows
    BY <1>1, AtDecision DEF Carrying
  <2>3. \A k \in Rows : /\ matches'[k].email = matches[k].email
                        /\ matches'[k].project = matches[k].project
                        /\ matches'[k].kind = matches[k].kind
                        /\ matches'[k].state = matches[k].state
    BY <1>5, <2>2 DEF IInv, RowsOK, MatchRows
  <2>4. RowsFrame /\ \A f : NoneOpened(f)
    BY <2>3 DEF RowsFrame, Inserted, NoneOpened
  <2>5. \A u \in Threads \ {t} : SparesClaim(u)
    BY <1>1, <1>5, <2>1, <2>3, <2>4 DEF SparesClaim, Others
  <2>6. Claims(t) /\ th[t].at \in Carrying /\ th[t].at \in Claiming
    BY <1>1, AtDecision DEF Carrying, Claiming
  <2>7. Claims(t)'
    <3>1. \A k \in Rows : matches'[k].email = e /\ matches'[k].state = "open" => k = m
      BY <2>3, <2>6 DEF Claims, OpenRows
    <3>2. /\ matches[m].email = e /\ matches[m].project = th[t].project
          /\ matches[m].kind = th[t].kind /\ matches[m].state # "deleted"
      BY <2>6 DEF Claims
    <3>3. th'[t].at \in Carrying /\ th[t].at \in {"open", "insert"} \cup Carrying
      BY <2>1, <2>6 DEF Carrying
    <3>4. /\ matches'[m].email = th[t].email /\ matches'[m].project = th[t].project
          /\ matches'[m].kind = th'[t].kind /\ matches'[m].state # "deleted"
      BY <2>1, <2>2, <2>3, <3>2
    <3>5. UNCHANGED <<status, excluded>>
      BY <1>1, <1>5
    <3>. QED BY <2>1, <3>1, <3>3, <3>4, <3>5, CarryClaims
  <2>8. ASSUME NEW f \in Emails PROVE Visible(f)'
    <3>1. SparesEmail(f)
      BY <1>1, <1>5, <2>3, <2>4 DEF SparesEmail
    <3>. QED BY <2>4, <3>1, SameVisible DEF IInv, Claimed
  <2>9. th'[t].todo \subseteq Rows
    BY <2>1 DEF IInv, HandsOK, Hands
  <2>. QED BY <1>1, <2>1, <2>4, <2>5, <2>7, <2>8, <2>9, AtDecision, ClaimedStep
<1>. QED BY <1>3, <1>4, <1>5 DEF MarkAdded, Failed

\* An email that does not exist is not written.
LEMMA NoEmail ==
    ASSUME NEW S, NEW f \in [Emails -> S], NEW e, e \notin Emails, NEW v
    PROVE  [f EXCEPT ![e] = v] = f
OBVIOUS

\* Any exception but a refusal: the sweep may give the row up.
LEMMA FailedClaimed ==
    ASSUME IInv, Claimed, NEW t \in Threads, Failed(t), UNCHANGED <<target, excluded, matches>>
    PROVE  Claimed'
<1>. PICK e : e = th[t].email
  OBVIOUS
<1>1. CASE UNCHANGED status
  BY <1>1, LeftClaimed
<1>2. CASE t = Sweep /\ Moves(e, "match", "failed") /\ e \in Emails
  <2>1. /\ \A f \in Emails \ {e} : status'[f] = status[f]
        /\ status[e] = "match" /\ status'[e] = "failed"
    BY <1>2 DEF Moves, IInv, EmailsOK
  <2>2. Visible(e)'
    BY <2>1 DEF Visible, Visibles
  <2>3. ASSUME NEW u \in Threads \ {t}, th[u].at \in Claiming PROVE th[u].email # e
    BY <1>2, <2>1, <2>3 DEF Claimed, Claims, ExpectedAt
  <2>. QED BY <1>2, <2>1, <2>2, <2>3, LeftClaims, EmailClaimed
<1>3. CASE Moves(e, "match", "failed") /\ e \notin Emails
  BY <1>1, <1>3, NoEmail DEF Moves, IInv, EmailsOK
<1>. QED BY <1>1, <1>2, <1>3 DEF Failed

LEMMA DecideEmailClaimed ==
    ASSUME IInv, Claimed, NEW t \in Threads, DecideEmail(t)
    PROVE  Claimed'
<1>. PICK e, m : e = th[t].email /\ m = th[t].row
  OBVIOUS
<1>1. th[t].at = "cas" /\ {"cas", "unlink", "unrow"} \subseteq DecisionSteps \cap Carrying
      /\ UNCHANGED <<excluded, matches>>
  BY DEF DecideEmail, DecisionSteps, Carrying
<1>2. /\ e \in Emails /\ th[t].kind \in Kinds /\ m \in Rows /\ Inserted(m)
      /\ th[t].project \notin excluded[e]
      /\ matches[m].email = e /\ matches[m].project = th[t].project
      /\ matches[m].kind = th[t].kind /\ matches[m].state # "deleted" /\ OpenRows(e) \subseteq {m}
  BY <1>1, AtDecision DEF Claims, Claiming
<1>3. CASE /\ Moves(e, ExpectedAt(t), th[t].kind) /\ Ends(t)
           /\ target' = [target EXCEPT ![e] = th[t].project]
  <2>1. /\ \A f \in Emails \ {e} : status'[f] = status[f] /\ target'[f] = target[f]
        /\ status'[e] = th[t].kind /\ target'[e] = th[t].project
    BY <1>2, <1>3 DEF Moves, IInv, EmailsOK
  <2>2. HasOpenMerge(e)' => status'[e] \in Visibles
    BY <1>1, <1>2, <2>1 DEF HasOpenMerge, OpenRows, Visibles
  <2>3. Visible(e)'
    BY <1>1, <1>2, <2>1, <2>2 DEF Visible, Inserted
  <2>. QED BY <1>1, <1>2, <1>3, <2>1, <2>3, LeftClaims, AtDecision, EmailClaimed
<1>4. CASE /\ UNCHANGED <<status, target>>
           /\ Goes(t, IF th[t].held /\ th[t].kind = "merged" THEN "unlink" ELSE "unrow")
  <2>1. PICK step \in {"unlink", "unrow"} : Goes(t, step)
    BY <1>4
  <2>. QED BY <1>1, <1>4, <2>1, StepClaimed
<1>. QED BY <1>3, <1>4 DEF DecideEmail

LEMMA UndoLinkClaimed ==
    ASSUME IInv, Claimed, NEW t \in Threads, UndoLink(t)
    PROVE  Claimed'
<1>1. /\ th[t].at = "unlink" /\ "unlink" \in DecisionSteps \cap Carrying
      /\ "unrow" \in DecisionSteps /\ "unrow" \notin {"open", "insert"}
      /\ UNCHANGED <<status, target, excluded, matches>>
  BY DEF UndoLink, DecisionSteps, Carrying
<1>2. Refused(t) \/ Goes(t, "unrow")
  BY DEF UndoLink
<1>. QED BY <1>1, <1>2, LeftClaimed, StepClaimed

LEMMA UndoRowClaimed ==
    ASSUME IInv, Claimed, NEW t \in Threads, UndoRow(t)
    PROVE  Claimed'
<1>. PICK e, m : e = th[t].email /\ m = th[t].row
  OBVIOUS
<1>1. /\ th[t].at = "unrow" /\ "unrow" \in DecisionSteps \cap Carrying /\ Refused(t)
      /\ matches' = [matches EXCEPT ![m].state = "deleted"]
      /\ UNCHANGED <<status, target, excluded>>
  BY DEF UndoRow, DecisionSteps, Carrying
<1>2. /\ e \in Emails /\ m \in Rows /\ Inserted(m) /\ matches[m].email = e
      /\ status[e] \in {"match", "review_match", "blocked_sender"}
  BY <1>1, AtDecision DEF Claims, Claiming, ExpectedAt
<1>3. /\ \A k \in Rows \ {m} : matches'[k] = matches[k]
      /\ matches'[m].email = e /\ matches'[m].project = matches[m].project
      /\ matches'[m].kind = matches[m].kind /\ matches'[m].state = "deleted"
  BY <1>1, <1>2 DEF IInv, RowsOK, MatchRows
<1>4. RowsFrame /\ \A f : NoneOpened(f)
  BY <1>2, <1>3 DEF RowsFrame, Inserted, NoneOpened
<1>5. Others(t) /\ Claims(t)' /\ th'[t].at \notin Claiming
      /\ th'[t].todo \subseteq th[t].todo /\ th[t].todo \subseteq Rows
  BY <1>1, LeftClaims
<1>6. \A u \in Threads \ {t} : SparesClaim(u)
  BY <1>1, <1>2, <1>3, <1>4, <1>5, AtDecision DEF SparesClaim, Others
<1>7. ASSUME NEW f \in Emails PROVE Visible(f)'
  <2>1. SparesEmail(f)
    BY <1>1, <1>2, <1>3, <1>4 DEF SparesEmail
  <2>. QED BY <1>4, <2>1, SameVisible DEF IInv, Claimed
<1>. QED BY <1>4, <1>5, <1>6, <1>7, ClaimedStep

LEMMA DecisionClaimed ==
    ASSUME IInv, Claimed, NEW t \in Threads, Decision(t)
    PROVE  Claimed'
BY MeetOpenRowClaimed, InsertRowClaimed, InsertLinkClaimed, MeetLinkClaimed, MarkAddedClaimed,
   DecideEmailClaimed, UndoLinkClaimed, UndoRowClaimed DEF Decision

-----------------------------------------------------------------------------
(* Steps after which the thread decides nothing. *)

\* Rows are closed.
LEMMA RowsClaimed ==
    ASSUME IInv, Claimed, UNCHANGED <<status, target, excluded>>,
           \A m \in Rows : /\ matches'[m].email = matches[m].email
                           /\ matches'[m].project = matches[m].project
                           /\ matches'[m].kind = matches[m].kind
                           /\ \/ matches'[m].state = matches[m].state
                              \/ matches[m].state = "open" /\ matches'[m].state = "closed",
           NEW t \in Threads, Others(t), th'[t].at \notin Claiming,
           th'[t].todo \subseteq th[t].todo
    PROVE  Claimed'
<1>1. RowsFrame /\ \A f : NoneOpened(f)
  BY DEF RowsFrame, Inserted, NoneOpened
<1>2. \A u \in Threads \ {t} : SparesClaim(u)
  BY <1>1 DEF SparesClaim, Others
<1>3. ASSUME NEW f \in Emails PROVE Visible(f)'
  <2>1. SparesEmail(f)
    BY <1>1 DEF SparesEmail
  <2>. QED BY <1>1, <2>1, SameVisible DEF IInv, Claimed
<1>4. th[t].todo \subseteq Rows
  BY DEF IInv, HandsOK, Hands
<1>. QED BY <1>1, <1>2, <1>3, <1>4, NoClaim, ClaimedStep

\* No thread takes a step.
LEMMA IdleClaimed ==
    ASSUME IInv, Claimed, UNCHANGED <<matches, th>>, NEW e \in Emails,
           \A f \in Emails \ {e} : status'[f] = status[f], UNCHANGED <<target, excluded>>,
           \A u \in Threads : th[u].at \in Claiming /\ th[u].email = e =>
               status'[e] \in {status[e], "blocked_sender"},
           Visible(e)'
    PROVE  Claimed'
<1>1. \A u \in Threads : th[u].at \in Claiming => th[u].email \in Emails
  BY DEF Claimed, Claims
<1>2. \A u \in Threads : SparesClaim(u)
  BY <1>1 DEF SparesClaim, NoneOpened
<1>3. Sweep \in Threads
  BY DEF Threads
<1>4. ASSUME NEW f \in Emails PROVE Visible(f)'
  <2>1. CASE f = e
    BY <2>1
  <2>2. CASE f # e
    BY <2>2, SameFrame, SameVisible DEF SparesEmail, NoneOpened, Claimed, IInv
  <2>. QED BY <2>1, <2>2
<1>5. Claims(Sweep)'
  BY <1>2, <1>3, SameFrame, OtherClaims DEF Claimed
<1>6. th'[Sweep].at \in Claiming => \A u \in Threads \ {Sweep} :
               th[u].at \in Claiming => th[u].email # th'[Sweep].email
  BY <1>3 DEF Claimed, Apart
<1>7. th[Sweep].todo \subseteq Rows
  BY <1>3 DEF IInv, HandsOK, Hands
<1>. QED BY <1>2, <1>3, <1>4, <1>5, <1>6, <1>7, SameFrame, ClaimedStep

LEMMA SameClaimed ==
    ASSUME Claimed, UNCHANGED <<status, target, excluded, matches, th>>
    PROVE  Claimed'
BY DEF Claimed, Claims, Apart, Cascading, Visible, ExpectedAt, HasOpenMerge, OpenRows, Inserted

LEMMA SweepClaimed ==
    ASSUME IInv, Claimed, SweepChecks \/ SweepRoutes \/ SweepParks
    PROVE  Claimed'
<1>. PICK e : e = th[Sweep].email
  OBVIOUS
<1>. Sweep \in Threads /\ ExpectedAt(Sweep) = "match"
  BY DEF Threads, ExpectedAt
<1>1. ASSUME SweepChecks PROVE Claimed'
  <2>1. /\ th[Sweep].at = "check" /\ {"check", "open"} \subseteq DecisionSteps
        /\ "open" \notin Carrying /\ UNCHANGED <<status, target, excluded, matches>>
    BY <1>1 DEF SweepChecks, DecisionSteps, Carrying, tables
  <2>2. CASE Goes(Sweep, "open") /\ th[Sweep].project \notin excluded[e]
    BY <2>1, <2>2, StepClaimed
  <2>3. CASE Refused(Sweep)
    BY <2>1, <2>3, LeftClaimed
  <2>. QED BY <1>1, <2>2, <2>3 DEF SweepChecks, Allowed
<1>2. ASSUME SweepRoutes PROVE Claimed'
  <2>1. /\ th[Sweep].at = "judged" /\ "judged" \in Claiming
        /\ UNCHANGED <<excluded, matches>>
    BY <1>2 DEF SweepRoutes, Claiming
  <2>2. /\ e \in Emails
        /\ th[Sweep].kind \notin Kinds => ~HasOpenMerge(e)
        /\ \A u \in Threads \ {Sweep} : th[u].at \in Claiming => th[u].email # e
    BY <2>1 DEF Claimed, Claims, Apart
  <2>3. CASE Ends(Sweep) /\ UNCHANGED <<status, target>>
    BY <2>1, <2>3, LeftClaimed
  <2>4. CASE /\ th[Sweep].kind \notin Kinds /\ Moves(e, "match", th[Sweep].kind)
             /\ Ends(Sweep) /\ UNCHANGED target
    <3>1. /\ \A f \in Emails \ {e} : status'[f] = status[f]
          /\ status'[e] = th[Sweep].kind
      BY <2>2, <2>4 DEF Moves, IInv, EmailsOK
    <3>2. status'[e] # "merged"
      BY <2>4, <3>1 DEF Kinds
    <3>3. Visible(e)'
      BY <2>1, <2>2, <2>4, <3>2 DEF Visible, HasOpenMerge, OpenRows
    <3>. QED BY <2>1, <2>2, <2>4, <3>1, <3>3, LeftClaims, EmailClaimed
  <2>5. CASE /\ status[e] = "match" /\ Goes(Sweep, "check") /\ UNCHANGED status
             /\ target' = [target EXCEPT ![e] = th[Sweep].project]
    <3>1. /\ \A f \in Emails \ {e} : target'[f] = target[f]
      BY <2>2, <2>5 DEF IInv, EmailsOK
    <3>2. Others(Sweep) /\ th'[Sweep].at = "check" /\ th'[Sweep].email = e
          /\ th'[Sweep].todo = th[Sweep].todo
      BY <2>5, Went DEF IInv
    <3>3. Claims(Sweep)'
      BY <2>2, <2>5, <3>2 DEF Claims, Carrying, ExpectedAt
    <3>4. Visible(e)'
      BY <2>5 DEF Visible, Visibles
    <3>. QED BY <2>1, <2>2, <2>5, <3>1, <3>2, <3>3, <3>4, EmailClaimed
  <2>. QED BY <1>2, <2>3, <2>4, <2>5 DEF SweepRoutes
<1>3. ASSUME SweepParks PROVE Claimed'
  <2>1. /\ th[Sweep].at = "park" /\ Ends(Sweep) /\ UNCHANGED <<target, excluded, matches>>
    BY <1>3 DEF SweepParks
  <2>2. e \in Emails
    BY <2>1 DEF IInv, HandsOK, HandOK
  <2>3. CASE UNCHANGED status
    BY <2>1, <2>3, LeftClaimed
  <2>4. CASE Moves(e, "match", "review_match")
    <3>1. /\ \A f \in Emails \ {e} : status'[f] = status[f]
          /\ status[e] = "match" /\ status'[e] = "review_match"
      BY <2>2, <2>4 DEF Moves, IInv, EmailsOK
    <3>2. Visible(e)'
      BY <3>1 DEF Visible, Visibles
    <3>3. ASSUME NEW u \in Threads \ {Sweep}, th[u].at \in Claiming PROVE th[u].email # e
      BY <3>1, <3>3 DEF Claimed, Claims, ExpectedAt
    <3>. QED BY <2>1, <2>2, <3>1, <3>2, <3>3, LeftClaims, EmailClaimed
  <2>. QED BY <1>3, <2>3, <2>4 DEF SweepParks
<1>. QED BY <1>1, <1>2, <1>3

LEMMA SweepRowClaimed ==
    ASSUME IInv, Claimed, NEW e \in Emails, SweepRow(e)
    PROVE  Claimed'
<1>. Sweep \in Threads
  BY DEF Threads
<1>1. /\ status[e] = "match" /\ UNCHANGED <<status, target, excluded, matches>>
  BY DEF SweepRow, tables
<1>2. /\ Others(Sweep) /\ th'[Sweep].email = e /\ th'[Sweep].todo = {}
      /\ \/ th'[Sweep].at = "check"
         \/ th'[Sweep].at = "judged" /\ (th'[Sweep].kind \notin Kinds => ~HasOpenMerge(e))
  <2>0. th \in [Threads -> Hands]
    BY DEF IInv, HandsOK
  <2>1. CASE \E m \in OpenRows(e) :
               th' = [th EXCEPT ![Sweep] = [Idle EXCEPT !.at = "check", !.email = e,
                           !.project = matches[m].project, !.kind = "merged"]]
    BY <2>0, <2>1 DEF Idle, Others
  <2>2. CASE /\ ~HasOpenMerge(e)
             /\ \E verdict \in {"review_match", "onward"} :
                  th' = [th EXCEPT ![Sweep] =
                           [Idle EXCEPT !.at = "judged", !.email = e, !.kind = verdict]]
    BY <2>0, <2>2 DEF Idle, Others
  <2>3. CASE \E p \in Projects, kind \in Kinds :
               th' = [th EXCEPT ![Sweep] = [Idle EXCEPT !.at = "judged", !.email = e,
                        !.project = p, !.kind = kind]]
    BY <2>0, <2>3 DEF Idle, Others
  <2>. QED BY <2>1, <2>2, <2>3 DEF SweepRow, Kinds
<1>4. Claims(Sweep)'
  BY <1>1, <1>2 DEF Claims, Carrying, ExpectedAt, HasOpenMerge, OpenRows
<1>5. ASSUME NEW u \in Threads \ {Sweep}, th[u].at \in Claiming PROVE th[u].email # e
  BY <1>1, <1>5 DEF Claimed, Claims, ExpectedAt
<1>. QED BY <1>1, <1>2, <1>4, <1>5, HandClaimed

-----------------------------------------------------------------------------
(* Nobody takes up what another has in hand: here Calm is needed. *)

\* A person takes up something of their own.
LEMMA TakenClaimed ==
    ASSUME IInv, Claimed, UNCHANGED <<status, target, excluded, matches>>,
           NEW h \in Threads, Others(h), th'[h].todo = {}, Claims(h)',
           th'[h].at \in Claiming => \A u \in Threads : th[u].email # th'[h].email
    PROVE  Claimed'
BY HandClaimed

LEMMA PersonDecidesClaimed ==
    ASSUME Calm, IInv, Claimed, NEW h \in People, NEW e \in Emails, NEW p \in Projects,
           NEW kind \in Kinds, PersonDecides(h, e, p, kind)
    PROVE  Claimed'
<1>. h \in Threads /\ h # Sweep
  BY DEF Threads
<1>1. /\ \A u \in Threads : th[u].email # e
      /\ UNCHANGED <<status, target, excluded, matches>>
      /\ status[e] = "review_match" /\ p \notin excluded[e]
  BY DEF PersonDecides, Alone, Allowed, tables
<1>2. /\ Others(h) /\ th'[h].at = "open" /\ th'[h].email = e /\ th'[h].project = p
      /\ th'[h].todo = {}
  BY DEF PersonDecides, IInv, HandsOK, Others, Idle
<1>4. Claims(h)'
  BY <1>1, <1>2 DEF Claims, Carrying, ExpectedAt
<1>. QED BY <1>1, <1>2, <1>4, TakenClaimed

LEMMA StartRejectClaimed ==
    ASSUME Calm, IInv, Claimed, NEW h \in People, NEW e \in Emails,
           NEW to \in {"onward", "rejected_by_review"}, StartReject(h, e, to)
    PROVE  Claimed'
<1>. h \in Threads /\ h # Sweep
  BY DEF Threads
<1>1. /\ \A u \in Threads : th[u].email # e
      /\ UNCHANGED <<status, target, excluded, matches>>
      /\ status[e] = "review_match" /\ ~HasOpenMerge(e)
  BY DEF StartReject, Alone, tables
<1>2. Others(h) /\ th'[h].at = "reject" /\ th'[h].email = e /\ th'[h].todo = {}
  BY DEF StartReject, IInv, HandsOK, Others, Idle
<1>4. ~HasOpenMerge(e)'
  BY <1>1 DEF HasOpenMerge, OpenRows
<1>5. Claims(h)'
  BY <1>1, <1>2, <1>4 DEF Claims, Carrying, ExpectedAt, HasOpenMerge, OpenRows
<1>. QED BY <1>1, <1>2, <1>5, TakenClaimed

LEMMA ReopenClaimed ==
    ASSUME Calm, IInv, Claimed, NEW h \in People, NEW e \in Emails, Reopen(h, e)
    PROVE  Claimed'
<1>. h \in Threads /\ h # Sweep
  BY DEF Threads
<1>1. /\ \A u \in Threads : th[u].email # e
      /\ UNCHANGED <<target, excluded, matches>> /\ th[h] = Idle
  BY DEF Reopen, Alone
<1>2. CASE UNCHANGED th /\ Moves(e, "done", "review_match")
  <2>1. /\ \A f \in Emails \ {e} : status'[f] = status[f] /\ status'[e] = "review_match"
    BY <1>2 DEF Moves, IInv, EmailsOK
  <2>2. Visible(e)'
    BY <1>2 DEF Visible, Visibles, Moves, IInv, EmailsOK
  <2>. QED BY <1>1, <1>2, <2>1, <2>2, IdleClaimed
<1>3. CASE /\ Moves(e, "duplicate", "review_match")
           /\ th' = [th EXCEPT ![h] = [Idle EXCEPT !.at = "reopened", !.email = e]]
  <2>1. /\ \A f \in Emails \ {e} : status'[f] = status[f]
        /\ status[e] = "duplicate" /\ status'[e] = "review_match"
    BY <1>3 DEF Moves, IInv, EmailsOK
  <2>2. ~HasOpenMerge(e)
    BY <2>1 DEF Claimed, Visible, Visibles
  <2>3. /\ Others(h) /\ th'[h].at = "reopened" /\ th'[h].email = e /\ th'[h].todo = {}
    BY <1>3 DEF IInv, HandsOK, Others, Idle
  <2>4. Visible(e)'
    BY <2>1 DEF Visible, Visibles
  <2>5. Claims(h)'
    BY <1>1, <2>1, <2>2, <2>3 DEF Claims, Carrying, ExpectedAt, HasOpenMerge, OpenRows
  <2>. QED BY <1>1, <2>1, <2>3, <2>4, <2>5, EmailClaimed
<1>. QED BY <1>2, <1>3 DEF Reopen

LEMMA StartUnmergeClaimed ==
    ASSUME IInv, Claimed, NEW h \in Threads, NEW m \in Rows, StartUnmerge(h, m)
    PROVE  Claimed'
<1>1. Others(h) /\ th'[h].at \in {"detach", "close", "return"} /\ th'[h].todo = {}
  <2>. DEFINE hand == [Idle EXCEPT !.email = matches[m].email,
                                   !.project = matches[m].project, !.row = m]
              looked == [hand EXCEPT !.held = StillLinked(m),
                                     !.at = IF StillLinked(m) THEN "detach" ELSE "close"]
              again == [hand EXCEPT !.at = "return", !.held = matches[m].added /\ ~StillLinked(m)]
  <2>1. th' = [th EXCEPT ![h] = looked] \/ th' = [th EXCEPT ![h] = again]
    BY DEF StartUnmerge
  <2>2. /\ looked.at \in {"detach", "close"} /\ looked.todo = {}
        /\ again.at = "return" /\ again.todo = {}
    BY DEF Idle
  <2>3. th \in [Threads -> Hands]
    BY DEF IInv, HandsOK
  <2>. HIDE DEF looked, again
  <2>. QED BY <2>1, <2>2, <2>3 DEF Others
<1>2. th'[h].at \notin Claiming
  BY <1>1 DEF Claiming, DecisionSteps
<1>3. UNCHANGED <<status, target, excluded, matches>>
  BY DEF StartUnmerge, tables
<1>. QED BY <1>1, <1>2, <1>3, NoClaim, TakenClaimed

LEMMA StartRemoveGcClaimed ==
    ASSUME IInv, Claimed, NEW h \in Threads, NEW p \in Projects, StartRemoveGc(h, p)
    PROVE  Claimed'
<1>1. Others(h) /\ th'[h].at = "remove" /\ th'[h].todo = {}
  BY DEF StartRemoveGc, Idle, IInv, HandsOK, Others
<1>2. th'[h].at \notin Claiming
  BY <1>1 DEF Claiming, DecisionSteps
<1>3. UNCHANGED <<status, target, excluded, matches>>
  BY DEF StartRemoveGc, tables
<1>. QED BY <1>1, <1>2, <1>3, NoClaim, TakenClaimed

\* The steps of a reversal are not a decision's.
LEMMA UnmergeNotClaiming ==
    (UnmergeSteps \cup {"idle", "park", "remove"}) \cap Claiming = {}
BY DEF UnmergeSteps, Claiming, DecisionSteps

\* An email goes back to the match step.
LEMMA ReturnedClaimed ==
    ASSUME IInv, Claimed, NEW e, NEW p, NEW from \in {"merged", "duplicate"},
           Returned(e, p, from), UNCHANGED matches,
           NEW h \in Threads, Others(h), th'[h].at \notin Claiming, th'[h].todo \subseteq th[h].todo
    PROVE  Claimed'
<1>1. th[h].todo \subseteq Rows
  BY DEF IInv, HandsOK, Hands
<1>2. CASE UNCHANGED <<status, target, excluded>>
  BY <1>1, <1>2, NoClaim, HandClaimed
<1>3. CASE /\ Moves(e, from, "match") /\ e \in Emails
           /\ target' = [target EXCEPT ![e] = None]
           /\ excluded' = [excluded EXCEPT ![e] = @ \cup {p}]
  <2>1. /\ \A f \in Emails \ {e} : /\ status'[f] = status[f] /\ target'[f] = target[f]
                                   /\ excluded'[f] = excluded[f]
        /\ status[e] = from /\ status'[e] = "match"
    BY <1>3 DEF Moves, IInv, EmailsOK
  <2>2. Visible(e)'
    BY <2>1 DEF Visible, Visibles
  <2>3. ASSUME NEW u \in Threads \ {h}, th[u].at \in Claiming PROVE th[u].email # e
    BY <2>1, <2>3 DEF Claimed, Claims, ExpectedAt
  <2>. QED BY <1>3, <2>1, <2>2, <2>3, NoClaim, EmailClaimed
<1>4. CASE /\ Moves(e, from, "match") /\ e \notin Emails
           /\ target' = [target EXCEPT ![e] = None]
           /\ excluded' = [excluded EXCEPT ![e] = @ \cup {p}]
  <2>1. status' = status /\ target' = target
    BY <1>4, NoEmail DEF Moves, IInv, EmailsOK
  <2>2. excluded' = excluded
    BY <1>4 DEF IInv, EmailsOK
  <2>. QED BY <1>2, <2>1, <2>2
<1>. QED BY <1>2, <1>3, <1>4 DEF Returned

LEMMA UnmergingClaimed ==
    ASSUME IInv, Claimed, NEW h \in Threads, Unmerging(h)
    PROVE  Claimed'
<1>0. th \in [Threads -> Hands] /\ th[h].todo \subseteq Rows
  BY DEF IInv, HandsOK, Hands
<1>1. \A step \in UnmergeSteps : Goes(h, step) =>
          Others(h) /\ th'[h].at \notin Claiming /\ th'[h].todo \subseteq th[h].todo
  BY Went, UnmergeNotClaiming DEF IInv
<1>2. Ends(h) => Others(h) /\ th'[h].at \notin Claiming /\ th'[h].todo \subseteq th[h].todo
  BY LeftClaims
<1>3. ASSUME Detach(h) PROVE Claimed'
  <2>1. UNCHANGED <<status, target, excluded, matches>>
    BY <1>3 DEF Detach
  <2>2. Ends(h) \/ (Goes(h, "close") /\ "close" \in UnmergeSteps)
    BY <1>3 DEF Detach, UnmergeSteps
  <2>. QED BY <1>0, <1>1, <1>2, <2>1, <2>2, NoClaim, HandClaimed
<1>4. ASSUME CloseRow(h) PROVE Claimed'
  <2>1. UNCHANGED <<status, target, excluded>>
    BY <1>4 DEF CloseRow
  <2>2. CASE Ends(h) /\ UNCHANGED matches
    BY <2>1, <2>2, LeftClaimed
  <2>3. CASE /\ matches[th[h].row].state = "open"
             /\ matches' = [matches EXCEPT ![th[h].row].state = "closed"]
             /\ th' = [th EXCEPT ![h].at = "return",
                          ![h].held = matches[th[h].row].added /\ ~StillLinked(th[h].row)]
    <3>1. Others(h) /\ th'[h].at = "return" /\ th'[h].todo = th[h].todo
      BY <1>0, <2>3 DEF Others, Hands
    <3>2. "return" \notin Claiming
      BY DEF Claiming, DecisionSteps
    <3>3. \A m \in Rows : /\ matches'[m].email = matches[m].email
                          /\ matches'[m].project = matches[m].project
                          /\ matches'[m].kind = matches[m].kind
                          /\ \/ matches'[m].state = matches[m].state
                             \/ matches[m].state = "open" /\ matches'[m].state = "closed"
      BY <2>3 DEF IInv, RowsOK, MatchRows
    <3>. QED BY <2>1, <3>1, <3>2, <3>3, RowsClaimed
  <2>. QED BY <1>4, <2>2, <2>3 DEF CloseRow
<1>5. ASSUME ReturnEmail(h) PROVE Claimed'
  <2>1. Ends(h) \/ (Goes(h, "select") /\ "select" \in UnmergeSteps)
    BY <1>5 DEF ReturnEmail, UnmergeSteps
  <2>2. Returned(th[h].email, th[h].project, "merged") /\ UNCHANGED matches
    BY <1>5 DEF ReturnEmail
  <2>. QED BY <1>1, <1>2, <2>1, <2>2, ReturnedClaimed
<1>6. ASSUME ReturnDuplicate(h) PROVE Claimed'
  <2>1. Goes(h, "cascade") /\ "cascade" \in UnmergeSteps
    BY <1>6 DEF ReturnDuplicate, UnmergeSteps
  <2>2. Returned(th[h].email, th[h].project, "duplicate") /\ UNCHANGED matches
    BY <1>6 DEF ReturnDuplicate
  <2>. QED BY <1>1, <2>1, <2>2, ReturnedClaimed
<1>7. ASSUME SelectDuplicates(h) PROVE Claimed'
  <2>1. UNCHANGED <<status, target, excluded, matches>>
    BY <1>7 DEF SelectDuplicates, tables
  <2>2. /\ Others(h) /\ th'[h].at = "cascade" /\ th'[h].todo \subseteq Rows
        /\ \A d \in th'[h].todo : matches[d].state = "open" /\ matches[d].kind = "duplicate"
    BY <1>0, <1>7 DEF SelectDuplicates, Others, Hands
  <2>3. "cascade" \notin Claiming
    BY DEF Claiming, DecisionSteps
  <2>4. \A d \in th'[h].todo : Inserted(d)
    BY <2>2 DEF Inserted
  <2>. QED BY <2>1, <2>2, <2>3, <2>4, NoClaim, HandClaimed
<1>8. ASSUME CloseDuplicate(h) PROVE Claimed'
  <2>1. UNCHANGED <<status, target, excluded>> /\ th[h].at = "cascade"
    BY <1>8 DEF CloseDuplicate
  <2>2. CASE Ends(h) /\ UNCHANGED matches
    BY <2>1, <2>2, LeftClaimed
  <2>3. ASSUME NEW d \in th[h].todo, matches[d].state = "open",
               matches' = [matches EXCEPT ![d].state = "closed"],
               th' = [th EXCEPT ![h].at = "giveback", ![h].email = matches[d].email,
                                ![h].todo = @ \ {d}]
        PROVE  Claimed'
    <3>1. Others(h) /\ th'[h].at = "giveback" /\ th'[h].todo \subseteq th[h].todo
      BY <1>0, <2>3 DEF Others, Hands
    <3>2. "giveback" \notin Claiming
      BY DEF Claiming, DecisionSteps
    <3>3. \A m \in Rows : /\ matches'[m].email = matches[m].email
                          /\ matches'[m].project = matches[m].project
                          /\ matches'[m].kind = matches[m].kind
                          /\ \/ matches'[m].state = matches[m].state
                             \/ matches[m].state = "open" /\ matches'[m].state = "closed"
      BY <2>3 DEF IInv, RowsOK, MatchRows
    <3>. QED BY <2>1, <3>1, <3>2, <3>3, RowsClaimed
  <2>4. ASSUME NEW d \in th[h].todo, th' = [th EXCEPT ![h].todo = @ \ {d}], UNCHANGED matches
        PROVE  Claimed'
    <3>1. Others(h) /\ th'[h].at = "cascade" /\ th'[h].todo \subseteq th[h].todo
      BY <1>0, <2>1, <2>4 DEF Others, Hands
    <3>2. "cascade" \notin Claiming
      BY DEF Claiming, DecisionSteps
    <3>. QED BY <1>0, <2>1, <2>4, <3>1, <3>2, NoClaim, HandClaimed
  <2>. QED BY <1>8, <2>2, <2>3, <2>4 DEF CloseDuplicate
<1>. QED BY <1>3, <1>4, <1>5, <1>6, <1>7, <1>8 DEF Unmerging

LEMMA RejectClaimed ==
    ASSUME IInv, Claimed, NEW h \in Threads, Reject(h)
    PROVE  Claimed'
<1>. PICK e : e = th[h].email
  OBVIOUS
<1>1. /\ th[h].at = "reject" /\ "reject" \in Claiming
      /\ Ends(h) /\ UNCHANGED <<target, excluded, matches>>
  BY DEF Reject, Claiming
<1>2. /\ e \in Emails /\ ~HasOpenMerge(e)
      /\ \A u \in Threads \ {h} : th[u].at \in Claiming => th[u].email # e
      /\ th[h].kind \in {"onward", "rejected_by_review"}
  BY <1>1 DEF Claimed, Claims, Apart, IInv, HandsOK, HandOK
<1>3. CASE UNCHANGED status
  BY <1>1, <1>3, LeftClaimed
<1>4. CASE Moves(e, "review_match", th[h].kind)
  <2>1. /\ \A f \in Emails \ {e} : status'[f] = status[f]
        /\ status'[e] = th[h].kind
    BY <1>2, <1>4 DEF Moves, IInv, EmailsOK
  <2>2. Visible(e)'
    BY <1>1, <1>2, <2>1 DEF Visible, HasOpenMerge, OpenRows
  <2>. QED BY <1>1, <1>2, <2>1, <2>2, LeftClaims, EmailClaimed
<1>. QED BY <1>3, <1>4 DEF Reject

LEMMA CloseReopenedClaimed ==
    ASSUME IInv, Claimed, NEW h \in Threads, CloseReopened(h)
    PROVE  Claimed'
<1>1. UNCHANGED <<status, target, excluded>> /\ Ends(h)
  BY DEF CloseReopened
<1>2. \A m \in Rows : matches'[m] = IF m \in OpenRows(th[h].email)
                                      THEN [matches[m] EXCEPT !.state = "closed"]
                                      ELSE matches[m]
  BY DEF CloseReopened
<1>3. \A m \in Rows : /\ matches'[m].email = matches[m].email
                      /\ matches'[m].project = matches[m].project
                      /\ matches'[m].kind = matches[m].kind
                      /\ \/ matches'[m].state = matches[m].state
                         \/ matches[m].state = "open" /\ matches'[m].state = "closed"
  BY <1>2 DEF OpenRows, IInv, RowsOK, MatchRows
<1>. QED BY <1>1, <1>3, LeftClaims, RowsClaimed

LEMMA EmailCommandsClaimed ==
    ASSUME IInv, Claimed, NEW e \in Emails,
           RetryRow(e) \/ SetProjectName(e) \/ ParkBlockedSender(e) \/ DrainOnward(e)
    PROVE  Claimed'
<1>1. UNCHANGED <<target, excluded, matches, th>>
  BY DEF RetryRow, SetProjectName, ParkBlockedSender, Redirect, DrainOnward
<1>2. \A f \in Emails \ {e} : status'[f] = status[f]
  BY DEF RetryRow, SetProjectName, ParkBlockedSender, Redirect, DrainOnward, Moves, IInv, EmailsOK
<1>3. \/ status[e] \in {"failed", "done"} /\ status'[e] = "match"
      \/ status'[e] = "blocked_sender"
      \/ status[e] = "onward" /\ status'[e] \in {"done", "created"}
  BY DEF RetryRow, SetProjectName, ParkBlockedSender, Redirect, DrainOnward, Moves, IInv, EmailsOK
<1>4. Visible(e)'
  BY <1>1, <1>3 DEF Claimed, Visible, Visibles, HasOpenMerge, OpenRows
<1>5. ASSUME NEW u \in Threads, th[u].at \in Claiming, th[u].email = e
      PROVE  status'[e] \in {status[e], "blocked_sender"}
  BY <1>3, <1>5 DEF Claimed, Claims, ExpectedAt
<1>. QED BY <1>1, <1>2, <1>4, <1>5, IdleClaimed

LEMMA ProjectCommandsClaimed ==
    ASSUME IInv, Claimed, NEW p,
           AddGc(p) \/ ClaimSend(p) \/ MarkSubmitted(p) \/ SettleSend(p) \/ CloseProject(p)
    PROVE  Claimed'
BY SameClaimed DEF AddGc, ClaimSend, MarkSubmitted, SettleSend, CloseProject, tables, Command

LEMMA ClaimedInitially == Init => Claimed
<1>. SUFFICES ASSUME Init PROVE Claimed
  OBVIOUS
<1>1. \A t \in Threads : th[t] = Idle /\ Idle.at \notin Claiming /\ Idle.todo = {}
  BY DEF Init, Idle, Claiming, DecisionSteps
<1>2. \A e \in Emails : status[e] = "match"
  BY DEF Init
<1>. QED BY <1>1, <1>2 DEF Claimed, Claims, Apart, Cascading, Visible, Visibles

LEMMA ClaimedKept ==
    ASSUME Calm, IInv, Claimed, [Next]_vars
    PROVE  Claimed'
<1>. People \subseteq Threads /\ Sweep \in Threads
  BY DEF Threads
<1>1. ASSUME NEW t \in Threads, Working(t) PROVE Claimed'
  <2>1. CASE RemoveGc(t)
    BY <2>1, LeftClaimed DEF RemoveGc
  <2>. QED BY <1>1, <2>1, DecisionClaimed, SweepClaimed, UnmergingClaimed, RejectClaimed,
              CloseReopenedClaimed DEF Working
<1>2. ASSUME NEW t \in Threads, Trouble(t) PROVE Claimed'
  <2>1. UNCHANGED <<target, excluded, matches>>
    BY <1>2 DEF Trouble
  <2>2. Failed(t) \/ (Refused(t) /\ UNCHANGED status)
    BY <1>2 DEF Trouble
  <2>. QED BY <2>1, <2>2, FailedClaimed, LeftClaimed
<1>3. ASSUME NEW h \in People, PersonActs(h) PROVE Claimed'
  BY <1>3, PersonDecidesClaimed, StartUnmergeClaimed, StartRejectClaimed, ReopenClaimed,
     StartRemoveGcClaimed DEF PersonActs
<1>4. CASE UNCHANGED vars
  BY <1>4, SameClaimed DEF vars
<1>. QED BY <1>1, <1>2, <1>3, <1>4, SweepRowClaimed, EmailCommandsClaimed,
            ProjectCommandsClaimed DEF Next

-----------------------------------------------------------------------------
(* What holds as long as nothing crashed or failed.                        *)

Reversing == {"detach", "close", "return"}
Busy == Claiming \cup Reversing

OpenMerge(m) == matches[m].state = "open" /\ matches[m].kind = "merged"

\* The GC is on the project by the link made for this row.
Linked(p, m) == OnProject(p) /\ link[p].id = m

\* A thread that makes, needs or takes a link of its project.
Blocks(t) == \/ th[t].at \in {"mark", "unlink", "remove"} \cup Reversing
             \/ th[t].at = "cas" /\ th[t].kind = "merged"

\* One thread at a time decides an email or reverses its merge.
Clear == \A t, u \in Threads :
    th[t].at \in Busy /\ th[u].at \in Busy /\ th[t].email = th[u].email => t = u

\* A link names the row it was made for, or none.
LinkIds == \A p \in Projects : OnProject(p) =>
              /\ link[p].match \in {0, link[p].id}
              /\ link[p].id # 0 => link[p].id \in Rows /\ Inserted(link[p].id)

\* A decision meets no open merge, and the merge it makes stays open, with its
\* link, until the email takes it.
Carried(t) ==
    LET l == th[t]
        e == l.email
    IN  /\ l.at \in {"judged", "check", "open", "insert"} => ~HasOpenMerge(e)
        /\ l.at \in Carrying /\ l.kind = "merged" => matches[l.row].state = "open"
        /\ l.at \in {"link", "exists"} => \A p \in Projects : ~Linked(p, l.row)
        /\ l.at = "mark" \/ (l.at = "cas" /\ l.kind = "merged") => Linked(l.project, l.row)
        /\ l.at \in {"unlink", "unrow"} => status[e] = "blocked_sender"

\* A reversal has the open merge of a merged email in hand.
Reversed(t) ==
    LET l == th[t]
        e == l.email
    IN  l.at \in Reversing =>
          /\ Inserted(l.row) /\ matches[l.row].email = e /\ matches[l.row].project = l.project
          /\ matches[l.row].kind = "merged"
          /\ status[e] \in {"merged", "blocked_sender"}
          /\ l.at \in {"detach", "close"} => matches[l.row].state = "open"
          /\ l.at = "return" => OpenRows(e) = {}

\* The GC that is being removed is not what an open merge rests on.
Removing(h) ==
    LET p == th[h].project
    IN  th[h].at = "remove" =>
          /\ p \in Projects /\ OnProject(p)
          /\ \A t \in Threads \ {h} : th[t].project = p => ~Blocks(t)
          /\ \A m \in Rows : OpenMerge(m) /\ matches[m].project = p =>
               \E t \in Threads : th[t].row = m /\ th[t].at \in {"link", "exists"}

\* An open merge has its email or its decider; one that was reversed has left
\* its project excluded.
Accounted(m) ==
    LET e == matches[m].email
    IN  /\ OpenMerge(m) => \/ status[e] \in {"merged", "blocked_sender"}
                           \/ \E t \in Threads : th[t].row = m /\ th[t].at \in Carrying
        /\ matches[m].state = "superseded" => matches[m].kind = "duplicate"
        /\ matches[m].state = "closed" /\ matches[m].kind = "merged" =>
             \/ matches[m].project \in excluded[e]
             \/ status[e] = "blocked_sender"
             \/ \E t \in Threads : th[t].row = m /\ th[t].at = "return"

\* A merged email has its row open and the GC linked, or is being unmerged.
Complete(e) ==
    status[e] = "merged" =>
      \E m \in Rows :
        /\ matches[m].email = e /\ matches[m].project = target[e] /\ matches[m].kind = "merged"
        /\ \/ matches[m].state = "open" /\ Linked(target[e], m)
           \/ \E t \in Threads : th[t].row = m /\ th[t].at \in {"close", "return"}

Smooth ==
    /\ Clear /\ LinkIds
    /\ \A t \in Threads : Carried(t) /\ Reversed(t) /\ Removing(t)
    /\ \A m \in Rows : Accounted(m)
    /\ \A e \in Emails : Complete(e)

-----------------------------------------------------------------------------
(* What a step leaves to the other threads. *)

SparesBusy(u) ==
    LET l == th[u]
        e == l.email
    IN  /\ th'[u] = l
        /\ l.at \in Busy =>
             /\ status'[e] \in {status[e], "blocked_sender"}
             /\ NoneOpened(e)
             /\ \A m \in Rows : Inserted(m) /\ matches[m].email = e =>
                  /\ matches'[m].kind = matches[m].kind
                  /\ matches[m].kind = "merged" => matches'[m].state = matches[m].state
             /\ l.at \in {"link", "exists"} =>
                  \A p \in Projects : Linked(p, l.row)' => Linked(p, l.row)
             /\ l.at = "mark" \/ (l.at = "cas" /\ l.kind = "merged") =>
                  (Linked(l.project, l.row) => Linked(l.project, l.row)')

\* What a thread has in hand while it carries or reverses a row.
LEMMA InHand ==
    ASSUME IInv, Claimed, Smooth, NEW t \in Threads, th[t].at \in Carrying \cup Reversing
    PROVE  /\ th[t].at \in Busy /\ th[t].row \in Rows /\ Inserted(th[t].row)
           /\ th[t].email \in Emails /\ th[t].project \in Projects
           /\ matches[th[t].row].email = th[t].email
           /\ matches[th[t].row].project = th[t].project
<1>1. CASE th[t].at \in Carrying
  BY <1>1 DEF IInv, HandsOK, HandOK, Claimed, Claims, Carrying, Claiming, DecisionSteps, Busy,
              Inserted
<1>2. CASE th[t].at \in Reversing
  BY <1>2 DEF IInv, HandsOK, HandOK, RowsOK, RowOK, Smooth, Reversed, Reversing, Busy,
              UnmergeSteps, Inserted
<1>. QED BY <1>1, <1>2

LEMMA OtherBusy ==
    ASSUME IInv, Claimed, Smooth, RowsFrame, NEW u \in Threads, SparesBusy(u)
    PROVE  Carried(u)' /\ Reversed(u)'
<1>. PICK e, m : e = th[u].email /\ m = th[u].row
  OBVIOUS
<1>0. th'[u] = th[u] /\ Carried(u) /\ Reversed(u)
  BY DEF SparesBusy, Smooth
<1>1. th[u].at \in Busy => OpenRows(e)' \subseteq OpenRows(e) /\ (HasOpenMerge(e)' => HasOpenMerge(e))
  BY NoMoreOpen DEF IInv, SparesBusy
<1>2. th[u].at \in Carrying =>
        /\ matches'[m].kind = matches[m].kind
        /\ matches[m].kind = "merged" => matches'[m].state = matches[m].state
        /\ matches[m].kind = th[u].kind
  <2>. SUFFICES ASSUME th[u].at \in Carrying
                PROVE  /\ matches'[m].kind = matches[m].kind
                       /\ matches[m].kind = "merged" => matches'[m].state = matches[m].state
                       /\ matches[m].kind = th[u].kind
    OBVIOUS
  <2>1. m \in Rows /\ Inserted(m) /\ matches[m].email = e /\ th[u].at \in Busy
    BY InHand
  <2>2. matches[m].kind = th[u].kind
    BY DEF Claimed, Claims, Carrying, Claiming, DecisionSteps
  <2>. QED BY <2>1, <2>2 DEF SparesBusy
<1>3. Carried(u)'
  <2>1. th[u].at \in {"judged", "check", "open", "insert"} \cup Carrying => th[u].at \in Busy
    BY DEF Busy, Claiming, DecisionSteps, Carrying
  <2>2. th[u].at \in {"judged", "check", "open", "insert"} => ~HasOpenMerge(e)'
    BY <1>0, <1>1, <2>1 DEF Carried
  <2>3. th[u].at \in Carrying /\ th[u].kind = "merged" => matches'[m].state = "open"
    BY <1>0, <1>2 DEF Carried
  <2>4. th[u].at \in {"link", "exists"} => \A p \in Projects : ~Linked(p, m)'
    BY <1>0, <2>1 DEF Carried, SparesBusy, Carrying
  <2>5. th[u].at = "mark" \/ (th[u].at = "cas" /\ th[u].kind = "merged")
          => Linked(th[u].project, m)'
    BY <1>0, <2>1 DEF Carried, SparesBusy, Carrying
  <2>6. th[u].at \in {"unlink", "unrow"} => status'[e] = "blocked_sender"
    BY <1>0, <2>1 DEF Carried, SparesBusy, Carrying
  <2>7. HasOpenMerge(th[u].email)' = HasOpenMerge(e)'
    BY <1>0 DEF HasOpenMerge, OpenRows
  <2>8. \A p : Linked(p, th[u].row)' = Linked(p, m)'
    BY <1>0 DEF Linked
  <2>9. Linked(th[u].project, th[u].row)' = Linked(th[u].project, m)'
    BY <1>0 DEF Linked
  <2>. QED BY <1>0, <2>2, <2>3, <2>4, <2>5, <2>6, <2>7, <2>8, <2>9 DEF Carried
<1>4. Reversed(u)'
  <2>. SUFFICES ASSUME th[u].at \in Reversing PROVE Reversed(u)'
    BY <1>0 DEF Reversed
  <2>1. m \in Rows /\ Inserted(m) /\ matches[m].email = e /\ th[u].at \in Busy
    BY InHand
  <2>2. /\ Inserted(m)' /\ matches'[m].email = e /\ matches'[m].project = th[u].project
        /\ matches'[m].kind = "merged" /\ matches'[m].state = matches[m].state
    BY <1>0, <2>1 DEF RowsFrame, SparesBusy, Reversed
  <2>3. status'[e] \in {"merged", "blocked_sender"}
    BY <1>0, <2>1 DEF SparesBusy, Reversed
  <2>4. OpenRows(th[u].email)' = OpenRows(e)'
    BY <1>0 DEF OpenRows
  <2>. QED BY <1>0, <1>1, <2>1, <2>2, <2>3, <2>4 DEF Reversed, Inserted
<1>. QED BY <1>3, <1>4

LEMMA SmoothStep ==
    ASSUME IInv, Claimed, Smooth, RowsFrame, NEW t \in Threads,
           \A u \in Threads \ {t} : SparesBusy(u),
           th'[t].at \in Busy => \A u \in Threads \ {t} :
               th[u].at \in Busy => th[u].email # th'[t].email,
           LinkIds', Carried(t)', Reversed(t)', \A h \in Threads : Removing(h)',
           \A m \in Rows : Accounted(m)', \A e \in Emails : Complete(e)'
    PROVE  Smooth'
<1>1. \A u \in Threads : Carried(u)' /\ Reversed(u)'
  BY OtherBusy
<1>2. \A u \in Threads \ {t} : th'[u] = th[u]
  BY DEF SparesBusy
<1>3. Clear'
  BY <1>2 DEF Clear, Smooth
<1>. QED BY <1>1, <1>3 DEF Smooth

-----------------------------------------------------------------------------
(* Steps that leave merges and links alone. *)

\* Of the rows, at most open duplicates are closed or superseded.
MergesKept ==
    \A m \in Rows :
        /\ matches'[m].email = matches[m].email /\ matches'[m].project = matches[m].project
        /\ matches'[m].kind = matches[m].kind
        /\ \/ matches'[m].state = matches[m].state
           \/ /\ matches[m].kind = "duplicate" /\ matches[m].state = "open"
              /\ matches'[m].state \in {"closed", "superseded"}

LEMMA MergesFrame ==
    ASSUME MergesKept
    PROVE  /\ RowsFrame /\ \A f : NoneOpened(f)
           /\ \A m \in Rows : OpenMerge(m)' <=> OpenMerge(m)
           /\ \A m \in Rows : matches[m].kind = "merged" => matches'[m].state = matches[m].state
<1>1. RowsFrame /\ \A f : NoneOpened(f)
  BY DEF MergesKept, RowsFrame, Inserted, NoneOpened
<1>2. \A m \in Rows : matches[m].kind = "merged" => matches'[m].state = matches[m].state
  BY DEF MergesKept
<1>3. \A m \in Rows : OpenMerge(m)' <=> OpenMerge(m)
  BY DEF MergesKept, OpenMerge
<1>. QED BY <1>1, <1>2, <1>3

\* What thread t does is no concern of those that remove a GC.
Harmless(t) ==
    /\ th'[t].at = "remove" => Removing(t)'
    /\ Blocks(t)' =>
         \/ Blocks(t) /\ th'[t].project = th[t].project
         \/ \A h \in Threads : th[h].at = "remove" => th[h].project # th'[t].project
    /\ th[t].at \in {"link", "exists"} =>
         \/ th'[t].at \in {"link", "exists"} /\ th'[t].row = th[t].row
         \/ matches'[th[t].row].kind # "merged" \/ matches'[th[t].row].state # "open"
         \/ \A h \in Threads : th[h].at = "remove" => th[h].project # matches[th[t].row].project

LEMMA RemovingKept ==
    ASSUME Smooth, NEW t \in Threads, Others(t), Harmless(t),
           \A m \in Rows : OpenMerge(m)' =>
               \/ OpenMerge(m) /\ matches'[m].project = matches[m].project
               \/ th'[t].row = m /\ th'[t].at \in {"link", "exists"},
           NEW h \in Threads,
           h # t /\ th[h].at = "remove" /\ th[h].project \in Projects /\ OnProject(th[h].project)
               => link'[th[h].project] # None
    PROVE  Removing(h)'
<1>. PICK p : p = th[h].project
  OBVIOUS
<1>. SUFFICES ASSUME th'[h].at = "remove", h # t PROVE Removing(h)'
  BY DEF Removing, Harmless
<1>1. h # t /\ th'[h] = th[h] /\ th[h].at = "remove"
  BY DEF Others
<1>2. Removing(h)
  BY DEF Smooth
<1>3. p \in Projects /\ link'[p] # None
  BY <1>1, <1>2 DEF Removing
<1>4. ASSUME NEW u \in Threads \ {h}, th'[u].project = p PROVE ~Blocks(u)'
  <2>1. CASE u = t
    BY <1>1, <1>2, <1>4, <2>1 DEF Removing, Harmless
  <2>2. CASE u # t
    <3>1. th'[u] = th[u]
      BY <2>2 DEF Others
    <3>. QED BY <1>1, <1>2, <1>4, <3>1 DEF Removing, Blocks
  <2>. QED BY <2>1, <2>2
<1>5. ASSUME NEW m \in Rows, OpenMerge(m)', matches'[m].project = p
      PROVE  \E u \in Threads : th'[u].row = m /\ th'[u].at \in {"link", "exists"}
  <2>1. CASE th'[t].row = m /\ th'[t].at \in {"link", "exists"}
    BY <2>1
  <2>2. CASE OpenMerge(m) /\ matches'[m].project = matches[m].project
    <3>1. PICK u \in Threads : th[u].row = m /\ th[u].at \in {"link", "exists"}
      BY <1>1, <1>2, <1>5, <2>2 DEF Removing
    <3>2. CASE u # t
      BY <3>1, <3>2 DEF Others
    <3>3. CASE u = t
      BY <1>1, <1>5, <2>2, <3>1, <3>3 DEF Harmless, OpenMerge
    <3>. QED BY <3>2, <3>3
  <2>. QED BY <1>5, <2>1, <2>2
<1>. QED BY <1>1, <1>3, <1>4, <1>5 DEF Removing, OnProject

LEMMA HandsSmooth ==
    ASSUME IInv, Claimed, Smooth, MergesKept, UNCHANGED link,
           NEW t \in Threads, Others(t), NEW e,
           \A f \in Emails \ {e} : /\ status'[f] = status[f] /\ target'[f] = target[f]
                                   /\ excluded'[f] = excluded[f],
           \A u \in Threads \ {t} : th[u].at \in Busy /\ th[u].email = e =>
               status'[e] \in {status[e], "blocked_sender"},
           e \in Emails => /\ excluded[e] \subseteq excluded'[e]
                           /\ status[e] = "blocked_sender" => status'[e] = "blocked_sender"
                           /\ HasOpenMerge(e) =>
                                status'[e] \in {status[e], "merged", "blocked_sender"}
                           /\ \/ Complete(e)'
                              \/ status'[e] = status[e] /\ target'[e] = target[e],
           th'[t].at \in Busy => \A u \in Threads \ {t} :
               th[u].at \in Busy => th[u].email # th'[t].email,
           Carried(t)', Reversed(t)', Harmless(t),
           th[t].at \in Carrying =>
               \/ th'[t].at \in Carrying /\ th'[t].row = th[t].row
               \/ matches[th[t].row].kind = "duplicate"
               \/ status'[th[t].email] \in {"merged", "blocked_sender"},
           th[t].at \in {"close", "return"} => \/ th'[t] = th[t]
                                               \/ th[t].email = e /\ Complete(e)',
           th[t].at = "return" => \/ th'[t] = th[t]
                                  \/ th[t].project \in excluded'[e]
                                  \/ status'[e] = "blocked_sender"
    PROVE  Smooth'
<1>1. /\ RowsFrame /\ \A f : NoneOpened(f)
      /\ \A m \in Rows : OpenMerge(m)' <=> OpenMerge(m)
      /\ \A m \in Rows : matches[m].kind = "merged" => matches'[m].state = matches[m].state
  BY MergesFrame
<1>2. \A p, m : Linked(p, m)' <=> Linked(p, m)
  BY DEF Linked, OnProject
<1>3. \A u \in Threads \ {t} : SparesBusy(u)
  <2>. SUFFICES ASSUME NEW u \in Threads \ {t} PROVE SparesBusy(u)
    OBVIOUS
  <2>1. th[u].at \in Busy => th[u].email \in Emails
    BY InHand DEF Claimed, Claims, Busy
  <2>. QED BY <1>1, <1>2, <2>1 DEF SparesBusy, Others, MergesKept
<1>4. LinkIds'
  BY <1>1 DEF LinkIds, Smooth, OnProject, RowsFrame
<1>5. ASSUME NEW h \in Threads PROVE Removing(h)'
  <2>1. \A m \in Rows : OpenMerge(m)' => OpenMerge(m) /\ matches'[m].project = matches[m].project
    BY <1>1 DEF MergesKept
  <2>2. OnProject(th[h].project) => link'[th[h].project] # None
    BY DEF OnProject
  <2>. QED BY <2>1, <2>2, RemovingKept
<1>6. ASSUME NEW m \in Rows PROVE Accounted(m)'
  <2>. PICK f : f = matches[m].email
    OBVIOUS
  <2>0. /\ matches'[m].email = f /\ matches'[m].project = matches[m].project
        /\ matches'[m].kind = matches[m].kind /\ Accounted(m)
    BY DEF MergesKept, Smooth
  <2>1. ASSUME OpenMerge(m)
        PROVE  \/ status'[f] \in {"merged", "blocked_sender"}
               \/ \E u \in Threads : th'[u].row = m /\ th'[u].at \in Carrying
    <3>1. f \in Emails /\ m \in OpenRows(f) /\ HasOpenMerge(f)
      BY <2>1 DEF OpenMerge, OpenRows, HasOpenMerge, IInv, RowsOK, RowOK
    <3>2. CASE status[f] \in {"merged", "blocked_sender"}
      BY <3>1, <3>2
    <3>3. CASE \E u \in Threads : th[u].row = m /\ th[u].at \in Carrying
      <4>1. PICK u \in Threads : th[u].row = m /\ th[u].at \in Carrying
        BY <3>3
      <4>2. matches[m].email = th[u].email
        BY <4>1, InHand
      <4>. QED BY <2>1, <4>1, <4>2 DEF Others, OpenMerge
    <3>. QED BY <2>0, <2>1, <3>2, <3>3 DEF Accounted
  <2>2. matches'[m].state = "superseded" => matches[m].kind = "duplicate"
    BY <2>0 DEF MergesKept, Accounted
  <2>3. ASSUME matches[m].state = "closed", matches[m].kind = "merged"
        PROVE  \/ matches[m].project \in excluded'[f]
               \/ status'[f] = "blocked_sender"
               \/ \E u \in Threads : th'[u].row = m /\ th'[u].at = "return"
    <3>1. f \in Emails
      BY <2>3 DEF IInv, RowsOK, RowOK
    <3>2. CASE matches[m].project \in excluded[f] \/ status[f] = "blocked_sender"
      BY <3>1, <3>2
    <3>3. CASE \E u \in Threads : th[u].row = m /\ th[u].at = "return"
      <4>1. PICK u \in Threads : th[u].row = m /\ th[u].at = "return"
        BY <3>3
      <4>2. matches[m].email = th[u].email /\ matches[m].project = th[u].project
        BY <4>1, InHand DEF Reversing
      <4>. QED BY <4>1, <4>2 DEF Others
    <3>. QED BY <2>0, <2>3, <3>2, <3>3 DEF Accounted
  <2>4. matches'[m].kind = "merged" => matches'[m].state = matches[m].state
    BY <1>1, <2>0
  <2>. QED BY <1>1, <2>0, <2>1, <2>2, <2>3, <2>4 DEF Accounted
<1>7. ASSUME NEW f \in Emails PROVE Complete(f)'
  <2>1. CASE Complete(f)'
    BY <2>1
  <2>2. CASE /\ status'[f] = status[f] /\ target'[f] = target[f]
             /\ th[t].at \in {"close", "return"} => th'[t] = th[t] \/ th[t].email # f
    <3>. SUFFICES ASSUME status[f] = "merged" PROVE Complete(f)'
      BY <2>2 DEF Complete
    <3>1. PICK m \in Rows :
            /\ matches[m].email = f /\ matches[m].project = target[f] /\ matches[m].kind = "merged"
            /\ \/ matches[m].state = "open" /\ Linked(target[f], m)
               \/ \E u \in Threads : th[u].row = m /\ th[u].at \in {"close", "return"}
      BY DEF Smooth, Complete
    <3>2. /\ matches'[m].email = f /\ matches'[m].project = target'[f]
          /\ matches'[m].kind = "merged" /\ matches'[m].state = matches[m].state
      BY <1>1, <2>2, <3>1 DEF MergesKept
    <3>3. CASE matches[m].state = "open" /\ Linked(target[f], m)
      <4>1. Linked(target[f], m)' /\ target'[f] = target[f]
        BY <1>2, <2>2, <3>3 DEF Linked, OnProject
      <4>. QED BY <3>2, <3>3, <4>1 DEF Complete, Linked, OnProject
    <3>4. CASE \E u \in Threads : th[u].row = m /\ th[u].at \in {"close", "return"}
      <4>1. PICK u \in Threads : th[u].row = m /\ th[u].at \in {"close", "return"}
        BY <3>4
      <4>2. th[u].email = f
        BY <3>1, <4>1, InHand DEF Reversing
      <4>3. th'[u] = th[u]
        BY <2>2, <4>1, <4>2 DEF Others
      <4>. QED BY <3>2, <4>1, <4>3 DEF Complete
    <3>. QED BY <3>1, <3>3, <3>4
  <2>3. CASE f = e /\ ~Complete(f)'
    BY <2>2, <2>3
  <2>4. CASE f # e
    BY <2>2, <2>4
  <2>. QED BY <2>1, <2>3, <2>4
<1>. QED BY <1>1, <1>3, <1>4, <1>5, <1>6, <1>7, SmoothStep

LEMMA NotBusy ==
    ASSUME NEW t, th'[t].at \notin Busy \cup {"remove"}
    PROVE  Carried(t)' /\ Reversed(t)' /\ ~Blocks(t)'
BY DEF Carried, Reversed, Blocks, Busy, Claiming, Reversing, Carrying, DecisionSteps

\* A thread is done with email e.
LEMMA LeftSmooth ==
    ASSUME IInv, Claimed, Smooth, MergesKept, UNCHANGED link,
           NEW t \in Threads, Others(t), NEW e,
           \A f \in Emails \ {e} : /\ status'[f] = status[f] /\ target'[f] = target[f]
                                   /\ excluded'[f] = excluded[f],
           \A u \in Threads \ {t} : th[u].at \in Busy /\ th[u].email = e =>
               status'[e] \in {status[e], "blocked_sender"},
           e \in Emails => /\ excluded[e] \subseteq excluded'[e]
                           /\ status[e] = "blocked_sender" => status'[e] = "blocked_sender"
                           /\ HasOpenMerge(e) =>
                                status'[e] \in {status[e], "merged", "blocked_sender"}
                           /\ \/ status'[e] # "merged"
                              \/ status'[e] = status[e] /\ target'[e] = target[e],
           th'[t].at \notin Busy \cup {"remove"},
           th[t].at \notin Carrying \cup {"close", "return"}
    PROVE  Smooth'
<1>1. Carried(t)' /\ Reversed(t)' /\ ~Blocks(t)' /\ th'[t].at # "remove"
  BY NotBusy
<1>2. th[t].at \notin Carrying \cup {"close", "return", "link", "exists"}
  BY DEF Carrying
<1>3. Harmless(t)
  BY <1>1, <1>2 DEF Harmless
<1>4. status'[e] # "merged" => Complete(e)'
  BY DEF Complete
<1>. QED BY <1>1, <1>2, <1>3, <1>4, HandsSmooth

\* A thread goes on with its email; the email tables and the links stay.
LEMMA NextSmooth ==
    ASSUME IInv, Claimed, Smooth, MergesKept, UNCHANGED <<status, target, excluded, link>>,
           NEW t \in Threads, Others(t),
           \/ th'[t].at \in Busy /\ th[t].at \in Busy /\ th'[t].email = th[t].email
           \/ th'[t].at \notin Busy,
           Carried(t)', Reversed(t)', Harmless(t),
           th[t].at \in Carrying =>
               \/ th'[t].at \in Carrying /\ th'[t].row = th[t].row
               \/ matches[th[t].row].kind = "duplicate"
               \/ status[th[t].email] \in {"merged", "blocked_sender"},
           th[t].at \notin {"close", "return"}
    PROVE  Smooth'
<1>1. th'[t].at \in Busy => \A u \in Threads \ {t} :
               th[u].at \in Busy => th[u].email # th'[t].email
  BY DEF Smooth, Clear
<1>. QED BY <1>1, HandsSmooth

LEMMA SameMerges ==
    ASSUME UNCHANGED matches
    PROVE  MergesKept
BY DEF MergesKept

\* Nothing in hand that is a merge, and no step taken.
LEMMA SameSmooth ==
    ASSUME Smooth, UNCHANGED <<status, target, excluded, matches, link, th>>
    PROVE  Smooth'
BY DEF Smooth, Clear, LinkIds, Carried, Reversed, Removing, Accounted, Complete, OnProject,
       HasOpenMerge, OpenRows, Linked, Blocks, OpenMerge, Inserted

-----------------------------------------------------------------------------
(* The steps of a decision. *)

LEMMA MeetOpenRowSmooth ==
    ASSUME IInv, Claimed, Smooth, NEW t \in Threads, MeetOpenRow(t)
    PROVE  Smooth'
<1>. PICK e : e = th[t].email
  OBVIOUS
<1>1. /\ th[t].at = "open" /\ "open" \in Busy /\ "insert" \in Busy
      /\ UNCHANGED <<status, target, excluded, link>>
  BY DEF MeetOpenRow, Busy, Claiming, DecisionSteps, tables
<1>2. ~HasOpenMerge(e)
  BY <1>1 DEF Smooth, Carried
<1>3. ASSUME MergesKept, Goes(t, "insert") PROVE Smooth'
  <2>1. Others(t) /\ th'[t].at = "insert" /\ th'[t].email = e
    BY <1>3, Went DEF IInv
  <2>2. ~HasOpenMerge(e)'
    BY <1>2, <1>3, MergesFrame, NoMoreOpen DEF IInv
  <2>3. Carried(t)'
    BY <2>1, <2>2 DEF Carried, Carrying, HasOpenMerge, OpenRows
  <2>4. Reversed(t)' /\ ~Blocks(t)'
    BY <2>1 DEF Reversed, Reversing, Blocks
  <2>5. Harmless(t)
    BY <1>1, <2>1, <2>4 DEF Harmless
  <2>. QED BY <1>1, <1>3, <2>1, <2>3, <2>4, <2>5, NextSmooth DEF Carrying
<1>4. CASE UNCHANGED tables /\ Goes(t, "insert")
  BY <1>3, <1>4, SameMerges DEF tables
<1>5. ASSUME NEW m \in OpenRows(e), matches' = [matches EXCEPT ![m].state = "superseded"],
             Goes(t, "insert")
      PROVE  Smooth'
  <2>1. m \in Rows /\ matches[m].state = "open" /\ matches[m].kind = "duplicate"
    BY <1>2 DEF OpenRows, HasOpenMerge, IInv, RowsOK, RowOK, Kinds
  <2>2. MergesKept
    BY <1>5, <2>1 DEF MergesKept, IInv, RowsOK, MatchRows
  <2>. QED BY <1>3, <1>5, <2>2
<1>. QED BY <1>2, <1>4, <1>5 DEF MeetOpenRow, HasOpenMerge

LEMMA MarkAddedSmooth ==
    ASSUME IInv, Claimed, Smooth, NEW t \in Threads, MarkAdded(t)
    PROVE  Smooth'
<1>. PICK m, p : m = th[t].row /\ p = th[t].project
  OBVIOUS
<1>1. /\ th[t].at = "mark" /\ {"mark", "cas"} \subseteq Busy \cap Carrying
      /\ UNCHANGED <<target, excluded, link>>
  BY DEF MarkAdded, Busy, Claiming, DecisionSteps, Carrying
<1>2. Linked(p, m) /\ Carried(t)
  BY <1>1 DEF Smooth, Carried
<1>3. m \in Rows
  BY <1>1, InHand
<1>4. PICK added : matches' = [matches EXCEPT ![m].added = added] /\ UNCHANGED status
                   /\ th' = [th EXCEPT ![t].at = "cas", ![t].held = TRUE]
  BY <1>2 DEF MarkAdded, Linked
<1>5. /\ Others(t) /\ th'[t].at = "cas" /\ th'[t].email = th[t].email
      /\ th'[t].project = p /\ th'[t].kind = th[t].kind /\ th'[t].row = m
  BY <1>4 DEF IInv, HandsOK, Hands, Others
<1>6. MergesKept
  BY <1>3, <1>4 DEF MergesKept, IInv, RowsOK, MatchRows
<1>7. matches'[m].state = matches[m].state
  BY <1>3, <1>4 DEF IInv, RowsOK, MatchRows
<1>8. Carried(t)'
  BY <1>1, <1>2, <1>5, <1>7 DEF Carried, Linked, OnProject
<1>9. Reversed(t)'
  BY <1>5 DEF Reversed, Reversing
<1>10. Harmless(t)
  BY <1>1, <1>5 DEF Harmless, Blocks
<1>. QED BY <1>1, <1>4, <1>5, <1>6, <1>8, <1>9, <1>10, NextSmooth

LEMMA DecideEmailSmooth ==
    ASSUME IInv, Claimed, Smooth, NEW t \in Threads, DecideEmail(t)
    PROVE  Smooth'
<1>. PICK e, m, p : e = th[t].email /\ m = th[t].row /\ p = th[t].project
  OBVIOUS
<1>1. /\ th[t].at = "cas" /\ {"cas", "unlink", "unrow"} \subseteq DecisionSteps \cap Carrying
      /\ {"cas", "unlink", "unrow"} \subseteq Busy
      /\ UNCHANGED <<excluded, matches, link>>
  BY DEF DecideEmail, DecisionSteps, Carrying, Busy, Claiming
<1>2. /\ e \in Emails /\ th[t].kind \in Kinds /\ m \in Rows
      /\ status[e] \in {ExpectedAt(t), "blocked_sender"} /\ ExpectedAt(t) # "blocked_sender"
      /\ matches[m].email = e /\ matches[m].project = p
      /\ matches[m].kind = th[t].kind /\ OpenRows(e) \subseteq {m}
  BY <1>1, AtDecision DEF Claims, Claiming, ExpectedAt
<1>3. Carried(t) /\ \A u \in Threads \ {t} : th[u].at \in Busy => th[u].email # e
  BY <1>1 DEF Smooth, Clear
<1>4. CASE /\ Moves(e, ExpectedAt(t), th[t].kind) /\ Ends(t)
           /\ target' = [target EXCEPT ![e] = p]
  <2>1. /\ \A f \in Emails \ {e} : status'[f] = status[f] /\ target'[f] = target[f]
        /\ status[e] = ExpectedAt(t) /\ status'[e] = th[t].kind /\ target'[e] = p
    BY <1>2, <1>4 DEF Moves, IInv, EmailsOK
  <2>2. HasOpenMerge(e) => status'[e] = "merged"
    BY <1>2, <2>1 DEF HasOpenMerge
  <2>3. Complete(e)'
    <3>1. th[t].kind = "merged" => matches[m].state = "open" /\ Linked(p, m)
      BY <1>1, <1>3 DEF Carried
    <3>. QED BY <1>1, <1>2, <2>1, <3>1 DEF Complete, Linked, OnProject
  <2>4. Others(t) /\ th'[t] = Idle /\ Idle.at \notin Busy \cup {"remove"}
    BY <1>4, Ended DEF IInv, Idle, Busy, Claiming, Reversing, DecisionSteps
  <2>5. Carried(t)' /\ Reversed(t)' /\ ~Blocks(t)'
    BY <2>4, NotBusy
  <2>6. Harmless(t)
    BY <1>1, <2>4, <2>5 DEF Harmless
  <2>7. matches[m].kind = "duplicate" \/ status'[e] \in {"merged", "blocked_sender"}
    BY <1>2, <2>1 DEF Kinds
  <2>. QED BY <1>1, <1>2, <1>3, <2>1, <2>2, <2>3, <2>4, <2>5, <2>6, <2>7, SameMerges, HandsSmooth
<1>5. CASE /\ status[e] # ExpectedAt(t) /\ UNCHANGED <<status, target>>
           /\ Goes(t, IF th[t].held /\ th[t].kind = "merged" THEN "unlink" ELSE "unrow")
  <2>1. PICK step \in {"unlink", "unrow"} :
               Goes(t, step) /\ (step = "unlink" => th[t].kind = "merged")
    BY <1>5
  <2>2. /\ Others(t) /\ th'[t].at = step /\ th'[t].email = e
        /\ th'[t].project = p /\ th'[t].kind = th[t].kind /\ th'[t].row = m
    BY <2>1, Went DEF IInv
  <2>3. Carried(t)'
    BY <1>1, <1>2, <1>3, <1>5, <2>2 DEF Carried
  <2>4. Reversed(t)'
    BY <2>2 DEF Reversed, Reversing
  <2>5. Harmless(t)
    BY <1>1, <2>1, <2>2 DEF Harmless, Blocks, Reversing
  <2>. QED BY <1>1, <1>5, <2>2, <2>3, <2>4, <2>5, SameMerges, NextSmooth
<1>. QED BY <1>4, <1>5 DEF DecideEmail

\* A row that the step leaves alone.
LEMMA AccountedKept ==
    ASSUME Smooth, UNCHANGED <<status, excluded>>, NEW t \in Threads, Others(t), NEW m \in Rows,
           matches'[m].email = matches[m].email, matches'[m].project = matches[m].project,
           matches'[m].kind = matches[m].kind, matches'[m].state = matches[m].state,
           th[t].row = m /\ th[t].at \in Carrying =>
               \/ th'[t].row = m /\ th'[t].at \in Carrying
               \/ matches[m].kind = "duplicate"
               \/ status[matches[m].email] \in {"merged", "blocked_sender"},
           th[t].row = m /\ th[t].at = "return" => th'[t].row = m /\ th'[t].at = "return"
    PROVE  Accounted(m)'
<1>. PICK e : e = matches[m].email
  OBVIOUS
<1>1. Accounted(m)
  BY DEF Smooth
<1>2. OpenMerge(m) => \/ status[e] \in {"merged", "blocked_sender"}
                      \/ \E u \in Threads : th'[u].row = m /\ th'[u].at \in Carrying
  BY <1>1 DEF Accounted, Others, OpenMerge
<1>3. matches[m].state = "closed" /\ matches[m].kind = "merged" =>
        \/ matches[m].project \in excluded[e]
        \/ status[e] = "blocked_sender"
        \/ \E u \in Threads : th'[u].row = m /\ th'[u].at = "return"
  BY <1>1 DEF Accounted, Others
<1>. QED BY <1>1, <1>2, <1>3 DEF Accounted, OpenMerge

\* A merged email whose row and link the step leaves alone, or to the thread
\* that reverses the merge.
LEMMA CompleteKept ==
    ASSUME Smooth, UNCHANGED <<status, target>>, NEW t \in Threads, Others(t),
           th[t].at \in {"close", "return"} =>
               th'[t].at \in {"close", "return"} /\ th'[t].row = th[t].row,
           NEW f \in Emails,
           status[f] = "merged" => \A m \in Rows :
               Inserted(m) /\ matches[m].email = f /\ matches[m].kind = "merged" =>
                 /\ matches'[m].email = f /\ matches'[m].project = matches[m].project
                 /\ matches'[m].kind = "merged"
                 /\ matches[m].project = target[f] /\ matches[m].state = "open"
                    /\ Linked(target[f], m) =>
                      \/ /\ matches'[m].state = "open"
                         /\ link'[target[f]] # None /\ link'[target[f]].id = m
                      \/ th'[t].row = m /\ th'[t].at \in {"close", "return"}
    PROVE  Complete(f)'
<1>. SUFFICES ASSUME status[f] = "merged" PROVE Complete(f)'
  BY DEF Complete
<1>1. PICK m \in Rows :
        /\ matches[m].email = f /\ matches[m].project = target[f] /\ matches[m].kind = "merged"
        /\ \/ matches[m].state = "open" /\ Linked(target[f], m)
           \/ \E u \in Threads : th[u].row = m /\ th[u].at \in {"close", "return"}
  BY DEF Smooth, Complete
<1>2. /\ matches'[m].email = f /\ matches'[m].project = target'[f] /\ matches'[m].kind = "merged"
  <2>1. Inserted(m)
    BY <1>1 DEF Inserted, Smooth, Reversed, Reversing
  <2>. QED BY <1>1, <2>1
<1>3. CASE matches[m].state = "open" /\ Linked(target[f], m)
  BY <1>1, <1>2, <1>3 DEF Complete, Linked, OnProject, Inserted
<1>4. CASE \E u \in Threads : th[u].row = m /\ th[u].at \in {"close", "return"}
  <2>1. \E u \in Threads : th'[u].row = m /\ th'[u].at \in {"close", "return"}
    BY <1>4 DEF Others
  <2>. QED BY <1>2, <2>1 DEF Complete
<1>. QED BY <1>1, <1>3, <1>4

\* The decision's own email, project and row.
LEMMA OfDecision ==
    ASSUME IInv, Claimed, Smooth, NEW t \in Threads, th[t].at \in DecisionSteps
    PROVE  /\ th[t].at \in Busy /\ th[t].email \in Emails /\ th[t].project \in Projects
           /\ th[t].kind \in Kinds
           /\ status[th[t].email] \in {"match", "review_match", "blocked_sender"}
           /\ \A u \in Threads \ {t} : th[u].at \in Busy => th[u].email # th[t].email
           /\ th[t].at \in Carrying =>
                /\ th[t].row \in Rows /\ Inserted(th[t].row)
                /\ matches[th[t].row].email = th[t].email
                /\ matches[th[t].row].project = th[t].project
                /\ matches[th[t].row].kind = th[t].kind
                /\ matches[th[t].row].state # "deleted"
                /\ OpenRows(th[t].email) \subseteq {th[t].row}
<1>1. th[t].at \in Busy /\ th[t].at \in Claiming
  BY DEF Busy, Claiming
<1>2. \A u \in Threads \ {t} : th[u].at \in Busy => th[u].email # th[t].email
  BY <1>1 DEF Smooth, Clear
<1>3. Claims(t) /\ th[t].email \in Emails /\ th[t].project \in Projects /\ th[t].kind \in Kinds
      /\ status[th[t].email] \in {"match", "review_match", "blocked_sender"}
      /\ (th[t].at \in Carrying => th[t].row \in Rows /\ Inserted(th[t].row))
  BY AtDecision DEF ExpectedAt
<1>. QED BY <1>1, <1>2, <1>3 DEF Claims

LEMMA InsertRowSmooth ==
    ASSUME IInv, Claimed, Smooth, NEW t \in Threads, InsertRow(t)
    PROVE  Smooth'
<1>. PICK e, p, kind : e = th[t].email /\ p = th[t].project /\ kind = th[t].kind
  OBVIOUS
<1>1. /\ th[t].at = "insert" /\ "insert" \in DecisionSteps /\ "insert" \notin Carrying
      /\ UNCHANGED <<target, excluded, link>>
  BY DEF InsertRow, DecisionSteps, Carrying
<1>2. /\ e \in Emails /\ p \in Projects /\ kind \in Kinds
      /\ status[e] \in {"match", "review_match", "blocked_sender"}
      /\ \A u \in Threads \ {t} : th[u].at \in Busy => th[u].email # e
  BY <1>1, OfDecision
<1>3. CASE Failed(t) /\ UNCHANGED matches
  <2>1. ~HasOpenMerge(e)
    BY <1>1 DEF Smooth, Carried
  <2>2. /\ \A f \in Emails \ {e} : status'[f] = status[f]
        /\ status'[e] = status[e] \/ (status[e] = "match" /\ status'[e] = "failed")
    BY <1>2, <1>3 DEF Failed, Moves, IInv, EmailsOK
  <2>3. Others(t) /\ th'[t] = Idle /\ Idle.at \notin Busy \cup {"remove"}
    BY <1>3, Ended DEF Failed, IInv, Idle, Busy, Claiming, Reversing, DecisionSteps
  <2>. QED BY <1>1, <1>2, <1>3, <2>1, <2>2, <2>3, SameMerges, LeftSmooth
<1>4. ASSUME OpenRows(e) = {}, UNCHANGED status, NEW m \in Rows,
             matches[m].state = "free",
             matches' = [matches EXCEPT ![m] =
               [email |-> e, project |-> p, kind |-> kind, state |-> "open", added |-> FALSE]],
             th' = [th EXCEPT ![t].row = m,
                      ![t].at = IF kind = "merged" THEN "link" ELSE "cas"]
      PROVE  Smooth'
  <2>1. /\ Others(t) /\ th'[t].at = (IF kind = "merged" THEN "link" ELSE "cas")
        /\ th'[t].email = e /\ th'[t].project = p /\ th'[t].kind = kind /\ th'[t].row = m
    BY <1>4 DEF IInv, HandsOK, Hands, Others
  <2>2. /\ \A k \in Rows \ {m} : matches'[k] = matches[k]
        /\ matches'[m].email = e /\ matches'[m].project = p
        /\ matches'[m].kind = kind /\ matches'[m].state = "open"
    BY <1>4 DEF IInv, RowsOK
  <2>3. RowsFrame /\ (\A f : f # e => NoneOpened(f)) /\ \A k \in Rows : Inserted(k) => k # m
    BY <1>4, <2>2 DEF RowsFrame, Inserted, NoneOpened
  <2>4. \A q, k : Linked(q, k)' <=> Linked(q, k)
    BY <1>1 DEF Linked, OnProject
  <2>5. \A u \in Threads \ {t} : SparesBusy(u)
    BY <1>1, <1>2, <1>4, <2>1, <2>2, <2>3, <2>4 DEF SparesBusy, Others
  <2>6. LinkIds'
    BY <1>1, <2>3 DEF Smooth, LinkIds, OnProject, RowsFrame
  <2>7. \A q \in Projects : ~Linked(q, m)
    <3>1. m # 0 /\ ~Inserted(m)
      BY <1>4 DEF Inserted, Rows
    <3>. QED BY <3>1 DEF Smooth, LinkIds, Linked
  <2>8. Carried(t)' /\ Reversed(t)'
    <3>1. th'[t].at \in {"link", "cas"} /\ (th'[t].at = "cas" => kind # "merged")
      BY <2>1
    <3>2. \A q \in Projects : ~Linked(q, th[t].row)'
      BY <2>1, <2>4, <2>7 DEF Linked, OnProject
    <3>. QED BY <2>1, <2>2, <3>1, <3>2 DEF Carried, Reversed, Reversing
  <2>9. Harmless(t)
    BY <1>1, <2>1 DEF Harmless, Blocks, Reversing
  <2>10. ASSUME NEW h \in Threads PROVE Removing(h)'
    <3>1. \A k \in Rows : OpenMerge(k)' =>
            \/ OpenMerge(k) /\ matches'[k].project = matches[k].project
            \/ th'[t].row = k /\ th'[t].at \in {"link", "exists"}
      BY <2>1, <2>2 DEF OpenMerge
    <3>2. OnProject(th[h].project) => link'[th[h].project] # None
      BY <1>1 DEF OnProject
    <3>. QED BY <2>1, <2>9, <3>1, <3>2, RemovingKept
  <2>11. ASSUME NEW k \in Rows PROVE Accounted(k)'
    <3>1. CASE k = m
      BY <2>1, <2>2, <3>1 DEF Accounted, OpenMerge, Carrying
    <3>2. CASE k # m
      BY <1>1, <1>4, <2>1, <2>2, <3>2, AccountedKept
    <3>. QED BY <3>1, <3>2
  <2>12. ASSUME NEW f \in Emails PROVE Complete(f)'
    <3>1. \A k \in Rows : Inserted(k) => matches'[k] = matches[k]
      BY <2>2, <2>3
    <3>. QED BY <1>1, <1>4, <2>1, <3>1, CompleteKept DEF Linked, OnProject
  <2>. QED BY <1>2, <2>1, <2>3, <2>5, <2>6, <2>8, <2>10, <2>11, <2>12, SmoothStep
<1>. QED BY <1>3, <1>4 DEF InsertRow

\* A link is made or goes, and no row or email changes: what is left to show.
LEMMA LinkSmooth ==
    ASSUME IInv, Claimed, Smooth, UNCHANGED <<status, target, excluded, matches>>,
           NEW t \in Threads, Others(t),
           \A u \in Threads \ {t} : SparesBusy(u),
           \/ th'[t].at \in Busy /\ th[t].at \in Busy /\ th'[t].email = th[t].email
           \/ th'[t].at \notin Busy,
           th[t].at \in Carrying => th'[t].at \in Carrying /\ th'[t].row = th[t].row,
           th[t].at \in {"close", "return"} => th'[t] = th[t],
           LinkIds', Carried(t)', Reversed(t)', Harmless(t),
           \A h \in Threads \ {t} : th[h].at = "remove" /\ th[h].project \in Projects
                /\ OnProject(th[h].project) => link'[th[h].project] # None,
           \A f \in Emails : status[f] = "merged" => \A m \in Rows :
               matches[m].email = f /\ matches[m].state = "open" /\ matches[m].kind = "merged"
                 /\ matches[m].project = target[f] /\ Linked(target[f], m) =>
                      \/ link'[target[f]] # None /\ link'[target[f]].id = m
                      \/ th'[t].row = m /\ th'[t].at \in {"close", "return"}
    PROVE  Smooth'
<1>1. th'[t].at \in Busy => \A u \in Threads \ {t} :
               th[u].at \in Busy => th[u].email # th'[t].email
  BY DEF Smooth, Clear
<1>2. ASSUME NEW h \in Threads PROVE Removing(h)'
  BY RemovingKept DEF OpenMerge
<1>3. ASSUME NEW m \in Rows PROVE Accounted(m)'
  BY AccountedKept
<1>4. ASSUME NEW f \in Emails PROVE Complete(f)'
  BY CompleteKept
<1>. QED BY <1>1, <1>2, <1>3, <1>4, SameFrame, SmoothStep

LEMMA InsertLinkSmooth ==
    ASSUME IInv, Claimed, Smooth, NEW t \in Threads, InsertLink(t)
    PROVE  Smooth'
<1>. PICK e, m, p : e = th[t].email /\ m = th[t].row /\ p = th[t].project
  OBVIOUS
<1>1. /\ th[t].at = "link" /\ "link" \in DecisionSteps
      /\ {"link", "exists", "mark"} \subseteq Carrying \cap Busy
      /\ UNCHANGED <<target, excluded, matches>>
  BY DEF InsertLink, DecisionSteps, Carrying, Busy, Claiming
<1>2. /\ m \in Rows /\ Inserted(m) /\ matches[m].email = e /\ matches[m].project = p
      /\ matches[m].state # "deleted" /\ p \in Projects
      /\ \A u \in Threads \ {t} : th[u].at \in Busy => th[u].email # e
  BY <1>1, OfDecision
<1>3. Carried(t)
  BY DEF Smooth
<1>4. CASE Goes(t, "exists") /\ UNCHANGED <<status, link>>
  <2>1. /\ Others(t) /\ th'[t].at = "exists" /\ th'[t].email = e
        /\ th'[t].project = p /\ th'[t].kind = th[t].kind /\ th'[t].row = m
    BY <1>4, Went DEF IInv
  <2>2. Carried(t)' /\ Reversed(t)'
    BY <1>1, <1>3, <1>4, <2>1 DEF Carried, Reversed, Reversing, Linked, OnProject
  <2>3. Harmless(t)
    BY <1>1, <2>1 DEF Harmless, Blocks, Reversing
  <2>. QED BY <1>1, <1>4, <2>1, <2>2, <2>3, SameMerges, NextSmooth
<1>5. CASE /\ ~OnProject(p) /\ Goes(t, "mark") /\ UNCHANGED status
           /\ link' = [link EXCEPT ![p] = [id |-> m, match |-> m]]
  <2>1. /\ Others(t) /\ th'[t].at = "mark" /\ th'[t].email = e
        /\ th'[t].project = p /\ th'[t].kind = th[t].kind /\ th'[t].row = m
    BY <1>5, Went DEF IInv
  <2>2. /\ \A q \in Projects \ {p} : link'[q] = link[q]
        /\ link'[p] = [id |-> m, match |-> m] /\ link'[p] # None
    <3>1. /\ \A q \in Projects \ {p} : link'[q] = link[q]
          /\ link'[p] = [id |-> m, match |-> m]
      BY <1>2, <1>5 DEF IInv, LinksOK
    <3>. QED BY <1>2, <3>1 DEF Rows
  <2>3. \A q \in Projects : \A k : Linked(q, k) => link'[q] # None /\ link'[q].id = k
    BY <1>5, <2>2 DEF Linked, OnProject
  <2>4. \A u \in Threads \ {t} : SparesBusy(u)
    <3>. SUFFICES ASSUME NEW u \in Threads \ {t} PROVE SparesBusy(u)
      OBVIOUS
    <3>1. th'[u] = th[u]
      BY <2>1 DEF Others
    <3>2. th[u].at \in Carrying => th[u].row # m /\ th[u].project \in Projects
      BY <1>2, InHand
    <3>3. ASSUME th[u].at \in {"link", "exists"}, NEW q \in Projects, Linked(q, th[u].row)'
          PROVE  Linked(q, th[u].row)
      <4>1. th[u].row # m /\ link'[q] # None /\ link'[q].id = th[u].row
        BY <3>1, <3>2, <3>3 DEF Linked, OnProject, Carrying
      <4>2. q # p
        BY <2>2, <4>1
      <4>. QED BY <2>2, <4>1, <4>2 DEF Linked, OnProject
    <3>4. ASSUME th[u].at = "mark" \/ (th[u].at = "cas" /\ th[u].kind = "merged"),
                 Linked(th[u].project, th[u].row)
          PROVE  Linked(th[u].project, th[u].row)'
      BY <2>3, <3>1, <3>2, <3>4 DEF Linked, OnProject, Carrying
    <3>. QED BY <1>1, <1>5, <3>1, <3>3, <3>4 DEF SparesBusy, NoneOpened
  <2>5. LinkIds'
    <3>1. \A k \in Rows : Inserted(k) => Inserted(k)'
      BY <1>1 DEF Inserted
    <3>. QED BY <1>2, <2>2, <3>1 DEF Smooth, LinkIds, OnProject
  <2>6. Carried(t)' /\ Reversed(t)'
    BY <1>1, <1>3, <2>1, <2>2 DEF Carried, Reversed, Reversing, Linked, OnProject
  <2>7. ASSUME NEW h \in Threads, th[h].at = "remove" PROVE th[h].project # p
    BY <1>5, <2>7 DEF Smooth, Removing
  <2>8. Harmless(t)
    BY <1>2, <2>1, <2>7 DEF Harmless
  <2>9. \A q : OnProject(q) => link'[q] # None
    BY <1>5, <2>2 DEF OnProject, IInv, LinksOK
  <2>10. ASSUME NEW k \in Rows, matches[k].state = "open" PROVE matches[k].project \in Projects
    BY <2>10 DEF IInv, RowsOK, RowOK
  <2>. QED BY <1>1, <1>5, <2>1, <2>3, <2>4, <2>5, <2>6, <2>8, <2>9, <2>10, LinkSmooth
<1>. QED BY <1>2, <1>4, <1>5 DEF InsertLink

LEMMA MeetLinkSmooth ==
    ASSUME IInv, Claimed, Smooth, NEW t \in Threads, MeetLink(t)
    PROVE  Smooth'
<1>. PICK e, m, p : e = th[t].email /\ m = th[t].row /\ p = th[t].project
  OBVIOUS
<1>1. /\ th[t].at = "exists" /\ "exists" \in DecisionSteps
      /\ {"exists", "cas"} \subseteq Carrying \cap Busy
      /\ UNCHANGED <<status, target, excluded, link>>
  BY DEF MeetLink, DecisionSteps, Carrying, Busy, Claiming
<1>2. /\ m \in Rows /\ Inserted(m) /\ matches[m].email = e /\ matches[m].project = p
      /\ matches[m].state # "deleted" /\ p \in Projects /\ e \in Emails
      /\ \A u \in Threads \ {t} : th[u].at \in Busy => th[u].email # e
      /\ status[e] # "merged"
  BY <1>1, OfDecision
<1>3. ~(OnProject(p) /\ link[p].match = m)
  <2>1. \A q \in Projects : ~Linked(q, m)
    BY <1>1 DEF Smooth, Carried
  <2>2. m # 0
    BY <1>2 DEF Rows
  <2>. QED BY <1>2, <2>1, <2>2 DEF Smooth, LinkIds, Linked
<1>4. /\ matches' = [matches EXCEPT ![m].kind = "duplicate"]
      /\ th' = [th EXCEPT ![t].at = "cas", ![t].kind = "duplicate"]
  BY <1>2, <1>3 DEF MeetLink
<1>5. /\ Others(t) /\ th'[t].at = "cas" /\ th'[t].email = e
      /\ th'[t].project = p /\ th'[t].kind = "duplicate" /\ th'[t].row = m
  BY <1>4 DEF IInv, HandsOK, Hands, Others
<1>6. /\ \A k \in Rows \ {m} : matches'[k] = matches[k]
      /\ matches'[m].email = e /\ matches'[m].project = p
      /\ matches'[m].kind = "duplicate" /\ matches'[m].state = matches[m].state
  BY <1>2, <1>4 DEF IInv, RowsOK, MatchRows
<1>7. RowsFrame /\ \A f : NoneOpened(f)
  BY <1>2, <1>6 DEF RowsFrame, Inserted, NoneOpened
<1>8. \A u \in Threads \ {t} : SparesBusy(u)
  <2>1. \A q, k : Linked(q, k)' <=> Linked(q, k)
    BY <1>1 DEF Linked, OnProject
  <2>. QED BY <1>1, <1>2, <1>5, <1>6, <1>7, <2>1 DEF SparesBusy, Others
<1>9. LinkIds'
  BY <1>1, <1>7 DEF Smooth, LinkIds, OnProject, RowsFrame
<1>10. Carried(t)' /\ Reversed(t)'
  BY <1>5 DEF Carried, Reversed, Reversing
<1>11. Harmless(t)
  BY <1>5, <1>6 DEF Harmless, Blocks, Reversing
<1>12. ASSUME NEW h \in Threads PROVE Removing(h)'
  <2>1. \A k \in Rows : OpenMerge(k)' =>
            OpenMerge(k) /\ matches'[k].project = matches[k].project
    BY <1>6 DEF OpenMerge
  <2>2. OnProject(th[h].project) => link'[th[h].project] # None
    BY <1>1 DEF OnProject
  <2>. QED BY <1>5, <1>11, <2>1, <2>2, RemovingKept
<1>13. ASSUME NEW k \in Rows PROVE Accounted(k)'
  <2>1. CASE k = m
    BY <1>6, <2>1 DEF Accounted, OpenMerge
  <2>2. CASE k # m
    BY <1>1, <1>5, <1>6, <2>2, AccountedKept
  <2>. QED BY <2>1, <2>2
<1>14. ASSUME NEW f \in Emails PROVE Complete(f)'
  <2>1. status[f] = "merged" => \A k \in Rows : matches[k].email = f => matches'[k] = matches[k]
    BY <1>2, <1>6
  <2>. QED BY <1>1, <1>5, <2>1, CompleteKept DEF Linked, OnProject
<1>. QED BY <1>1, <1>2, <1>5, <1>7, <1>8, <1>9, <1>10, <1>12, <1>13, <1>14, SmoothStep

\* One link goes.
LEMMA Unlinked ==
    ASSUME IInv, Claimed, Smooth, NEW p \in Projects, link' = [link EXCEPT ![p] = None],
           UNCHANGED <<status, target, excluded, matches>>,
           NEW t \in Threads, Others(t),
           \A u \in Threads \ {t} :
               th[u].at = "mark" \/ (th[u].at = "cas" /\ th[u].kind = "merged") =>
                  ~ (th[u].project = p /\ Linked(p, th[u].row))
    PROVE  /\ \A q \in Projects \ {p} : link'[q] = link[q]
           /\ link'[p] = None /\ LinkIds' /\ \A u \in Threads \ {t} : SparesBusy(u)
<1>1. \A q \in Projects \ {p} : link'[q] = link[q]
  BY DEF IInv, LinksOK
<1>2. link'[p] = None
  BY DEF IInv, LinksOK
<1>3. LinkIds'
  BY <1>1, <1>2 DEF Smooth, LinkIds, OnProject, Inserted
<1>4. ASSUME NEW u \in Threads \ {t} PROVE SparesBusy(u)
  <2>1. th'[u] = th[u]
    BY DEF Others
  <2>2. ASSUME NEW q \in Projects, Linked(q, th[u].row)' PROVE Linked(q, th[u].row)
    BY <1>1, <1>2, <2>1, <2>2 DEF Linked, OnProject
  <2>3. ASSUME th[u].at = "mark" \/ (th[u].at = "cas" /\ th[u].kind = "merged"),
               Linked(th[u].project, th[u].row)
        PROVE  Linked(th[u].project, th[u].row)'
    <3>1. th[u].project \in Projects
      BY <2>3, InHand DEF Carrying
    <3>. QED BY <1>1, <2>1, <2>3, <3>1 DEF Linked, OnProject
  <2>. QED BY <2>1, <2>2, <2>3 DEF SparesBusy, NoneOpened
<1>. QED BY <1>1, <1>2, <1>3, <1>4

LEMMA UndoLinkSmooth ==
    ASSUME IInv, Claimed, Smooth, NEW t \in Threads, UndoLink(t)
    PROVE  Smooth'
<1>. PICK e, m, p : e = th[t].email /\ m = th[t].row /\ p = th[t].project
  OBVIOUS
<1>1. /\ th[t].at = "unlink" /\ "unlink" \in DecisionSteps
      /\ {"unlink", "unrow"} \subseteq Carrying \cap Busy
      /\ UNCHANGED <<status, target, excluded, matches>>
  BY DEF UndoLink, DecisionSteps, Carrying, Busy, Claiming
<1>2. /\ m \in Rows /\ matches[m].email = e /\ p \in Projects /\ e \in Emails
      /\ \A u \in Threads \ {t} : th[u].at \in Busy => th[u].email # e
      /\ status[e] = "blocked_sender" /\ Carried(t)
  BY <1>1, OfDecision DEF Smooth, Carried
<1>3. CASE Refused(t) /\ UNCHANGED link
  <2>1. Others(t) /\ th'[t].at \in {"idle", "park"}
    BY <1>3, Left DEF IInv
  <2>2. th'[t].at \notin Busy \cup {"remove"}
    BY <2>1 DEF Busy, Claiming, Reversing, DecisionSteps
  <2>3. Carried(t)' /\ Reversed(t)' /\ ~Blocks(t)'
    BY <2>2, NotBusy
  <2>4. Harmless(t)
    BY <1>1, <2>2, <2>3 DEF Harmless
  <2>. QED BY <1>1, <1>2, <1>3, <2>1, <2>2, <2>3, <2>4, SameMerges, NextSmooth
<1>4. ASSUME Goes(t, "unrow")
      PROVE  /\ Others(t) /\ th'[t].at = "unrow" /\ th'[t].email = e /\ th'[t].row = m
             /\ Carried(t)' /\ Reversed(t)' /\ Harmless(t)
  <2>1. /\ Others(t) /\ th'[t].at = "unrow" /\ th'[t].email = e
        /\ th'[t].project = p /\ th'[t].kind = th[t].kind /\ th'[t].row = m
    BY <1>4, Went DEF IInv
  <2>2. Carried(t)' /\ Reversed(t)'
    BY <1>1, <1>2, <2>1 DEF Carried, Reversed, Reversing
  <2>3. Harmless(t)
    BY <1>1, <2>1 DEF Harmless, Blocks, Reversing
  <2>. QED BY <2>1, <2>2, <2>3
<1>5. CASE Goes(t, "unrow") /\ UNCHANGED link
  BY <1>1, <1>4, <1>5, SameMerges, NextSmooth
<1>6. CASE Goes(t, "unrow") /\ Linked(p, m) /\ link' = [link EXCEPT ![p] = None]
  <2>1. \A u \in Threads \ {t} : th[u].at \in Carrying => th[u].row # m
    BY <1>2, InHand
  <2>2. \A u \in Threads \ {t} :
          th[u].at = "mark" \/ (th[u].at = "cas" /\ th[u].kind = "merged") =>
             ~ (th[u].project = p /\ Linked(p, th[u].row))
    BY <1>6, <2>1 DEF Linked, Carrying
  <2>3. /\ \A q \in Projects \ {p} : link'[q] = link[q]
        /\ link'[p] = None /\ LinkIds' /\ \A u \in Threads \ {t} : SparesBusy(u)
    BY <1>1, <1>2, <1>4, <1>6, <2>2, Unlinked
  <2>4. ASSUME NEW h \in Threads \ {t}, th[h].at = "remove" PROVE th[h].project # p
    BY <1>1, <2>4 DEF Smooth, Removing, Blocks
  <2>5. ASSUME NEW f \in Emails, status[f] = "merged", NEW k \in Rows,
               matches[k].email = f, matches[k].state = "open", matches[k].project = target[f],
               Linked(target[f], k)
        PROVE  link'[target[f]] # None /\ link'[target[f]].id = k
    <3>1. target[f] \in Projects
      BY <2>5 DEF IInv, RowsOK, RowOK
    <3>2. target[f] # p
      BY <1>2, <1>6, <2>5 DEF Linked
    <3>. QED BY <2>3, <2>5, <3>1, <3>2 DEF Linked, OnProject
  <2>6. \A h \in Threads \ {t} : th[h].at = "remove" /\ th[h].project \in Projects
                /\ OnProject(th[h].project) => link'[th[h].project] # None
    BY <2>3, <2>4 DEF OnProject
  <2>. QED BY <1>1, <1>4, <1>6, <2>3, <2>5, <2>6, LinkSmooth
<1>7. link \in [Projects -> [id : 0..MaxRows, match : 0..MaxRows] \cup {None}]
  BY DEF IInv, LinksOK
<1>. QED BY <1>2, <1>3, <1>5, <1>6, <1>7 DEF UndoLink, Linked

LEMMA UndoRowSmooth ==
    ASSUME IInv, Claimed, Smooth, NEW t \in Threads, UndoRow(t)
    PROVE  Smooth'
<1>. PICK e, m, p : e = th[t].email /\ m = th[t].row /\ p = th[t].project
  OBVIOUS
<1>1. /\ th[t].at = "unrow" /\ "unrow" \in DecisionSteps
      /\ "unrow" \in Carrying \cap Busy
      /\ UNCHANGED <<status, target, excluded>> /\ Refused(t)
      /\ matches' = [matches EXCEPT ![m].state = "deleted"]
      /\ link' = [q \in Projects |-> IF OnProject(q) /\ link[q].match = m
                                       THEN [link[q] EXCEPT !.match = 0] ELSE link[q]]
  BY DEF UndoRow, DecisionSteps, Carrying, Busy, Claiming
<1>2. /\ m \in Rows /\ Inserted(m) /\ matches[m].email = e /\ p \in Projects /\ e \in Emails
      /\ \A u \in Threads \ {t} : th[u].at \in Busy => th[u].email # e
      /\ status[e] = "blocked_sender" /\ Carried(t)
  BY <1>1, OfDecision DEF Smooth, Carried
<1>3. /\ \A k \in Rows \ {m} : matches'[k] = matches[k]
      /\ matches'[m].email = e /\ matches'[m].project = matches[m].project
      /\ matches'[m].kind = matches[m].kind /\ matches'[m].state = "deleted"
  BY <1>1, <1>2 DEF IInv, RowsOK, MatchRows
<1>4. RowsFrame /\ \A f : NoneOpened(f)
  BY <1>2, <1>3 DEF RowsFrame, Inserted, NoneOpened
<1>5. ASSUME NEW q \in Projects
      PROVE  /\ link'[q] # None <=> link[q] # None
             /\ link[q] # None => /\ link'[q].id = link[q].id
                                  /\ link'[q].match \in {0, link[q].match}
  <2>1. link[q] # None => /\ link[q] \in [id : 0..MaxRows, match : 0..MaxRows]
                          /\ [link[q] EXCEPT !.match = 0] \in [id : 0..MaxRows, match : 0..MaxRows]
    BY DEF IInv, LinksOK
  <2>2. [id : 0..MaxRows, match : 0..MaxRows] \subseteq [id : Nat, match : Nat]
    OBVIOUS
  <2>. QED BY <1>1, <2>1, <2>2 DEF OnProject
<1>6. /\ Others(t) /\ th'[t].at \in {"idle", "park"} /\ th'[t].at \notin Busy \cup {"remove"}
  BY <1>1, Left DEF IInv, Busy, Claiming, Reversing, DecisionSteps
<1>7. Carried(t)' /\ Reversed(t)' /\ ~Blocks(t)'
  BY <1>6, NotBusy
<1>8. Harmless(t)
  BY <1>1, <1>6, <1>7 DEF Harmless
<1>9. ASSUME NEW u \in Threads \ {t} PROVE SparesBusy(u)
  <2>1. th'[u] = th[u] /\ (th[u].at \in Carrying => th[u].project \in Projects)
    BY <1>6, InHand DEF Others
  <2>2. \A q \in Projects : Linked(q, th[u].row)' <=> Linked(q, th[u].row)
    BY <1>5, <2>1 DEF Linked, OnProject
  <2>3. th[u].at \in {"mark", "cas"} => th[u].project \in Projects
    BY <2>1 DEF Carrying
  <2>4. th[u].at \in {"mark", "cas"} =>
          (Linked(th[u].project, th[u].row) => Linked(th[u].project, th[u].row)')
    BY <1>5, <2>1, <2>3 DEF Linked, OnProject
  <2>. QED BY <1>1, <1>2, <1>3, <1>4, <2>1, <2>2, <2>4 DEF SparesBusy
<1>10. LinkIds'
  BY <1>4, <1>5 DEF Smooth, LinkIds, OnProject, RowsFrame
<1>11. ASSUME NEW h \in Threads PROVE Removing(h)'
  <2>1. \A k \in Rows : OpenMerge(k)' =>
            OpenMerge(k) /\ matches'[k].project = matches[k].project
    BY <1>3 DEF OpenMerge
  <2>2. th[h].project \in Projects /\ OnProject(th[h].project) => link'[th[h].project] # None
    BY <1>5 DEF OnProject
  <2>. QED BY <1>6, <1>8, <2>1, <2>2, RemovingKept
<1>12. ASSUME NEW k \in Rows PROVE Accounted(k)'
  <2>1. CASE k = m
    BY <1>3, <2>1 DEF Accounted, OpenMerge
  <2>2. CASE k # m
    BY <1>1, <1>3, <1>6, <2>2, AccountedKept
  <2>. QED BY <2>1, <2>2
<1>13. ASSUME NEW f \in Emails PROVE Complete(f)'
  <2>1. status[f] = "merged" => \A k \in Rows : matches[k].email = f => matches'[k] = matches[k]
    BY <1>2, <1>3
  <2>2. ASSUME NEW k \in Rows, matches[k].state = "open", matches[k].project = target[f],
               Linked(target[f], k)
        PROVE  link'[target[f]] # None /\ link'[target[f]].id = k
    <3>1. target[f] \in Projects
      BY <2>2 DEF IInv, RowsOK, RowOK
    <3>. QED BY <1>5, <2>2, <3>1 DEF Linked, OnProject
  <2>3. th[t].at \notin {"close", "return"}
    BY <1>1
  <2>4. status[f] = "merged" => \A k \in Rows :
          Inserted(k) /\ matches[k].email = f /\ matches[k].kind = "merged" =>
            /\ matches'[k].email = f /\ matches'[k].project = matches[k].project
            /\ matches'[k].kind = "merged"
            /\ matches[k].project = target[f] /\ matches[k].state = "open"
               /\ Linked(target[f], k) =>
                 /\ matches'[k].state = "open"
                 /\ link'[target[f]] # None /\ link'[target[f]].id = k
    BY <2>1, <2>2
  <2>. QED BY <1>1, <1>6, <2>3, <2>4, CompleteKept
<1>. QED BY <1>4, <1>6, <1>7, <1>9, <1>10, <1>11, <1>12, <1>13, SmoothStep

LEMMA DecisionSmooth ==
    ASSUME IInv, Claimed, Smooth, NEW t \in Threads, Decision(t)
    PROVE  Smooth'
BY MeetOpenRowSmooth, InsertRowSmooth, InsertLinkSmooth, MeetLinkSmooth, MarkAddedSmooth,
   DecideEmailSmooth, UndoLinkSmooth, UndoRowSmooth DEF Decision

\* An open merge whose email was not decided is in somebody's hand.
LEMMA NoOpenMerge ==
    ASSUME IInv, Claimed, Smooth, NEW e \in Emails, status[e] \notin {"merged", "blocked_sender"},
           \A u \in Threads : th[u].at \in Carrying => th[u].email # e
    PROVE  ~HasOpenMerge(e)
<1>. SUFFICES ASSUME NEW m \in OpenRows(e), matches[m].kind = "merged" PROVE FALSE
  BY DEF HasOpenMerge
<1>1. m \in Rows /\ matches[m].email = e /\ OpenMerge(m)
  BY DEF OpenRows, OpenMerge
<1>2. PICK u \in Threads : th[u].row = m /\ th[u].at \in Carrying
  BY <1>1 DEF Smooth, Accounted
<1>. QED BY <1>1, <1>2, InHand

\* Only the sweep works on an email at the match step.
LEMMA AtMatch ==
    ASSUME IInv, Claimed, Smooth, NEW e \in Emails, status[e] = "match"
    PROVE  \A u \in Threads \ {Sweep} : th[u].at \in Busy => th[u].email # e
BY DEF Smooth, Reversed, Claimed, Claims, ExpectedAt, Busy

LEMMA SweepSmooth ==
    ASSUME IInv, Claimed, Smooth, SweepChecks \/ SweepRoutes \/ SweepParks
    PROVE  Smooth'
<1>. PICK e : e = th[Sweep].email
  OBVIOUS
<1>. Sweep \in Threads /\ {"check", "open", "judged"} \subseteq Busy \ Carrying
     /\ "park" \notin Busy \cup Carrying
  BY DEF Threads, Busy, Claiming, Reversing, DecisionSteps, Carrying
<1>0. th[Sweep].at \in {"check", "judged"} => ~HasOpenMerge(e)
  BY DEF Smooth, Carried
<1>1. ASSUME SweepChecks PROVE Smooth'
  <2>1. th[Sweep].at = "check" /\ UNCHANGED <<status, target, excluded, matches, link>>
    BY <1>1 DEF SweepChecks, tables
  <2>2. CASE Goes(Sweep, "open")
    <3>1. Others(Sweep) /\ th'[Sweep].at = "open" /\ th'[Sweep].email = e
      BY <2>2, Went DEF IInv
    <3>2. Carried(Sweep)' /\ Reversed(Sweep)'
      BY <1>0, <2>1, <3>1 DEF Carried, Carrying, Reversed, Reversing, HasOpenMerge, OpenRows
    <3>3. Harmless(Sweep)
      BY <2>1, <3>1 DEF Harmless, Blocks, Reversing
    <3>. QED BY <2>1, <3>1, <3>2, <3>3, SameMerges, NextSmooth
  <2>3. CASE Refused(Sweep)
    <3>1. Others(Sweep) /\ th'[Sweep].at \notin Busy \cup {"remove"}
      BY <2>3, Left DEF IInv, Busy, Claiming, Reversing, DecisionSteps
    <3>. QED BY <2>1, <3>1, SameMerges, LeftSmooth
  <2>. QED BY <1>1, <2>2, <2>3 DEF SweepChecks
<1>2. ASSUME Ends(Sweep)
      PROVE  Others(Sweep) /\ th'[Sweep].at \notin Busy \cup {"remove"}
  BY <1>2, Left DEF IInv, Busy, Claiming, Reversing, DecisionSteps
<1>3. ASSUME SweepRoutes PROVE Smooth'
  <2>1. th[Sweep].at = "judged" /\ UNCHANGED <<excluded, matches, link>>
    BY <1>3 DEF SweepRoutes
  <2>2. /\ e \in Emails
        /\ \A u \in Threads \ {Sweep} : th[u].at \in Busy => th[u].email # e
    BY <2>1 DEF IInv, HandsOK, HandOK, Smooth, Clear
  <2>3. CASE Ends(Sweep) /\ UNCHANGED <<status, target>>
    BY <1>2, <2>1, <2>3, SameMerges, LeftSmooth
  <2>4. CASE /\ th[Sweep].kind \notin Kinds /\ Moves(e, "match", th[Sweep].kind)
             /\ Ends(Sweep) /\ UNCHANGED target
    <3>1. /\ \A f \in Emails \ {e} : status'[f] = status[f]
          /\ status[e] = "match" /\ status'[e] # "merged"
      BY <2>2, <2>4 DEF Moves, IInv, EmailsOK, Kinds
    <3>. QED BY <1>0, <1>2, <2>1, <2>2, <2>4, <3>1, SameMerges, LeftSmooth
  <2>5. CASE /\ status[e] = "match" /\ Goes(Sweep, "check") /\ UNCHANGED status
             /\ target' = [target EXCEPT ![e] = th[Sweep].project]
    <3>1. \A f \in Emails \ {e} : target'[f] = target[f]
      BY <2>2, <2>5 DEF IInv, EmailsOK
    <3>2. Others(Sweep) /\ th'[Sweep].at = "check" /\ th'[Sweep].email = e
      BY <2>5, Went DEF IInv
    <3>3. Carried(Sweep)' /\ Reversed(Sweep)'
      BY <1>0, <2>1, <3>2 DEF Carried, Carrying, Reversed, Reversing, HasOpenMerge, OpenRows
    <3>4. Harmless(Sweep) /\ Complete(e)'
      BY <2>1, <2>5, <3>2 DEF Harmless, Blocks, Reversing, Complete
    <3>. QED BY <2>1, <2>2, <2>5, <3>1, <3>2, <3>3, <3>4, SameMerges, HandsSmooth
  <2>. QED BY <1>3, <2>3, <2>4, <2>5 DEF SweepRoutes
<1>4. ASSUME SweepParks PROVE Smooth'
  <2>1. /\ th[Sweep].at = "park" /\ Ends(Sweep)
        /\ UNCHANGED <<target, excluded, matches, link>>
    BY <1>4 DEF SweepParks
  <2>2. e \in Emails
    BY <2>1 DEF IInv, HandsOK, HandOK
  <2>3. CASE UNCHANGED status
    BY <1>2, <2>1, <2>3, SameMerges, LeftSmooth
  <2>4. CASE Moves(e, "match", "review_match")
    <3>1. /\ \A f \in Emails \ {e} : status'[f] = status[f]
          /\ status[e] = "match" /\ status'[e] = "review_match"
      BY <2>2, <2>4 DEF Moves, IInv, EmailsOK
    <3>2. \A u \in Threads \ {Sweep} : th[u].at \in Busy => th[u].email # e
      BY <2>2, <3>1, AtMatch
    <3>3. ~HasOpenMerge(e)
      <4>1. Carrying \subseteq Busy
        BY DEF Carrying, Busy, Claiming, DecisionSteps
      <4>. QED BY <2>1, <2>2, <3>1, <3>2, <4>1, NoOpenMerge
    <3>. QED BY <1>2, <2>1, <2>2, <3>1, <3>2, <3>3, SameMerges, LeftSmooth
  <2>. QED BY <1>4, <2>3, <2>4 DEF SweepParks
<1>. QED BY <1>1, <1>3, <1>4

\* A thread that was idle takes up email e.
LEMMA TakenSmooth ==
    ASSUME IInv, Claimed, Smooth, UNCHANGED <<status, target, excluded, matches, link>>,
           NEW t \in Threads, Others(t), th[t] = Idle,
           th'[t].at \in Busy => \A u \in Threads \ {t} :
               th[u].at \in Busy => th[u].email # th'[t].email,
           Carried(t)', Reversed(t)', Harmless(t)
    PROVE  Smooth'
<1>1. th[t].at \notin Carrying \cup {"close", "return"}
  BY DEF Idle, Carrying
<1>. QED BY <1>1, SameMerges, HandsSmooth

LEMMA SweepRowSmooth ==
    ASSUME IInv, Claimed, Smooth, NEW e \in Emails, SweepRow(e)
    PROVE  Smooth'
<1>. Sweep \in Threads
  BY DEF Threads
<1>1. /\ status[e] = "match" /\ UNCHANGED <<status, target, excluded, matches, link>>
      /\ th[Sweep] = Idle
  BY DEF SweepRow, tables
<1>2. \A u \in Threads \ {Sweep} : th[u].at \in Busy => th[u].email # e
  BY <1>1, AtMatch
<1>3. Carrying \subseteq Busy /\ Idle.at \notin Carrying
  BY DEF Carrying, Busy, Claiming, DecisionSteps, Idle
<1>4. ~HasOpenMerge(e)
  BY <1>1, <1>2, <1>3, NoOpenMerge
<1>5. Others(Sweep) /\ th'[Sweep].email = e /\ th'[Sweep].at = "judged"
  <2>0. th \in [Threads -> Hands]
    BY DEF IInv, HandsOK
  <2>1. CASE \E verdict \in {"review_match", "onward"} :
                  th' = [th EXCEPT ![Sweep] =
                           [Idle EXCEPT !.at = "judged", !.email = e, !.kind = verdict]]
    BY <2>0, <2>1 DEF Idle, Others
  <2>2. CASE \E p \in Projects, kind \in Kinds :
               th' = [th EXCEPT ![Sweep] = [Idle EXCEPT !.at = "judged", !.email = e,
                        !.project = p, !.kind = kind]]
    BY <2>0, <2>2 DEF Idle, Others
  <2>. QED BY <1>4, <2>1, <2>2 DEF SweepRow, Kinds, HasOpenMerge
<1>6. Carried(Sweep)' /\ Reversed(Sweep)'
  BY <1>1, <1>4, <1>5 DEF Carried, Carrying, Reversed, Reversing, HasOpenMerge, OpenRows
<1>7. Harmless(Sweep)
  BY <1>1, <1>5 DEF Harmless, Blocks, Reversing, Idle
<1>. QED BY <1>1, <1>2, <1>5, <1>6, <1>7, TakenSmooth

-----------------------------------------------------------------------------
(* People take up what nobody has in hand. *)

LEMMA PersonDecidesSmooth ==
    ASSUME Calm, IInv, Claimed, Smooth, NEW h \in Threads, NEW e \in Emails, NEW p \in Projects,
           NEW kind \in Kinds, PersonDecides(h, e, p, kind)
    PROVE  Smooth'
<1>1. /\ \A u \in Threads : th[u].email # e
      /\ UNCHANGED <<status, target, excluded, matches, link>>
      /\ status[e] = "review_match" /\ th[h] = Idle
  BY DEF PersonDecides, Alone, Allowed, tables
<1>2. ~HasOpenMerge(e)
  BY <1>1, NoOpenMerge
<1>3. Others(h) /\ th'[h].at = "open" /\ th'[h].email = e
  BY DEF PersonDecides, IInv, HandsOK, Others, Idle
<1>4. Carried(h)' /\ Reversed(h)'
  BY <1>1, <1>2, <1>3 DEF Carried, Carrying, Reversed, Reversing, HasOpenMerge, OpenRows
<1>5. Harmless(h)
  BY <1>1, <1>3 DEF Harmless, Blocks, Reversing, Idle
<1>. QED BY <1>1, <1>3, <1>4, <1>5, TakenSmooth

LEMMA StartRejectSmooth ==
    ASSUME Calm, IInv, Claimed, Smooth, NEW h \in Threads, NEW e \in Emails, NEW to,
           StartReject(h, e, to)
    PROVE  Smooth'
<1>1. /\ \A u \in Threads : th[u].email # e
      /\ UNCHANGED <<status, target, excluded, matches, link>> /\ th[h] = Idle
  BY DEF StartReject, Alone, tables
<1>2. Others(h) /\ th'[h].at = "reject" /\ th'[h].email = e
  BY DEF StartReject, IInv, HandsOK, Others, Idle
<1>3. Carried(h)' /\ Reversed(h)'
  BY <1>2 DEF Carried, Carrying, Reversed, Reversing
<1>4. Harmless(h)
  BY <1>1, <1>2 DEF Harmless, Blocks, Reversing, Idle
<1>. QED BY <1>1, <1>2, <1>3, <1>4, TakenSmooth

LEMMA ReopenSmooth ==
    ASSUME Calm, IInv, Claimed, Smooth, NEW h \in Threads, NEW e \in Emails, Reopen(h, e)
    PROVE  Smooth'
<1>1. /\ \A u \in Threads : th[u].email # e
      /\ UNCHANGED <<target, excluded, matches, link>> /\ th[h] = Idle
  BY DEF Reopen, Alone
<1>2. Idle.at \notin Busy \cup Carrying \cup {"close", "return", "remove"}
  BY DEF Idle, Busy, Claiming, Reversing, DecisionSteps, Carrying
<1>3. /\ \A f \in Emails \ {e} : status'[f] = status[f]
      /\ status[e] \in {"done", "duplicate"} /\ status'[e] = "review_match"
  BY DEF Reopen, Moves, IInv, EmailsOK
<1>4. ~HasOpenMerge(e) /\ Complete(e)'
  BY <1>3 DEF Claimed, Visible, Visibles, Complete
<1>5. CASE UNCHANGED th
  BY <1>1, <1>2, <1>3, <1>4, <1>5, SameMerges, LeftSmooth DEF Others
<1>6. CASE th' = [th EXCEPT ![h] = [Idle EXCEPT !.at = "reopened", !.email = e]]
  <2>1. Others(h) /\ th'[h].at = "reopened" /\ th'[h].email = e
    BY <1>6 DEF IInv, HandsOK, Others, Idle
  <2>2. Carried(h)' /\ Reversed(h)'
    BY <2>1 DEF Carried, Carrying, Reversed, Reversing
  <2>3. Harmless(h)
    BY <1>1, <2>1 DEF Harmless, Blocks, Reversing, Idle
  <2>. QED BY <1>1, <1>2, <1>3, <1>4, <2>1, <2>2, <2>3, SameMerges, HandsSmooth
<1>. QED BY <1>5, <1>6 DEF Reopen

LEMMA StartUnmergeSmooth ==
    ASSUME Calm, IInv, Claimed, Smooth, NEW h \in Threads, NEW m \in Rows, StartUnmerge(h, m)
    PROVE  Smooth'
<1>. PICK e, p : e = matches[m].email /\ p = matches[m].project
  OBVIOUS
<1>1. /\ \A u \in Threads : th[u].email # e
      /\ UNCHANGED <<status, target, excluded, matches, link>> /\ th[h] = Idle
      /\ matches[m].state \in {"open", "closed", "superseded"} /\ matches[m].kind = "merged"
  BY DEF StartUnmerge, Alone, tables
<1>2. e \in Emails /\ p \in Projects /\ Inserted(m) /\ Accounted(m)
  BY <1>1 DEF IInv, RowsOK, RowOK, Smooth, Inserted
<1>3. \A u \in Threads : th[u].at \in Carrying \cup Reversing => th[u].row # m
  BY <1>1, InHand
<1>4. matches[m].state = "open"
  <2>1. matches[m].state # "superseded"
    BY <1>1, <1>2 DEF Accounted
  <2>2. ASSUME matches[m].state = "closed", status[e] = "merged", target[e] = p PROVE FALSE
    <3>1. p \in excluded[e]
      BY <1>1, <1>2, <1>3, <2>2 DEF Accounted, Reversing
    <3>. QED BY <1>2, <2>2, <3>1 DEF Claimed, Visible
  <2>. QED BY <1>1, <2>1, <2>2 DEF StartUnmerge
<1>5. status[e] \in {"merged", "blocked_sender"}
  BY <1>1, <1>2, <1>3, <1>4 DEF Accounted, OpenMerge
<1>6. /\ Others(h) /\ th'[h].email = e /\ th'[h].project = p /\ th'[h].row = m
      /\ th'[h].at \in {"detach", "close"}
  <2>. DEFINE hand == [Idle EXCEPT !.email = e, !.project = p, !.row = m]
              new == [hand EXCEPT !.held = StillLinked(m),
                                  !.at = IF StillLinked(m) THEN "detach" ELSE "close"]
  <2>1. th' = [th EXCEPT ![h] = new]
    BY <1>4 DEF StartUnmerge
  <2>2. th \in [Threads -> Hands]
    BY DEF IInv, HandsOK
  <2>3. new.email = e /\ new.project = p /\ new.row = m /\ new.at \in {"detach", "close"}
    BY DEF Idle
  <2>. HIDE DEF new
  <2>. QED BY <2>1, <2>2, <2>3 DEF Others
<1>7. Carried(h)'
  BY <1>6 DEF Carried, Carrying
<1>8. Reversed(h)'
  BY <1>1, <1>2, <1>4, <1>5, <1>6 DEF Reversed, Reversing, Inserted
<1>9. ASSUME NEW u \in Threads, th[u].at = "remove" PROVE th[u].project # p
  <2>1. ASSUME th[u].project = p PROVE FALSE
    <3>1. PICK v \in Threads : th[v].row = m /\ th[v].at \in {"link", "exists"}
      BY <1>1, <1>4, <1>9, <2>1 DEF Smooth, Removing, OpenMerge
    <3>. QED BY <1>3, <3>1 DEF Carrying
  <2>. QED BY <2>1
<1>10. Harmless(h)
  BY <1>1, <1>6, <1>9 DEF Harmless, Idle
<1>. QED BY <1>1, <1>6, <1>7, <1>8, <1>10, TakenSmooth

LEMMA StartRemoveGcSmooth ==
    ASSUME Calm, IInv, Claimed, Smooth, NEW h \in Threads, NEW p \in Projects, StartRemoveGc(h, p)
    PROVE  Smooth'
<1>1. /\ \A u \in Threads : th[u].project # p
      /\ UNCHANGED <<status, target, excluded, matches, link>> /\ th[h] = Idle
      /\ OnProject(p) /\ \A m \in Rows : ~ (OpenMerge(m) /\ matches[m].project = p)
  BY DEF StartRemoveGc, tables, OpenMerge
<1>2. /\ Others(h) /\ th'[h].at = "remove" /\ th'[h].project = p
  BY DEF StartRemoveGc, IInv, HandsOK, Others, Idle
<1>3. Carried(h)' /\ Reversed(h)' /\ th'[h].at \notin Busy
  BY <1>2 DEF Carried, Carrying, Reversed, Reversing, Busy, Claiming, DecisionSteps
<1>4. \A u \in Threads \ {h} : th'[u].project # p
  BY <1>1, <1>2 DEF Others
<1>5. Removing(h)'
  BY <1>1, <1>2, <1>4 DEF Removing, OpenMerge, OnProject
<1>6. Harmless(h)
  BY <1>1, <1>2, <1>5 DEF Harmless, Idle
<1>. QED BY <1>1, <1>2, <1>3, <1>6, TakenSmooth

\* What a reversal has in hand.
LEMMA OfReversal ==
    ASSUME IInv, Claimed, Smooth, NEW t \in Threads, th[t].at \in Reversing
    PROVE  /\ th[t].at \in Busy /\ th[t].at \notin Carrying
           /\ th[t].row \in Rows /\ Inserted(th[t].row) /\ Reversed(t)
           /\ th[t].email \in Emails /\ th[t].project \in Projects
           /\ matches[th[t].row].email = th[t].email
           /\ matches[th[t].row].project = th[t].project
           /\ matches[th[t].row].kind = "merged"
           /\ \A u \in Threads \ {t} : th[u].at \in Busy => th[u].email # th[t].email
           /\ \A u \in Threads \ {t} : th[u].at \in Carrying \cup Reversing => th[u].row # th[t].row
           /\ \A u \in Threads \ {t} : th[u].at = "remove" => th[u].project # th[t].project
<1>1. th[t].at \in Busy /\ th[t].at \notin Carrying
  BY DEF Busy, Reversing, Carrying
<1>2. Reversed(t) /\ matches[th[t].row].kind = "merged"
  BY DEF Smooth, Reversed
<1>3. \A u \in Threads \ {t} : th[u].at \in Busy => th[u].email # th[t].email
  BY <1>1 DEF Smooth, Clear
<1>4. \A u \in Threads \ {t} : th[u].at \in Carrying \cup Reversing => th[u].row # th[t].row
  BY <1>3, InHand
<1>5. \A u \in Threads \ {t} : th[u].at = "remove" => th[u].project # th[t].project
  BY DEF Smooth, Removing, Blocks
<1>. QED BY <1>1, <1>2, <1>3, <1>4, <1>5, InHand

LEMMA DetachSmooth ==
    ASSUME IInv, Claimed, Smooth, NEW h \in Threads, Detach(h)
    PROVE  Smooth'
<1>. PICK e, m, p : e = th[h].email /\ m = th[h].row /\ p = th[h].project
  OBVIOUS
<1>1. /\ th[h].at = "detach" /\ {"detach", "close"} \subseteq Reversing \cap Busy
      /\ UNCHANGED <<status, target, excluded, matches>>
  BY DEF Detach, Reversing, Busy
<1>2. /\ m \in Rows /\ Inserted(m) /\ Reversed(h) /\ e \in Emails /\ p \in Projects
      /\ \A u \in Threads \ {h} : th[u].at \in Carrying => th[u].row # m
      /\ \A u \in Threads \ {h} : th[u].at = "remove" => th[u].project # p
      /\ th[h].at \notin Carrying
  BY <1>1, OfReversal
<1>3. CASE Ends(h) /\ UNCHANGED link
  <2>1. Others(h) /\ th'[h].at \notin Busy \cup {"remove"}
    BY <1>3, Left DEF IInv, Busy, Claiming, Reversing, DecisionSteps
  <2>. QED BY <1>1, <1>2, <1>3, <2>1, SameMerges, LeftSmooth
<1>4. ASSUME Goes(h, "close")
      PROVE  /\ Others(h) /\ th'[h].at = "close" /\ th'[h].email = e /\ th'[h].row = m
             /\ Carried(h)' /\ Reversed(h)' /\ Harmless(h)
  <2>1. /\ Others(h) /\ th'[h].at = "close" /\ th'[h].email = e
        /\ th'[h].project = p /\ th'[h].row = m
    BY <1>4, Went DEF IInv
  <2>2. Carried(h)' /\ Reversed(h)'
    BY <1>1, <1>2, <2>1 DEF Carried, Carrying, Reversed, Reversing, Inserted
  <2>3. Harmless(h)
    BY <1>1, <2>1 DEF Harmless, Blocks, Reversing
  <2>. QED BY <2>1, <2>2, <2>3
<1>5. CASE Goes(h, "close") /\ UNCHANGED link
  BY <1>1, <1>2, <1>4, <1>5, SameMerges, NextSmooth
<1>6. CASE Goes(h, "close") /\ Linked(p, m) /\ link' = [link EXCEPT ![p] = None]
  <2>1. \A u \in Threads \ {h} :
          th[u].at = "mark" \/ (th[u].at = "cas" /\ th[u].kind = "merged") =>
             ~ (th[u].project = p /\ Linked(p, th[u].row))
    BY <1>2, <1>6 DEF Linked, Carrying
  <2>2. /\ \A q \in Projects \ {p} : link'[q] = link[q]
        /\ link'[p] = None /\ LinkIds' /\ \A u \in Threads \ {h} : SparesBusy(u)
    BY <1>1, <1>2, <1>4, <1>6, <2>1, Unlinked
  <2>3. ASSUME NEW f \in Emails, NEW k \in Rows, matches[k].state = "open",
               matches[k].project = target[f], Linked(target[f], k)
        PROVE  \/ link'[target[f]] # None /\ link'[target[f]].id = k
               \/ th'[h].row = k /\ th'[h].at \in {"close", "return"}
    <3>1. target[f] \in Projects
      BY <2>3 DEF IInv, RowsOK, RowOK
    <3>2. target[f] = p => k = m
      BY <1>6, <2>3 DEF Linked
    <3>. QED BY <1>4, <1>6, <2>2, <2>3, <3>1, <3>2 DEF Linked, OnProject
  <2>4. \A u \in Threads \ {h} : th[u].at = "remove" /\ th[u].project \in Projects
                /\ OnProject(th[u].project) => link'[th[u].project] # None
    BY <1>2, <2>2 DEF OnProject
  <2>. QED BY <1>1, <1>2, <1>4, <1>6, <2>2, <2>3, <2>4, LinkSmooth
<1>7. link \in [Projects -> [id : 0..MaxRows, match : 0..MaxRows] \cup {None}]
  BY DEF IInv, LinksOK
<1>. QED BY <1>2, <1>3, <1>5, <1>6, <1>7 DEF Detach, Linked

LEMMA CloseRowSmooth ==
    ASSUME IInv, Claimed, Smooth, NEW h \in Threads, CloseRow(h)
    PROVE  Smooth'
<1>. PICK e, m, p : e = th[h].email /\ m = th[h].row /\ p = th[h].project
  OBVIOUS
<1>1. /\ th[h].at = "close" /\ {"close", "return"} \subseteq Reversing \cap Busy
      /\ UNCHANGED <<status, target, excluded, link>>
  BY DEF CloseRow, Reversing, Busy
<1>2. /\ m \in Rows /\ Inserted(m) /\ Reversed(h) /\ e \in Emails /\ p \in Projects
      /\ matches[m].email = e /\ matches[m].project = p /\ matches[m].kind = "merged"
      /\ \A u \in Threads \ {h} : th[u].at \in Busy => th[u].email # e
      /\ th[h].at \notin Carrying
  BY <1>1, OfReversal
<1>3. matches[m].state = "open" /\ OpenRows(e) \subseteq {m}
  BY <1>1, <1>2 DEF Reversed, IInv, OneOpenRow, OpenRows
<1>4. /\ matches' = [matches EXCEPT ![m].state = "closed"]
      /\ th' = [th EXCEPT ![h].at = "return", ![h].held = matches[m].added /\ ~StillLinked(m)]
  BY <1>3 DEF CloseRow
<1>5. /\ \A k \in Rows \ {m} : matches'[k] = matches[k]
      /\ matches'[m].email = e /\ matches'[m].project = p
      /\ matches'[m].kind = "merged" /\ matches'[m].state = "closed"
  BY <1>2, <1>4 DEF IInv, RowsOK, MatchRows
<1>6. RowsFrame /\ \A f : NoneOpened(f)
  BY <1>2, <1>5 DEF RowsFrame, Inserted, NoneOpened
<1>7. /\ Others(h) /\ th'[h].at = "return" /\ th'[h].email = e /\ th'[h].project = p
      /\ th'[h].row = m
  BY <1>4 DEF IInv, HandsOK, Hands, Others
<1>8. \A u \in Threads \ {h} : SparesBusy(u)
  <2>1. \A q, k : Linked(q, k)' <=> Linked(q, k)
    BY <1>1 DEF Linked, OnProject
  <2>. QED BY <1>1, <1>2, <1>5, <1>6, <1>7, <2>1 DEF SparesBusy, Others
<1>9. LinkIds'
  BY <1>1, <1>6 DEF Smooth, LinkIds, OnProject, RowsFrame
<1>10. Carried(h)'
  BY <1>7 DEF Carried, Carrying
<1>11. Reversed(h)'
  <2>1. {k \in Rows : matches'[k].email = e /\ matches'[k].state = "open"} = {}
    BY <1>3, <1>5 DEF OpenRows
  <2>2. OpenRows(th[h].email)' = {}
    BY <1>7, <2>1 DEF OpenRows
  <2>3. status[e] \in {"merged", "blocked_sender"}
    BY <1>1, <1>2 DEF Reversed
  <2>. QED BY <1>1, <1>5, <1>7, <2>2, <2>3 DEF Reversed, Inserted
<1>12. Harmless(h)
  BY <1>1, <1>7 DEF Harmless, Blocks
<1>13. ASSUME NEW u \in Threads PROVE Removing(u)'
  <2>1. \A k \in Rows : OpenMerge(k)' =>
            OpenMerge(k) /\ matches'[k].project = matches[k].project
    BY <1>5 DEF OpenMerge
  <2>2. OnProject(th[u].project) => link'[th[u].project] # None
    BY <1>1 DEF OnProject
  <2>. QED BY <1>7, <1>12, <2>1, <2>2, RemovingKept
<1>14. ASSUME NEW k \in Rows PROVE Accounted(k)'
  <2>1. CASE k = m
    BY <1>5, <1>7, <2>1 DEF Accounted, OpenMerge
  <2>2. CASE k # m
    BY <1>1, <1>2, <1>5, <1>7, <2>2, AccountedKept
  <2>. QED BY <2>1, <2>2
<1>15. ASSUME NEW f \in Emails PROVE Complete(f)'
  <2>1. \A k \in Rows : /\ matches'[k].email = matches[k].email
                        /\ matches'[k].project = matches[k].project
                        /\ matches'[k].kind = matches[k].kind
                        /\ matches'[k].state = matches[k].state \/ k = m
    BY <1>2, <1>5
  <2>. QED BY <1>1, <1>7, <2>1, CompleteKept DEF Linked, OnProject
<1>. QED BY <1>1, <1>2, <1>6, <1>7, <1>8, <1>9, <1>10, <1>11, <1>13, <1>14, <1>15, SmoothStep

LEMMA ReturnEmailSmooth ==
    ASSUME IInv, Claimed, Smooth, NEW h \in Threads, ReturnEmail(h)
    PROVE  Smooth'
<1>. PICK e, m, p : e = th[h].email /\ m = th[h].row /\ p = th[h].project
  OBVIOUS
<1>1. /\ th[h].at = "return" /\ "return" \in Reversing
      /\ UNCHANGED <<matches, link>>
  BY DEF ReturnEmail, Reversing
<1>2. /\ m \in Rows /\ e \in Emails /\ p \in Projects /\ OpenRows(e) = {} /\ ~HasOpenMerge(e)
      /\ matches[m].email = e /\ matches[m].project = p
      /\ \A u \in Threads \ {h} : th[u].at \in Busy => th[u].email # e
      /\ status[e] \in {"merged", "blocked_sender"}
      /\ th[h].at \notin Carrying \cup {"link", "exists"}
  BY <1>1, OfReversal DEF Reversed, HasOpenMerge
<1>3. Others(h) /\ th'[h].at \notin Busy \cup {"remove"}
  <2>1. CASE Ends(h)
    BY <2>1, Left DEF IInv, Busy, Claiming, Reversing, DecisionSteps
  <2>2. CASE Goes(h, "select")
    BY <2>2, Went DEF IInv, Busy, Claiming, Reversing, DecisionSteps
  <2>. QED BY <2>1, <2>2 DEF ReturnEmail
<1>4. Carried(h)' /\ Reversed(h)' /\ ~Blocks(h)'
  BY <1>3, NotBusy
<1>5. Harmless(h)
  BY <1>1, <1>3, <1>4 DEF Harmless
<1>6. CASE /\ Moves(e, "merged", "match")
           /\ target' = [target EXCEPT ![e] = None]
           /\ excluded' = [excluded EXCEPT ![e] = @ \cup {p}]
  <2>1. /\ \A f \in Emails \ {e} : /\ status'[f] = status[f] /\ target'[f] = target[f]
                                   /\ excluded'[f] = excluded[f]
        /\ status[e] = "merged" /\ status'[e] = "match" /\ excluded'[e] = excluded[e] \cup {p}
    BY <1>2, <1>6 DEF Moves, IInv, EmailsOK
  <2>2. Complete(e)'
    BY <2>1 DEF Complete
  <2>. QED BY <1>1, <1>2, <1>3, <1>4, <1>5, <2>1, <2>2, SameMerges, HandsSmooth
<1>7. CASE /\ status[e] # "merged" \/ target[e] # p
           /\ UNCHANGED <<status, target, excluded>>
  <2>1. status[e] = "blocked_sender"
    <3>. SUFFICES ASSUME status[e] = "merged" PROVE FALSE
      BY <1>2
    <3>1. PICK k \in Rows :
            /\ matches[k].email = e /\ matches[k].project = target[e] /\ matches[k].kind = "merged"
            /\ \/ matches[k].state = "open" /\ Linked(target[e], k)
               \/ \E u \in Threads : th[u].row = k /\ th[u].at \in {"close", "return"}
      BY <1>2 DEF Smooth, Complete
    <3>2. matches[k].state # "open"
      BY <1>2, <3>1 DEF OpenRows
    <3>3. PICK u \in Threads : th[u].row = k /\ th[u].at \in {"close", "return"}
      BY <3>1, <3>2
    <3>4. th[u].email = e /\ th[u].at \in Busy
      BY <3>1, <3>3, OfReversal DEF Reversing
    <3>5. k = m
      BY <1>2, <3>3, <3>4
    <3>. QED BY <1>2, <1>7, <3>1, <3>5
  <2>2. Complete(e)'
    BY <1>7, <2>1 DEF Complete
  <2>. QED BY <1>1, <1>2, <1>3, <1>4, <1>5, <1>7, <2>1, <2>2, SameMerges, HandsSmooth
<1>. QED BY <1>6, <1>7 DEF ReturnEmail, Returned

LEMMA CascadeSmooth ==
    ASSUME IInv, Claimed, Smooth, NEW h \in Threads,
           SelectDuplicates(h) \/ CloseDuplicate(h) \/ ReturnDuplicate(h)
    PROVE  Smooth'
<1>. PICK e, p : e = th[h].email /\ p = th[h].project
  OBVIOUS
<1>0. th \in [Threads -> Hands] /\ UNCHANGED link
      /\ th[h].at \notin Carrying \cup {"close", "return"}
      /\ {"cascade", "giveback", "idle"} \cap (Busy \cup {"remove"}) = {}
  BY DEF IInv, HandsOK, SelectDuplicates, CloseDuplicate, ReturnDuplicate, tables, Carrying,
         Busy, Claiming, Reversing, DecisionSteps
<1>1. ASSUME SelectDuplicates(h) PROVE Smooth'
  <2>1. Others(h) /\ th'[h].at = "cascade" /\ UNCHANGED <<status, target, excluded, matches>>
    BY <1>0, <1>1 DEF SelectDuplicates, Others, Hands, tables
  <2>. QED BY <1>0, <2>1, SameMerges, LeftSmooth
<1>2. ASSUME CloseDuplicate(h) PROVE Smooth'
  <2>1. UNCHANGED <<status, target, excluded>>
    BY <1>2 DEF CloseDuplicate
  <2>2. ASSUME Others(h), th'[h].at \in {"cascade", "giveback", "idle"}, MergesKept PROVE Smooth'
    BY <1>0, <2>1, <2>2, LeftSmooth
  <2>3. CASE Ends(h) /\ UNCHANGED matches
    BY <2>2, <2>3, Ended, SameMerges DEF Idle, IInv
  <2>4. ASSUME NEW d \in th[h].todo, matches[d].state = "open",
               matches' = [matches EXCEPT ![d].state = "closed"],
               th' = [th EXCEPT ![h].at = "giveback", ![h].email = matches[d].email,
                                ![h].todo = @ \ {d}]
        PROVE  Smooth'
    <3>1. Others(h) /\ th'[h].at = "giveback"
      BY <1>0, <2>4 DEF Others, Hands
    <3>2. d \in Rows /\ matches[d].kind = "duplicate"
      BY <1>0 DEF Hands, Claimed, Cascading
    <3>3. MergesKept
      BY <2>4, <3>2 DEF MergesKept, IInv, RowsOK, MatchRows
    <3>. QED BY <2>2, <3>1, <3>3
  <2>5. ASSUME NEW d \in th[h].todo, th' = [th EXCEPT ![h].todo = @ \ {d}], UNCHANGED matches
        PROVE  Smooth'
    <3>1. th[h].at = "cascade"
      BY <1>2 DEF CloseDuplicate
    <3>2. Others(h) /\ th'[h].at = "cascade"
      BY <1>0, <2>5, <3>1 DEF Others, Hands
    <3>. QED BY <2>2, <2>5, <3>2, SameMerges
  <2>. QED BY <1>2, <2>3, <2>4, <2>5 DEF CloseDuplicate
<1>3. ASSUME ReturnDuplicate(h) PROVE Smooth'
  <2>1. Others(h) /\ th'[h].at = "cascade" /\ UNCHANGED matches
    BY <1>3, Went DEF ReturnDuplicate, IInv
  <2>2. CASE UNCHANGED <<status, target, excluded>>
    BY <1>0, <2>1, <2>2, SameMerges, LeftSmooth
  <2>3. CASE /\ Moves(e, "duplicate", "match")
             /\ target' = [target EXCEPT ![e] = None]
             /\ excluded' = [excluded EXCEPT ![e] = @ \cup {p}]
    <3>1. ASSUME NEW f \in Emails \ {e}
          PROVE  /\ status'[f] = status[f] /\ target'[f] = target[f]
                 /\ excluded'[f] = excluded[f]
      <4>1. excluded'[f] = excluded[f]
        BY <2>3 DEF IInv, EmailsOK
      <4>2. status'[f] = status[f] /\ target'[f] = target[f]
        BY <2>3 DEF Moves, IInv, EmailsOK
      <4>. QED BY <4>1, <4>2
    <3>2. e \in Emails => status'[e] = "match" /\ excluded[e] \subseteq excluded'[e]
      BY <2>3 DEF Moves, IInv, EmailsOK
    <3>3. status[e] = "duplicate"
      BY <2>3 DEF Moves
    <3>4. \A u \in Threads \ {h} : th[u].at \in Busy => th[u].email # e
      BY <3>3 DEF Smooth, Reversed, Claimed, Claims, ExpectedAt, Busy
    <3>5. e \in Emails => ~HasOpenMerge(e)
      BY <3>3 DEF Claimed, Visible, Visibles
    <3>. QED BY <1>0, <2>1, <3>1, <3>2, <3>3, <3>4, <3>5, SameMerges, LeftSmooth
  <2>. QED BY <1>3, <2>2, <2>3 DEF ReturnDuplicate, Returned
<1>. QED BY <1>1, <1>2, <1>3

LEMMA RejectSmooth ==
    ASSUME IInv, Claimed, Smooth, NEW h \in Threads, Reject(h)
    PROVE  Smooth'
<1>. PICK e : e = th[h].email
  OBVIOUS
<1>1. /\ th[h].at = "reject" /\ "reject" \in Busy \cap Claiming /\ "reject" \notin Carrying
      /\ Ends(h) /\ UNCHANGED <<target, excluded, matches, link>>
  BY DEF Reject, Claiming, Busy, Carrying
<1>2. /\ e \in Emails /\ ~HasOpenMerge(e)
      /\ \A u \in Threads \ {h} : th[u].at \in Busy => th[u].email # e
      /\ th[h].kind \in {"onward", "rejected_by_review"}
  BY <1>1 DEF Claimed, Claims, Smooth, Clear, IInv, HandsOK, HandOK
<1>3. Others(h) /\ th'[h].at \notin Busy \cup {"remove"}
  BY <1>1, Left DEF IInv, Busy, Claiming, Reversing, DecisionSteps
<1>4. CASE UNCHANGED status
  BY <1>1, <1>3, <1>4, SameMerges, LeftSmooth
<1>5. CASE Moves(e, "review_match", th[h].kind)
  <2>1. /\ \A f \in Emails \ {e} : status'[f] = status[f]
        /\ status[e] = "review_match" /\ status'[e] \in {"onward", "rejected_by_review"}
    BY <1>2, <1>5 DEF Moves, IInv, EmailsOK
  <2>. QED BY <1>1, <1>2, <1>3, <2>1, SameMerges, LeftSmooth
<1>. QED BY <1>4, <1>5 DEF Reject

LEMMA CloseReopenedSmooth ==
    ASSUME IInv, Claimed, Smooth, NEW h \in Threads, CloseReopened(h)
    PROVE  Smooth'
<1>. PICK e : e = th[h].email
  OBVIOUS
<1>1. /\ th[h].at = "reopened" /\ "reopened" \in Claiming /\ "reopened" \notin Carrying
      /\ Ends(h) /\ UNCHANGED <<status, target, excluded, link>>
  BY DEF CloseReopened, Claiming, Carrying
<1>2. ~HasOpenMerge(e)
  BY <1>1 DEF Claimed, Claims
<1>3. \A m \in Rows : matches'[m] = IF m \in OpenRows(e)
                                      THEN [matches[m] EXCEPT !.state = "closed"]
                                      ELSE matches[m]
  BY DEF CloseReopened
<1>4. \A m \in OpenRows(e) : matches[m].kind = "duplicate" /\ matches[m].state = "open"
  BY <1>2 DEF HasOpenMerge, OpenRows, IInv, RowsOK, RowOK, Kinds
<1>5. MergesKept
  <2>1. ASSUME NEW m \in Rows, m \in OpenRows(e)
        PROVE  /\ matches'[m].email = matches[m].email /\ matches'[m].project = matches[m].project
               /\ matches'[m].kind = matches[m].kind /\ matches'[m].state = "closed"
    BY <1>3, <2>1 DEF IInv, RowsOK, MatchRows
  <2>2. \A m \in Rows : m \notin OpenRows(e) => matches'[m] = matches[m]
    BY <1>3
  <2>. QED BY <1>4, <2>1, <2>2 DEF MergesKept
<1>6. Others(h) /\ th'[h].at \notin Busy \cup {"remove"}
  BY <1>1, Left DEF IInv, Busy, Claiming, Reversing, DecisionSteps
<1>. QED BY <1>1, <1>5, <1>6, LeftSmooth

LEMMA RemoveGcSmooth ==
    ASSUME IInv, Claimed, Smooth, NEW h \in Threads, RemoveGc(h)
    PROVE  Smooth'
<1>. PICK p : p = th[h].project
  OBVIOUS
<1>1. /\ th[h].at = "remove" /\ "remove" \notin Carrying \cup {"close", "return"}
      /\ UNCHANGED <<status, target, excluded, matches>>
      /\ link' = [link EXCEPT ![p] = IF sent[p] = "sending" THEN @ ELSE None]
  BY DEF RemoveGc, Carrying
<1>2. /\ p \in Projects /\ \A u \in Threads \ {h} : th[u].project = p => ~Blocks(u)
      /\ \A m \in Rows : OpenMerge(m) /\ matches[m].project = p =>
            \E u \in Threads : th[u].row = m /\ th[u].at \in {"link", "exists"}
  BY <1>1 DEF Smooth, Removing
<1>3. Others(h) /\ th'[h].at \notin Busy \cup {"remove"}
  BY Left DEF RemoveGc, IInv, Busy, Claiming, Reversing, DecisionSteps
<1>4. Carried(h)' /\ Reversed(h)' /\ ~Blocks(h)'
  BY <1>3, NotBusy
<1>5. Harmless(h)
  BY <1>1, <1>3, <1>4 DEF Harmless
<1>6. CASE UNCHANGED link
  BY <1>1, <1>3, <1>6, SameMerges, LeftSmooth
<1>7. CASE link' = [link EXCEPT ![p] = None]
  <2>1. \A u \in Threads \ {h} :
          th[u].at = "mark" \/ (th[u].at = "cas" /\ th[u].kind = "merged") =>
             ~ (th[u].project = p /\ Linked(p, th[u].row))
    BY <1>2 DEF Blocks
  <2>2. /\ \A q \in Projects \ {p} : link'[q] = link[q]
        /\ link'[p] = None /\ LinkIds' /\ \A u \in Threads \ {h} : SparesBusy(u)
    BY <1>1, <1>2, <1>3, <1>7, <2>1, Unlinked
  <2>3. ASSUME NEW u \in Threads \ {h}, th[u].at = "remove" PROVE th[u].project # p
    BY <1>2, <2>3 DEF Blocks
  <2>4. \A u \in Threads \ {h} : th[u].at = "remove" /\ th[u].project \in Projects
                /\ OnProject(th[u].project) => link'[th[u].project] # None
    BY <2>2, <2>3 DEF OnProject
  <2>5. ASSUME NEW f \in Emails, status[f] = "merged", NEW k \in Rows,
               matches[k].email = f, matches[k].state = "open", matches[k].kind = "merged",
               matches[k].project = target[f], Linked(target[f], k)
        PROVE  link'[target[f]] # None /\ link'[target[f]].id = k
    <3>1. target[f] \in Projects
      BY <2>5 DEF IInv, RowsOK, RowOK
    <3>2. target[f] # p
      <4>. SUFFICES ASSUME target[f] = p PROVE FALSE
        OBVIOUS
      <4>1. PICK u \in Threads : th[u].row = k /\ th[u].at \in {"link", "exists"}
        BY <1>2, <2>5 DEF OpenMerge
      <4>2. th[u].at \in DecisionSteps \cap Carrying
        BY <4>1 DEF DecisionSteps, Carrying
      <4>. QED BY <2>5, <4>1, <4>2, OfDecision
    <3>. QED BY <2>2, <2>5, <3>1, <3>2 DEF Linked, OnProject
  <2>. QED BY <1>1, <1>3, <1>4, <1>5, <2>2, <2>4, <2>5, LinkSmooth
<1>8. link \in [Projects -> [id : 0..MaxRows, match : 0..MaxRows] \cup {None}]
  BY DEF IInv, LinksOK
<1>. QED BY <1>1, <1>2, <1>6, <1>7, <1>8

\* No thread takes a step, and no row changes: what is left to show.
LEMMA StillStep ==
    ASSUME IInv, Claimed, Smooth, UNCHANGED <<matches, th>>,
           \A u \in Threads : SparesBusy(u), LinkIds', \A h \in Threads : Removing(h)',
           \A m \in Rows : Accounted(m)', \A e \in Emails : Complete(e)'
    PROVE  Smooth'
<1>1. \A u \in Threads : Carried(u)' /\ Reversed(u)'
  BY SameFrame, OtherBusy
<1>2. Clear'
  BY DEF Smooth, Clear
<1>. QED BY <1>1, <1>2 DEF Smooth

LEMMA EmailCommandsSmooth ==
    ASSUME IInv, Claimed, Smooth, NEW e \in Emails,
           RetryRow(e) \/ SetProjectName(e) \/ ParkBlockedSender(e) \/ DrainOnward(e)
    PROVE  Smooth'
<1>1. UNCHANGED <<target, excluded, matches, link, th>>
  BY DEF RetryRow, SetProjectName, ParkBlockedSender, Redirect, DrainOnward, others
<1>2. \A f \in Emails \ {e} : status'[f] = status[f]
  BY DEF RetryRow, SetProjectName, ParkBlockedSender, Redirect, DrainOnward, Moves, IInv, EmailsOK
<1>3. \/ status[e] \in {"failed", "done"} /\ status'[e] = "match"
      \/ status'[e] = "blocked_sender"
      \/ status[e] = "onward" /\ status'[e] \in {"done", "created"}
  BY DEF RetryRow, SetProjectName, ParkBlockedSender, Redirect, DrainOnward, Moves, IInv, EmailsOK
<1>4. ASSUME NEW u \in Threads, th[u].at \in Busy, th[u].email = e
      PROVE  status'[e] \in {status[e], "blocked_sender"}
  BY <1>3, <1>4 DEF Smooth, Reversed, Claimed, Claims, ExpectedAt, Busy
<1>5. Carrying \subseteq Busy
  BY DEF Carrying, Busy, Claiming, DecisionSteps
<1>6. HasOpenMerge(e) => status'[e] = "blocked_sender"
  <2>1. CASE status[e] = "failed"
    <3>1. \A u \in Threads : th[u].at \in Busy => th[u].email # e
      BY <2>1 DEF Smooth, Reversed, Claimed, Claims, ExpectedAt, Busy
    <3>. QED BY <1>5, <2>1, <3>1, NoOpenMerge
  <2>2. CASE status[e] \in {"done", "onward"}
    BY <2>2 DEF Claimed, Visible, Visibles
  <2>. QED BY <1>3, <2>1, <2>2
<1>7. status[e] = "blocked_sender" => status'[e] = "blocked_sender"
  BY <1>3
<1>8. ASSUME NEW u \in Threads PROVE SparesBusy(u)
  <2>1. th[u].at \in Busy => th[u].email \in Emails
    BY InHand DEF Claimed, Claims, Busy
  <2>2. \A q, k : Linked(q, k)' <=> Linked(q, k)
    BY <1>1 DEF Linked, OnProject
  <2>. QED BY <1>1, <1>2, <1>4, <2>1, <2>2 DEF SparesBusy, NoneOpened
<1>9. LinkIds' /\ \A h \in Threads : Removing(h)'
  BY <1>1 DEF Smooth, LinkIds, Removing, OnProject, Inserted, Blocks, OpenMerge
<1>10. ASSUME NEW m \in Rows PROVE Accounted(m)'
  <2>1. Accounted(m) /\ (Inserted(m) => matches[m].email \in Emails)
    BY DEF Smooth, IInv, RowsOK, RowOK, Inserted
  <2>2. CASE matches[m].email = e /\ OpenMerge(m)
    <3>1. HasOpenMerge(e)
      BY <2>2 DEF HasOpenMerge, OpenRows, OpenMerge
    <3>. QED BY <1>1, <1>6, <2>2, <3>1 DEF Accounted, OpenMerge
  <2>3. CASE matches[m].email = e /\ ~OpenMerge(m)
    BY <1>1, <1>7, <2>1, <2>3 DEF Accounted, OpenMerge
  <2>4. CASE matches[m].email # e
    BY <1>1, <1>2, <2>1, <2>4 DEF Accounted, OpenMerge, Inserted
  <2>. QED BY <2>2, <2>3, <2>4
<1>11. ASSUME NEW f \in Emails PROVE Complete(f)'
  <2>1. CASE f = e
    BY <1>3, <2>1 DEF Complete
  <2>2. CASE f # e
    BY <1>1, <1>2, <2>2 DEF Smooth, Complete, Linked, OnProject
  <2>. QED BY <2>1, <2>2
<1>. QED BY <1>1, <1>8, <1>9, <1>10, <1>11, StillStep

LEMMA AddGcSmooth ==
    ASSUME IInv, Claimed, Smooth, NEW p \in Projects, AddGc(p)
    PROVE  Smooth'
<1>1. /\ UNCHANGED <<status, target, excluded, matches, th>> /\ ~OnProject(p)
      /\ link' = [link EXCEPT ![p] = [id |-> 0, match |-> 0]]
  BY DEF AddGc
<1>2. /\ \A q \in Projects \ {p} : link'[q] = link[q]
      /\ link'[p] = [id |-> 0, match |-> 0] /\ link'[p] # None
  <2>1. /\ \A q \in Projects \ {p} : link'[q] = link[q]
        /\ link'[p] = [id |-> 0, match |-> 0]
    BY <1>1 DEF IInv, LinksOK
  <2>. QED BY <2>1
<1>3. ASSUME NEW q \in Projects, NEW k
      PROVE  /\ Linked(q, k) => Linked(q, k)'
             /\ Linked(q, k)' => Linked(q, k) \/ k = 0
  BY <1>1, <1>2 DEF Linked, OnProject
<1>4. ASSUME NEW u \in Threads PROVE SparesBusy(u)
  <2>1. th'[u] = th[u]
    BY <1>1
  <2>2. th[u].at \in Carrying => th[u].row # 0 /\ th[u].project \in Projects
    BY InHand DEF Rows
  <2>3. ASSUME th[u].at \in {"link", "exists"}, NEW q \in Projects, Linked(q, th[u].row)'
        PROVE  Linked(q, th[u].row)
    BY <1>2, <1>3, <2>1, <2>2, <2>3 DEF Carrying, Linked, OnProject
  <2>4. ASSUME th[u].at \in {"mark", "cas"}, Linked(th[u].project, th[u].row)
        PROVE  Linked(th[u].project, th[u].row)'
    BY <1>1, <1>2, <2>1, <2>2, <2>4 DEF Carrying, Linked, OnProject
  <2>. QED BY <1>1, <2>1, <2>3, <2>4 DEF SparesBusy, NoneOpened
<1>5. LinkIds'
  BY <1>1, <1>2 DEF Smooth, LinkIds, OnProject, Inserted
<1>6. ASSUME NEW h \in Threads PROVE Removing(h)'
  <2>1. \A q \in Projects : OnProject(q) => link'[q] # None
    BY <1>2 DEF OnProject
  <2>. QED BY <1>1, <2>1 DEF Smooth, Removing, OnProject, Blocks, OpenMerge
<1>7. \A m \in Rows : Accounted(m)'
  BY <1>1 DEF Smooth, Accounted, OpenMerge
<1>8. ASSUME NEW f \in Emails PROVE Complete(f)'
  <2>1. Sweep \in Threads /\ Others(Sweep)
    BY <1>1 DEF Threads, Others
  <2>2. ASSUME NEW k \in Rows, matches[k].state = "open", matches[k].project = target[f],
               Linked(target[f], k)
        PROVE  link'[target[f]] # None /\ link'[target[f]].id = k
    <3>1. target[f] \in Projects
      BY <2>2 DEF IInv, RowsOK, RowOK
    <3>. QED BY <1>1, <1>2, <2>2, <3>1 DEF Linked, OnProject
  <2>. QED BY <1>1, <2>1, <2>2, CompleteKept
<1>. QED BY <1>1, <1>4, <1>5, <1>6, <1>7, <1>8, StillStep

LEMMA SmoothInitially == Init => Smooth
<1>. SUFFICES ASSUME Init PROVE Smooth
  OBVIOUS
<1>1. \A t \in Threads : th[t].at = "idle"
  BY DEF Init, Idle
<1>2. \A m \in Rows : matches[m].state = "free"
  BY DEF Init, FreeRow
<1>3. \A e \in Emails : status[e] = "match"
  BY DEF Init
<1>4. \A p \in Projects : ~OnProject(p)
  BY DEF Init, OnProject
<1>5. "idle" \notin Busy \cup Carrying \cup {"remove"}
  BY DEF Busy, Claiming, DecisionSteps, Reversing, Carrying
<1>6. Clear /\ LinkIds
  BY <1>1, <1>4, <1>5 DEF Clear, LinkIds
<1>7. ASSUME NEW t \in Threads PROVE Carried(t) /\ Reversed(t) /\ Removing(t)
  BY <1>1, <1>5, <1>7 DEF Carried, Reversed, Removing, Reversing, Carrying
<1>8. \A m \in Rows : Accounted(m)
  BY <1>2 DEF Accounted, OpenMerge
<1>9. \A e \in Emails : Complete(e)
  BY <1>3 DEF Complete
<1>. QED BY <1>6, <1>7, <1>8, <1>9 DEF Smooth

LEMMA SmoothKept ==
    ASSUME Calm, IInv, Claimed, Smooth, [Next]_vars, trouble' = trouble, trouble \in Nat
    PROVE  Smooth'
<1>. People \subseteq Threads /\ Sweep \in Threads
  BY DEF Threads
<1>1. ASSUME NEW t \in Threads, Working(t) PROVE Smooth'
  <2>1. Unmerging(t) => Smooth'
    BY DetachSmooth, CloseRowSmooth, ReturnEmailSmooth, CascadeSmooth DEF Unmerging
  <2>. QED BY <1>1, <2>1, DecisionSmooth, SweepSmooth, RejectSmooth, CloseReopenedSmooth,
              RemoveGcSmooth DEF Working
<1>2. ASSUME NEW t \in Threads, Trouble(t) PROVE FALSE
  BY <1>2 DEF Trouble
<1>3. ASSUME NEW h \in People, PersonActs(h) PROVE Smooth'
  BY <1>3, PersonDecidesSmooth, StartUnmergeSmooth, StartRejectSmooth, ReopenSmooth,
     StartRemoveGcSmooth DEF PersonActs
<1>4. ASSUME NEW p \in Projects,
             ClaimSend(p) \/ MarkSubmitted(p) \/ SettleSend(p) \/ CloseProject(p)
      PROVE  Smooth'
  <2>1. UNCHANGED tables /\ UNCHANGED th
    BY <1>4 DEF ClaimSend, MarkSubmitted, SettleSend, CloseProject
  <2>. QED BY <2>1, SameSmooth DEF tables
<1>5. CASE UNCHANGED vars
  BY <1>5, SameSmooth DEF vars
<1>. QED BY <1>1, <1>2, <1>3, <1>4, <1>5, SweepRowSmooth, EmailCommandsSmooth,
            AddGcSmooth DEF Next

\* Only Trouble counts a trouble.
LEMMA TroubleCounts ==
    ASSUME [Next]_vars, trouble \in Nat
    PROVE  trouble' = trouble \/ trouble' = trouble + 1
<1>1. ASSUME NEW t \in Threads, Working(t) PROVE trouble' = trouble
  <2>1. Decision(t) => trouble' = trouble
    BY DEF Decision, MeetOpenRow, InsertRow, InsertLink, MeetLink, MarkAdded, DecideEmail,
           UndoLink, UndoRow, others
  <2>2. SweepChecks \/ SweepRoutes \/ SweepParks => trouble' = trouble
    BY DEF SweepChecks, SweepRoutes, SweepParks, others
  <2>3. Unmerging(t) => trouble' = trouble
    BY DEF Unmerging, Detach, CloseRow, ReturnEmail, SelectDuplicates, CloseDuplicate,
           ReturnDuplicate, others
  <2>4. Reject(t) \/ CloseReopened(t) \/ RemoveGc(t) => trouble' = trouble
    BY DEF Reject, CloseReopened, RemoveGc, others
  <2>. QED BY <1>1, <2>1, <2>2, <2>3, <2>4 DEF Working
<1>2. ASSUME NEW h \in People, PersonActs(h) PROVE trouble' = trouble
  BY <1>2 DEF PersonActs, PersonDecides, StartUnmerge, StartReject, Reopen, StartRemoveGc, Command
<1>3. ASSUME NEW e \in Emails, \/ SweepRow(e) \/ RetryRow(e) \/ SetProjectName(e)
                               \/ ParkBlockedSender(e) \/ DrainOnward(e)
      PROVE  trouble' = trouble
  BY <1>3 DEF SweepRow, RetryRow, SetProjectName, ParkBlockedSender, DrainOnward, Redirect,
              Command, others
<1>4. ASSUME NEW p \in Projects, \/ AddGc(p) \/ ClaimSend(p) \/ MarkSubmitted(p)
                                 \/ SettleSend(p) \/ CloseProject(p)
      PROVE  trouble' = trouble
  BY <1>4 DEF AddGc, ClaimSend, MarkSubmitted, SettleSend, CloseProject, Command
<1>5. \A t \in Threads : Trouble(t) => trouble' = trouble + 1
  BY DEF Trouble
<1>6. UNCHANGED vars => trouble' = trouble
  BY DEF vars
<1>. QED BY <1>1, <1>2, <1>3, <1>4, <1>5, <1>6 DEF Next

\* The inductive invariant: Smooth as long as nothing crashed or failed.
WholeInv == IInv /\ Claimed /\ trouble \in Nat /\ (trouble = 0 => Smooth)

LEMMA WholeKept ==
    ASSUME Calm, WholeInv, [Next]_vars
    PROVE  WholeInv'
<1>1. IInv' /\ Claimed'
  BY StepKeeps, ClaimedKept DEF WholeInv
<1>2. trouble' \in Nat /\ (trouble' = 0 => trouble' = trouble)
  BY TroubleCounts DEF WholeInv
<1>. QED BY <1>1, <1>2, SmoothKept DEF WholeInv

LEMMA SeenWhole == WholeInv => MergeIsWhole
<1>. SUFFICES ASSUME WholeInv, NEW e \in Emails
              PROVE  /\ HasOpenMerge(e) => status[e] \in Visibles
                     /\ status[e] = "merged" =>
                          /\ target[e] \notin excluded[e]
                          /\ Quiet => OnProject(target[e])
                          /\ \E m \in Rows :
                               /\ matches[m].email = e /\ matches[m].project = target[e]
                               /\ matches[m].kind = "merged" /\ matches[m].state # "deleted"
                               /\ Quiet => matches[m].state = "open"
  BY DEF MergeIsWhole, Visibles
<1>1. Visible(e)
  BY DEF WholeInv, Claimed
<1>2. ASSUME Quiet, status[e] = "merged"
      PROVE  \E m \in Rows : /\ matches[m].email = e /\ matches[m].project = target[e]
                             /\ matches[m].kind = "merged" /\ matches[m].state = "open"
                             /\ OnProject(target[e])
  <2>1. Complete(e)
    BY <1>2 DEF Quiet, WholeInv, Smooth
  <2>2. \A t \in Threads : th[t].at \notin {"close", "return"}
    BY <1>2 DEF Quiet, Idle
  <2>. QED BY <1>2, <2>1, <2>2 DEF Complete, Linked
<1>3. CASE Quiet
  BY <1>1, <1>2, <1>3 DEF Visible
<1>4. CASE ~Quiet
  BY <1>1, <1>4 DEF Visible
<1>. QED BY <1>3, <1>4

\* Under Calm a merge is never left half visible, whatever crashed or failed
\* between the writes of a decision or a reversal: an open merge keeps its
\* email where a person or the sweep meets it, a merged email has the row that
\* Unmerge needs, of a project it was not taken away from, and where nothing
\* failed that row is open and the GC is on the project.
THEOREM MergeWholeHolds == ASSUME Calm PROVE Spec => []MergeIsWhole
<1>1. Init => WholeInv
  <2>1. Init => trouble \in Nat
    BY DEF Init
  <2>. QED BY <2>1, Initially, ClaimedInitially, SmoothInitially DEF WholeInv
<1>2. WholeInv /\ [Next]_vars => WholeInv'
  BY WholeKept
<1>. QED BY <1>1, <1>2, SeenWhole, PTL DEF Spec

=============================================================================
