--------------------------- MODULE WorkflowStages ---------------------------
(***************************************************************************)
(* The stage machine of one bid: services/workflow.py, with the handlers   *)
(* that move it (routers/workflow.py, services/gono.py, the Verify commit  *)
(* of routers/pricing.py, "Done sending", services/outcome.py) and the two *)
(* stored procedures that record a bid sent outside the app.               *)
(*                                                                         *)
(* A handler checks the lanes it read, reads them again and writes them    *)
(* back without a lock, one step per call to the database.  Calm says that *)
(* two handlers never work on one lane at a time; a handler may still be    *)
(* interleaved with those of the other lanes, or die between two calls.    *)
(***************************************************************************)
EXTENDS StageTables

CONSTANTS
    Requests,    \* threads that serve requests
    Figures,     \* what the numbers behind a price can add up to
    MaxCrashes,  \* bound on the handlers that die half way
    Calm,
    None

ASSUME WorkflowAssumption ==
    /\ Calm \in BOOLEAN /\ MaxCrashes \in Nat
    /\ None \notin Figures \cup Positions \cup Nat

VARIABLES
    pos,        \* project_category_state, in the encoding of StageTables
    stage,      \* projects.current_stage
    back,       \* projects.reverify_return_stage, a task of send_out
    figures,    \* the live numbers a price is computed from
    snapshot,   \* verifications: the live figures that a commit resolved its prices
                \* from, or None (the Executive's override of a price stays out)
    decision,   \* go_no_go_decisions
    outcome,    \* a bid_outcomes row exists
    external,   \* external_submissions: what the active one restores, or None
    req,        \* what each request is doing and what it read
    left,       \* history: the task an edit has pulled the bid from, or None
    missed,     \* history: an edit overtook the last commit and found nothing to pull back
    crashes

rows == <<pos, stage, back, figures, snapshot, decision, outcome, external>>
vars == <<rows, req, left, missed, crashes>>

\* `why` is the handler at work on `lane`, `head` the position its router
\* checked, `to` the one it will write, `opens` the lanes it will open.
Idle == [at |-> "idle", why |-> "none", lane |-> "intake", head |-> 0, to |-> 0,
         opens |-> {}, stage |-> "none", figures |-> None]

Quiet == \A p \in Requests : req[p].at = "idle"

\* The lanes a request has in hand.
Uses(p) == IF req[p].at \in {"idle", "look"} THEN {} ELSE {req[p].lane} \cup req[p].opens
Clear(p, lanes) == Calm => \A q \in Requests \ {p} : Uses(q) \cap lanes = {}

Begin(p, at, why, lane) ==
    /\ req[p].at = "idle" /\ Clear(p, {lane})
    /\ req' = [req EXCEPT ![p] = [Idle EXCEPT !.at = at, !.why = why, !.lane = lane,
                                              !.head = pos[lane]]]
    /\ UNCHANGED <<rows, left, missed, crashes>>

At(p, step) == req[p].at = step /\ UNCHANGED <<left, missed, crashes>>
Goto(p, step) == req' = [req EXCEPT ![p].at = step]
Done(p) == req' = [req EXCEPT ![p] = Idle]

-----------------------------------------------------------------------------
(* The checks of the routers.                                               *)

PanelOwnedHeads == {"go_no_go", "verify", "send_out", "submitted"}

\* POST /advance.
StartAdvance(p, l) ==
    /\ stage # "declined" /\ Active(pos, l)
    /\ HeadTask(pos, l) \notin PanelOwnedHeads
    /\ Begin(p, "load", IF HeadTask(pos, l) = "intake" THEN "enter" ELSE "advance", l)

\* gono.decide, or a score that reaches the threshold once intake is complete.
StartDecide(p, verdict) ==
    /\ pos["intake"] = GoNoGo
    /\ Begin(p, IF verdict = "go" THEN "load" ELSE "decline", verdict, "intake")

\* gono.undo: a No-Go at any time, a Go while intake is parked on To Estimator.
Slip_UndoBlocked ==
    stage # "declined" /\ pos["intake"] \notin {ToEstimator, Complete("intake")}
UndoBlocked == stage # "declined" /\ pos["intake"] # ToEstimator
StartUndo(p) ==
    /\ decision # "none" /\ ~UndoBlocked
    /\ Begin(p, "reopen", "undo", "intake")

\* POST /verify, refused until the head has reached Verify.
CanCommit == pos["send_out"] >= Verify
StartCommit(p) == CanCommit /\ Begin(p, "price", "commit", "send_out")

\* "Done sending", with a proposal sent to somebody.
StartDoneSending(p) ==
    /\ pos["send_out"] = SendOut
    /\ Begin(p, "load", "sent", "send_out")

\* outcome.record_outcome; later calls only correct the row.
StartOutcome(p) ==
    /\ pos["send_out"] \in {Submitted, BidOutcome, Complete("send_out")}
    /\ Begin(p, "record", "outcome", "send_out")

\* An edit of the labor numbers or the markup: the numbers are saved first.
StartEdit(p) ==
    /\ req[p].at = "idle"
    /\ figures' \in Figures \ {figures}
    /\ req' = [req EXCEPT ![p] = [Idle EXCEPT !.at = "look", !.why = "edit", !.lane = "send_out"]]
    /\ UNCHANGED <<pos, stage, back, snapshot, decision, outcome, external, left, missed, crashes>>

-----------------------------------------------------------------------------
(* advance_category: load, write the head, fan out, recompute the headline. *)

Slip_NextPosition(l) == pos[l] + 2
NextPosition(l) == pos[l] + 1

Load(p) ==
    /\ At(p, "load")
    /\ IF Active(pos, req[p].lane)
       THEN req' = [req EXCEPT ![p].at = "move", ![p].to = NextPosition(req[p].lane)]
       ELSE Done(p)
    /\ UNCHANGED rows

Move(p) ==
    /\ req[p].at = "move"
    /\ pos' = [pos EXCEPT ![req[p].lane] = req[p].to]
    /\ Goto(p, "fanout")
    /\ left' = IF req[p].lane = "send_out" THEN None ELSE left
    /\ UNCHANGED <<stage, back, figures, snapshot, decision, outcome, external, missed, crashes>>

\* Every advance fans out, from the lanes as they are after the move.
Slip_Fanout(p) ==
    /\ At(p, "fanout")
    /\ LET opens == Unlocked([pos EXCEPT ![req[p].lane] = req[p].to - 1]) IN
        req' = [req EXCEPT ![p].at = IF opens = {} THEN "headline" ELSE "unlock",
                          ![p].opens = opens]
    /\ UNCHANGED rows

Fanout(p) ==
    /\ At(p, "fanout")
    /\ Clear(p, Unlocked(pos))
    /\ req' = [req EXCEPT ![p].at = IF Unlocked(pos) = {} THEN "headline" ELSE "unlock",
                          ![p].opens = Unlocked(pos)]
    /\ UNCHANGED rows

FirstOf(lanes) ==
    LET i == CHOOSE i \in DOMAIN CategoryOrder :
                /\ CategoryOrder[i] \in lanes
                /\ \A j \in 1 .. i - 1 : CategoryOrder[j] \notin lanes
    IN CategoryOrder[i]

Unlock(p) ==
    /\ At(p, "unlock")
    /\ LET l == FirstOf(req[p].opens) IN
        /\ pos' = [pos EXCEPT ![l] = 1]
        /\ req' = [req EXCEPT ![p].at = IF req[p].opens = {l} THEN "headline" ELSE "unlock",
                              ![p].opens = @ \ {l}]
    /\ UNCHANGED <<stage, back, figures, snapshot, decision, outcome, external>>

\* _recompute_headline reads every lane, then writes the projects row.
ReadHeadline(p) ==
    /\ At(p, "headline")
    /\ req' = [req EXCEPT ![p].at = "point", ![p].stage = Headline(pos)]
    /\ UNCHANGED rows

\* What the handler does once the lane has moved.
Afterwards(why) ==
    CASE why = "enter" -> {"idle", "load", "decline"}
      [] why \in {"go", "undo"} -> {"decide"}
      [] OTHER -> {"idle"}

WriteHeadline(p) ==
    /\ At(p, "point")
    /\ stage' = req[p].stage
    /\ \E next \in Afterwards(req[p].why) :
        IF next = "idle" THEN Done(p)
        ELSE req' = [req EXCEPT ![p] =
                        [Idle EXCEPT !.at = next, !.lane = req[p].lane,
                                     !.why = CASE next = "load" -> "go"
                                               [] next = "decline" -> "no_go"
                                               [] OTHER -> req[p].why]]
    /\ UNCHANGED <<pos, back, figures, snapshot, decision, outcome, external>>

-----------------------------------------------------------------------------
(* Go / No-Go: decline_project, reopen_go_no_go and the decision row.       *)

Park(p, at, next) ==
    /\ At(p, at)
    /\ pos' = [pos EXCEPT !["intake"] = GoNoGo]
    /\ Goto(p, next)
    /\ UNCHANGED <<stage, back, figures, snapshot, decision, outcome, external>>

Decline(p) == Park(p, "decline", "kill")
Reopen(p) == Park(p, "reopen", "headline")

Kill(p) ==
    /\ At(p, "kill")
    /\ stage' = "declined"
    /\ Goto(p, "decide")
    /\ UNCHANGED <<pos, back, figures, snapshot, decision, outcome, external>>

Decide(p) ==
    /\ At(p, "decide")
    /\ decision' = IF req[p].why = "undo" THEN "none" ELSE req[p].why
    /\ Done(p)
    /\ UNCHANGED <<pos, stage, back, figures, snapshot, outcome, external>>

-----------------------------------------------------------------------------
(* The Verify commit.                                                       *)

\* The prices are resolved from the live figures; an Executive's own amounts
\* take the place of the result and leave what was read as it is.
Price(p) ==
    /\ req[p].at = "price"
    /\ req' = [req EXCEPT ![p].at = "commit", ![p].figures = figures]
    /\ missed' = FALSE
    /\ UNCHANGED <<rows, left, crashes>>

\* Past Verify a commit only stamps the snapshot again.
Commit(p) ==
    /\ At(p, "commit")
    /\ snapshot' = req[p].figures
    /\ IF req[p].head = Verify THEN req' = [req EXCEPT ![p].at = "leave", ![p].figures = None]
       ELSE Done(p)
    /\ UNCHANGED <<pos, stage, back, figures, decision, outcome, external>>

\* Where the commit goes on: back to the stage an edit pulled the bid from, or
\* on to Send Out.
Slip_Resume(p) ==
    /\ At(p, "leave")
    /\ Goto(p, "load")
    /\ UNCHANGED rows

Resume(p) ==
    /\ At(p, "leave")
    /\ req' = IF back = None THEN [req EXCEPT ![p].at = "load"]
              ELSE [req EXCEPT ![p].at = "return", ![p].to = back]
    /\ UNCHANGED rows

\* return_from_reverify: the lane, then the marker.
Return(p) ==
    /\ req[p].at = "return"
    /\ pos' = [pos EXCEPT !["send_out"] = req[p].to]
    /\ left' = None
    /\ Goto(p, "unmark")
    /\ UNCHANGED <<stage, back, figures, snapshot, decision, outcome, external, missed, crashes>>

Unmark(p) ==
    /\ At(p, "unmark")
    /\ back' = None
    /\ Goto(p, "headline")
    /\ UNCHANGED <<pos, stage, figures, snapshot, decision, outcome, external>>

-----------------------------------------------------------------------------
(* An edit of a price that is past Verify: reopen_verify.                   *)

Slip_MustBounce == stage \in {"send_out", "submitted", "bid_outcome"}
MustBounce == stage # "declined" /\ pos["send_out"] \in PastVerify

\* A commit that goes on with figures older than the live ones.
Overtaken(q) ==
    /\ q.why = "commit"
    /\ \/ q.at = "commit" /\ q.figures # figures
       \/ q.at \in {"leave", "load", "move", "return"} /\ snapshot # figures

\* The edit looks once, whatever else is going on: while a commit is still at
\* Verify it finds nothing to pull back.  Only a look that does find something
\* waits, in a calm run, for the handler that has Send Out in hand; edits may
\* race each other.
Look(p) ==
    /\ req[p].at = "look"
    /\ Calm /\ MustBounce => \A q \in Requests : "send_out" \in Uses(q) => req[q].why = "edit"
    /\ IF MustBounce
       THEN req' = [req EXCEPT ![p].at = "bounce", ![p].head = pos["send_out"],
                              ![p].to = IF back = None THEN pos["send_out"] ELSE None]
       ELSE Done(p)
    /\ missed' = (missed \/ (~MustBounce /\ \E q \in Requests : Overtaken(req[q])))
    /\ UNCHANGED <<rows, left, crashes>>

\* The one lane write under a condition: another edit may have been first.
Bounce(p) ==
    /\ req[p].at = "bounce"
    /\ IF pos["send_out"] = req[p].head
       THEN /\ pos' = [pos EXCEPT !["send_out"] = Verify]
            /\ left' = req[p].head
            /\ Goto(p, "mark")
       ELSE Done(p) /\ UNCHANGED <<pos, left>>
    /\ UNCHANGED <<stage, back, figures, snapshot, decision, outcome, external, missed, crashes>>

\* Only the first bounce is remembered: the mark is written if it was unset
\* when the edit looked.
Mark(p) ==
    /\ At(p, "mark")
    /\ back' = IF req[p].to = None THEN back ELSE req[p].to
    /\ Goto(p, "reset")
    /\ UNCHANGED <<pos, stage, figures, snapshot, decision, outcome, external>>

Reset(p) ==
    /\ At(p, "reset")
    /\ snapshot' = None
    /\ Goto(p, "headline")
    /\ UNCHANGED <<pos, stage, back, figures, decision, outcome, external>>

\* record_outcome: the row first, then the lane if it was at Submitted.
Record(p) ==
    /\ At(p, "record")
    /\ outcome' = TRUE
    /\ IF req[p].head = Submitted THEN Goto(p, "load") ELSE Done(p)
    /\ UNCHANGED <<pos, stage, back, figures, snapshot, decision, external>>

-----------------------------------------------------------------------------
(* Submitted outside the app: stored procedures, one transaction each.      *)

GoneOut ==
    \/ pos["send_out"] \in GoneOutHeads
    \/ pos["send_out"] = Verify /\ back \in GoneOutHeads

MaySubmit ==
    /\ stage # "declined" /\ ~GoneOut
    /\ pos["intake"] > GoNoGo
    /\ ~outcome /\ external = None

\* apply_external_submission keeps what it overwrites (and the model what it
\* remembers of those figures); apply_auto_send_acceptance cannot be undone.
MarkSubmitted(undoable) ==
    /\ MaySubmit
    /\ Calm => Quiet
    /\ external' = IF ~undoable THEN None
                   ELSE [pos |-> pos, stage |-> stage, back |-> back,
                         figures |-> figures, snapshot |-> snapshot, missed |-> missed]
    /\ pos' = AllSubmitted
    /\ stage' = "submitted"
    /\ back' = None
    /\ figures' \in Figures
    /\ snapshot' = figures'
    /\ left' = None /\ missed' = FALSE
    /\ UNCHANGED <<decision, outcome, req, crashes>>

UndoSubmitted ==
    /\ external # None /\ ~outcome
    /\ pos["send_out"] = Submitted
    /\ Calm => Quiet
    /\ pos' = external.pos /\ stage' = external.stage /\ back' = external.back
    /\ figures' = external.figures /\ snapshot' = external.snapshot
    /\ external' = None
    /\ left' = external.back /\ missed' = external.missed
    /\ UNCHANGED <<decision, outcome, req, crashes>>

\* The server dies, or a call to the database fails, half way through a handler.
Crash(p) ==
    /\ crashes < MaxCrashes /\ req[p].at # "idle"
    /\ crashes' = crashes + 1
    /\ Done(p)
    /\ UNCHANGED <<rows, left, missed>>

-----------------------------------------------------------------------------
Init ==
    /\ pos = Start /\ stage = "intake" /\ back = None
    /\ figures \in Figures /\ snapshot = None
    /\ decision = "none" /\ outcome = FALSE /\ external = None
    /\ req = [p \in Requests |-> Idle]
    /\ left = None /\ missed = FALSE /\ crashes = 0

Request(p) ==
    \/ \E l \in Lanes : StartAdvance(p, l)
    \/ \E verdict \in {"go", "no_go"} : StartDecide(p, verdict)
    \/ StartUndo(p)
    \/ StartCommit(p)
    \/ StartDoneSending(p)
    \/ StartOutcome(p)
    \/ StartEdit(p)

Handler(p) ==
    \/ Load(p) \/ Move(p) \/ Fanout(p) \/ Unlock(p) \/ ReadHeadline(p) \/ WriteHeadline(p)
    \/ Decline(p) \/ Kill(p) \/ Reopen(p) \/ Decide(p)
    \/ Price(p) \/ Commit(p) \/ Resume(p) \/ Return(p) \/ Unmark(p)
    \/ Look(p) \/ Bounce(p) \/ Mark(p) \/ Reset(p)
    \/ Record(p)

Next ==
    \/ \E p \in Requests : Request(p) \/ Handler(p) \/ Crash(p)
    \/ \E undoable \in BOOLEAN : MarkSubmitted(undoable)
    \/ UndoSubmitted

Spec == Init /\ [][Next]_vars

-----------------------------------------------------------------------------
Heads == {None} \cup PastVerify

TypeOK ==
    /\ pos \in Positions /\ stage \in Stages
    /\ back \in Heads /\ left \in Heads
    /\ figures \in Figures /\ snapshot \in Figures \cup {None}
    /\ decision \in {"none", "go", "no_go"} /\ outcome \in BOOLEAN /\ missed \in BOOLEAN
    /\ \/ external = None
       \/ /\ external.pos \in Positions /\ external.back \in Heads
          /\ external.figures \in Figures
    /\ \A p \in Requests :
        /\ req[p].lane \in Lanes /\ req[p].opens \subseteq Lanes
        /\ req[p].at = "move" => req[p].to \in 1 .. Complete(req[p].lane)

\* A lane moves one task at a time and never back, a locked lane opens only
\* when its prerequisites allow it, and a submission is undone as a whole: each
\* write of the handlers is one step of the ordering, or none.
Ordering == INSTANCE StageOrdering WITH
    prior <- IF external = None THEN None ELSE external.pos
ImplementsOrdering == Ordering!Spec

\* workflow.PANEL_OWNED_HEADS: these tasks are completed from their own panel,
\* never by the generic advance.
Owner == [go_no_go |-> "go", verify |-> "commit", send_out |-> "sent", submitted |-> "outcome"]
PanelOwned ==
    [][\A p \in Requests : Move(p) /\ pos' # pos =>
        LET task == HeadTask(pos, req[p].lane) IN
        task \in DOMAIN Owner => req[p].why = Owner[task]]_vars

\* A bid past Verify stands on the live figures.  That is what a bounce is for,
\* and it does not hold: an edit that is saved after a commit has read the
\* figures, and looks while the bid is still at Verify, finds nothing to pull
\* back, and the commit goes on (no run checks this form).
CommittedIsLive ==
    Quiet /\ crashes = 0 /\ pos["send_out"] \in PastVerify => snapshot = figures

\* That window is the only one.  An edit that looks once the bid has left Verify
\* pulls it back, whichever handler, edit or submission came between; until the
\* next commit reads the figures, a missed edit is excused.
FreshCommit == CommittedIsLive \/ missed

\* What is recorded beside the lanes agrees with them.  A bid at Verify is
\* marked with the task an edit pulled it from, for the rules of a bid that has
\* gone out (gone_out_rule) and for the commit that returns it, and no other
\* bid is; the decision on record is the one the lanes show.
RecordsAgree ==
    Quiet /\ crashes = 0 =>
        /\ back = IF pos["send_out"] = Verify THEN left ELSE None
        /\ decision = "no_go" <=> stage = "declined"
        /\ decision = "go" <=> pos["intake"] > GoNoGo

\* No handler leaves a bid with nothing to work on before Win/Loss.
NotWedged ==
    Quiet /\ crashes = 0 /\ stage # "declined" /\ pos["send_out"] # Complete("send_out")
        => \E l \in Lanes : Active(pos, l)

\* The headline shows where the lanes are ("recomputed on every transition").
HeadlineFollows ==
    Quiet /\ crashes = 0 => stage \in {Headline(pos), "declined"}

\* The rules of a bid that has gone out hold until the submission is undone.
GoneOutStays == [][GoneOut => GoneOut' \/ UndoSubmitted]_vars
=============================================================================
