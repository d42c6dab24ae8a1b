-------------------------- MODULE ProjectMatches --------------------------
(***************************************************************************)
(* The merge decisions of app/services/rfp_email_ingest.py: an invitation  *)
(* from a general contractor (GC) is attached to a project that exists     *)
(* already, found to be a duplicate, or sent on as a new project; a person *)
(* may reverse each of these.  One decision writes three tables, each by a *)
(* request of its own: the match row (rfp_project_matches), the GC's link  *)
(* to the project (project_gcs) and, last, the email's status by a         *)
(* compare-and-set.  The sweep, which one process runs under a lease, and  *)
(* people's requests interleave at every such write.                       *)
(*                                                                         *)
(* All emails are invitations from one GC, which is resolved.  Match rows  *)
(* are numbered in the order of decided_at.  Left out: how a candidate is  *)
(* scored, sibling copies, contacts, notifications, and what becomes of    *)
(* the GC's unsent proposals when its link goes (see ProposalSend).        *)
(***************************************************************************)
EXTENDS Naturals, FiniteSets

CONSTANTS
    Emails, Projects,
    People,         \* the requests of people that run at the same time
    Sweep,          \* the thread that holds the sweep's lease
    None,
    Calm,           \* TRUE: people leave alone what another thread works on
    MaxRows,        \* bound: match rows ever inserted
    MaxCommands,    \* bound: what people do
    MaxTrouble      \* bound: crashes and failed calls

ASSUME MatchesAssumption ==
    /\ Sweep \notin People
    /\ None \notin [id : Nat, match : Nat]      \* it is no link
    /\ Calm \in BOOLEAN
    /\ {MaxRows, MaxCommands, MaxTrouble} \subseteq Nat

Threads == People \cup {Sweep}
Rows == 1..MaxRows

VARIABLES
    status,     \* rfp_emails.status; "onward": at harvest, split or create
    target,     \* rfp_emails.match_project_id, as the last decision wrote it
    excluded,   \* rfp_emails.excluded_project_ids
    matches,    \* rfp_project_matches: kind, gc_added, and open, closed or superseded
    link,       \* project_gcs of the GC: its id, and rfp_match_id (0: none)
    sent,       \* proposal_sends of the GC, per project
    shut,       \* projects that are abandoned, declined or out of the window
    th,         \* what each thread holds between two calls to the database
    commands,
    trouble

tables == <<status, target, excluded, matches, link>>
others == <<sent, shut, commands, trouble>>
vars == <<status, target, excluded, matches, link, sent, shut, th, commands, trouble>>

Statuses == {"match", "review_match", "merged", "duplicate", "onward", "done",
             "created", "rejected_by_review", "blocked_sender", "failed"}
Kinds == {"merged", "duplicate"}
RowStates == {"free", "open", "closed", "superseded", "deleted"}
DecisionSteps == {"check", "open", "insert", "link", "exists", "mark", "cas", "unlink", "unrow"}
UnmergeSteps == {"detach", "close", "return", "select", "cascade", "giveback"}
Steps == DecisionSteps \cup UnmergeSteps
           \cup {"idle", "judged", "park", "reject", "reopened", "remove"}

FreeRow == [email |-> None, project |-> None, kind |-> None, state |-> "free",
            added |-> FALSE]
Idle == [at |-> "idle", email |-> None, project |-> None, kind |-> None, row |-> 0,
         held |-> FALSE, todo |-> {}]

(* _open_match_row: the partial unique index keeps it to one row per email. *)
OpenRows(e) == {m \in Rows : matches[m].email = e /\ matches[m].state = "open"}
HasOpenMerge(e) == \E m \in OpenRows(e) : matches[m].kind = "merged"

(* _gc_link *)
OnProject(p) == link[p] # None

(* rfp_project_matches.project_gc_id is set: the foreign key clears it when *)
(* the link it names is deleted.                                            *)
StillLinked(m) ==
    /\ matches[m].added
    /\ OnProject(matches[m].project)
    /\ link[matches[m].project].id = m

(* A row is inserted only while one is left for every decision that may     *)
(* still need one, a resumed one whose row is taken away included.          *)
Room == Cardinality({m \in Rows : matches[m].state = "free"})
            > Cardinality({t \in Threads : th[t].at \in {"judged", "check", "open", "insert"}})

(* Calm: the emails no other thread holds. *)
Alone(e) == Calm => \A t \in Threads : th[t].email # e

Goes(t, step) == th' = [th EXCEPT ![t].at = step]
Ends(t) == th' = [th EXCEPT ![t] = Idle]
Command == /\ commands < MaxCommands
           /\ commands' = commands + 1
           /\ UNCHANGED <<sent, shut, trouble>>

(* _cas: the email moves if it is still where the caller read it. *)
Moves(e, from, to) == /\ status[e] = from
                      /\ status' = [status EXCEPT ![e] = to]

-----------------------------------------------------------------------------
(* One decision: _record_decision *)

\* Slip: a refused row stays at match, to be tried again.
Slip_Refused(t) == Ends(t)

(* A RfpMatchError: a person is answered 409, the sweep parks the row. *)
Refused(t) == IF t = Sweep THEN Goes(t, "park") ELSE Ends(t)

(* Any other exception: a person is answered 500; the sweep spends one of   *)
(* the row's attempts (_retry_or_fail) and waits, or gives the row up.      *)
Failed(t) ==
    /\ Ends(t)
    /\ \/ UNCHANGED status
       \/ t = Sweep /\ Moves(th[t].email, "match", "failed")

ExpectedAt(t) == IF t = Sweep THEN "match" ELSE "review_match"

(* What _record_decision and _open_project check before the first write. *)
Allowed(e, from, p, kind) ==
    /\ status[e] = from
    /\ p \notin excluded[e]
    /\ p \notin shut
    /\ kind = "duplicate" => OnProject(p)

(* A person merges, or says the GC is already on the project. *)
PersonDecides(h, e, p, kind) ==
    /\ th[h] = Idle /\ Alone(e) /\ Room /\ Command
    /\ Allowed(e, "review_match", p, kind)
    /\ th' = [th EXCEPT ![h] = [Idle EXCEPT !.at = "open", !.email = e, !.project = p,
                                            !.kind = kind]]
    /\ UNCHANGED tables

(* The sweep reads the email afresh before it decides. *)
SweepChecks ==
    /\ th[Sweep].at = "check"
    /\ IF Allowed(th[Sweep].email, "match", th[Sweep].project, th[Sweep].kind)
         THEN Goes(Sweep, "open")
         ELSE Refused(Sweep)
    /\ UNCHANGED <<tables, others>>

(* Step 2: an open merge into this project is resumed, one into another     *)
(* project is refused, any other open row is closed as superseded.          *)
MeetOpenRow(t) ==
    /\ th[t].at = "open"
    /\ \/ /\ OpenRows(th[t].email) = {}
          /\ Goes(t, "insert")
          /\ UNCHANGED tables
       \/ \E m \in OpenRows(th[t].email) :
            /\ matches[m].kind = "merged" /\ matches[m].project # th[t].project
            /\ Refused(t)
            /\ UNCHANGED tables
       \/ \E m \in OpenRows(th[t].email) :
            /\ matches[m].kind = "merged" /\ matches[m].project = th[t].project
            /\ th[t].kind = "merged"
            /\ th' = [th EXCEPT ![t].row = m, ![t].held = StillLinked(m),
                                ![t].at = IF matches[m].added THEN "cas" ELSE "link"]
            /\ UNCHANGED tables
       \/ \E m \in OpenRows(th[t].email) :
            /\ matches[m].kind = "merged" => /\ matches[m].project = th[t].project
                                             /\ th[t].kind = "duplicate"
            /\ matches' = [matches EXCEPT ![m].state = "superseded"]
            /\ Goes(t, "insert")
            /\ UNCHANGED <<status, target, excluded, link>>
    /\ UNCHANGED others

(* The insert; rfp_project_matches_open_uidx refuses a second open row. *)
InsertRow(t) ==
    /\ th[t].at = "insert"
    /\ \/ /\ OpenRows(th[t].email) # {}
          /\ Failed(t)
          /\ UNCHANGED matches
       \/ /\ OpenRows(th[t].email) = {}
          /\ \E m \in Rows :
               /\ matches[m].state = "free"
               /\ \A k \in 1..(m - 1) : matches[k].state # "free"
               /\ matches' = [matches EXCEPT ![m] =
                    [email |-> th[t].email, project |-> th[t].project,
                     kind |-> th[t].kind, state |-> "open", added |-> FALSE]]
               /\ th' = [th EXCEPT ![t].row = m,
                           ![t].at = IF th[t].kind = "merged" THEN "link" ELSE "cas"]
          /\ UNCHANGED status
    /\ UNCHANGED <<target, excluded, link, others>>

(* Step 3: _insert_link.  The GC is on the project already, or the match    *)
(* row the link would point at is gone, or the link is made.                *)
InsertLink(t) ==
    LET p == th[t].project
    IN  /\ th[t].at = "link"
        /\ \/ /\ OnProject(p)
              /\ Goes(t, "exists")
              /\ UNCHANGED <<status, link>>
           \/ /\ ~OnProject(p) /\ matches[th[t].row].state = "deleted"
              /\ Failed(t)
              /\ UNCHANGED link
           \/ /\ ~OnProject(p) /\ matches[th[t].row].state # "deleted"
              /\ link' = [link EXCEPT ![p] = [id |-> th[t].row, match |-> th[t].row]]
              /\ Goes(t, "mark")
              /\ UNCHANGED status
        /\ UNCHANGED <<target, excluded, matches, others>>

(* The link that was there: this row's own, made before a crash, or one the *)
(* GC got elsewhere, which makes this decision a duplicate.                 *)
MeetLink(t) ==
    LET p == th[t].project
        own == OnProject(p) /\ link[p].match = th[t].row
    IN  /\ th[t].at = "exists"
        /\ \/ /\ own
              /\ Goes(t, "mark")
              /\ UNCHANGED matches
           \/ /\ ~own
              /\ matches' = [matches EXCEPT ![th[t].row].kind =
                               IF matches[th[t].row].state = "deleted" THEN @ ELSE "duplicate"]
              /\ th' = [th EXCEPT ![t].at = "cas", ![t].kind = "duplicate"]
        /\ UNCHANGED <<status, target, excluded, link, others>>

(* Step 5: gc_added and project_gc_id, whose foreign key wants the link. *)
MarkAdded(t) ==
    LET m == th[t].row
        p == th[t].project
        gone == matches[m].state = "deleted"
    IN  /\ th[t].at = "mark"
        /\ IF gone \/ (OnProject(p) /\ link[p].id = m)
             THEN /\ matches' = [matches EXCEPT ![m].added = ~gone]
                  /\ th' = [th EXCEPT ![t].at = "cas", ![t].held = TRUE]
                  /\ UNCHANGED status
             ELSE Failed(t) /\ UNCHANGED matches
        /\ UNCHANGED <<target, excluded, link, others>>

(* Step 6: the email takes the decision, or someone else decided it first. *)
DecideEmail(t) ==
    LET e == th[t].email
    IN  /\ th[t].at = "cas"
        /\ \/ /\ Moves(e, ExpectedAt(t), th[t].kind)
              /\ target' = [target EXCEPT ![e] = th[t].project]
              /\ Ends(t)
           \/ /\ status[e] # ExpectedAt(t)
              /\ Goes(t, IF th[t].held /\ th[t].kind = "merged" THEN "unlink" ELSE "unrow")
              /\ UNCHANGED <<status, target>>
        /\ UNCHANGED <<excluded, matches, link, others>>

(* _compensate_lost_race: the link goes by its id, unless a proposal is     *)
(* being sent to the GC, and then the match row.                            *)
UndoLink(t) ==
    LET p == th[t].project
        there == OnProject(p) /\ link[p].id = th[t].row
    IN  /\ th[t].at = "unlink"
        /\ \/ /\ there /\ sent[p] = "sending"
              /\ Refused(t)
              /\ UNCHANGED link
           \/ /\ there => sent[p] # "sending"
              /\ link' = [link EXCEPT ![p] = IF there THEN None ELSE @]
              /\ Goes(t, "unrow")
        /\ UNCHANGED <<status, target, excluded, matches, others>>

UndoRow(t) ==
    LET m == th[t].row
    IN  /\ th[t].at = "unrow"
        /\ matches' = [matches EXCEPT ![m].state = "deleted"]
        /\ link' = [p \in Projects |-> IF OnProject(p) /\ link[p].match = m
                                         THEN [link[p] EXCEPT !.match = 0] ELSE link[p]]
        /\ Refused(t)
        /\ UNCHANGED <<status, target, excluded, others>>

Decision(t) ==
    \/ MeetOpenRow(t) \/ InsertRow(t) \/ InsertLink(t) \/ MeetLink(t) \/ MarkAdded(t)
    \/ DecideEmail(t) \/ UndoLink(t) \/ UndoRow(t)

-----------------------------------------------------------------------------
(* The sweep's match step: _step_match *)

(* A half-finished merge is resumed.  Else the row is judged against the    *)
(* projects as they are read here: the model's verdict comes later.         *)
SweepRow(e) ==
    /\ th[Sweep] = Idle
    /\ status[e] = "match"
    /\ \/ \E m \in OpenRows(e) :
            /\ matches[m].kind = "merged"
            /\ Room \/ \A h \in People : th[h].row # m
            /\ th' = [th EXCEPT ![Sweep] = [Idle EXCEPT !.at = "check", !.email = e,
                        !.project = matches[m].project, !.kind = "merged"]]
       \/ /\ ~HasOpenMerge(e)
          /\ \E verdict \in {"review_match", "onward"} :
               th' = [th EXCEPT ![Sweep] =
                        [Idle EXCEPT !.at = "judged", !.email = e, !.kind = verdict]]
       \/ /\ ~HasOpenMerge(e) /\ Room
          /\ \E p \in Projects \ (excluded[e] \cup shut) :
               th' = [th EXCEPT ![Sweep] = [Idle EXCEPT !.at = "judged", !.email = e,
                        !.project = p,
                        !.kind = IF OnProject(p) THEN "duplicate" ELSE "merged"]]
    /\ UNCHANGED <<tables, others>>

(* The verdict is there: the row is parked or sent on, or the evaluation is *)
(* recorded on it and the decision starts.                                  *)
SweepRoutes ==
    LET e == th[Sweep].email
        kind == th[Sweep].kind
    IN  /\ th[Sweep].at = "judged"
        /\ \/ /\ status[e] # "match"
              /\ Ends(Sweep)
              /\ UNCHANGED <<status, target>>
           \/ /\ kind \notin Kinds
              /\ Moves(e, "match", kind)
              /\ Ends(Sweep)
              /\ UNCHANGED target
           \/ /\ kind \in Kinds /\ status[e] = "match"
              /\ target' = [target EXCEPT ![e] = th[Sweep].project]
              /\ Goes(Sweep, "check")
              /\ UNCHANGED status
        /\ UNCHANGED <<excluded, matches, link, others>>

(* _finish_decision: a refused decision waits for a person. *)
SweepParks ==
    /\ th[Sweep].at = "park"
    /\ \/ Moves(th[Sweep].email, "match", "review_match")
       \/ status[th[Sweep].email] # "match" /\ UNCHANGED status
    /\ Ends(Sweep)
    /\ UNCHANGED <<target, excluded, matches, link, others>>

-----------------------------------------------------------------------------
(* Unmerge *)

(* The match row is read, and a proposal that went out or is going out to   *)
(* the GC refuses the request.  A row that is closed already is finished    *)
(* when its email never left "merged".                                      *)
StartUnmerge(h, m) ==
    LET r == matches[m]
        hand == [Idle EXCEPT !.email = r.email, !.project = r.project, !.row = m]
    IN  /\ th[h] = Idle /\ Alone(r.email) /\ Command
        /\ r.state \in {"open", "closed", "superseded"} /\ r.kind = "merged"
        /\ IF r.state = "open"
             THEN /\ sent[r.project] = "no"
                  /\ th' = [th EXCEPT ![h] = [hand EXCEPT !.held = StillLinked(m),
                              !.at = IF StillLinked(m) THEN "detach" ELSE "close"]]
             ELSE /\ status[r.email] = "merged" /\ target[r.email] = r.project
                  /\ th' = [th EXCEPT ![h] = [hand EXCEPT !.at = "return",
                              !.held = r.added /\ ~StillLinked(m)]]
        /\ UNCHANGED tables

\* Slip: the first look at the proposals is trusted.
Slip_Detach(h) ==
    /\ th[h].at = "detach"
    /\ link' = [link EXCEPT ![th[h].project] =
                  IF OnProject(th[h].project) /\ link[th[h].project].id = th[h].row
                    THEN None ELSE @]
    /\ Goes(h, "close")
    /\ UNCHANGED <<status, target, excluded, matches, others>>

(* Step 4: remove_project_gc_unless_sent, by the link's id. *)
Detach(h) ==
    LET p == th[h].project
        there == OnProject(p) /\ link[p].id = th[h].row
    IN  /\ th[h].at = "detach"
        /\ \/ /\ there /\ sent[p] # "no"
              /\ Ends(h)
              /\ UNCHANGED link
           \/ /\ there => sent[p] = "no"
              /\ link' = [link EXCEPT ![p] = IF there THEN None ELSE @]
              /\ Goes(h, "close")
        /\ UNCHANGED <<status, target, excluded, matches, others>>

(* Step 5: the row is closed once; the cascade is for a link that is gone. *)
CloseRow(h) ==
    LET m == th[h].row
    IN  /\ th[h].at = "close"
        /\ \/ /\ matches[m].state = "open"
              /\ matches' = [matches EXCEPT ![m].state = "closed"]
              /\ th' = [th EXCEPT ![h].at = "return",
                                  ![h].held = matches[m].added /\ ~StillLinked(m)]
           \/ /\ matches[m].state # "open"
              /\ Ends(h)
              /\ UNCHANGED matches
        /\ UNCHANGED <<status, target, excluded, link, others>>

\* Slip: the project is read off the email after it was cleared.
Slip_Returned(e, p, from) ==
    \/ /\ target[e] = p
       /\ Moves(e, from, "match")
       /\ target' = [target EXCEPT ![e] = None]
       /\ excluded' = [excluded EXCEPT ![e] = @ \cup {target'[e]}]
    \/ /\ status[e] # from \/ target[e] # p
       /\ UNCHANGED <<status, target, excluded>>

(* _return_email_to_match: back to the sweep, never to this project again. *)
Returned(e, p, from) ==
    \/ /\ target[e] = p
       /\ Moves(e, from, "match")
       /\ target' = [target EXCEPT ![e] = None]
       /\ excluded' = [excluded EXCEPT ![e] = @ \cup {p}]
    \/ /\ status[e] # from \/ target[e] # p
       /\ UNCHANGED <<status, target, excluded>>

ReturnEmail(h) ==
    /\ th[h].at = "return"
    /\ Returned(th[h].email, th[h].project, "merged")
    /\ IF th[h].held THEN Goes(h, "select") ELSE Ends(h)
    /\ UNCHANGED <<matches, link, others>>

(* Step 6b: the duplicates decided since this merge follow it. *)
SelectDuplicates(h) ==
    /\ th[h].at = "select"
    /\ th' = [th EXCEPT ![h].at = "cascade", ![h].todo =
                {d \in Rows : /\ matches[d].state = "open" /\ matches[d].kind = "duplicate"
                              /\ matches[d].project = th[h].project
                              /\ d >= th[h].row}]
    /\ UNCHANGED <<tables, others>>

CloseDuplicate(h) ==
    /\ th[h].at = "cascade"
    /\ \/ th[h].todo = {} /\ Ends(h) /\ UNCHANGED matches
       \/ \E d \in th[h].todo :
            \/ /\ matches[d].state = "open"
               /\ matches' = [matches EXCEPT ![d].state = "closed"]
               /\ th' = [th EXCEPT ![h].at = "giveback", ![h].email = matches[d].email,
                                   ![h].todo = @ \ {d}]
            \/ /\ matches[d].state # "open"
               /\ th' = [th EXCEPT ![h].todo = @ \ {d}]
               /\ UNCHANGED matches
    /\ UNCHANGED <<status, target, excluded, link, others>>

ReturnDuplicate(h) ==
    /\ th[h].at = "giveback"
    /\ Returned(th[h].email, th[h].project, "duplicate")
    /\ Goes(h, "cascade")
    /\ UNCHANGED <<matches, link, others>>

Unmerging(h) ==
    \/ Detach(h) \/ CloseRow(h) \/ ReturnEmail(h) \/ SelectDuplicates(h)
    \/ CloseDuplicate(h) \/ ReturnDuplicate(h)

-----------------------------------------------------------------------------
(* What else people do with an email *)

\* Slip: an open merge is not looked for.
Slip_StartReject(h, e, to) ==
    /\ th[h] = Idle /\ Alone(e) /\ Command
    /\ status[e] = "review_match"
    /\ th' = [th EXCEPT ![h] = [Idle EXCEPT !.at = "reject", !.email = e, !.kind = to]]
    /\ UNCHANGED tables

(* reject_match ("Not a match") and dismiss ("Not an RFP"): refused while   *)
(* the email has an open merge, then one conditional update.                *)
StartReject(h, e, to) ==
    /\ th[h] = Idle /\ Alone(e) /\ Command
    /\ status[e] = "review_match" /\ ~HasOpenMerge(e)
    /\ th' = [th EXCEPT ![h] = [Idle EXCEPT !.at = "reject", !.email = e, !.kind = to]]
    /\ UNCHANGED tables

Reject(h) ==
    /\ th[h].at = "reject"
    /\ \/ Moves(th[h].email, "review_match", th[h].kind)
       \/ status[th[h].email] # "review_match" /\ UNCHANGED status
    /\ Ends(h)
    /\ UNCHANGED <<target, excluded, matches, link, others>>

(* reopen_match: the status first, then the duplicate's row. *)
Reopen(h, e) ==
    /\ th[h] = Idle /\ Alone(e) /\ Command
    /\ \/ /\ Moves(e, "done", "review_match")
          /\ UNCHANGED th
       \/ /\ Moves(e, "duplicate", "review_match")
          /\ th' = [th EXCEPT ![h] = [Idle EXCEPT !.at = "reopened", !.email = e]]
    /\ UNCHANGED <<target, excluded, matches, link>>

CloseReopened(h) ==
    /\ th[h].at = "reopened"
    /\ matches' = [m \in Rows |-> IF m \in OpenRows(th[h].email)
                                    THEN [matches[m] EXCEPT !.state = "closed"]
                                    ELSE matches[m]]
    /\ Ends(h)
    /\ UNCHANGED <<status, target, excluded, link, others>>

(* retry_row on a failed row, set_project_name on a done one, and           *)
(* park_blocked_senders: single conditional updates, also of an email that  *)
(* another thread is deciding.                                              *)
Redirect(e, from, to) ==
    /\ Command
    /\ status[e] \in from
    /\ status' = [status EXCEPT ![e] = to]
    /\ UNCHANGED <<target, excluded, matches, link, th>>

RetryRow(e) == Redirect(e, {"failed"}, "match")
SetProjectName(e) == Redirect(e, {"done"}, "match")
ParkBlockedSender(e) == Redirect(e, {"match", "review_match", "onward"}, "blocked_sender")

(* harvest, split and create make a project of it, or leave it at done. *)
DrainOnward(e) ==
    /\ \E end \in {"done", "created"} : Moves(e, "onward", end)
    /\ UNCHANGED <<target, excluded, matches, link, th, others>>

-----------------------------------------------------------------------------
(* The project's side *)

(* add_project_gc *)
AddGc(p) ==
    /\ Command /\ ~OnProject(p) /\ p \notin shut
    /\ link' = [link EXCEPT ![p] = [id |-> 0, match |-> 0]]
    /\ UNCHANGED <<status, target, excluded, matches, th>>

(* remove_project_gc: a GC with an open merge is left to Unmerge; the link  *)
(* the pair has by then is deleted.  Calm: one person at a time on a project. *)
StartRemoveGc(h, p) ==
    /\ th[h] = Idle /\ Command
    /\ Calm => \A t \in Threads : th[t].project # p
    /\ OnProject(p)
    /\ ~ \E m \in Rows : /\ matches[m].state = "open" /\ matches[m].kind = "merged"
                         /\ matches[m].project = p
    /\ th' = [th EXCEPT ![h] = [Idle EXCEPT !.at = "remove", !.project = p]]
    /\ UNCHANGED tables

RemoveGc(h) ==
    LET p == th[h].project
    IN  /\ th[h].at = "remove"
        /\ link' = [link EXCEPT ![p] = IF sent[p] = "sending" THEN @ ELSE None]
        /\ Ends(h)
        /\ UNCHANGED <<status, target, excluded, matches, others>>

(* proposal_sends: a send to the GC is claimed and settles, or a person     *)
(* marks it submitted, in one step.                                         *)
ClaimSend(p) ==
    /\ commands < MaxCommands /\ commands' = commands + 1
    /\ OnProject(p) /\ sent[p] = "no"
    /\ sent' = [sent EXCEPT ![p] = "sending"]
    /\ UNCHANGED <<tables, shut, th, trouble>>

MarkSubmitted(p) ==
    /\ commands < MaxCommands /\ commands' = commands + 1
    /\ OnProject(p) /\ sent[p] = "no"
    /\ sent' = [sent EXCEPT ![p] = "sent"]
    /\ UNCHANGED <<tables, shut, th, trouble>>

SettleSend(p) ==
    /\ sent[p] = "sending"
    /\ \E outcome \in {"sent", "no"} : sent' = [sent EXCEPT ![p] = outcome]
    /\ UNCHANGED <<tables, shut, th, commands, trouble>>

CloseProject(p) ==
    /\ commands < MaxCommands /\ commands' = commands + 1
    /\ p \notin shut
    /\ shut' = shut \cup {p}
    /\ UNCHANGED <<tables, sent, th, trouble>>

-----------------------------------------------------------------------------
(* A process stops between two calls, or a call fails.  Nothing resumes a   *)
(* person's request; the sweep spends an attempt of the row, and the undo   *)
(* of a lost race catches the failure and leaves the rest undone.           *)
Trouble(t) ==
    /\ trouble < MaxTrouble
    /\ trouble' = trouble + 1
    /\ th[t] # Idle
    /\ \/ Failed(t)
       \/ th[t].at \in {"unlink", "unrow"} /\ Refused(t) /\ UNCHANGED status
    /\ UNCHANGED <<target, excluded, matches, link, sent, shut, commands>>

Init ==
    /\ status = [e \in Emails |-> "match"]
    /\ target = [e \in Emails |-> None]
    /\ excluded = [e \in Emails |-> {}]
    /\ matches = [m \in Rows |-> FreeRow]
    /\ link = [p \in Projects |-> None]
    /\ sent = [p \in Projects |-> "no"]
    /\ shut = {}
    /\ th = [t \in Threads |-> Idle]
    /\ commands = 0
    /\ trouble = 0

PersonActs(h) ==
    \/ \E e \in Emails, p \in Projects, kind \in Kinds : PersonDecides(h, e, p, kind)
    \/ \E m \in Rows : StartUnmerge(h, m)
    \/ \E e \in Emails, to \in {"onward", "rejected_by_review"} : StartReject(h, e, to)
    \/ \E e \in Emails : Reopen(h, e)
    \/ \E p \in Projects : StartRemoveGc(h, p)

Working(t) ==
    \/ Decision(t)
    \/ t = Sweep /\ (SweepChecks \/ SweepRoutes \/ SweepParks)
    \/ t \in People /\ (Unmerging(t) \/ Reject(t) \/ CloseReopened(t) \/ RemoveGc(t))

Next ==
    \/ \E t \in Threads : Working(t) \/ Trouble(t)
    \/ \E e \in Emails : \/ SweepRow(e) \/ RetryRow(e) \/ SetProjectName(e)
                         \/ ParkBlockedSender(e) \/ DrainOnward(e)
    \/ \E h \in People : PersonActs(h)
    \/ \E p \in Projects : \/ AddGc(p) \/ ClaimSend(p) \/ MarkSubmitted(p)
                           \/ SettleSend(p) \/ CloseProject(p)

Spec == Init /\ [][Next]_vars

(* A thread goes on with what it holds; the sweep, which takes the rows     *)
(* oldest first and is otherwise busy with another, comes to every row.     *)
FairSpec ==
    /\ Spec
    /\ \A t \in Threads : WF_vars(Working(t))
    /\ \A e \in Emails : SF_vars(SweepRow(e))

-----------------------------------------------------------------------------
(* Properties *)

Quiet == trouble = 0 /\ \A t \in Threads : th[t] = Idle

(* Types; and no email has two open match rows, whoever inserts and         *)
(* reopens at the same time.                                                *)
TypeOK ==
    /\ status \in [Emails -> Statuses]
    /\ target \in [Emails -> Projects \cup {None}]
    /\ excluded \in [Emails -> SUBSET Projects]
    /\ matches \in [Rows -> [email : Emails \cup {None}, project : Projects \cup {None},
                             kind : Kinds \cup {None}, state : RowStates, added : BOOLEAN]]
    /\ link \in [Projects -> [id : 0..MaxRows, match : 0..MaxRows] \cup {None}]
    /\ sent \in [Projects -> {"no", "sending", "sent"}]
    /\ shut \in SUBSET Projects
    /\ th \in [Threads -> [at : Steps, email : Emails \cup {None},
                           project : Projects \cup {None}, kind : Statuses \cup {None},
                           row : 0..MaxRows, held : BOOLEAN, todo : SUBSET Rows]]
    /\ \A e \in Emails : \A m, n \in OpenRows(e) : m = n

(* A merge is never left half visible.  Whatever was interrupted, an email  *)
(* with an open merge is still where somebody can finish or reverse it (it  *)
(* did not leave as rejected, as a new project or as a duplicate), and a    *)
(* merged email has the row that Unmerge needs, for that project, which is  *)
(* not one it was taken away from.  Without crashes every merged email ends *)
(* with its row open and the GC on the project.                             *)
MergeIsWhole ==
    \A e \in Emails :
      /\ HasOpenMerge(e) => status[e] \in {"match", "review_match", "merged", "failed",
                                           "blocked_sender"}
      /\ status[e] = "merged" =>
           /\ target[e] \notin excluded[e]
           /\ Quiet => OnProject(target[e])
           /\ \E m \in Rows : /\ matches[m].email = e /\ matches[m].project = target[e]
                              /\ matches[m].kind = "merged"
                              /\ matches[m].state # "deleted"
                              /\ Quiet => matches[m].state = "open"

(* The GC of a proposal that went out stays: an unmerge that passed its     *)
(* first look before the proposal went out does not detach it.              *)
SentStays ==
    [][\A h \in People, p \in Projects :
         th[h].at = "detach" /\ th'[h].at = "close" /\ link[p] # link'[p]
           => sent[p] = "no"]_vars

(* Every row at the match step is decided in the end, through lost races,   *)
(* unique violations, half-finished merges and crashes.                     *)
EveryMatchDecided == \A e \in Emails : status[e] = "match" ~> status[e] # "match"

(* docs/RFP_MATCHING.md 3.6: "The open merged row's link is never removed   *)
(* here, whoever asks."  Nobody removed the GC, so a merged email has it.   *)
WinnerKept ==
    \A e \in Emails : status[e] = "merged" /\ Quiet => OnProject(target[e])

(* unmerge: "Reverse a merge: remove exactly the link the system added".    *)
UnmergeDetaches ==
    \A m \in Rows : matches[m].state = "closed" /\ matches[m].kind = "merged"
        => \A p \in Projects : OnProject(p) => link[p].match # m

(* _finish_unmerge: "the duplicates that only existed because this merge    *)
(* put the GC on the project follow the reversal".  Stated where a person   *)
(* does nothing but unmerge, so that no GC comes or goes by hand.           *)
DuplicatesFollow ==
    Quiet => ~ \E m, d \in Rows :
        /\ matches[m].kind = "merged" /\ matches[m].state = "closed" /\ matches[m].added
        /\ ~OnProject(matches[m].project)
        /\ matches[d].kind = "duplicate" /\ matches[d].state = "open"
        /\ matches[d].project = matches[m].project /\ d > m

=============================================================================
