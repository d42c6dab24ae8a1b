---------------------------- MODULE ProposalSend ----------------------------
(***************************************************************************)
(* Send Out (services/proposal_send.py) for one GC of one project: its     *)
(* project_gcs link, its one proposal_sends row, the documents generated   *)
(* for it, the emails it received and the re-send events.                  *)
(*                                                                         *)
(* Several requests run at once.  A request reads, decides and writes in   *)
(* separate steps; a batch may email other GCs between any two of them.    *)
(***************************************************************************)
EXTENDS Naturals, Sequences, FiniteSets

CONSTANTS
    Requests,       \* threads that serve requests
    Figures,        \* what a GC can be priced at; ProjectFigure is the default
    ProjectFigure,
    Recipients,     \* contact lists a sender can choose
    MaxFiles, MaxCommands, MaxCrashes, MaxTimeouts, MaxFaults,
    Timely,         \* a live send is not older than SENDING_STALE_MINUTES
    Calm,           \* some short windows stay empty, see Reviving, Unsettled, Hushed
    None

ASSUME SendAssumption ==
    /\ ProjectFigure \in Figures
    /\ {MaxFiles, MaxCommands, MaxCrashes, MaxTimeouts, MaxFaults} \subseteq Nat
    /\ {Timely, Calm} \subseteq BOOLEAN
    /\ None \notin Figures \cup Recipients \cup (1 .. MaxFiles)

VARIABLES
    link,       \* the project_gcs row: membership, figures, approval
    row,        \* the proposal_sends row
    files,      \* project_files: the figures each document carries, or None
    events,     \* proposal_send_events of kind resend, oldest first
    logged,     \* recipient lists email_log proves a delivery to
    goneOut,    \* the send_out head is past the send
    req,        \* what each request is doing, and what it has read
    mail,       \* history: the emails this GC received
    commands, crashes, timeouts, faults

vars == <<link, row, files, events, logged, goneOut, req, mail,
          commands, crashes, timeouts, faults>>
store == <<link, row, files, events, logged, goneOut, mail>>
bounds == <<crashes, timeouts, faults>>

-----------------------------------------------------------------------------
(* Rows and requests.                                                       *)

FileIds == 1 .. MaxFiles
Slip_Claimable == {"generated", "failed", "sent"}
Claimable == {"generated", "failed"}

\* `unknown` is an error text that begins "outcome unknown", `old` an
\* updated_at beyond SENDING_STALE_MINUTES, `log` an email_log_id.
NoRow == [status |-> "none", file |-> None, figures |-> None, unknown |-> FALSE,
          to |-> None, via |-> "email", log |-> FALSE, old |-> FALSE]
Rows == [status : {"none", "generated", "sending", "sent", "failed", "superseded"},
         file : FileIds \cup {None}, figures : Figures \cup {None},
         unknown : BOOLEAN, to : Recipients \cup {None},
         via : {"email", "external"}, log : BOOLEAN, old : BOOLEAN]

NewLink == [on |-> TRUE, figures |-> ProjectFigure, approval |-> "none"]
Links == [on : BOOLEAN, figures : Figures,
          approval : {"none", "pending", "approved", "rejected"}]

Idle == [at |-> "idle", row |-> NoRow, link |-> NewLink, file |-> None,
         figures |-> None, to |-> None, force |-> FALSE, out |-> "none", event |-> 0]

\* Any update of the row moves updated_at.
Write(r) == row' = [r EXCEPT !.old = FALSE]

Goto(p, at) == req' = [req EXCEPT ![p].at = at]
Done(p) == req' = [req EXCEPT ![p] = Idle]

\* A person's command: one more request, on a free thread.
Command(p) ==
    /\ req[p].at = "idle"
    /\ commands < MaxCommands
    /\ commands' = commands + 1
    /\ UNCHANGED bounds

Step(p, at) == req[p].at = at /\ UNCHANGED <<commands, crashes, timeouts, faults>>

\* A request between the claim of the row and the write of its outcome.
Holding(p) == req[p].at \in {"s_recheck", "s_check", "s_mail", "s_record"}
Resending(p) == req[p].at \in {"r_check", "r_mail", "r_record"}

\* Two more windows that Calm keeps empty: a generate at work on a retired row
\* is not overtaken by the next removal, and no re-send starts from a mark that
\* is still to look again.
Reviving(p) == req[p].at \in {"g_upload", "g_write"} /\ req[p].row.status = "superseded"
Unsettled(p) == req[p].at = "m_recheck"

-----------------------------------------------------------------------------
(* Membership and figures.                                                  *)

\* The GC is put on the project again: a new link at the project figures.
AddGc(p) ==
    /\ Command(p) /\ ~link.on
    /\ link' = NewLink
    /\ UNCHANGED <<row, files, events, logged, goneOut, req, mail>>

\* remove_gc_link: retire what was never sent, then delete the link unless a
\* send holds the row.
StartRemove(p) ==
    /\ Command(p) /\ link.on
    /\ Calm => \A q \in Requests : ~Reviving(q)
    /\ IF row.status \in Claimable THEN Write([row EXCEPT !.status = "superseded"])
                                   ELSE UNCHANGED row
    /\ Goto(p, "x_delete")
    /\ UNCHANGED <<link, files, events, logged, goneOut, mail>>

Slip_MayUnlink == row.status # "sent"
MayUnlink == row.status # "sending"

DeleteLink(p) ==
    /\ Step(p, "x_delete")
    /\ link' = IF MayUnlink THEN [link EXCEPT !.on = FALSE] ELSE link
    /\ Done(p)
    /\ UNCHANGED <<row, files, events, logged, goneOut, mail>>

\* set_gc_amounts: the checks, then a write that only a pending change stops.
\* Once the bid went out only an Executive prices directly.
StartSetAmounts(p) ==
    /\ Command(p) /\ link.on /\ link.approval # "pending"
    /\ row.status \notin {"sending", "sent"}
    /\ \E f \in Figures : req' = [req EXCEPT ![p] = [Idle EXCEPT !.at = "e_write", !.figures = f]]
    /\ UNCHANGED store

SetAmounts(p) ==
    /\ Step(p, "e_write")
    /\ link' = IF link.on /\ link.approval # "pending"
               THEN [link EXCEPT !.figures = req[p].figures] ELSE link
    /\ Done(p)
    /\ UNCHANGED <<row, files, events, logged, goneOut, mail>>

\* request_gc_pricing_change: the checks, the compare-and-set, the second look
\* at the row, and the write that takes the request back.
StartRequest(p) ==
    /\ Command(p) /\ goneOut /\ link.on /\ link.approval # "pending"
    /\ row.status \notin {"sending", "sent"}
    /\ \E f \in Figures :
        req' = [req EXCEPT ![p] = [Idle EXCEPT !.at = "q_write", !.figures = f, !.link = link]]
    /\ UNCHANGED store

RequestChange(p) ==
    /\ Step(p, "q_write")
    /\ \/ /\ link.on /\ link.approval # "pending"
          /\ \E verdict \in {"pending", "approved"} :
                link' = [link EXCEPT !.figures = req[p].figures, !.approval = verdict]
          /\ Goto(p, "q_recheck")
       \/ /\ ~link.on \/ link.approval = "pending"
          /\ Done(p)
          /\ UNCHANGED link
    /\ UNCHANGED <<row, files, events, logged, goneOut, mail>>

Slip_RequestRecheck(p) ==
    /\ Step(p, "q_recheck")
    /\ IF row.status = "sent" THEN Goto(p, "q_restore") ELSE Done(p)
    /\ UNCHANGED store

RequestRecheck(p) ==
    /\ Step(p, "q_recheck")
    /\ IF row.status \in {"sending", "sent"} THEN Goto(p, "q_restore") ELSE Done(p)
    /\ UNCHANGED store

RequestRestore(p) ==
    /\ Step(p, "q_restore")
    /\ link' = IF link.on THEN req[p].link ELSE link
    /\ Done(p)
    /\ UNCHANGED <<row, files, events, logged, goneOut, mail>>

\* approve_gc_pricing_change: checked, then a compare-and-set on pending.
StartApprove(p) ==
    /\ Command(p) /\ link.on /\ link.approval = "pending"
    /\ row.status \notin {"sending", "sent"}
    /\ \E f \in Figures : req' = [req EXCEPT ![p] = [Idle EXCEPT !.at = "a_write", !.figures = f]]
    /\ UNCHANGED store

Approve(p) ==
    /\ Step(p, "a_write")
    /\ link' = IF link.on /\ link.approval = "pending"
               THEN [link EXCEPT !.figures = req[p].figures, !.approval = "approved"] ELSE link
    /\ Done(p)
    /\ UNCHANGED <<row, files, events, logged, goneOut, mail>>

\* reject_gc_pricing_change: nothing it reads matters but what its
\* compare-and-set checks again.
Reject(p) ==
    /\ Command(p) /\ link.on /\ link.approval = "pending"
    /\ link' = [link EXCEPT !.figures = ProjectFigure, !.approval = "rejected"]
    /\ UNCHANGED <<row, files, events, logged, goneOut, req, mail>>

\* complete_send_out, with another GC of the project already sent.
CompleteSendOut(p) ==
    /\ Command(p) /\ ~goneOut /\ row.status # "sending"
    /\ goneOut' = TRUE
    /\ UNCHANGED <<link, row, files, events, logged, req, mail>>

-----------------------------------------------------------------------------
(* generate_documents.                                                      *)

\* It reads the GCs, then the rows, and refuses while any row is sending.  The
\* GC gets a document unless it holds a bid, awaits an Executive, or is off the
\* project.
StartGenerate(p) ==
    /\ Command(p) /\ row.status # "sending"
    /\ \/ /\ link.on /\ link.approval # "pending" /\ row.status # "sent"
          /\ req' = [req EXCEPT ![p] = [Idle EXCEPT !.at = "g_upload", !.row = row,
                                                    !.figures = link.figures]]
       \/ /\ ~link.on /\ row.status \notin {"none", "sent", "superseded"}
          /\ req' = [req EXCEPT ![p] = [Idle EXCEPT !.at = "g_sweep"]]
    /\ UNCHANGED store

Upload(p) ==
    /\ Step(p, "g_upload")
    /\ \E f \in FileIds :
        /\ files[f] = None /\ \A g \in FileIds : g < f => files[g] # None
        /\ files' = [files EXCEPT ![f] = req[p].figures]
        /\ req' = [req EXCEPT ![p].at = "g_write", ![p].file = f]
    /\ UNCHANGED <<link, row, events, logged, goneOut, mail>>

\* The row is still what this request read (no row: the unique index decides).
Slip_Unchanged(r) == row.file = r.file
Unchanged(r) == row.status = r.status /\ row.file = r.file

Generated(f) == [NoRow EXCEPT !.status = "generated", !.file = f, !.figures = files[f],
                              !.via = row.via]

WriteGenerated(p) ==
    /\ Step(p, "g_write")
    /\ LET mine == req[p].file  prior == req[p].row IN
        IF Unchanged(prior)
        THEN /\ Write(Generated(mine))
             /\ req' = [req EXCEPT ![p].at = "g_delete", ![p].file = prior.file]
        ELSE /\ Goto(p, "g_delete")
             /\ UNCHANGED row
    /\ UNCHANGED <<link, files, events, logged, goneOut, mail>>

\* The document that lost, or the one replaced.
DeleteFile(p) ==
    /\ Step(p, "g_delete")
    /\ files' = IF req[p].file = None THEN files ELSE [files EXCEPT ![req[p].file] = None]
    /\ Done(p)
    /\ UNCHANGED <<link, row, events, logged, goneOut, mail>>

\* The sweep that retires rows of removed GCs writes by id alone.
Sweep(p) ==
    /\ Step(p, "g_sweep")
    /\ Write([row EXCEPT !.status = "superseded"])
    /\ Done(p)
    /\ UNCHANGED <<link, files, events, logged, goneOut, mail>>

-----------------------------------------------------------------------------
(* send_proposals.                                                          *)

\* The batch reads its rows, and later the links of the project.
StartSend(p) ==
    /\ Command(p) /\ row.status # "none"
    /\ \E to \in Recipients, force \in BOOLEAN :
        req' = [req EXCEPT ![p] = [Idle EXCEPT !.at = "s_link", !.row = row, !.to = to,
                                               !.force = force]]
    /\ UNCHANGED store

SendReadLink(p) ==
    /\ Step(p, "s_link")
    /\ req' = [req EXCEPT ![p].at = "s_decide", ![p].link = link]
    /\ UNCHANGED store

WasPending(q) == q.link.on /\ q.link.approval = "pending"

NeedsForce(r) == r.status = "failed" /\ r.unknown

\* _reclaim_stuck_sending: the email log proves the delivery of what this request
\* read, or the outcome is unknown; the write names the row and nothing else.
\* (Calm: nobody else reclaimed it since.)
Slip_Proved(r) == r.to # None
Proved(r) == r.to \in logged
Slip_Reclaimed(r) ==
    IF Proved(r) THEN [row EXCEPT !.status = "delivered", !.old = FALSE]
                 ELSE [row EXCEPT !.status = "failed", !.unknown = TRUE, !.old = FALSE]
Reclaimed(r) ==
    IF Proved(r) THEN [row EXCEPT !.status = "sent", !.log = TRUE, !.unknown = FALSE, !.old = FALSE]
                 ELSE [row EXCEPT !.status = "failed", !.unknown = TRUE, !.old = FALSE]

SendReclaim(p) ==
    /\ Step(p, "s_decide")
    /\ LET r == req[p].row IN
        /\ ~WasPending(req[p])
        /\ r.status = "sending" /\ r.old
        /\ Calm => row = r
        /\ Write(Reclaimed(r))
        /\ req' = [req EXCEPT ![p].row = Reclaimed(r)]
    /\ UNCHANGED <<link, files, events, logged, goneOut, mail>>

Skips(q) ==
    \/ q.row.status \in {"sent", "superseded"}
    \/ WasPending(q)
    \/ q.row.status = "sending" /\ ~q.row.old
    \/ NeedsForce(q.row) /\ ~q.force

SendSkip(p) ==
    /\ Step(p, "s_decide") /\ Skips(req[p])
    /\ Done(p)
    /\ UNCHANGED store

SendClaim(p) ==
    /\ Step(p, "s_decide") /\ ~Skips(req[p]) /\ req[p].row.status # "sending"
    /\ \/ /\ row.status \in Claimable
          /\ Write([row EXCEPT !.status = "sending", !.to = req[p].to])
          /\ req' = [req EXCEPT ![p].at = "s_recheck", ![p].file = row.file,
                                ![p].figures = row.figures]
       \/ /\ row.status \notin Claimable
          /\ Done(p)
          /\ UNCHANGED row
    /\ UNCHANGED <<link, files, events, logged, goneOut, mail>>

PendingNow == link.on /\ link.approval = "pending"

SendRecheck(p) ==
    /\ Step(p, "s_recheck")
    /\ IF PendingNow
       THEN /\ IF row.status = "sending"
               THEN Write([row EXCEPT !.status = req[p].row.status, !.to = req[p].row.to])
               ELSE UNCHANGED row
            /\ Done(p)
       ELSE Goto(p, "s_check") /\ UNCHANGED row
    /\ UNCHANGED <<link, files, events, logged, goneOut, mail>>

\* The document, the isolation and freshness checks (against the link as the
\* batch read it), the conversion; each can fail for reasons of its own.
Passes(q) == /\ q.link.on /\ q.file # None
             /\ files[q.file] # None /\ q.figures = q.link.figures

SendCheck(p) ==
    /\ Step(p, "s_check")
    /\ \/ Passes(req[p]) /\ Goto(p, "s_mail")
       \/ req' = [req EXCEPT ![p].at = "s_record", ![p].out = "error"]
    /\ UNCHANGED store

Email(kind, p, known) ==
    [kind |-> kind, file |-> req[p].file, event |-> req[p].event, member |-> link.on,
     known |-> known,
     blind |-> kind = "initial" /\ ~req[p].force
                   /\ \E i \in DOMAIN mail : mail[i].kind = "initial" /\ ~mail[i].known]

\* send_mail: accepted and logged; a timeout, whichever way it went; an error
\* that Graph answered; or accepted but the log write raised.
Mails(p, kind, next) ==
    /\ req[p].at = IF kind = "initial" THEN "s_mail" ELSE "r_mail"
    /\ \/ /\ mail' = Append(mail, Email(kind, p, TRUE))
          /\ logged' = logged \cup {req[p].to}
          /\ req' = [req EXCEPT ![p].at = next, ![p].out = "ok"]
          /\ UNCHANGED bounds
       \/ /\ timeouts < MaxTimeouts /\ timeouts' = timeouts + 1
          /\ mail' \in {mail, Append(mail, Email(kind, p, FALSE))}
          /\ req' = [req EXCEPT ![p].at = next, ![p].out = "unknown"]
          /\ UNCHANGED <<logged, crashes, faults>>
       \/ /\ req' = [req EXCEPT ![p].at = next, ![p].out = "error"]
          /\ UNCHANGED <<mail, logged, bounds>>
       \/ /\ faults < MaxFaults /\ faults' = faults + 1
          /\ mail' = Append(mail, Email(kind, p, FALSE))
          /\ req' = [req EXCEPT ![p].at = next, ![p].out = "error"]
          /\ UNCHANGED <<logged, crashes, timeouts>>
    /\ UNCHANGED <<link, row, files, events, goneOut, commands>>

SendMail(p) == Mails(p, "initial", "s_record")

\* The outcome is written by id.
SendRecord(p) ==
    /\ Step(p, "s_record")
    /\ Write(IF req[p].out = "ok"
             THEN [row EXCEPT !.status = "sent", !.log = TRUE, !.unknown = FALSE]
             ELSE [row EXCEPT !.status = "failed", !.unknown = req[p].out = "unknown"])
    /\ Done(p)
    /\ UNCHANGED <<link, files, events, logged, goneOut, mail>>

\* The 'sent' write raised: the row is failed by the handler around it.
SendRecordFails(p) ==
    /\ req[p].at = "s_record" /\ req[p].out = "ok"
    /\ faults < MaxFaults /\ faults' = faults + 1
    /\ req' = [req EXCEPT ![p].out = "error"]
    /\ UNCHANGED <<store, commands, crashes, timeouts>>

-----------------------------------------------------------------------------
(* mark_submitted: the same claim, with no email.                           *)

StartMark(p) ==
    /\ Command(p) /\ row.status \in Claimable
    /\ link.on /\ link.approval # "pending"
    /\ row.figures = link.figures
    /\ req' = [req EXCEPT ![p] = [Idle EXCEPT !.at = "m_claim", !.row = row]]
    /\ UNCHANGED store

MarkClaim(p) ==
    /\ Step(p, "m_claim")
    /\ IF row.status \in Claimable
       THEN /\ Write([row EXCEPT !.status = "sent", !.via = "external", !.to = None,
                                 !.log = FALSE, !.unknown = FALSE])
            /\ Goto(p, "m_recheck")
       ELSE UNCHANGED row /\ Done(p)
    /\ UNCHANGED <<link, files, events, logged, goneOut, mail>>

MarkRecheck(p) ==
    /\ Step(p, "m_recheck")
    /\ IF PendingNow /\ row.status = "sent" /\ ~row.log
       THEN Write([row EXCEPT !.status = req[p].row.status, !.via = req[p].row.via,
                              !.unknown = req[p].row.unknown])
       ELSE UNCHANGED row
    /\ Done(p)
    /\ UNCHANGED <<link, files, events, logged, goneOut, mail>>

-----------------------------------------------------------------------------
(* resend_proposals: the row stays sent, an event is claimed and completed. *)

InFlight == {i \in DOMAIN events : events[i].status = "sending"}

StartResend(p) ==
    /\ Command(p) /\ row.status = "sent" /\ link.on
    /\ Calm => \A q \in Requests : ~Unsettled(q)
    /\ \E to \in Recipients :
        req' = [req EXCEPT ![p] = [Idle EXCEPT !.at = "r_decide", !.row = row, !.to = to,
                                               !.file = row.file, !.link = link]]
    /\ UNCHANGED store

\* _reclaim_stuck_event, as for a row.
ResendReclaim(p) ==
    /\ Step(p, "r_decide")
    /\ \E i \in InFlight :
        /\ events[i].old
        /\ events' = [events EXCEPT ![i].status = IF events[i].to \in logged THEN "sent"
                                                  ELSE "failed"]
    /\ UNCHANGED <<link, row, files, logged, goneOut, mail, req>>

\* The partial unique index admits one event in flight.
ResendClaim(p) ==
    /\ Step(p, "r_decide")
    /\ \/ /\ InFlight = {}
          /\ events' = Append(events, [status |-> "sending", to |-> req[p].to,
                                       old |-> FALSE])
          /\ req' = [req EXCEPT ![p].at = "r_check", ![p].event = Len(events) + 1]
       \/ /\ \E i \in InFlight : ~events[i].old
          /\ Done(p)
          /\ UNCHANGED events
    /\ UNCHANGED <<link, row, files, logged, goneOut, mail>>

ResendCheck(p) ==
    /\ Step(p, "r_check")
    /\ \/ files[req[p].file] # None /\ Goto(p, "r_mail")
       \/ req' = [req EXCEPT ![p].at = "r_record", ![p].out = "error"]
    /\ UNCHANGED store

ResendMail(p) == Mails(p, "resend", "r_record")

\* Only the event records the outcome.
ResendRecord(p) ==
    /\ Step(p, "r_record")
    /\ events' = [events EXCEPT ![req[p].event].status =
                                    IF req[p].out = "ok" THEN "sent" ELSE "failed"]
    /\ Done(p)
    /\ UNCHANGED <<link, row, files, logged, goneOut, mail>>

-----------------------------------------------------------------------------
(* Time and crashes.                                                        *)

\* SENDING_STALE_MINUTES pass without a write.
Age ==
    /\ \/ /\ row.status = "sending" /\ ~row.old
          /\ Timely => \A p \in Requests : ~Holding(p)
          /\ row' = [row EXCEPT !.old = TRUE]
          /\ UNCHANGED events
       \/ /\ \E i \in InFlight :
                /\ ~events[i].old
                /\ Timely => \A p \in Requests : ~Resending(p)
                /\ events' = [events EXCEPT ![i].old = TRUE]
          /\ UNCHANGED row
    /\ UNCHANGED <<link, files, logged, goneOut, req, mail, commands, bounds>>

Crash(p) ==
    /\ req[p].at # "idle"
    /\ crashes < MaxCrashes /\ crashes' = crashes + 1
    /\ Done(p)
    /\ UNCHANGED <<store, commands, timeouts, faults>>

-----------------------------------------------------------------------------
Init ==
    /\ link = NewLink
    /\ row = NoRow
    /\ files = [f \in FileIds |-> None]
    /\ events = <<>>
    /\ logged = {}
    /\ goneOut \in BOOLEAN
    /\ req = [p \in Requests |-> Idle]
    /\ mail = <<>>
    /\ commands = 0 /\ crashes = 0 /\ timeouts = 0 /\ faults = 0

People(p) ==
    \/ AddGc(p) \/ StartRemove(p) \/ StartSetAmounts(p) \/ StartRequest(p) \/ StartApprove(p)
    \/ Reject(p) \/ CompleteSendOut(p) \/ StartGenerate(p) \/ StartSend(p) \/ StartMark(p)
    \/ StartResend(p)

Work(p) ==
    \/ DeleteLink(p) \/ SetAmounts(p) \/ RequestChange(p) \/ RequestRecheck(p)
    \/ RequestRestore(p) \/ Approve(p) \/ Upload(p) \/ WriteGenerated(p) \/ DeleteFile(p)
    \/ Sweep(p)
    \/ SendReadLink(p) \/ SendReclaim(p) \/ SendSkip(p) \/ SendClaim(p) \/ SendRecheck(p)
    \/ SendCheck(p) \/ SendMail(p) \/ SendRecord(p) \/ SendRecordFails(p)
    \/ MarkClaim(p) \/ MarkRecheck(p)
    \/ ResendReclaim(p) \/ ResendClaim(p) \/ ResendCheck(p) \/ ResendMail(p) \/ ResendRecord(p)

\* Calm: the two calls of a removal, and the read and the write of the retiring
\* sweep, are not interleaved with anything (the rest of it: Reviving, Unsettled).
Hushed(p) == Calm => \A q \in Requests \ {p} : req[q].at \notin {"x_delete", "g_sweep"}

Next ==
    \/ Age
    \/ \E p \in Requests : Hushed(p) /\ (People(p) \/ Work(p) \/ Crash(p))

Spec == Init /\ [][Next]_vars

-----------------------------------------------------------------------------
(* Properties.                                                              *)

\* The variables have the types of their columns, and every document the row
\* or a request names was uploaded.
TypeOK ==
    /\ link \in Links /\ row \in Rows /\ goneOut \in BOOLEAN
    /\ files \in [FileIds -> Figures \cup {None}]
    /\ logged \subseteq Recipients
    /\ \A i \in DOMAIN events : events[i].status \in {"sending", "sent", "failed"}
    /\ \A p \in Requests : req[p].file \in FileIds \cup {None}

\* The send and pricing handshake (send_proposals, mark_submitted,
\* request_gc_pricing_change): a GC whose price waits for an Executive is never
\* being sent nor sent, unless one of the two sides is still to look again and
\* take its write back.  (A side that dies before it looks again does not.)
PendingNotSent ==
    crashes = 0 /\ PendingNow /\ row.status \in {"sending", "sent"}
        => \E p \in Requests :
                req[p].at \in {"q_recheck", "q_restore", "s_recheck", "m_recheck"}

\* While a send works on a claimed row nobody else moves it: it stays at
\* sending with the document that was checked.
SenderOwnsRow ==
    \A p \in Requests : Holding(p) =>
        /\ row.status = "sending" /\ row.file = req[p].file
        /\ \A q \in Requests \ {p} : ~Holding(q)

\* A proposal is not emailed to a GC that was taken off the project.
RemovedNotMailed == \A i \in DOMAIN mail : mail[i].kind = "initial" => mail[i].member

\* What the row says was sent by email was sent: that document reached the GC,
\* and it stays on file for a re-send.  (After a write that raised, the log's
\* proof can be of an earlier document.)
SentWasDelivered ==
    faults = 0 /\ row.status = "sent" =>
        /\ files[row.file] # None
        /\ row.via = "email" => \E i \in DOMAIN mail : mail[i].file = row.file

\* Once the log proves a first delivery the GC gets no second one: later copies
\* of the bid are re-sends of the same document.  (A write that raises after the
\* delivery leaves the row plainly failed, and a failed row is sent again.)
OneConfirmedBid ==
    faults = 0 => \A i, j \in DOMAIN mail : i < j /\ mail[i].kind = "initial" /\ mail[i].known
        => mail[j].kind = "resend" /\ mail[j].file = mail[i].file

\* A first send whose outcome is unknown is retried only with force
\* (ProposalDispatchIn.force, _OUTCOME_UNKNOWN_EXC).
NoBlindRetry == \A i \in DOMAIN mail : ~mail[i].blind

\* A re-send recorded as sent left the building (_reclaim_stuck_event).
ResendWasDelivered ==
    \A e \in DOMAIN events : events[e].status = "sent"
        => \E i \in DOMAIN mail : mail[i].event = e

=============================================================================
