------------------------------ MODULE AutoSend ------------------------------
(***************************************************************************)
(* Auto send for one project (app/services/auto_send.py and                *)
(* auto_send_scheduler.py): on the internal bid date every GC is emailed a *)
(* proposal, unless a person already sent one.  Two uvicorn processes run  *)
(* the scheduler, people press Send now, move the date, send by hand and   *)
(* accept the result, emails time out and processes die.                   *)
(*                                                                         *)
(* Every database call that writes is one step; a group of reads that      *)
(* decides a branch is one step.  Other projects, rendering and the        *)
(* emails to staff are left out.                                           *)
(***************************************************************************)
EXTENDS Naturals, FiniteSets

CONSTANTS
    Senders,     \* threads that send: a scheduler tick or a Send now request
    Gcs,         \* general contractors of the project
    NoGc,        \* no GC in hand
    MaxDate,     \* bound: calendar days with a bid date, 1..MaxDate
    Timely,      \* do live passes beat before they count as stuck?
    Calm,        \* no bid date edit between a pass's reads and its claim, and
                 \* no claim of a run between the two writes of its reclaim?
    MaxCommands, \* bound: what people do
    MaxCrashes,  \* bound: processes that die (and come back)
    MaxFaults    \* bound: database calls that raise

ASSUME AutoSendAssumption ==
    /\ MaxDate \in Nat \ {0} /\ {MaxCommands, MaxCrashes, MaxFaults} \subseteq Nat
    /\ {Timely, Calm} \subseteq BOOLEAN /\ NoGc \notin Gcs
    /\ IsFiniteSet(Senders) /\ IsFiniteSet(Gcs)

Dates == 1..MaxDate

VARIABLES
    now,        \* the clock: morning, send window and evening of each day
    bidDate,    \* projects.internal_bid_at
    estimate,   \* what the estimate and the markup come to
    enabled, changedAt,  \* auto_send_settings
    human,      \* Send Out's proposal_sends rows of the project
    run,        \* auto_send_runs, one per bid date
    row,        \* auto_send_gcs, one per bid date and GC
    snd,        \* each sender's pass in progress
    settled,    \* each process's _settled_days
    mailed,     \* auto send emails each GC received
    hidden,     \* those of them that counted as failed
    confirmed,  \* Send nows confirmed to send timed-out GCs again
    afterHuman, \* emails delivered since the last Send Out began
    commands, crashes, faults

db    == <<run, row>>
world == <<now, bidDate, estimate, enabled, changedAt, human>>
log   == <<mailed, hidden, confirmed, afterHuman>>
vars  == <<world, db, snd, settled, log, commands, crashes, faults>>

-----------------------------------------------------------------------------
(* The day has a morning, a send window and an evening.                    *)
SendAt(d)     == 3 * (d - 1) + 1
InWindow(d)   == now = SendAt(d)
WindowOver(d) == now > SendAt(d)
Past(d)       == now > SendAt(d) + 1

RunStatuses == {"none", "sending", "sent", "partial", "failed", "skipped", "missed"}
Sendable    == {"missed", "failed", "partial"}
WentOut     == {"sent", "partial"}
RowStatuses == {"absent", "pending", "sending", "sent", "failed", "unknown", "skipped"}
GcRetry     == {"pending", "failed", "skipped"}

NoRun == [status |-> "none", amount |-> 0, accepted |-> FALSE,
          quiet |-> FALSE, still |-> FALSE]
NoRows == [g \in Gcs |-> [status |-> "absent", amount |-> 0]]

\* A pass: what send_now(), run_send(), _send_claimed() and reclaim_stuck()
\* hold in local variables.
Idle == [pc |-> "idle", date |-> 1, manual |-> FALSE, force |-> FALSE,
         amount |-> 0, todo |-> {}, ready |-> {}, gc |-> NoGc, stop |-> FALSE,
         outcome |-> "none",
         view |-> [g \in Gcs |-> "absent"]]

Init ==
    /\ now = 0 /\ bidDate \in Dates /\ estimate = 1
    /\ enabled = TRUE /\ changedAt = 0
    /\ human = "none"
    /\ run = [d \in Dates |-> NoRun]
    /\ row = [d \in Dates |-> NoRows]
    /\ snd = [s \in Senders |-> Idle]
    /\ settled = [s \in Senders |-> {}]
    /\ mailed = [g \in Gcs |-> 0] /\ hidden = [g \in Gcs |-> 0]
    /\ confirmed = 0 /\ afterHuman = 0
    /\ commands = 0 /\ crashes = 0 /\ faults = 0

Command == commands < MaxCommands /\ commands' = commands + 1
Quiet   == UNCHANGED <<commands, crashes, faults>>

Statuses(d) == [g \in Gcs |-> row[d][g].status]

\* Slip: a partly sent run counts as failed.
Slip_FinalStatus(view) ==
    IF \E g \in Gcs : view[g] \notin {"absent", "sent"} THEN "failed" ELSE "sent"

\* Slip: a run whose only emails timed out is reported as unknown.
Slip_UnknownRun(view) ==
    IF \E g \in Gcs : view[g] = "sent" THEN "sent"
    ELSE IF \E g \in Gcs : view[g] = "unknown" THEN "unknown" ELSE "failed"

\* final_status(): the status of a run from the statuses of its GC rows.
FinalStatus(view) ==
    LET kept == {g \in Gcs : view[g] # "absent"}
        out  == {g \in Gcs : view[g] = "sent"}
    IN  IF out = {} THEN "failed" ELSE IF out = kept THEN "sent" ELSE "partial"

\* sendable_gc_ids()
SendableGcs(view, force) ==
    {g \in Gcs : \/ view[g] \in GcRetry \cup {"absent"}
                 \/ force /\ view[g] = "unknown"}

AlreadySent == \E d \in Dates : run[d].status \in WentOut
Silent      == human \in {"sent", "sending"} \/ AlreadySent

\* Slip: only a finished Send Out stops the run.
Slip_StopReason == human = "sent" \/ ~ enabled

\* _stop_reason()
StopReason == human \in {"sent", "sending", "unknown"} \/ ~ enabled

\* A write of run d bumps its updated_at, a write of its GC rows theirs; both
\* are signs of life (_last_activity).
WriteRun(d, r) ==
    run' = [run EXCEPT ![d] = [r EXCEPT !.quiet = FALSE, !.still = FALSE]]
Alive(d) == run' = [run EXCEPT ![d].still = FALSE]
SetRow(d, g, st) == row' = [row EXCEPT ![d][g].status = st]

Go(s, p) == snd' = [snd EXCEPT ![s] = p]

-----------------------------------------------------------------------------
(* People, and the clock.                                                  *)

Tick ==
    /\ now < 3 * MaxDate
    /\ now' = now + 1
    /\ UNCHANGED <<bidDate, estimate, enabled, changedAt, human, db, snd, settled, log>>
    /\ Quiet

Reading == {"due", "checked", "asked"}

MoveDate(d) ==
    /\ Command /\ d # bidDate
    /\ Calm => /\ \A s \in Senders : snd[s].pc \notin Reading
               /\ ~ Past(d)
    /\ bidDate' = d
    /\ UNCHANGED <<now, estimate, enabled, changedAt, human, db, snd, settled, log,
                   crashes, faults>>

Reprice ==
    /\ Command
    /\ estimate' = estimate + 1
    /\ UNCHANGED <<now, bidDate, enabled, changedAt, human, db, snd, settled, log,
                   crashes, faults>>

\* set_enabled()
Switch ==
    /\ Command
    /\ enabled' = ~ enabled /\ changedAt' = now
    /\ UNCHANGED <<now, bidDate, estimate, human, db, snd, settled, log, crashes, faults>>

\* Send Out begins, and ends: sent, failed or timed out.
HumanSend ==
    /\ Command /\ human \in {"none", "unknown"}
    /\ human' = "sending" /\ afterHuman' = 0
    /\ UNCHANGED <<now, bidDate, estimate, enabled, changedAt, db, snd, settled, mailed,
                   hidden, confirmed, crashes, faults>>

HumanDone ==
    /\ human = "sending"
    /\ human' \in {"sent", "none", "unknown"}
    /\ UNCHANGED <<now, bidDate, estimate, enabled, changedAt, db, snd, settled, log>>
    /\ Quiet

\* apply_auto_send_acceptance(), one transaction.
Acceptable(d) ==
    /\ run[d].status \in WentOut /\ ~ run[d].accepted
    /\ human \notin {"sent", "sending"}
    /\ \E g \in Gcs : row[d][g].status = "sent"

Accept(d) ==
    /\ Command /\ Acceptable(d)
    /\ WriteRun(d, [run[d] EXCEPT !.accepted = TRUE])
    /\ human' = "sent"
    /\ UNCHANGED <<now, bidDate, estimate, enabled, changedAt, row, snd, settled, log,
                   crashes, faults>>

-----------------------------------------------------------------------------
(* Claiming a run.                                                         *)

\* send_now(): the latest run of the project, and nobody else's turn.
SendNow(s, d, force) ==
    /\ snd[s].pc = "idle" /\ Command
    /\ enabled
    /\ run[d].status # "none" /\ \A e \in Dates : e > d => run[e].status = "none"
    /\ \A e \in Dates : run[e].status # "sending"
    /\ run[d].status \in Sendable /\ ~ run[d].accepted
    /\ human \notin {"sent", "sending"}
    /\ SendableGcs(Statuses(d), force) # {}
    /\ bidDate <= d
    /\ Go(s, [Idle EXCEPT !.pc = "asked", !.date = d, !.manual = TRUE, !.force = force])
    /\ confirmed' = IF force THEN confirmed + 1 ELSE confirmed
    /\ UNCHANGED <<world, db, settled, mailed, hidden, afterHuman, crashes, faults>>

\* poll_once(): the send window of a due date with no run.
Due(s, d) ==
    /\ snd[s].pc = "idle"
    /\ enabled /\ InWindow(d) /\ changedAt < SendAt(d)
    /\ bidDate = d /\ run[d].status = "none"
    /\ Go(s, [Idle EXCEPT !.pc = "due", !.date = d])
    /\ UNCHANGED <<world, db, settled, log>> /\ Quiet

\* _send(): the checks made again when the loop reaches the project.
MaySend(d) ==
    /\ enabled /\ ~ Silent /\ ~ WindowOver(d)
    /\ \A e \in Dates : e # d => run[e].status # "sending"

Check(s) ==
    /\ snd[s].pc = "due"
    /\ Go(s, IF MaySend(snd[s].date) THEN [snd[s] EXCEPT !.pc = "checked"] ELSE Idle)
    /\ UNCHANGED <<world, db, settled, log>> /\ Quiet

\* Slip: Send now's compare-and-set looks at the status alone.
Slip_Claimable(p) ==
    \/ p.pc = "checked" /\ run[p.date].status = "none"
    \/ p.pc = "asked" /\ run[p.date].status \in Sendable

\* _claim_run(): the insert that the unique key lets one worker make, or Send
\* now's compare-and-set.  The loser does nothing.
Claimable(p) ==
    \/ p.pc = "checked" /\ run[p.date].status = "none"
    \/ p.pc = "asked" /\ run[p.date].status \in Sendable /\ ~ run[p.date].accepted

Mending(d) == \E s \in Senders : snd[s].pc = "mend" /\ snd[s].date = d

ClaimRun(s) ==
    LET p == snd[s] IN
    /\ p.pc \in {"checked", "asked"}
    /\ Calm => ~ Mending(p.date)
    /\ \/ /\ Claimable(p)
          /\ WriteRun(p.date, [run[p.date] EXCEPT !.status = "sending"])
          /\ Go(s, [p EXCEPT !.pc = "claimed"])
       \/ ~ Claimable(p) /\ Go(s, Idle) /\ UNCHANGED run
    /\ UNCHANGED <<world, row, settled, log>> /\ Quiet

\* record_missed() by the missed check: the window has closed on a due date
\* with no run.  A past day is looked at once per process and switch setting.
Forgotten(d) ==
    /\ enabled /\ WindowOver(d) /\ changedAt < SendAt(d)
    /\ bidDate = d /\ run[d].status = "none" /\ ~ Silent

Missed(s, d) ==
    /\ snd[s].pc = "idle"
    /\ enabled /\ WindowOver(d) /\ changedAt < SendAt(d)
    /\ Past(d) => <<d, changedAt>> \notin settled[s]
    /\ \/ /\ Forgotten(d)
          /\ WriteRun(d, [run[d] EXCEPT !.status = "missed"])
       \/ ~ Forgotten(d) /\ UNCHANGED run
    /\ settled' = IF Past(d) THEN [settled EXCEPT ![s] = @ \cup {<<d, changedAt>>}]
                             ELSE settled
    /\ UNCHANGED <<world, row, snd, log>> /\ Quiet

-----------------------------------------------------------------------------
(* A claimed pass (_send_claimed): evaluate, freeze the numbers, one row    *)
(* per GC, prepare every document, then email one GC after the other.       *)

Partly(view) == \E g \in Gcs : view[g] = "sent"

\* Slip: every pass takes the estimate as it is now.
Slip_Numbers(d, view) == estimate

\* A partly sent run keeps the numbers it already sent.
Numbers(d, view) ==
    IF Partly(view) /\ run[d].amount # 0 THEN run[d].amount ELSE estimate

\* _evaluate() and the rows of an earlier pass.  Not ready: a person sent,
\* something is missing (blocked) or a rule says no (skipped).
Evaluate(s) ==
    LET p == snd[s]
        view == Statuses(p.date)
        refuse(st) == Go(s, [p EXCEPT !.pc = "close",
                                      !.outcome = IF Partly(view) THEN FinalStatus(view) ELSE st])
    IN  /\ p.pc = "claimed"
        /\ \/ refuse("skipped")
           \/ ~ Silent /\ refuse("failed")
           \/ /\ ~ Silent /\ human # "unknown"
              /\ Go(s, [p EXCEPT !.pc = "open", !.view = view,
                                 !.amount = Numbers(p.date, view)])
        /\ UNCHANGED <<world, db, settled, log>> /\ Quiet

Open(s) ==
    LET p == snd[s] IN
    /\ p.pc = "open"
    /\ WriteRun(p.date, [run[p.date] EXCEPT !.amount = p.amount])
    /\ Go(s, [p EXCEPT !.pc = "insert"])
    /\ UNCHANGED <<world, row, settled, log>> /\ Quiet

\* Slip: every new row starts at pending.
Slip_Carried(d) == {}

\* _earlier_unknown_gc_ids(): GCs that may hold an email of another run.
Carried(d) ==
    {g \in Gcs : /\ \E e \in Dates \ {d} : row[e][g].status \in {"unknown", "sending"}
                 /\ \A e \in Dates : row[e][g].status # "sent"}

\* One insert for the missing rows; a row another worker inserted meanwhile
\* makes it raise.
Insert(s) ==
    LET p == snd[s]
        new == {g \in Gcs : p.view[g] = "absent"}
        view == [g \in Gcs |-> IF g \notin new THEN p.view[g]
                               ELSE IF g \in Carried(p.date) THEN "unknown" ELSE "pending"]
    IN  /\ p.pc = "insert"
        /\ \/ /\ \A g \in new : row[p.date][g].status = "absent"
              /\ row' = [row EXCEPT ![p.date] = [g \in Gcs |->
                           IF g \in new THEN [@[g] EXCEPT !.status = view[g]] ELSE @[g]]]
              /\ LET todo == SendableGcs(view, p.force)
                 IN  Go(s, [p EXCEPT !.pc = IF todo = {} THEN "send" ELSE "prep",
                                     !.todo = todo, !.view = view])
              /\ IF new = {} THEN UNCHANGED run ELSE Alive(p.date)
           \/ /\ \E g \in new : row[p.date][g].status # "absent"
              /\ Go(s, [p EXCEPT !.pc = "rescue"]) /\ UNCHANGED db
        /\ UNCHANGED <<world, settled, log>> /\ Quiet

\* _beat(): a compare-and-set on the status before every GC step.  Losing it
\* ends the pass.
Beating(d) == run[d].status = "sending"

Beat(s) ==
    LET p == snd[s] IN
    /\ \/ p.pc = "prep"
       \/ p.pc = "send" /\ p.ready # {}
    /\ \/ /\ Beating(p.date)
          /\ WriteRun(p.date, run[p.date])
          /\ \E g \in IF p.pc = "prep" THEN p.todo ELSE p.ready :
                Go(s, [p EXCEPT !.gc = g,
                                !.pc = IF p.pc = "prep" THEN "prepare" ELSE "check"])
       \/ ~ Beating(p.date) /\ Go(s, Idle) /\ UNCHANGED run
    /\ UNCHANGED <<world, row, settled, log>> /\ Quiet

\* Render and store one document; one that fails fails its own GC only.
Prepare(s) ==
    LET p == snd[s]
        left == p.todo \ {p.gc}
        next == [p EXCEPT !.todo = left, !.gc = NoGc,
                          !.pc = IF left = {} THEN "send" ELSE "prep"]
    IN  /\ p.pc = "prepare"
        /\ \/ /\ row' = [row EXCEPT ![p.date][p.gc].amount = p.amount]
              /\ Go(s, [next EXCEPT !.ready = @ \cup {p.gc}])
           \/ /\ row' = [row EXCEPT ![p.date][p.gc] =
                            [status |-> "failed", amount |-> p.amount]]
              /\ Go(s, [next EXCEPT !.view[p.gc] = "failed"])
        /\ Alive(p.date)
        /\ UNCHANGED <<world, settled, log>> /\ Quiet

Skip(p) == [p EXCEPT !.pc = "record", !.outcome = "skipped", !.stop = TRUE]

\* The check before the claim of a GC; once it stops the pass, every GC left
\* is skipped.
StopCheck(s) ==
    LET p == snd[s] IN
    /\ p.pc = "check"
    /\ Go(s, IF p.stop \/ StopReason THEN Skip(p) ELSE [p EXCEPT !.pc = "claim"])
    /\ UNCHANGED <<world, db, settled, log>> /\ Quiet

ClaimableGcs(force) == GcRetry \cup IF force THEN {"unknown"} ELSE {}

\* The claim of one GC row.  A row somebody else moved is left alone.
ClaimGc(s) ==
    LET p == snd[s]
        at == row[p.date][p.gc].status
    IN  /\ p.pc = "claim"
        /\ \/ /\ at \in ClaimableGcs(p.force)
              /\ SetRow(p.date, p.gc, "sending")
              /\ Alive(p.date)
              /\ Go(s, [p EXCEPT !.pc = "convert"])
           \/ /\ at \notin ClaimableGcs(p.force)
              /\ Go(s, [p EXCEPT !.pc = "send", !.ready = @ \ {p.gc}, !.gc = NoGc])
              /\ UNCHANGED db
        /\ UNCHANGED <<world, settled, log>> /\ Quiet

\* _send_one(): the conversion, which may fail, and the check after it.
Convert(s) ==
    LET p == snd[s] IN
    /\ p.pc = "convert"
    /\ \/ Go(s, [p EXCEPT !.pc = "record", !.outcome = "failed"])
       \/ Go(s, IF StopReason THEN Skip(p) ELSE [p EXCEPT !.pc = "mail"])
    /\ UNCHANGED <<world, db, settled, log>> /\ Quiet

\* What send_mail() may tell of an email; a timeout tells nothing.
Answer(delivered) == IF delivered THEN {"sent", "unknown"} ELSE {"failed", "unknown"}

\* _send_one() emails the GC.  send_mail() writes its email_log row after
\* Graph took the message; if that write raises the GC counts as failed.
Mail(s) ==
    LET p == snd[s] IN
    /\ p.pc = "mail"
    /\ \E delivered \in BOOLEAN :
          /\ \/ /\ \E st \in Answer(delivered) :
                      Go(s, [p EXCEPT !.pc = "record", !.outcome = st])
                /\ UNCHANGED <<hidden, faults>>
             \/ /\ delivered /\ faults < MaxFaults /\ faults' = faults + 1
                /\ Go(s, [p EXCEPT !.pc = "record", !.outcome = "failed"])
                /\ hidden' = [hidden EXCEPT ![p.gc] = @ + 1]
          /\ mailed' = IF delivered THEN [mailed EXCEPT ![p.gc] = @ + 1] ELSE mailed
          /\ afterHuman' = IF delivered /\ human # "none"
                           THEN afterHuman + 1 ELSE afterHuman
    /\ UNCHANGED <<world, db, settled, confirmed, commands, crashes>>

\* The outcome of one GC is written to its row.
Record(s) ==
    LET p == snd[s] IN
    /\ p.pc = "record"
    /\ SetRow(p.date, p.gc, p.outcome)
    /\ Alive(p.date)
    /\ Go(s, [p EXCEPT !.pc = "send", !.ready = @ \ {p.gc}, !.gc = NoGc,
                       !.view[p.gc] = p.outcome])
    /\ UNCHANGED <<world, settled, log>> /\ Quiet

\* _finish(): not fenced on the status.
Finish(s) ==
    LET p == snd[s] IN
    /\ \/ p.pc \in {"close", "rescued"}
       \/ p.pc = "send" /\ p.ready = {}
    /\ WriteRun(p.date, [run[p.date] EXCEPT !.status =
                            IF p.pc = "send" THEN FinalStatus(p.view) ELSE p.outcome])
    /\ Go(s, Idle)
    /\ UNCHANGED <<world, row, settled, log>> /\ Quiet

-----------------------------------------------------------------------------
(* Errors, crashes and the reclaim of a stuck run.                         *)

InPass == {"claimed", "open", "insert", "prep", "prepare", "send", "check",
           "claim", "convert", "mail", "record", "close", "rescue", "rescued"}

\* A call raises (before its write landed, or after: then the step was taken
\* first): run_send() falls into its except block, and an error in that block
\* ends the pass.  send_mail()'s own errors are its answer.
Raise(s) ==
    LET p == snd[s] IN
    /\ p.pc \in InPass \ {"mail"}
    /\ faults < MaxFaults /\ faults' = faults + 1
    /\ Go(s, IF p.pc \in {"rescue", "rescued"} THEN Idle ELSE [p EXCEPT !.pc = "rescue"])
    /\ UNCHANGED <<world, db, settled, log, commands, crashes>>

\* _sending_to_unknown()
Mended(rows) ==
    [g \in Gcs |-> IF rows[g].status = "sending"
                   THEN [rows[g] EXCEPT !.status = "unknown"] ELSE rows[g]]

\* The except block's first half; one row of a run is at sending at most.
Rescue(s) ==
    LET p == snd[s]
        rows == Mended(row[p.date])
    IN  /\ p.pc = "rescue"
        /\ row' = [row EXCEPT ![p.date] = rows]
        /\ Alive(p.date)
        /\ Go(s, [p EXCEPT !.pc = "rescued",
                    !.outcome = FinalStatus([g \in Gcs |-> rows[g].status])])
        /\ UNCHANGED <<world, settled, log>> /\ Quiet

\* No sign of life for _stuck_minutes(), far longer than the two calls of a
\* reclaim are apart.
Stall(d) ==
    /\ run[d].status = "sending" /\ ~ run[d].still
    /\ ~ \E s \in Senders : snd[s].date = d /\ snd[s].pc = "reclaim"
    /\ Timely => ~ \E s \in Senders : snd[s].date = d /\ snd[s].pc \in InPass
    /\ run' = [run EXCEPT ![d].quiet = TRUE, ![d].still = TRUE]
    /\ UNCHANGED <<world, row, snd, settled, log>> /\ Quiet

\* Slip: only a run that was cut off mid-email counts as stuck.
Slip_Stuck(d) == run[d].still /\ \E g \in Gcs : row[d][g].status = "sending"

Stuck(d) == run[d].still

\* reclaim_stuck() reads a stuck run and its rows ...
ReclaimRead(s, d) ==
    /\ snd[s].pc = "idle"
    /\ run[d].status = "sending" /\ Stuck(d)
    /\ Go(s, [Idle EXCEPT !.pc = "reclaim", !.date = d, !.view = Statuses(d)])
    /\ UNCHANGED <<world, db, settled, log>> /\ Quiet

\* ... closes it unless it was written since the read ...
ReclaimRun(s) ==
    LET p == snd[s]
        same == run[p.date].status = "sending" /\ run[p.date].quiet
    IN  /\ p.pc = "reclaim"
        /\ \/ /\ same
              /\ WriteRun(p.date, [run[p.date] EXCEPT !.status = FinalStatus(p.view)])
              /\ Go(s, [p EXCEPT !.pc = "mend"])
           \/ ~ same /\ Go(s, Idle) /\ UNCHANGED run
        /\ UNCHANGED <<world, row, settled, log>> /\ Quiet

\* ... and marks the rows that were mid-send unknown.  An error ends it.
ReclaimRows(s) ==
    LET p == snd[s] IN
    /\ p.pc = "mend"
    /\ \/ /\ row' = [row EXCEPT ![p.date] = [g \in Gcs |->
                        IF p.view[g] = "sending" THEN [@[g] EXCEPT !.status = "unknown"]
                                                 ELSE @[g]]]
          /\ Alive(p.date) /\ UNCHANGED faults
       \/ faults < MaxFaults /\ faults' = faults + 1 /\ UNCHANGED db
    /\ Go(s, Idle)
    /\ UNCHANGED <<world, settled, log, commands, crashes>>

Crash(s) ==
    /\ crashes < MaxCrashes /\ crashes' = crashes + 1
    /\ snd' = [snd EXCEPT ![s] = Idle] /\ settled' = [settled EXCEPT ![s] = {}]
    /\ UNCHANGED <<world, db, log, commands, faults>>

-----------------------------------------------------------------------------
People ==
    \/ Reprice \/ Switch \/ HumanSend
    \/ \E d \in Dates : MoveDate(d) \/ Accept(d)
    \/ \E s \in Senders, d \in Dates, force \in BOOLEAN : SendNow(s, d, force)

Pass(s) ==
    \/ ClaimRun(s) \/ Evaluate(s) \/ Open(s) \/ Insert(s) \/ Beat(s) \/ Prepare(s)
    \/ StopCheck(s) \/ ClaimGc(s) \/ Convert(s) \/ Mail(s) \/ Record(s) \/ Finish(s)
    \/ Rescue(s) \/ Check(s) \/ ReclaimRun(s) \/ ReclaimRows(s)

Poll(s, d) == Due(s, d) \/ Missed(s, d) \/ ReclaimRead(s, d)

Next ==
    \/ Tick \/ People \/ HumanDone
    \/ \E s \in Senders : Pass(s) \/ Raise(s) \/ Crash(s)
    \/ \E d \in Dates : Stall(d) \/ \E s \in Senders : Poll(s, d)

Spec == Init /\ [][Next]_vars

\* Passes go on, every process polls every day it looks at, silence is
\* noticed and time passes.  Nothing obliges a person, an error or a crash.
Fairness ==
    /\ WF_vars(Tick)
    /\ \A s \in Senders : WF_vars(Pass(s))
    /\ \A d \in Dates : WF_vars(Stall(d))
    /\ \A s \in Senders, d \in Dates :
          WF_vars(Due(s, d)) /\ WF_vars(Missed(s, d)) /\ WF_vars(ReclaimRead(s, d))

FairSpec == Spec /\ Fairness

-----------------------------------------------------------------------------
(* Correctness.                                                            *)

\* Types of the state.
TypeOK ==
    /\ now \in 0..(3 * MaxDate) /\ bidDate \in Dates /\ estimate \in Nat
    /\ enabled \in BOOLEAN /\ changedAt \in 0..now
    /\ human \in {"none", "sending", "sent", "unknown"}
    /\ run \in [Dates -> [status : RunStatuses, amount : Nat, accepted : BOOLEAN,
                          quiet : BOOLEAN, still : BOOLEAN]]
    /\ row \in [Dates -> [Gcs -> [status : RowStatuses, amount : Nat]]]
    /\ {mailed, hidden} \subseteq [Gcs -> Nat] /\ {confirmed, afterHuman} \subseteq Nat

\* The emails of a GC are accounted for: the first one, one more for every Send
\* now a person confirmed, and one more for every delivery that raised after
\* Graph had taken the message, so that the GC counted as failed; no worker,
\* date, timeout or crash adds another.  It counts: which confirmation an email
\* rests on is NoSilentRetry.
OneEmailPerGc == \A g \in Gcs : mailed[g] <= 1 + confirmed + hidden[g]

\* A second email to a GC is one the pass was confirmed for: a timed-out email
\* is never repeated by a scheduled run or an unconfirmed Send now.
NoSilentRetry ==
    [][\A s \in Senders, g \in Gcs :
          snd[s].pc = "mail" /\ snd[s].gc = g /\ ~ snd[s].force
          /\ mailed'[g] # mailed[g] => mailed[g] = 0]_vars

\* A person's Send Out wins: of the emails still to go, only the one already
\* past its last check is delivered after it begins.
HumanWins == afterHuman <= 1

\* What the panel says of a settled run is what its GCs got, also after a
\* reclaim or an error.
RunTellsTheTruth == \A d \in Dates :
    LET out == {g \in Gcs : row[d][g].status = "sent"}
        kept == {g \in Gcs : row[d][g].status # "absent"}
    IN  /\ run[d].status = "sent" => out = kept /\ out # {}
        /\ run[d].status = "partial" => out # {} /\ out # kept
        /\ run[d].status \in {"failed", "skipped", "missed"} => out = {}

\* One bid: every GC sent by a run got the run's numbers, the ones an
\* acceptance records as the bid, even if the estimate changed in between.
OneBid == \A d \in Dates, g \in Gcs :
    row[d][g].status = "sent" => row[d][g].amount = run[d].amount

\* An accepted run is closed: its row stays as it was accepted, and no GC of
\* the project is emailed by auto send again.
AcceptedIsClosed ==
    [][\A d \in Dates : run[d].accepted
          => run'[d] = run[d] /\ mailed' = mailed]_vars

\* A row left mid-send becomes unknown, which a person can send again: none
\* stays at sending once its run is closed and nobody is at work on it.
NoRowLeftSending == \A d \in Dates, g \in Gcs :
    row[d][g].status = "sending"
    => \/ run[d].status = "sending"
       \/ \E s \in Senders : snd[s].date = d /\ snd[s].pc # "idle"

\* No run stays at sending, whatever dies.
EveryRunSettles ==
    \A d \in Dates : run[d].status = "sending" ~> run[d].status # "sending"
=============================================================================
