------------------------------ MODULE PlansRuns ------------------------------
(***************************************************************************)
(* One AI Estimating run from planning to its deliverables                 *)
(* (app/services/plans_reader_runs.py, with run_group of                   *)
(* plans_reader_agents.py and the queue's marks of llm_queue.py).          *)
(*                                                                         *)
(* Queue workers run group jobs and call advance after each; the page's    *)
(* polls repair what was missed; people resume, cancel and delete.  An     *)
(* action is one database write, or the reads a decision is taken on; a    *)
(* read is a step of its own where what follows writes without a fence     *)
(* that would notice.  Every file of the run has settled when the model    *)
(* begins.  Leases and attempts of the queue are LlmQueue's.               *)
(***************************************************************************)
EXTENDS Integers, FiniteSets, Sequences, FiniteSetsExt

CONSTANTS
    Workers,        \* queue worker threads, each of its own process
    Requests,       \* request threads: polls, resume, cancel, delete
    Categories,     \* document categories of the run
    Subs,           \* pass-1 groups per category
    Flagged,        \* categories whose answers flag a sheet to escalate
    HasLower,       \* a lower reasoning effort exists for the main's retry
    Slots,          \* rows one identity may have at once
    Kinds,          \* deliverables, 1 .. n in rendering order
    Calm,           \* nobody dies, resumes, deletes, repairs or starts inside another's window
    MaxTrouble      \* bound: deaths, faults, failed calls, caps, cancels and deletes in all

ASSUME PlansAssumption ==
    /\ Workers \cap Requests = {}
    /\ Subs \in Nat \ {0} /\ Slots \in Nat \ {0}
    /\ Flagged \subseteq Categories
    /\ Kinds \subseteq Nat
    /\ HasLower \in BOOLEAN /\ Calm \in BOOLEAN /\ MaxTrouble \in Nat

VARIABLES
    run,    \* the run row: its status, unchanged for RECOVERY_AFTER_SECONDS, planning claim
    rows,   \* the group rows: their status, "none" for a row that does not exist
    job,    \* the active queue job of each group row
    saved,  \* deliverable versions saved, per kind
    th,     \* what each thread is doing
    trouble \* how much of MaxTrouble is spent

vars == <<run, rows, job, saved, th, trouble>>

Threads == Workers \cup Requests

Sub(c, i) == <<"sub", c, i>>
RollUp(c) == <<"rollup", c, 1>>
Escalation(c) == <<"escalation", c, 1>>
Main(pass) == <<"main", "run", pass>>

SubKeys == {Sub(c, i) : c \in Categories, i \in 1..Subs}
Keys == SubKeys \cup {RollUp(c) : c \in Categories}
        \cup {Escalation(c) : c \in Flagged} \cup {Main(1), Main(2)}
Rows == Keys \X (1..Slots)
Gone(r) == <<r[1], 0>>     \* what a reference to a row deleted since points at
NoRow == <<<<"none", "none", 0>>, 0>>

ActiveGroup == {"queued", "running"}
GroupTerminal == {"done", "failed", "canceled"}
ActiveRun == {"reading", "consolidating"}
TerminalRun == {"done", "done_with_errors", "failed", "canceled"}
RunStatuses == TerminalRun \cup ActiveRun \cup {"splitting", "rendering", "over_cap", "deleted"}

RowsOf(k) == {r \in Rows : r[1] = k /\ rows[r] # "none"}
RowsIn(S) == UNION {RowsOf(k) : k \in S}
Earlier(r, s) == r[2] < s[2]       \* rows of one identity, by created_at and id

-----------------------------------------------------------------------------
(* A thread: where it is, the row whose job it runs, and what it has read. *)

AdvancePcs == {"advance", "claim_plan", "plan", "insert_subs", "replan", "consolidate", "insert",
               "read_dups", "dedupe", "delete_winner", "render", "save", "fail_run", "take_render"}

\* Somewhere in advance or in the enqueues that end it.
Advancing(t) == th[t].pc \in AdvancePcs \cup {"enqueue"}

\* Between its insert and its last delete.
Deduping(t) == th[t].pc \in {"read_dups", "dedupe", "delete_winner"}

Idle == [pc |-> "idle", row |-> NoRow, set |-> {}, keys |-> {}, dups |-> {}, todo |-> {},
         then |-> "return", was |-> "none", bad |-> FALSE]

\* The handler returns: a worker closes its job, a request is over.
Home(l) == IF l.row = NoRow THEN Idle ELSE [Idle EXCEPT !.pc = "finish", !.row = l.row]

Advance(l) == [Idle EXCEPT !.pc = "advance", !.row = l.row]

At(t, pc) == th[t].pc = pc
Local(t, l) == th' = [th EXCEPT ![t] = l]
Goto(t, pc) == th' = [th EXCEPT ![t].pc = pc]

\* One more death, fault, failed call, cap, cancel or delete.
Trouble == trouble < MaxTrouble /\ trouble' = trouble + 1

\* Any write to the run row bumps updated_at.
Touch(r) == [r EXCEPT !.old = FALSE]

\* _cas_status: the write lands only on a status in from.
CasStatus(from, to) ==
    run' = IF run.status \in from THEN [Touch(run) EXCEPT !.status = to] ELSE run

\* The winner of a stage goes on as won; the loser returns without writing.
Win(t, from, to, won) ==
    /\ CasStatus(from, to)
    /\ Local(t, IF run.status \in from THEN won ELSE Home(th[t]))

Init ==
    /\ run = [status |-> "splitting", old |-> FALSE, plan |-> "none"]
    /\ rows = [r \in Rows |-> "none"]
    /\ job = [r \in Rows |-> "none"]
    /\ saved = [k \in Kinds |-> 0]
    /\ th = [t \in Threads |-> Idle]
    /\ trouble = 0

-----------------------------------------------------------------------------
(* run_group: the queue job of one group row.                              *)

StatusOf(r) == IF r \in Rows THEN rows[r] ELSE "none"

\* Slip: a write that checks only that the row is there.
Slip_Write(r, status) == IF StatusOf(r) # "none" THEN [rows EXCEPT ![r] = status] ELSE rows

\* A write to one group row, fenced on its active statuses.
Write(r, status) == IF StatusOf(r) \in ActiveGroup THEN [rows EXCEPT ![r] = status] ELSE rows

WithJob(r, status) == IF r \in Rows THEN [job EXCEPT ![r] = status] ELSE job

\* The queue's failure handling: the job gets another attempt, or ends.  The
\* mark on the row is a call of its own, made after that.
FailJob(t, r) ==
    \/ /\ job' = WithJob(r, "queued")
       /\ Local(t, [Idle EXCEPT !.pc = "mark_queued", !.row = r])
    \/ /\ job' = WithJob(r, "none")
       /\ Local(t, [Idle EXCEPT !.pc = "mark_failed", !.row = r])

\* A thread that has still to mark a row is through with its job.
Marking(t) == th[t].pc \in {"mark_queued", "mark_failed"}
Runs(t, r) == th[t].row = r /\ ~Marking(t)

\* _mark_domain: a retry shows as queued; a terminal failure that changed the
\* row advances the run.  An error of the mark is logged and the mark is lost.
MarkRow(t) ==
    LET r == th[t].row IN
    /\ \/ /\ At(t, "mark_queued")
          /\ rows' = Write(r, "queued")
          /\ Local(t, Idle)
          /\ UNCHANGED trouble
       \/ /\ At(t, "mark_failed")
          /\ rows' = Write(r, "failed")
          /\ Local(t, IF StatusOf(r) \in ActiveGroup THEN Advance(Idle) ELSE Idle)
          /\ UNCHANGED trouble
       \/ /\ Marking(t)
          /\ Trouble
          /\ Local(t, Idle)
          /\ UNCHANGED rows
    /\ UNCHANGED <<run, job, saved>>

\* The claim of the job and run_group's first reads.  A group of a run that
\* ended is dropped, one of a paused run waits for resume, and the spend cap
\* leaves the group queued before it stops the run.  In a calm run the mark of
\* the attempt before is not still on its way.
StartJob(t, r) ==
    LET l == [Idle EXCEPT !.row = r]
        active == rows[r] \in ActiveGroup /\ run.status \in ActiveRun
    IN
    /\ t \in Workers /\ At(t, "idle")
    /\ job[r] = "queued"
    /\ Calm => \A u \in Workers : ~(Marking(u) /\ th[u].row = r)
    /\ job' = WithJob(r, "running")
    /\ \/ /\ active
          /\ Local(t, [l EXCEPT !.pc = "claim"])
          /\ UNCHANGED <<rows, trouble>>
       \/ /\ active
          /\ Trouble
          /\ rows' = Write(r, "queued")
          /\ Local(t, [l EXCEPT !.pc = "pause"])
       \/ /\ ~active
          /\ rows' = IF run.status \in TerminalRun THEN Write(r, "canceled") ELSE rows
          /\ Local(t, IF rows[r] = "done" THEN Advance(l) ELSE Home(l))
          /\ UNCHANGED trouble
    /\ UNCHANGED <<run, saved>>

\* _pause_for_cap, second write.
PauseRun(t) ==
    /\ At(t, "pause")
    /\ CasStatus(ActiveRun, "over_cap")
    /\ Local(t, Home(th[t]))
    /\ UNCHANGED <<rows, job, saved, trouble>>

ClaimGroup(t) ==
    /\ At(t, "claim")
    /\ rows' = Write(th[t].row, "running")
    /\ Local(t, IF StatusOf(th[t].row) \in ActiveGroup THEN [th[t] EXCEPT !.pc = "build"] ELSE Home(th[t]))
    /\ UNCHANGED <<run, job, saved, trouble>>

\* The pages are rendered; the run is read again before money is spent.
Recheck(t) ==
    LET r == th[t].row IN
    /\ At(t, "build")
    /\ IF run.status \in ActiveRun
       THEN Goto(t, "call") /\ UNCHANGED rows
       ELSE /\ rows' = IF run.status # "over_cap" THEN Write(r, "canceled")
                       ELSE IF StatusOf(r) = "running" THEN Write(r, "queued") ELSE rows
            /\ Local(t, Home(th[t]))
    /\ UNCHANGED <<run, job, saved, trouble>>

\* The model answers, recompute_totals writes the run row and the answer is
\* stored while the group is active; or the step fails.
CallModel(t) ==
    /\ At(t, "call")
    /\ \/ /\ rows' = Write(th[t].row, "done")
          /\ Local(t, Advance(th[t]))
          /\ run' = Touch(run)
          /\ UNCHANGED <<job, trouble>>
       \/ /\ Trouble
          /\ FailJob(t, th[t].row)
          /\ UNCHANGED <<run, rows>>
    /\ UNCHANGED saved

FinishJob(t) ==
    /\ At(t, "finish")
    /\ job' = WithJob(th[t].row, "none")
    /\ Local(t, Idle)
    /\ UNCHANGED <<run, rows, saved, trouble>>

\* The sweep of another worker: the lease of a dead thread has lapsed.
Sweep(t, r) ==
    /\ t \in Workers /\ At(t, "idle")
    /\ job[r] = "running" /\ \A u \in Workers : ~Runs(u, r)
    /\ FailJob(t, r)
    /\ UNCHANGED <<run, rows, saved, trouble>>

-----------------------------------------------------------------------------
(* advance: one stage of the run.                                          *)

\* A repair's compare-and-set is fenced on the status alone; Calm says that
\* nobody else moved the run between the stale read and the write.
StillOld == Calm => run.old

Settled(c) == \A r \in RowsIn({Sub(c, i) : i \in 1..Subs}) : rows[r] \notin ActiveGroup
Done(c) == {r \in RowsIn({Sub(c, i) : i \in 1..Subs}) : rows[r] = "done"}

\* The groups a settled category still lacks.
Missing ==
    {RollUp(c) : c \in {d \in Categories : Settled(d) /\ Cardinality(Done(d)) > 1 /\ RowsOf(RollUp(d)) = {}}}
    \cup
    {Escalation(c) : c \in {d \in Flagged : Settled(d) /\ Done(d) # {} /\ RowsOf(Escalation(d)) = {}}}

\* Slip: a run without groups is left to the thread that planned it.
Slip_ReadingStage(l) ==
    IF RowsIn(SubKeys) = {} THEN Home(l)
    ELSE IF Missing # {} THEN [l EXCEPT !.pc = "insert", !.keys = Missing]
    ELSE IF \E r \in Rows : rows[r] \in ActiveGroup THEN Home(l)
    ELSE [l EXCEPT !.pc = "consolidate"]

\* reading: a run without groups lost its winner; else the missing groups
\* are added; else, once all have settled, the stage can be won.
ReadingStage(l) ==
    IF RowsIn(SubKeys) = {} THEN IF run.old THEN [l EXCEPT !.pc = "replan"] ELSE Home(l)
    ELSE IF Missing # {} THEN [l EXCEPT !.pc = "insert", !.keys = Missing]
    ELSE IF \E r \in Rows : rows[r] \in ActiveGroup THEN Home(l)
    ELSE [l EXCEPT !.pc = "consolidate"]

\* Every category's output is written, and a main group added; without any
\* answer the run fails.
AfterOutputs(l) ==
    IF \E c \in Categories : Done(c) # {}
    THEN [l EXCEPT !.pc = "insert", !.keys = {Main(1)}]
    ELSE [l EXCEPT !.pc = "fail_run"]

FirstOf(k) == CHOOSE r \in RowsOf(k) : \A s \in RowsOf(k) \ {r} : Earlier(r, s)

\* Slip: only the main group's failure counts as a missing step.
Slip_UseMain(l) ==
    [l EXCEPT !.pc = "render", !.bad = \E r \in RowsIn({Main(1), Main(2)}) : rows[r] = "failed"]

\* Rendering starts from the answer of one main group; another main group
\* that failed does not count as a missing step.
UseMain(l) ==
    [l EXCEPT !.pc = "render",
              !.bad = \E r \in Rows : rows[r] = "failed" /\ r[1] \notin {Main(1), Main(2)}]

\* Slip: a failed retry is retried again.
Slip_ConsolidatingStage(l) ==
    IF RowsOf(Main(1)) = {} THEN IF run.old THEN AfterOutputs(l) ELSE Home(l)
    ELSE LET pass == IF RowsOf(Main(2)) = {} THEN 1 ELSE 2
             main == rows[FirstOf(Main(pass))]
         IN  CASE main \in ActiveGroup -> Home(l)
               [] main = "done"        -> UseMain(l)
               [] OTHER                -> [l EXCEPT !.pc = "insert", !.keys = {Main(pass + 1)}]

\* consolidating: the first main group, then its one retry at lower effort.
ConsolidatingStage(l) ==
    IF RowsOf(Main(1)) = {} THEN IF run.old THEN AfterOutputs(l) ELSE Home(l)
    ELSE LET first == rows[FirstOf(Main(1))]
             retry == IF RowsOf(Main(2)) = {} THEN "none" ELSE rows[FirstOf(Main(2))]
         IN  CASE first \in ActiveGroup -> Home(l)
               [] first = "done"        -> UseMain(l)
               [] OTHER ->
                  CASE retry = "none" /\ HasLower -> [l EXCEPT !.pc = "insert", !.keys = {Main(2)}]
                    [] retry \in ActiveGroup      -> Home(l)
                    [] retry = "done"             -> UseMain(l)
                    [] OTHER                      -> [l EXCEPT !.pc = "fail_run"]

\* The run and its groups are read; the counters of reading touch the run.
ReadRun(t) ==
    LET l == [th[t] EXCEPT !.then = "return"] IN
    /\ At(t, "advance")
    /\ Local(t, CASE run.status = "splitting"     -> [l EXCEPT !.pc = "claim_plan"]
                  [] run.status = "reading"       -> ReadingStage(l)
                  [] run.status = "consolidating" -> ConsolidatingStage(l)
                  [] run.status = "rendering" /\ run.old -> [l EXCEPT !.pc = "take_render"]
                  [] OTHER -> Home(l))
    /\ run' = IF run.status = "reading" /\ RowsIn(SubKeys) # {} THEN Touch(run) ELSE run
    /\ UNCHANGED <<rows, job, saved, trouble>>

\* _claim_planning: a compare-and-set on updated_at, so no lost update.
ClaimPlanning(t) ==
    /\ At(t, "claim_plan")
    /\ IF run.status = "splitting" /\ run.plan # "live"
       THEN run' = [Touch(run) EXCEPT !.plan = "live"] /\ Goto(t, "plan")
       ELSE Local(t, Home(th[t])) /\ UNCHANGED run
    /\ UNCHANGED <<rows, job, saved, trouble>>

\* The plan wins the stage (its ledger overwrites the claim), or nothing is
\* readable.
Plan(t) ==
    /\ At(t, "plan")
    /\ \/ Win(t, {"splitting"}, "reading", [th[t] EXCEPT !.pc = "insert_subs"]) /\ UNCHANGED trouble
       \/ /\ Trouble
          /\ CasStatus({"splitting"}, "failed")
          /\ Local(t, Home(th[t]))
    /\ UNCHANGED <<rows, job, saved>>

FreeSlots(k) == {s \in 1..Slots : rows[<<k, s>>] = "none"}

\* The winner's groups of pass 1: one insert, not deduplicated.
InsertSubs(t) ==
    /\ At(t, "insert_subs")
    /\ \A k \in SubKeys : FreeSlots(k) # {}
    /\ LET new == {<<k, Min(FreeSlots(k))>> : k \in SubKeys} IN
       /\ rows' = [r \in Rows |-> IF r \in new THEN "queued" ELSE rows[r]]
       /\ Local(t, [th[t] EXCEPT !.pc = "enqueue", !.set = new])
    /\ UNCHANGED <<run, job, saved, trouble>>

\* A run in reading without groups goes back to be planned again.
Replan(t) ==
    /\ At(t, "replan")
    /\ IF run.status = "reading" /\ StillOld
       THEN run' = [Touch(run) EXCEPT !.status = "splitting", !.plan = "none"] /\ Local(t, Advance(th[t]))
       ELSE Local(t, Home(th[t])) /\ UNCHANGED run
    /\ UNCHANGED <<rows, job, saved, trouble>>

Consolidate(t) ==
    /\ At(t, "consolidate")
    /\ Win(t, {"reading"}, "consolidating", AfterOutputs(th[t]))
    /\ UNCHANGED <<rows, job, saved, trouble>>

FailRun(t) ==
    /\ At(t, "fail_run")
    /\ CasStatus({"consolidating"}, "failed")
    /\ Local(t, Home(th[t]))
    /\ UNCHANGED <<rows, job, saved, trouble>>

\* _advance_rendering: a render without a heartbeat lost its worker.
TakeRender(t) ==
    /\ At(t, "take_render")
    /\ IF run.status = "rendering" /\ StillOld
       THEN CasStatus({"rendering"}, "consolidating") /\ Local(t, Advance(th[t]))
       ELSE Local(t, Home(th[t])) /\ UNCHANGED run
    /\ UNCHANGED <<rows, job, saved, trouble>>

\* Slip: the deliverables a dead worker saved are rendered again.
Slip_StartRendering(t) ==
    /\ At(t, "render")
    /\ Win(t, {"consolidating"}, "rendering", [th[t] EXCEPT !.pc = "save", !.todo = Kinds])
    /\ UNCHANGED <<rows, job, saved, trouble>>

\* The stage is won and the deliverables a dead worker saved are kept.
StartRendering(t) ==
    /\ At(t, "render")
    /\ Win(t, {"consolidating"}, "rendering",
           [th[t] EXCEPT !.pc = "save", !.todo = {k \in Kinds : saved[k] = 0}])
    /\ UNCHANGED <<rows, job, saved, trouble>>

\* One deliverable, or its renderer's error, and the heartbeat after it.
Save(t) ==
    LET l == th[t]  k == Min(l.todo) IN
    /\ At(t, "save") /\ l.todo # {}
    /\ \/ /\ saved' = [saved EXCEPT ![k] = @ + 1]
          /\ Local(t, [l EXCEPT !.todo = @ \ {k}])
          /\ UNCHANGED trouble
       \/ /\ Trouble
          /\ Local(t, [l EXCEPT !.todo = @ \ {k}, !.bad = TRUE])
          /\ UNCHANGED saved
    /\ run' = IF run.status = "rendering" THEN Touch(run) ELSE run
    /\ UNCHANGED <<rows, job>>

CloseRun(t) ==
    /\ At(t, "save") /\ th[t].todo = {}
    /\ CasStatus({"rendering"}, IF th[t].bad THEN "done_with_errors" ELSE "done")
    /\ Local(t, Home(th[t]))
    /\ UNCHANGED <<rows, job, saved, trouble>>

-----------------------------------------------------------------------------
(* _insert_deduped and _enqueue_groups.                                    *)

\* created_at is the inserting transaction's time, so rows of one identity
\* may come to light in either order: any free slot.
Insert(t) ==
    /\ At(t, "insert")
    /\ \E slot \in [th[t].keys -> 1..Slots] :
       /\ \A k \in th[t].keys : slot[k] \in FreeSlots(k)
       /\ LET new == {<<k, slot[k]>> : k \in th[t].keys} IN
          /\ rows' = [r \in Rows |-> IF r \in new THEN "queued" ELSE rows[r]]
          /\ Local(t, [th[t] EXCEPT !.pc = "read_dups", !.set = new])
    /\ UNCHANGED <<run, job, saved, trouble>>

\* The groups in hand are enqueued one by one; then the caller goes on.
Enqueuing(l) ==
    IF l.set # {} THEN [l EXCEPT !.pc = "enqueue"]
    ELSE IF l.then = "advance" THEN Advance(l) ELSE Home(l)

\* The last duplicate is gone: this caller's winners that are still queued
\* go to the queue.
Deduped(l) ==
    IF \E d \in l.dups : d.lose # {} THEN [l EXCEPT !.pc = "dedupe"]
    ELSE Enqueuing([l EXCEPT !.keys = {}, !.dups = {},
                             !.set = {d.win : d \in {d \in l.dups : d.fresh /\ d.win \in l.set}}])

\* Slip: the earliest row, started or not.
Slip_Before(r, s) == Earlier(r, s)

\* _dedupe_rank: a started row first, then the earliest.
Before(r, s) ==
    \/ rows[r] # "queued" /\ rows[s] = "queued"
    \/ (rows[r] = "queued") = (rows[s] = "queued") /\ Earlier(r, s)

Winner(k) == CHOOSE r \in RowsOf(k) : \A s \in RowsOf(k) \ {r} : Before(r, s)

ReadDups(t) ==
    /\ At(t, "read_dups")
    /\ Local(t, Deduped([th[t] EXCEPT
                    !.dups = {[win |-> Winner(k), fresh |-> rows[Winner(k)] = "queued",
                               lose |-> {r \in RowsOf(k) \ {Winner(k)} : rows[r] = "queued"}]
                              : k \in {k \in th[t].keys : RowsOf(k) # {}}}]))
    /\ UNCHANGED <<run, rows, job, saved, trouble>>

\* A row is deleted: whoever holds it now holds a reference to nothing.
Without(l, r) ==
    [l EXCEPT !.row = IF @ = r THEN Gone(r) ELSE @,
              !.set = @ \ {r},
              !.dups = {[win |-> IF d.win = r THEN Gone(r) ELSE d.win, fresh |-> d.fresh,
                         lose |-> {IF s = r THEN Gone(r) ELSE s : s \in d.lose}] : d \in @}]

DeleteRow(t, r, l) ==
    /\ rows' = [rows EXCEPT ![r] = "none"]
    /\ job' = [job EXCEPT ![r] = "none"]
    /\ th' = [u \in Threads |-> IF u = t THEN l ELSE Without(th[u], r)]

\* _delete_if_queued on a loser.  One that cannot be deleted is taken to have
\* started, and then a winner still queued is the row to delete.
DeleteLoser(t) ==
    /\ At(t, "dedupe")
    /\ \E d \in th[t].dups : \E r \in d.lose :
        LET l == [th[t] EXCEPT !.dups = (@ \ {d}) \cup {[d EXCEPT !.lose = @ \ {r}]}]
        IN  IF StatusOf(r) = "queued"
            THEN DeleteRow(t, r, Deduped(Without(l, r)))
            ELSE /\ Local(t, IF d.fresh THEN [l EXCEPT !.pc = "delete_winner", !.todo = {r}] ELSE Deduped(l))
                 /\ UNCHANGED <<rows, job>>
    /\ UNCHANGED <<run, saved, trouble>>

DeleteWinner(t) ==
    /\ At(t, "delete_winner")
    /\ \E r \in th[t].todo : \E d \in {d \in th[t].dups : d.win[1] = r[1]} :
        LET l == [th[t] EXCEPT !.todo = {}]
            kept == [l EXCEPT !.dups = (@ \ {d}) \cup {[d EXCEPT !.win = r, !.fresh = FALSE]}]
        IN  IF StatusOf(d.win) = "queued"
            THEN DeleteRow(t, d.win, Deduped(Without(kept, d.win)))
            ELSE Local(t, Deduped(l)) /\ UNCHANGED <<rows, job>>
    /\ UNCHANGED <<run, saved, trouble>>

\* llm_queue.enqueue reuses an active job; an enqueue that fails leaves the
\* group queued without one.
Enqueue(t) ==
    /\ At(t, "enqueue")
    /\ \/ /\ th[t].set = {}
          /\ Local(t, Enqueuing(th[t]))
          /\ UNCHANGED <<job, trouble>>
       \/ \E r \in th[t].set :
          /\ r = CHOOSE s \in th[t].set : TRUE
          /\ \/ job' = WithJob(r, IF job[r] = "none" THEN "queued" ELSE job[r]) /\ UNCHANGED trouble
             \/ Trouble /\ UNCHANGED job
          /\ Local(t, Enqueuing([th[t] EXCEPT !.set = @ \ {r}]))
    /\ UNCHANGED <<run, rows, saved>>

-----------------------------------------------------------------------------
(* Requests: the poll's repairs, resume, cancel, delete.                   *)

\* Queued groups older than REQUEUE_MIN_AGE_SECONDS without a live job: a
\* younger one is still in the hands of a thread that adds its identity.
Orphans ==
    {r \in Rows : /\ rows[r] = "queued" /\ job[r] = "none"
                  /\ \A u \in Threads : r \notin th[u].set /\ r[1] \notin th[u].keys}

NothingActive(S) == \A r \in RowsIn(S) : rows[r] \in GroupTerminal

\* _self_heal.
Poll(t) ==
    LET kick == \/ run.status = "splitting" /\ run.plan # "live"
                \/ run.status = "reading" /\ NothingActive(Keys)
                \/ run.status = "consolidating" /\ NothingActive({Main(1), Main(2)})
                \/ run.status = "rendering" /\ run.old
    IN
    /\ t \in Requests /\ At(t, "idle")
    /\ \/ kick /\ Local(t, Advance(Idle))
       \/ /\ ~kick /\ run.status \in ActiveRun /\ Orphans # {}
          /\ Local(t, [Idle EXCEPT !.pc = "enqueue", !.set = Orphans])
    /\ UNCHANGED <<run, rows, job, saved, trouble>>

\* The groups are read, the run goes back to its stage, its queued groups
\* are enqueued again, and advance runs.
Resume(t) ==
    LET main == RowsIn({Main(1), Main(2)}) # {} IN
    /\ t \in Requests /\ At(t, "idle")
    /\ run.status = "over_cap"
    /\ Calm => \A u \in Threads : ~Deduping(u) /\ th[u].was = "none"
    /\ Local(t, [Idle EXCEPT !.pc = "resume", !.then = "advance",
                             !.was = IF main THEN "consolidating" ELSE "reading",
                             !.set = {r \in Rows : rows[r] = "queued"}])
    /\ UNCHANGED <<run, rows, job, saved, trouble>>

ResumeRun(t) ==
    /\ At(t, "resume")
    /\ Win(t, {"over_cap"}, th[t].was, Enqueuing([th[t] EXCEPT !.was = "none"]))
    /\ UNCHANGED <<rows, job, saved, trouble>>

\* The run, its groups, their queued jobs.
CancelRun(t) ==
    /\ t \in Requests /\ At(t, "idle")
    /\ Trouble
    /\ run.status \notin TerminalRun \cup {"deleted"}
    /\ CasStatus({run.status}, "canceled")
    /\ Goto(t, "cancel_groups")
    /\ UNCHANGED <<rows, job, saved>>

CancelGroups(t) ==
    /\ At(t, "cancel_groups")
    /\ rows' = [r \in Rows |-> IF rows[r] \in ActiveGroup THEN "canceled" ELSE rows[r]]
    /\ Local(t, [th[t] EXCEPT !.pc = "cancel_jobs", !.set = {r \in Rows : rows[r] \in ActiveGroup}])
    /\ UNCHANGED <<run, job, saved, trouble>>

CancelJobs(t) ==
    /\ At(t, "cancel_jobs")
    /\ job' = [r \in Rows |-> IF r \in th[t].set /\ job[r] = "queued" THEN "none" ELSE job[r]]
    /\ Local(t, Idle)
    /\ UNCHANGED <<run, rows, saved, trouble>>

\* delete reads the status and the waiting groups, then claims the run.
Delete(t) ==
    /\ t \in Requests /\ At(t, "idle")
    /\ Trouble
    /\ run.status \in TerminalRun \cup {"over_cap"}
    /\ Calm => \A u \in Threads : ~Advancing(u) /\ th[u].was = "none"
    /\ Local(t, [Idle EXCEPT !.pc = "delete_claim", !.was = run.status,
                             !.set = {r \in Rows : rows[r] \in ActiveGroup}])
    /\ UNCHANGED <<run, rows, job, saved>>

DeleteClaim(t) ==
    /\ At(t, "delete_claim")
    /\ Win(t, {th[t].was}, "canceled", [th[t] EXCEPT !.pc = "delete_check"])
    /\ UNCHANGED <<rows, job, saved, trouble>>

DeleteCheck(t) ==
    /\ At(t, "delete_check")
    /\ Goto(t, IF \E r \in Rows : rows[r] = "running" THEN "undo" ELSE "delete_jobs")
    /\ UNCHANGED <<run, rows, job, saved, trouble>>

\* Canceling a job marks its group failed.
DeleteJobs(t) ==
    LET canceled == {r \in Rows : rows[r] \in ActiveGroup /\ job[r] = "queued"} IN
    /\ At(t, "delete_jobs")
    /\ job' = [r \in Rows |-> IF r \in canceled THEN "none" ELSE job[r]]
    /\ rows' = [r \in Rows |-> IF r \in canceled THEN "failed" ELSE rows[r]]
    /\ Goto(t, "delete_run")
    /\ UNCHANGED <<run, saved, trouble>>

\* The storage is swept and the run deleted with all that hangs on it, or
\* the sweep fails.
DeleteRun(t) ==
    /\ At(t, "delete_run")
    /\ \/ /\ run.status = "canceled"
          /\ run' = [status |-> "deleted", old |-> FALSE, plan |-> run.plan]
          /\ rows' = [r \in Rows |-> "none"] /\ job' = [r \in Rows |-> "none"]
          /\ saved' = [k \in Kinds |-> 0]
          /\ th' = [u \in Threads |-> IF u = t \/ th[u].row = NoRow THEN Idle
                                      ELSE [th[u] EXCEPT !.row = Gone(@)]]
          /\ UNCHANGED trouble
       \/ /\ Trouble
          /\ Goto(t, "undo")
          /\ UNCHANGED <<run, rows, job, saved>>

\* _undo_delete_claim.
UndoDelete(t) ==
    /\ At(t, "undo")
    /\ Win(t, {"canceled"}, th[t].was, [th[t] EXCEPT !.pc = "undo_groups"])
    /\ UNCHANGED <<rows, job, saved, trouble>>

UndoGroups(t) ==
    /\ At(t, "undo_groups")
    /\ rows' = [r \in Rows |-> IF r \in th[t].set /\ rows[r] \in {"failed", "canceled"}
                              THEN "queued" ELSE rows[r]]
    /\ Local(t, Idle)
    /\ UNCHANGED <<run, job, saved, trouble>>

-----------------------------------------------------------------------------
(* Errors, deaths and time.                                                *)

\* A database call of advance raises: a worker's job fails, and its retry
\* finds the group done and advances again.  A planner drops its claim.
Fault(t) ==
    /\ th[t].pc \in AdvancePcs \ {"save"} /\ (Calm => ~Deduping(t))
    /\ Trouble
    /\ IF th[t].row = NoRow THEN Local(t, Idle) /\ UNCHANGED job ELSE FailJob(t, th[t].row)
    /\ run' = IF At(t, "plan") /\ run.status = "splitting" THEN [Touch(run) EXCEPT !.plan = "none"] ELSE run
    /\ UNCHANGED <<rows, saved>>

\* The process of a thread dies; a job it held stays running.
Crash(t) ==
    /\ ~At(t, "idle") /\ (Calm => ~Deduping(t) /\ ~At(t, "undo_groups"))
    /\ Trouble
    /\ Local(t, Idle)
    /\ UNCHANGED <<run, rows, job, saved>>

\* RECOVERY_AFTER_SECONDS without a change: longer than a live thread takes
\* from a decision to its last write on it.
Age ==
    /\ ~run.old /\ run.status \in {"reading", "consolidating", "rendering"}
    /\ \A t \in Threads : Advancing(t) => th[t].pc \in {"advance", "claim_plan"}
    /\ run' = [run EXCEPT !.old = TRUE]
    /\ UNCHANGED <<rows, job, saved, th, trouble>>

ClaimExpires ==
    /\ run.plan = "live" /\ run.status = "splitting"
    /\ \A t \in Threads : ~At(t, "plan")
    /\ run' = [run EXCEPT !.plan = "dead"]
    /\ UNCHANGED <<rows, job, saved, th, trouble>>

-----------------------------------------------------------------------------
GroupStep(t) == PauseRun(t) \/ ClaimGroup(t) \/ Recheck(t) \/ CallModel(t) \/ MarkRow(t) \/ FinishJob(t)

AdvanceStep(t) ==
    \/ ReadRun(t) \/ ClaimPlanning(t) \/ Plan(t) \/ InsertSubs(t) \/ Replan(t)
    \/ Consolidate(t) \/ FailRun(t) \/ TakeRender(t) \/ StartRendering(t) \/ Save(t) \/ CloseRun(t)
    \/ Insert(t) \/ ReadDups(t) \/ DeleteLoser(t) \/ DeleteWinner(t) \/ Enqueue(t)

RequestStep(t) ==
    \/ ResumeRun(t) \/ CancelGroups(t) \/ CancelJobs(t) \/ DeleteClaim(t) \/ DeleteCheck(t)
    \/ DeleteJobs(t) \/ DeleteRun(t) \/ UndoDelete(t) \/ UndoGroups(t)

Step(t) == GroupStep(t) \/ AdvanceStep(t) \/ RequestStep(t)

Take(t) == \E r \in Rows : StartJob(t, r)
Reap(t) == \E r \in Rows : Sweep(t, r)

Next ==
    \/ \E t \in Threads : Step(t) \/ Take(t) \/ Reap(t) \/ Fault(t) \/ Crash(t)
    \/ \E t \in Requests : Poll(t) \/ Resume(t) \/ CancelRun(t) \/ Delete(t)
    \/ Age \/ ClaimExpires

Spec == Init /\ [][Next]_vars

Fairness ==
    /\ \A t \in Threads : WF_vars(Step(t))
    /\ SF_vars(\E t \in Workers : Take(t)) /\ SF_vars(\E t \in Workers : Reap(t))
    /\ WF_vars(\E t \in Requests : Poll(t))
    /\ WF_vars(Age) /\ WF_vars(ClaimExpires)

FairSpec == Spec /\ Fairness

-----------------------------------------------------------------------------
\* Every value is of its kind; what a thread is about to add or to enqueue is
\* an identity of the run, or a row that exists.
TypeOK ==
    /\ run \in [status : RunStatuses, old : BOOLEAN, plan : {"none", "live", "dead"}]
    /\ rows \in [Rows -> {"none", "queued", "running"} \cup GroupTerminal]
    /\ job \in [Rows -> {"none", "queued", "running"}]
    /\ saved \in [Kinds -> Nat] /\ trouble \in 0..MaxTrouble
    /\ \A t \in Threads : th[t].set \subseteq Rows /\ th[t].keys \subseteq Keys

Asked(k) == {t \in Threads : At(t, "call") /\ th[t].row[1] = k}

\* Lost work is repaired, never duplicated: the model is not asked for a group
\* that another row, job or thread is asking for or has an answer to.
PaidOnce ==
    \A k \in Keys : Cardinality(Asked(k)) + Cardinality({r \in RowsOf(k) : rows[r] = "done"}) <= 1

\* A stored answer stays: no retry, mark, cancel or repair writes over it, and
\* no dedupe deletes its row, until a person deletes the run.
AnswerKept ==
    [][\A r \in Rows : rows[r] = "done" => rows'[r] = "done" \/ run'.status = "deleted"]_vars

\* A run that says done has an answer for every group it planned or added
\* (the main group's retry stands for it) and every deliverable; a run that
\* lacks one says done_with_errors.
DoneIsComplete ==
    run.status = "done" =>
        /\ \A k \in SubKeys : \E r \in RowsOf(k) : rows[r] = "done"
        /\ \A k \in Keys \ {Main(1)} : RowsOf(k) # {} => \E r \in RowsOf(k) : rows[r] = "done"
        /\ \E r \in RowsIn({Main(1), Main(2)}) : rows[r] = "done"
        /\ \A k \in Kinds : saved[k] >= 1

\* A group that was canceled under a delete that did not go through is missing
\* like any failed group: the run that goes on without it does not say done.
CanceledCounts == run.status = "done" => \A r \in Rows : rows[r] # "canceled"

\* However many threads advance, die and take over, every deliverable is saved
\* once: its second version would come from no change anybody asked for.
RenderedOnce == \A k \in Kinds : saved[k] <= 1

Resting == run.status \in TerminalRun \cup {"over_cap", "deleted"}

\* A group at running whose job has ended and that no thread has in hand: the
\* worker died between the job's terminal write and the mark of the row, or
\* the mark raised.  The repairs look at queued groups only.
Stranded ==
    \E r \in Rows : /\ rows[r] = "running" /\ job[r] = "none"
                   /\ \A t \in Threads : th[t].row # r

\* A run comes to rest, unless a lost mark stranded one of its groups: what a
\* death at any other place, a failed enqueue or a lost advance left behind is
\* taken up again, as long as somebody keeps the page open.
EveryRunRests == []<>(Resting \/ Stranded)

\* "A poll's safety net": every run comes to rest.  A stranded group keeps it
\* from that until a person cancels the run (no run checks this form).
EveryRunRestsUnaided == []<>Resting

\* No step deletes the last row of an identity of a live run.
KeyKept ==
    [][run.status # "deleted" /\ run'.status # "deleted" =>
        \A k \in Keys : RowsOf(k) # {} => \E r \in Rows : r[1] = k /\ rows'[r] # "none"]_vars
=============================================================================
