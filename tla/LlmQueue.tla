------------------------------ MODULE LlmQueue ------------------------------
(***************************************************************************)
(* The durable job queue of app/services/llm_queue.py: the llm_jobs table, *)
(* the worker loop of every uvicorn process (sweep, claim, execute), the   *)
(* monitor's cancel and retry, and the domain row each job reports to.     *)
(*                                                                         *)
(* Every database call is one atomic step.  Two calls made one after the   *)
(* other by the same handler are two steps, and any other process may act  *)
(* in between.  A process may die between any two of its steps.            *)
(***************************************************************************)
EXTENDS Naturals, FiniteSets

CONSTANTS
    Workers,      \* process tokens; a restarted process is a new token
    Materials,    \* general_material_estimates rows (one per project, rerun)
    Analyses,     \* boq_analyses and proposal_drafts rows (a row per run)
    Chats,        \* plans_reader_chat_messages rows
    Runs,         \* rfp_ingest_runs rows (the sandbox)
    NoTarget,     \* target of a job id not in the table yet
    NoWorker,     \* claimed_by is null
    Concurrency,  \* jobs a process runs at once
    Delays,       \* number of entries of LLM_QUEUE_RETRY_DELAYS
    Timely,       \* do leases and delays outlast the live step that set them?
    MaxJobs,      \* bound: rows ever inserted into llm_jobs
    MaxCrashes,   \* bound: processes that die
    MaxStops,     \* bound: processes told to shut down
    MaxFaults,    \* bound: database calls that raise
    MaxCommands   \* bound: starts of a material row, retries, cancels, releases

Targets == Materials \cup Analyses \cup Chats \cup Runs
JobIds  == 1..MaxJobs       \* in created_at order

ASSUME QueueAssumption ==
    /\ Concurrency \in Nat \ {0} /\ Delays \in Nat /\ MaxJobs \in Nat
    /\ Timely \in BOOLEAN
    /\ NoWorker \notin Workers /\ NoTarget \notin Targets
    /\ Materials \cap (Analyses \cup Chats \cup Runs) = {}
    /\ Analyses \cap (Chats \cup Runs) = {} /\ Chats \cap Runs = {}

ASSUME BoundAssumption ==
    {MaxCrashes, MaxStops, MaxFaults, MaxCommands} \subseteq Nat

VARIABLES
    jobs,      \* the llm_jobs table
    domain,    \* the status column of each target's domain row
    execs,     \* threads inside _execute
    sweep,     \* each worker's sweep in progress
    ops,       \* route handlers between two of their database calls
    process,   \* "up", "stopping" (shutdown event set) or "dead"
    faults,    \* database calls that raised so far
    commands   \* operator commands so far

vars == <<jobs, domain, execs, sweep, ops, process, faults, commands>>

-----------------------------------------------------------------------------
Active   == {"queued", "running"}
Terminal == {"succeeded", "failed", "canceled"}

\* Domain rows the queue and the job update unconditionally; the rest are
\* only ever moved by a compare-and-swap from an in-flight status.
Open     == Materials \cup Analyses
InFlight == {"pending", "running"}
DomainStatuses == InFlight \cup {"none", "done", "failed", "canceled"}

JobRow == [status: Active \cup Terminal \cup {"absent"},
           target: Targets \cup {NoTarget}, attempts: Nat,
           owner: Workers \cup {NoWorker}, lapsed: BOOLEAN, due: BOOLEAN]

\* What a claim remembers of its row; every later write is fenced on it.
Claims == [job: JobIds, attempt: Nat, worker: Workers]
Execs  == [job: JobIds, attempt: Nat, worker: Workers,
           pc: {"start", "work", "finish", "transient", "permanent",
                "force", "pending", "failed"}]
OpSteps == {"enqueue", "dispatch", "redispatch", "cancel", "pending", "failed",
            "inline_pending", "inline", "begun"}
\* Handlers are told apart by the number of the command that began them.
Ops    == [worker: Workers, target: Targets, n: Nat, step: OpSteps]
Sweeps == [todo: SUBSET Claims, mark: SUBSET (Targets \X {"pending", "failed"})]

NoRow == [status |-> "absent", target |-> NoTarget, attempts |-> 0,
          owner |-> NoWorker, lapsed |-> FALSE, due |-> FALSE]
Idle  == [todo |-> {}, mark |-> {}]

Init ==
    /\ jobs = [j \in JobIds |-> NoRow]
    /\ domain = [t \in Targets |-> "none"]
    /\ execs = {}
    /\ sweep = [w \in Workers |-> Idle]
    /\ ops = {}
    /\ process = [w \in Workers |-> "up"]
    /\ faults = 0
    /\ commands = 0

MaxAttempts == 1 + Delays

ActiveJobs(t) == {j \in JobIds : jobs[j].target = t /\ jobs[j].status \in Active}

\* Slip: the owner alone, which is per process and not per claim.
Slip_FenceOwner(c) ==
    jobs[c.job].status = "running" /\ jobs[c.job].owner = c.worker

(***************************************************************************)
(* _cas_job: still running, still ours, still this attempt.                *)
(***************************************************************************)
Fence(c) ==
    /\ jobs[c.job].status = "running"
    /\ jobs[c.job].owner = c.worker
    /\ jobs[c.job].attempts = c.attempt

\* Slip: the domain's word for waiting, not the queue's.
Slip_Requeued(row, due) == [row EXCEPT !.status = "pending", !.due = due]

\* What a write that requeues or closes a row leaves in it.
Requeued(row, due) == [row EXCEPT !.status = "queued", !.owner = NoWorker,
                                  !.lapsed = FALSE, !.due = due]
Closed(row, s)     == [row EXCEPT !.status = s, !.owner = NoWorker,
                                  !.lapsed = FALSE]

\* Slip: the mark of a chat or a run without its fence.
Slip_Mark(t, s) == [domain EXCEPT ![t] = s]

\* The domain rows after a queue mark of s on t.
Mark(t, s) == IF t \in Open \/ domain[t] \in InFlight
              THEN [domain EXCEPT ![t] = s] ELSE domain

\* A database call that raises, or a command: each spends its bound.
Fault   == faults < MaxFaults /\ faults' = faults + 1
Command == commands < MaxCommands /\ commands' = commands + 1

-----------------------------------------------------------------------------
(* The work itself, the same in a claimed job and in a handler's fallback. *)

\* May the work at t begin?  Slip: only a pending run, as for a chat.
Slip_MayBegin(t) == t \in Open \/ domain[t] = "pending"
MayBegin(t) == \/ t \in Open \/ domain[t] = "pending"
               \/ t \in Runs /\ domain[t] = "running"

\* Does the job's own terminal mark land?
MayEnd(t) == \/ t \in Open \/ domain[t] = "running"
             \/ t \in Runs /\ domain[t] = "pending"

\* The work marks its domain row running.
Begins(t) == MayBegin(t) /\ domain' = [domain EXCEPT ![t] = "running"]

\* The work's own terminal mark.  Analyses and materials always take it; a
\* chat only from running, a run from pending or running.  A chat or a run
\* records its own failures and returns normally.
Ends(t) ==
    \/ /\ MayEnd(t)
       /\ \E s \in IF t \in Open THEN {"done"} ELSE {"done", "failed"} :
             domain' = [domain EXCEPT ![t] = s]
    \/ ~ MayEnd(t) /\ UNCHANGED domain

-----------------------------------------------------------------------------
(* Route handlers.  Each op is what is left of a handler in one process,   *)
(* its background task or thread included.                                 *)

Op(w, s, t, n) == [worker |-> w, step |-> s, target |-> t, n |-> n]
Then(o, s)     == ops' = (ops \ {o}) \cup {[o EXCEPT !.step = s]}
Return(o)      == ops' = ops \ {o}

\* A fresh pending row; the handler's next call enqueues its job.
StartRow(w, t) ==
    /\ process[w] = "up" /\ t \notin Materials
    /\ domain[t] = "none"
    /\ domain' = [domain EXCEPT ![t] = "pending"]
    /\ ops' = ops \cup {Op(w, "enqueue", t, 0)}
    /\ UNCHANGED <<jobs, execs, sweep, process, faults, commands>>

\* The general-material start enqueues first and writes pending afterwards;
\* an estimator's submit only enqueues.
StartMaterial(w, t) ==
    /\ process[w] = "up" /\ t \in Materials
    /\ Command
    /\ \E s \in {"dispatch", "enqueue"} :
          ops' = ops \cup {Op(w, s, t, commands')}
    /\ UNCHANGED <<jobs, domain, execs, sweep, process, faults>>

\* Slip: an insert with no unique index behind it.
Slip_Enqueue(t) ==
    \E j \in JobIds :
        /\ jobs[j].status = "absent"
        /\ \A i \in JobIds : i < j => jobs[i].status # "absent"
        /\ jobs' = [jobs EXCEPT ![j] = [NoRow EXCEPT
                         !.status = "queued", !.target = t, !.due = TRUE]]

\* enqueue(): the partial unique index lets one active job per target in; the
\* loser is handed the existing job.
Enqueue(t) ==
    \/ /\ ActiveJobs(t) = {}
       /\ \E j \in JobIds :
             /\ jobs[j].status = "absent"
             /\ \A i \in JobIds : i < j => jobs[i].status # "absent"
             /\ jobs' = [jobs EXCEPT ![j] = [NoRow EXCEPT
                              !.status = "queued", !.target = t, !.due = TRUE]]
    \/ ActiveJobs(t) # {} /\ UNCHANGED jobs

\* An enqueue that raises, whether or not its row landed, is caught: the
\* handler runs the target itself, in a background task or a thread.
EnqueueStep(o) ==
    /\ o \in ops /\ o.step = "enqueue"
    /\ \/ Enqueue(o.target) /\ Return(o) /\ UNCHANGED faults
       \/ (Enqueue(o.target) \/ UNCHANGED jobs) /\ Then(o, "inline") /\ Fault
    /\ UNCHANGED <<domain, execs, sweep, process, commands>>

\* The material start (dispatch) or the monitor's retry (redispatch).  A
\* strict start that collapses onto a running job is a 409 and marks nothing.
\* Of an error the start runs the target itself, after its pending mark and
\* its answer; the retry's is a 500.
DispatchStep(o) ==
    /\ o \in ops /\ o.step \in {"dispatch", "redispatch"}
    /\ \/ /\ Enqueue(o.target) /\ UNCHANGED faults
          /\ \/ Then(o, "pending")
             \/ /\ o.step = "dispatch"
                /\ \E j \in ActiveJobs(o.target) : jobs[j].status = "running"
                /\ Return(o)
       \/ /\ Enqueue(o.target) \/ UNCHANGED jobs
          /\ Fault
          /\ IF o.step = "dispatch" THEN Then(o, "inline_pending") ELSE Return(o)
    /\ UNCHANGED <<domain, execs, sweep, process, commands>>

\* The handler's late domain mark; an error in it is swallowed.
OpMark(o) ==
    /\ o \in ops /\ o.step \in {"pending", "failed"}
    /\ \/ domain' = Mark(o.target, o.step) /\ UNCHANGED faults
       \/ UNCHANGED domain /\ Fault
    /\ Return(o)
    /\ UNCHANGED <<jobs, execs, sweep, process, commands>>

\* The pending mark of a start that fell back: its error is the handler's,
\* and the background task never runs.
InlinePending(o) ==
    /\ o \in ops /\ o.step = "inline_pending"
    /\ \/ domain' = Mark(o.target, "pending") /\ Then(o, "inline") /\ UNCHANGED faults
       \/ UNCHANGED domain /\ Return(o) /\ Fault
    /\ UNCHANGED <<jobs, execs, sweep, process, commands>>

\* requeue_terminal(): only the newest job of the target, and only while the
\* domain row has not completed.  A settled fenced row reads as done.
Retryable(j) ==
    /\ jobs[j].status \in {"failed", "canceled"}
    /\ \A i \in JobIds : jobs[i].target = jobs[j].target => i <= j
    /\ IF jobs[j].target \in Open THEN domain[jobs[j].target] # "done"
                                  ELSE domain[jobs[j].target] \in InFlight

Retry(w, j) ==
    /\ process[w] = "up" /\ Retryable(j)
    /\ Command
    /\ ops' = ops \cup {Op(w, "redispatch", jobs[j].target, commands')}
    /\ UNCHANGED <<jobs, domain, execs, sweep, process, faults>>

\* Slip: an update by id alone.
Slip_Cancelable(j) == jobs[j].status # "absent"

\* cancel(): queued jobs, and running ones whose lease has expired.
Cancelable(j) == \/ jobs[j].status = "queued"
                 \/ jobs[j].status = "running" /\ jobs[j].lapsed

Cancel(w, j) ==
    /\ process[w] = "up" /\ Cancelable(j)
    /\ Command
    /\ jobs' = [jobs EXCEPT ![j] = Closed(@, "canceled")]
    /\ ops' = ops \cup {Op(w, "failed", jobs[j].target, commands')}
    /\ UNCHANGED <<domain, execs, sweep, process, faults>>

\* The release of stranded jobs (queue disabled, project restored): any
\* active job is failed, then its domain row.
Release(w, j) ==
    /\ process[w] = "up" /\ jobs[j].status \in Active
    /\ Command
    /\ jobs' = [jobs EXCEPT ![j] = Closed(@, "failed")]
    /\ ops' = ops \cup {Op(w, "failed", jobs[j].target, commands')}
    /\ UNCHANGED <<domain, execs, sweep, process, faults>>

\* rfp_ingest.cancel_run(): the run row first, then its job.
CancelRun(w, t) ==
    /\ process[w] = "up" /\ t \in Runs /\ domain[t] \in InFlight
    /\ Command
    /\ domain' = [domain EXCEPT ![t] = "canceled"]
    /\ ops' = ops \cup {Op(w, "cancel", t, commands')}
    /\ UNCHANGED <<jobs, execs, sweep, process, faults>>

CancelJobStep(o) ==
    /\ o \in ops /\ o.step = "cancel"
    /\ \/ \E j \in ActiveJobs(o.target) :
             /\ Cancelable(j)
             /\ jobs' = [jobs EXCEPT ![j] = Closed(@, "canceled")]
             /\ Then(o, "failed")
       \/ /\ ~ \E j \in ActiveJobs(o.target) : Cancelable(j)
          /\ UNCHANGED jobs /\ Return(o)
    /\ UNCHANGED <<domain, execs, sweep, process, faults, commands>>

\* The fallback of a handler whose enqueue raised: the same work, outside
\* the job table.
InlineStart(o) ==
    /\ o \in ops /\ o.step = "inline"
    /\ \/ Begins(o.target) /\ Then(o, "begun")
       \/ ~ MayBegin(o.target) /\ UNCHANGED domain /\ Return(o)
    /\ UNCHANGED <<jobs, execs, sweep, process, faults, commands>>

InlineDone(o) ==
    /\ o \in ops /\ o.step = "begun"
    /\ Ends(o.target)
    /\ Return(o)
    /\ UNCHANGED <<jobs, execs, sweep, process, faults, commands>>

\* Nothing retries the fallback: it marks its row failed, a run also when it
\* was stopped.  A chat's thread swallows the error of its last write, which
\* is not counted against the bound, and leaves its row as it is.
InlineFails(o) ==
    /\ o \in ops /\ o.step \in {"inline", "begun"}
    /\ IF o.target \in Chats THEN Return(o) ELSE Then(o, "failed")
    /\ UNCHANGED <<jobs, domain, execs, sweep, process, faults, commands>>

-----------------------------------------------------------------------------
(* The worker loop: a sweep, then a claim.                                 *)

Due == {j \in JobIds : jobs[j].status = "queued" /\ jobs[j].due}
Capacity(w) == Concurrency - Cardinality({e \in execs : e.worker = w})

\* The rows claim_llm_jobs() takes: the oldest k of the due ones.
Oldest(k) == {j \in Due : Cardinality({i \in Due : i < j}) < k}

\* Slip: the attempt is counted when it ends, not when it is claimed.
Slip_Claimed(w, row) == [row EXCEPT !.status = "running", !.owner = w,
                                    !.lapsed = FALSE]

Claimed(w, row) == [row EXCEPT !.status = "running", !.owner = w,
                               !.lapsed = FALSE, !.attempts = @ + 1]

\* A claim whose answer is lost leaves running rows that no thread executes.
Claim(w) ==
    /\ process[w] = "up" /\ sweep[w] = Idle
    /\ Due # {} /\ Cardinality({e \in execs : e.worker = w}) < Concurrency
    /\ LET batch == Oldest(Capacity(w)) IN
       /\ jobs' = [j \in JobIds |-> IF j \in batch THEN Claimed(w, jobs[j])
                                                   ELSE jobs[j]]
       /\ \/ /\ execs' = execs \cup
                   {[job |-> j, attempt |-> jobs[j].attempts + 1, worker |-> w,
                     pc |-> "start"] : j \in batch}
             /\ UNCHANGED faults
          \/ Fault /\ UNCHANGED execs
    /\ UNCHANGED <<domain, sweep, ops, process, commands>>

\* Slips: running jobs whatever their lease; only this process's own jobs.
Slip_Expired(w) == {j \in JobIds : jobs[j].status = "running"}
Slip_OwnExpired(w) == {j \in JobIds : jobs[j].status = "running"
                                       /\ jobs[j].lapsed /\ jobs[j].owner = w}

\* _sweep() reads the expired leases once and then works through the list.
Expired(w) == {j \in JobIds : jobs[j].status = "running" /\ jobs[j].lapsed}

SweepSelect(w) ==
    /\ process[w] = "up" /\ sweep[w] = Idle /\ Expired(w) # {}
    /\ sweep' = [sweep EXCEPT ![w].todo =
          {[job |-> j, attempt |-> jobs[j].attempts,
            worker |-> jobs[j].owner] : j \in Expired(w)}]
    /\ UNCHANGED <<jobs, domain, execs, ops, process, faults, commands>>

\* Requeue a job with attempts left, fail the others.  The fence does not
\* look at the lease again.  An error ends the whole sweep.
SweepVerdict(c) == IF c.attempt < MaxAttempts THEN "pending" ELSE "failed"

SweepCas(w, c) ==
    /\ process[w] \in {"up", "stopping"}
    /\ sweep[w].mark = {} /\ c \in sweep[w].todo
    /\ \/ /\ Fence(c)
          /\ jobs' = [jobs EXCEPT ![c.job] =
                         IF SweepVerdict(c) = "pending" THEN Requeued(@, TRUE)
                                                        ELSE Closed(@, "failed")]
          /\ sweep' = [sweep EXCEPT ![w] = [todo |-> @.todo \ {c},
                         mark |-> {<<jobs[c.job].target, SweepVerdict(c)>>}]]
          /\ UNCHANGED faults
       \/ /\ ~ Fence(c)
          /\ sweep' = [sweep EXCEPT ![w].todo = @ \ {c}]
          /\ UNCHANGED <<jobs, faults>>
       \/ /\ Fault
          /\ sweep' = [sweep EXCEPT ![w] = Idle]
          /\ UNCHANGED jobs
    /\ UNCHANGED <<domain, execs, ops, process, commands>>

SweepMark(w) ==
    /\ process[w] \in {"up", "stopping"}
    /\ \E m \in sweep[w].mark :
          \/ domain' = Mark(m[1], m[2]) /\ UNCHANGED faults
          \/ UNCHANGED domain /\ Fault
    /\ sweep' = [sweep EXCEPT ![w].mark = {}]
    /\ UNCHANGED <<jobs, execs, ops, process, commands>>

-----------------------------------------------------------------------------
(* One claimed job: _execute() and the failure handler.                    *)

Goal(e) == jobs[e.job].target
Goto(e, pc) == execs' = (execs \ {e}) \cup {[e EXCEPT !.pc = pc]}
End(e)      == execs' = execs \ {e}

\* A chat or a run that cannot begin has nothing to do and returns normally.
WorkStart(e) ==
    /\ e \in execs /\ e.pc = "start"
    /\ \/ Begins(Goal(e)) /\ Goto(e, "work")
       \/ ~ MayBegin(Goal(e)) /\ UNCHANGED domain /\ Goto(e, "finish")
    /\ UNCHANGED <<jobs, sweep, ops, process, faults, commands>>

WorkDone(e) ==
    /\ e \in execs /\ e.pc = "work"
    /\ Ends(Goal(e))
    /\ Goto(e, "finish")
    /\ UNCHANGED <<jobs, sweep, ops, process, faults, commands>>

\* The run raises: a model or infrastructure error, or, in a chat that
\* otherwise records its own failures, a database error.
WorkFails(e) ==
    /\ e \in execs /\ e.pc \in {"start", "work"}
    /\ IF Goal(e) \in Chats THEN Fault ELSE UNCHANGED faults
    /\ Goto(e, "transient") \/ Goto(e, "permanent")
    /\ UNCHANGED <<jobs, domain, sweep, ops, process, commands>>

\* A run stops when its row is no longer running (canceled, or marked).
Abandon(e) ==
    /\ e \in execs /\ e.pc = "work"
    /\ Goal(e) \in Runs /\ domain[Goal(e)] # "running"
    /\ Goto(e, "finish")
    /\ UNCHANGED <<jobs, domain, sweep, ops, process, faults, commands>>

\* renew_lease(): a lost fence ends a run silently and raises in a chat.
Renew(e) ==
    /\ e \in execs /\ e.pc = "work" /\ Goal(e) \in Chats \cup Runs
    /\ \/ /\ Fence(e) /\ jobs[e.job].lapsed
          /\ jobs' = [jobs EXCEPT ![e.job].lapsed = FALSE]
          /\ UNCHANGED execs
       \/ /\ ~ Fence(e)
          /\ Goto(e, IF Goal(e) \in Runs THEN "finish" ELSE "transient")
          /\ UNCHANGED jobs
    /\ UNCHANGED <<domain, sweep, ops, process, faults, commands>>

\* requeue_self(): a run interrupted by the shutdown of its process hands its
\* job back.  If that fails or the call raises, the run still returns normally.
HandBack(e) ==
    /\ e \in execs /\ e.pc = "work"
    /\ Goal(e) \in Runs /\ process[e.worker] = "stopping"
    /\ \/ /\ Fence(e)
          /\ jobs' = [jobs EXCEPT ![e.job] = Requeued(@, TRUE)]
          /\ End(e) /\ UNCHANGED faults
       \/ ~ Fence(e) /\ Goto(e, "finish") /\ UNCHANGED <<jobs, faults>>
       \/ Fault /\ Goto(e, "finish") /\ UNCHANGED jobs
    /\ UNCHANGED <<domain, sweep, ops, process, commands>>

\* The success mark; an error in it leaves the row to the sweep.
Finish(e) ==
    /\ e \in execs /\ e.pc = "finish"
    /\ \/ /\ Fence(e)
          /\ jobs' = [jobs EXCEPT ![e.job] = Closed(@, "succeeded")]
          /\ UNCHANGED faults
       \/ ~ Fence(e) /\ UNCHANGED <<jobs, faults>>
       \/ Fault /\ UNCHANGED jobs
    /\ End(e)
    /\ UNCHANGED <<domain, sweep, ops, process, commands>>

\* The failure handler: back off while there is a delay left for a transient
\* failure, otherwise fail.  A lost fence writes nothing.  An error of the
\* call, whose write may have landed, ends in the forced terminal write.
HandleFailure(e) ==
    LET again == e.pc = "transient" /\ e.attempt <= Delays
        after == [jobs EXCEPT ![e.job] = IF again THEN Requeued(@, FALSE)
                                                  ELSE Closed(@, "failed")]
    IN  /\ e \in execs /\ e.pc \in {"transient", "permanent"}
        /\ \/ /\ Fence(e) /\ jobs' = after
              /\ Goto(e, IF again THEN "pending" ELSE "failed")
              /\ UNCHANGED faults
           \/ ~ Fence(e) /\ End(e) /\ UNCHANGED <<jobs, faults>>
           \/ /\ Fault /\ Goto(e, "force")
              /\ UNCHANGED jobs \/ (Fence(e) /\ jobs' = after)
        /\ UNCHANGED <<domain, sweep, ops, process, commands>>

ForceFailed(e) ==
    /\ e \in execs /\ e.pc = "force"
    /\ \/ /\ Fence(e)
          /\ jobs' = [jobs EXCEPT ![e.job] = Closed(@, "failed")]
          /\ Goto(e, "failed") /\ UNCHANGED faults
       \/ ~ Fence(e) /\ End(e) /\ UNCHANGED <<jobs, faults>>
       \/ Fault /\ End(e) /\ UNCHANGED jobs
    /\ UNCHANGED <<domain, sweep, ops, process, commands>>

\* _mark_domain(): the next call after the fenced write; errors are swallowed.
ExecMark(e) ==
    /\ e \in execs /\ e.pc \in {"pending", "failed"}
    /\ \/ domain' = Mark(Goal(e), e.pc) /\ UNCHANGED faults
       \/ UNCHANGED domain /\ Fault
    /\ End(e)
    /\ UNCHANGED <<jobs, sweep, ops, process, commands>>

-----------------------------------------------------------------------------
(* Time, shutdown and crashes.                                             *)

Lapse(j) ==
    /\ jobs[j].status = "running" /\ ~ jobs[j].lapsed
    /\ Timely => ~ \E e \in execs : e.job = j /\ Fence(e)
    /\ jobs' = [jobs EXCEPT ![j].lapsed = TRUE]
    /\ UNCHANGED <<domain, execs, sweep, ops, process, faults, commands>>

BecomeDue(j) ==
    /\ jobs[j].status = "queued" /\ ~ jobs[j].due
    /\ Timely => ~ \E e \in execs : e.job = j
    /\ jobs' = [jobs EXCEPT ![j].due = TRUE]
    /\ UNCHANGED <<domain, execs, sweep, ops, process, faults, commands>>

Gone(s) == Cardinality({w \in Workers : process[w] = s})

\* Shutdown: no new request, claim or sweep; running threads are waited for.
Stop(w) ==
    /\ process[w] = "up" /\ Gone("stopping") < MaxStops
    /\ process' = [process EXCEPT ![w] = "stopping"]
    /\ UNCHANGED <<jobs, domain, execs, sweep, ops, faults, commands>>

Crash(w) ==
    /\ process[w] # "dead" /\ Gone("dead") < MaxCrashes
    /\ process' = [process EXCEPT ![w] = "dead"]
    /\ execs' = {e \in execs : e.worker # w}
    /\ ops' = {o \in ops : o.worker # w}
    /\ sweep' = [sweep EXCEPT ![w] = Idle]
    /\ UNCHANGED <<jobs, domain, faults, commands>>

-----------------------------------------------------------------------------
HandlerStep(o) ==
    \/ EnqueueStep(o) \/ DispatchStep(o) \/ OpMark(o) \/ CancelJobStep(o)
    \/ InlinePending(o) \/ InlineStart(o) \/ InlineDone(o) \/ InlineFails(o)

Start(w) ==
    \/ \E t \in Targets : StartRow(w, t) \/ StartMaterial(w, t) \/ CancelRun(w, t)
    \/ \E j \in JobIds : Retry(w, j) \/ Cancel(w, j) \/ Release(w, j)

SweepStep(w) == SweepMark(w) \/ \E c \in sweep[w].todo : SweepCas(w, c)
LoopStep(w)  == Claim(w) \/ SweepSelect(w) \/ SweepStep(w)

ExecStep(e) ==
    \/ WorkStart(e) \/ WorkDone(e) \/ WorkFails(e) \/ Abandon(e)
    \/ HandBack(e) \/ Finish(e) \/ HandleFailure(e) \/ ForceFailed(e)
    \/ ExecMark(e)

Next ==
    \/ \E w \in Workers : Start(w) \/ LoopStep(w) \/ Stop(w) \/ Crash(w)
    \/ \E o \in ops : HandlerStep(o)
    \/ \E e \in execs : ExecStep(e) \/ Renew(e)
    \/ \E j \in JobIds : Lapse(j) \/ BecomeDue(j)

Spec == Init /\ [][Next]_vars

(***************************************************************************)
(* Live processes keep running their loop, threads and handlers; leases    *)
(* and delays run out.  Nothing obliges a command, a stop or a crash.      *)
(***************************************************************************)
Fairness ==
    /\ \A w \in Workers :
          /\ WF_vars(Claim(w)) /\ WF_vars(SweepSelect(w)) /\ WF_vars(SweepStep(w))
          /\ WF_vars(\E e \in execs : e.worker = w /\ ExecStep(e))
          /\ WF_vars(\E o \in ops : o.worker = w /\ HandlerStep(o))
    /\ \A j \in JobIds : WF_vars(Lapse(j)) /\ WF_vars(BecomeDue(j))

FairSpec == Spec /\ Fairness

-----------------------------------------------------------------------------
(* Correctness.                                                            *)

\* Types of the state.
TypeOK ==
    /\ jobs \in [JobIds -> JobRow]
    /\ domain \in [Targets -> DomainStatuses]
    /\ execs \subseteq Execs
    /\ sweep \in [Workers -> Sweeps]
    /\ ops \subseteq Ops
    /\ process \in [Workers -> {"up", "stopping", "dead"}]
    /\ faults \in Nat /\ commands \in Nat

\* However leases lapse and jobs are reclaimed, also by the process whose
\* thread still runs the stale attempt, at most one thread can write the row.
OneOwner ==
    \A e1, e2 \in execs :
        e1.job = e2.job /\ Fence(e1) /\ Fence(e2) => e1 = e2

\* Double starts, retries and strict starts never put two active jobs on one
\* target (llm_jobs_active_target_uq).
OneActiveJob == \A t \in Targets : \A i, j \in ActiveJobs(t) : i = j

\* A settled job stays as it is, whichever stale thread, sweep, cancel or
\* release still holds a copy of its row.
SettledJobIsFinal ==
    [][\A j \in JobIds : jobs[j].status \in Terminal => jobs'[j] = jobs[j]]_vars

\* A chat answer or a run that is done, failed or canceled is never flipped
\* by a late mark of the queue or by a stale attempt.  (rfp_ingest.retry_run,
\* a person's retry of the row itself, is not an action of this module.)
SettledRowIsFinal ==
    [][\A t \in Targets \ Open :
          domain[t] \in {"done", "failed", "canceled"} => domain'[t] = domain[t]]_vars

\* Who is at work on a target: threads that claimed its job, and fallbacks.
Claimants(t) == {e \in execs : e.pc \in {"start", "work"} /\ Goal(e) = t}
Fallbacks(t) == {o \in ops : o.step \in {"inline", "begun"} /\ o.target = t}

\* While leases outlast attempts, at most one thread that claimed a job works
\* on a target, also across crashes, sweeps and lost answers.  A second one
\* is only ever the fallback of a call that raised.
NoOverlap ==
    Timely => \A t \in Targets : /\ \A e1, e2 \in Claimants(t) : e1 = e2
                                 /\ faults = 0 => Fallbacks(t) = {}

\* What boq_analysis.py says of itself, "One paid extraction at a time per
\* project".  It fails (no run checks it): an insert that lands and then
\* raises leaves the fallback and a claimed job at work on one target.
OnePaidRun ==
    Timely => \A t \in Targets : Cardinality(Claimants(t) \cup Fallbacks(t)) <= 1

\* A chat answer or a run whose job succeeded is no longer in flight: the
\* success was not the return of a thread that found nothing to do.
SucceededRowSettled ==
    \A j \in JobIds :
        jobs[j].status = "succeeded" /\ jobs[j].target \notin Open
        => domain[jobs[j].target] \notin InFlight

\* A material row turns pending only while a job for it exists.
PendingHasJob ==
    [][\A t \in Materials :
          domain[t] # "pending" /\ domain'[t] = "pending" => ActiveJobs(t) # {}]_vars

\* Every queued job is eventually settled, whatever crashes and errors.
EveryJobSettles ==
    \A j \in JobIds : jobs[j].status = "queued" ~> jobs[j].status \in Terminal

Undisturbed == faults = 0 /\ Gone("dead") = 0

\* Every pending row eventually leaves pending and running, so the page that
\* polls it stops polling, unless a process dies or a database call raises.
EveryRowSettles ==
    \A t \in Targets :
        domain[t] = "pending" ~> domain[t] \notin InFlight \/ ~ Undisturbed

\* The queue implements the ledger: leases, sweeps, stale threads and lost
\* calls never make a job held twice, revive it or lose count of its turns.
Ledger == INSTANCE JobLedger WITH
    Jobs <- JobIds, Owners <- Workers, Nobody <- NoWorker,
    Goals <- Targets, NoGoal <- NoTarget,
    phase <- [j \in JobIds |-> jobs[j].status],
    goal <- [j \in JobIds |-> jobs[j].target],
    holder <- [j \in JobIds |-> jobs[j].owner],
    turns <- [j \in JobIds |-> jobs[j].attempts]

ImplementsLedger == Ledger!Spec
=============================================================================
