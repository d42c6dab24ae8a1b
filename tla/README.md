# BDR: specifications, checks and proofs

This directory is the verification project of the BDR API (`src/app`): TLA+ modules for the parts
whose correctness depends on what several processes, people and failing calls do in which order, the
TLC configurations that check them, and TLAPS proofs of what matters most in them.

- [The system](#the-system)
- [Modules](#modules)
- [The job queue](#the-job-queue-llmqueue)
- [The admission gate](#the-admission-gate-llmgate)
- [Auto send](#auto-send-autosend)
- [Send Out](#send-out-proposalsend)
- [The stage machine](#the-stage-machine-workflowstages)
- [AI Estimating runs](#ai-estimating-runs-plansruns)
- [Merge decisions](#merge-decisions-projectmatches)
- [Runs](#runs)
- [Proofs](#proofs)
- [What the runs found](#what-the-runs-found)
- [Not modelled](#not-modelled)
- [Inventory](#inventory)
- [Plan](#plan)

## The system

BDR runs the bidding of an electrical contractor: invitations arrive by email and from bid portals,
become projects, are estimated (by people and by models reading the plans), and a proposal goes out
to every general contractor (GC) of the project. The backend is a FastAPI application. Two uvicorn
processes serve requests, and `app/main.py`'s `lifespan` starts the same set of polling loops in
*both* of them: the job queue's `worker_loop`, the auto send scheduler, the email and portal intake,
reminders and digests, and others. There is no coordinator. What keeps the two processes apart is the
Postgres database, reached through PostgREST:

- a call is atomic, but a handler that makes two calls is not: any other process can act in between,
  and the process can die in between;
- the exceptions are the database functions (`claim_llm_jobs`, `apply_auto_send_acceptance`, `apply_external_submission`, ...), which
  run as one transaction;
- mutual exclusion comes from unique indexes (an insert the loser sees as error 23505), from
  compare-and-set updates (`update ... where id = and status =`), and from leases and heartbeats that
  a survivor acts on when they lapse;
- outside calls (a model, Microsoft Graph) cost money or cannot be taken back, may time out with an
  unknown outcome, and are not covered by any transaction.

The models keep exactly this: **every database call that writes is one step**, a group of reads that
decides one branch is one step, and everything else may happen between two steps. Anything that is
only data (documents, prices, prompts, wording) is abstracted to what the properties tell apart.

How the modelled parts interact: a route handler writes a domain row (an analysis, a chat answer, a
sandbox run) and enqueues a job; a worker claims the job, marks the domain row running, does the work
(each model call passes the admission gate of its process), and the queue writes the job's and then
the domain row's outcome. Auto send is driven by its own poller and by people; it shares with Send
Out the `proposal_sends` rows that say a person was faster. Send Out itself belongs to a bid that the
stage machine has brought to its Send Out task, and a price that changes afterwards pulls the bid back
to Verify there. An AI Estimating run is many jobs of the queue: each group of sheets is one, and the
thread that ends a group, or a poll of the page, moves the run on. Before all of this, an invitation that
arrives by email is matched against the projects there are: a merge puts its GC on one of them, which
is the link that Send Out then works on.

## Modules

| module | models | EXTENDS / instantiates |
| --- | --- | --- |
| `LlmQueue` | `services/llm_queue.py`, the handlers that start, cancel, retry and release jobs, and the status writes of the jobs themselves | |
| `JobLedger` | the abstract promise of the queue; `LlmQueue` refines it (`ImplementsLedger`) | instantiated by `LlmQueue` |
| `MCLlmQueue` | TLC: symmetry of the workers, the scenarios of the runs | `LlmQueue` |
| `LlmQueueProofs` | TLAPS proofs about the queue | `LlmQueue` |
| `LlmGate` | `services/llm_gate.py` | |
| `LlmGateProofs` | TLAPS proofs about the gate | `LlmGate` |
| `AutoSend` | `services/auto_send.py`, `services/auto_send_scheduler.py`, one project | |
| `MCAutoSend` | TLC: symmetry of senders and GCs, the scenarios of the run with two dates | `AutoSend` |
| `AutoSendProofs` | TLAPS proofs about auto send | `AutoSend` |
| `ProposalSend` | `services/proposal_send.py`, one GC of one project | |
| `MCProposalSend` | TLC: symmetry of the requests | `ProposalSend` |
| `ProposalSendProofs` | TLAPS proofs about Send Out | `ProposalSend` |
| `StageTables` | the tables of `services/workflow.py`: lanes, tasks, prerequisites, headline | |
| `StageOrdering` | the abstract promise of the stage machine | `StageTables`; instantiated by `WorkflowStages` |
| `WorkflowStages` | `services/workflow.py` and the handlers of `gono`, `outcome`, `pricing`, `external_submission` that move a bid | `StageTables`, `StageOrdering` |
| `MCWorkflowStages` | TLC: symmetry of requests and figures | `WorkflowStages` |
| `WorkflowStagesProofs` | TLAPS proofs about the stage machine | `WorkflowStages` |
| `PlansRuns` | `services/plans_reader_runs.py` from planning on, `run_group` of `plans_reader_agents.py`, the queue's marks on a group | |
| `MCPlansRuns` | TLC: symmetry of the workers, a limit on late duplicates | `PlansRuns` |
| `PlansRunsProofs` | TLAPS proofs about AI Estimating runs | `PlansRuns` |
| `PlansPaidProofs` | TLAPS proofs that no group is asked for twice, and that a run that says done is complete | `PlansRunsProofs` |
| `ProjectMatches` | the merge decisions of `services/rfp_email_ingest.py`, people's and the sweep's, and how they are reversed | |
| `MCProjectMatches` | TLC: the scenarios of its run | `ProjectMatches` |
| `ProjectMatchesProofs` | TLAPS proofs about merge decisions | `ProjectMatches` |

A definition called `Slip_X` stands just before `X` and is never used by a specification: it is `X`
with a mistake a maintainer could make. Putting it in the place of `X` must make one of the properties
fail, which is how each property is shown to depend on the code (`PROJECT.json`, "mutants").

## The job queue (`LlmQueue`)

State and code:

| variable | code |
| --- | --- |
| `jobs` | table `llm_jobs`; `lapsed` stands for `lease_expires_at < now`, `due` for `next_attempt_at <= now` |
| `domain` | the status column of the row a job reports to |
| `execs` | threads inside `_execute`, with what `_claim` returned to them (`job`, `attempt`, `worker`) |
| `sweep` | a `_sweep` in progress: the rows it read and has yet to handle, and a domain mark it owes |
| `ops` | route handlers between two of their calls, and the background task one falls back to when its enqueue raised |
| `process` | up, told to shut down (`SHUTTING_DOWN`), dead |

The targets fall into four kinds, because the domain rows are written in four ways:

- `Materials` (`general_material_estimates`): one row per project, run again and again; the start
  handler **enqueues first and marks pending afterwards**; all marks are unconditional.
- `Analyses` (`boq_analyses`, `proposal_drafts`): a row per run, inserted pending and then enqueued;
  marks unconditional.
- `Chats` (`plans_reader_chat_messages`): every mark is a compare-and-set from an in-flight status;
  the chat records its own failures and returns normally.
- `Runs` (`rfp_ingest_runs`): compare-and-set, may start from running, can be canceled by a person, and
  is handed back to the queue when its process shuts down.

Actions follow the functions one to one: `Claim` is `_claim` with `claim_llm_jobs` (oldest first, up
to the free capacity; the answer may be lost, which leaves running rows nobody executes), `Renew` is
`renew_lease`, `Finish` the success write of `_execute`, `HandleFailure` / `ForceFailed` /
`ExecMark` are `_handle_failure_inner`, the forced write of `_handle_failure` and `_mark_domain`,
`HandBack` is `requeue_self`, `SweepSelect` / `SweepCas` / `SweepMark` are the three calls of
`_sweep`, `Retry`, `Cancel`, `Release`, `CancelRun` the operator's commands. `Fence` is `_cas_job`: the
row is still running, still claimed by this process, and still at this attempt.

Errors: `Fault` is a database call that raises, where the code handles it at that call. In
`HandleFailure`, and in the enqueue of a start, the write may have landed although the call raised.
Elsewhere the model lets an erring call write nothing; an error after the write took effect is the write
followed by a crash of the thread, which the crash action covers. The routers catch an enqueue that raised
and run the extraction in a background task of the same process (`background.add_task`): `EnqueueStep` and
`DispatchStep` then leave the handler at `inline`, and `InlinePending`, `InlineStart`, `InlineDone` and
`InlineFails` are that task. It holds no job, knows of no lease, and its process may stop or die under it.

Properties: `OneOwner` (of all threads that ever claimed a job at most one can still write it, also
when the *same process* claimed it twice), `OneActiveJob`, `SettledJobIsFinal`, `SettledRowIsFinal`,
`NoOverlap` (a target is worked on by one claimed job at a time, and by a fallback only after a call
raised), the
liveness properties `EveryJobSettles` and `EveryRowSettles` (a pending row never stays without a job or
a mark to come, as long as no process dies and no call raises), and `ImplementsLedger`.

`Timely` says whether a lease outlasts the live attempt that holds it, and a retry delay the thread
that set it. With `Timely = FALSE` leases lapse under live threads at any moment; the safety
properties about ownership and finality are checked in that harsher setting. `NoOverlap` and
`EveryRowSettles` are promises only the timely setting can keep: the code's lease (minutes, and renewed
by the long jobs) is chosen to outlast an attempt. An operator's release takes a running job from a thread
that may be alive, so `NoOverlap` is checked and proved where nobody releases. It does not say that the
paid call is made once: when the insert of an enqueue landed and the call then raised, the fallback and the
claimed job are at work side by side (`OnePaidRun`, [below](#what-the-runs-found)). `SettledRowIsFinal` is about
the queue and the handlers of the module; `rfp_ingest.retry_run`, with which a person reopens a settled run,
is not an action of it.

Fairness (`FairSpec`): weak fairness per worker on the claim, the sweep's read, the sweep's next step,
one of its threads' next step and one of its handlers' next step, and per job on the passage of time.
`worker_loop` runs for ever in each process, a thread or a handler runs to its end, and clocks advance.
Nothing is assumed of commands, shutdowns, crashes or faults.

## The admission gate (`LlmGate`)

`_Gate` holds two bounded semaphores. A background call takes a permit of `background` and then one
of `total`; an interactive call only one of `total`. `background` is smaller than `total` by the
reserve, and the settings are clamped so that both have at least one permit. Each action is one
acquisition, time-out, or release of `slot()`, with the releases of the two `finally` blocks as steps
of their own. Properties: `PermitsConserved`, `Headroom`, `EveryCallReturns`; `TypeOK` and
`NoGridlock` (the two semaphores never block each other) are proved only. Fairness:
a model call ends (it has a timeout) and a waiting thread is either admitted or told `LlmBusy`.
Nothing obliges a thread to call.

## Auto send (`AutoSend`)

On the internal bid date of a project, at the send time, every GC is emailed a proposal unless a
person already sent one. The module has one project, several GCs and several bid dates (the internal
date can move), and any number of *senders*: a sender is a thread that runs a pass, either the
scheduler of one process or a Send now request.

| variable | code |
| --- | --- |
| `now` | the clock; each day has a morning, a send window and an evening |
| `run`, `row` | tables `auto_send_runs` (one per bid date) and `auto_send_gcs` |
| `run[d].quiet`, `.still` | "the run was not written since" (what the reclaim's compare-and-set on `updated_at` sees) and "neither it nor its rows were" (`_last_activity`) for longer than `_stuck_minutes` |
| `human` | the project's `proposal_sends` rows: none, being sent, sent, timed out |
| `enabled`, `changedAt` | the switch of `auto_send_settings` |
| `snd` | the local variables of `run_send` / `_send_claimed` / `reclaim_stuck` in each sender |
| `settled` | `_settled_days` of each process |
| `mailed`, `hidden`, `confirmed`, `afterHuman` | history: emails each GC received, those of them that counted as failed, Send nows with `force_unknown`, emails delivered after Send Out began |

A pass is `Due`, `Check`, `ClaimRun` (or `SendNow`, `ClaimRun`), `Evaluate`, `Open`, `Insert`, then per
GC `Beat`, `Prepare`, then per GC `Beat`, `StopCheck`, `ClaimGc`, `Convert`, `Mail`, `Record`, and
`Finish`. An exception goes to `Rescue` (the except block of `run_send`), a crash leaves the run at
sending until `ReclaimRead`, `ReclaimRun`, `ReclaimRows` of another pass. `Missed` is the missed check.
`Mail` decides whether the email arrived independently of what the sender learns: an email that timed
out may or may not have arrived. `send_mail` writes `email_log` after Graph took the message, so an
error of that write reports a delivered email as failed (`hidden`).

`Evaluate` leaves open why a project is not ready (a missing field, no estimator, ...), so every pass may
be blocked. A GC's document may fail to build or to convert. GCs are all reachable; a GC without an
address is a GC whose document fails.

Assumptions: `Timely`: a live pass beats before it counts as stuck (`_stuck_minutes` is at least twice
the longest single step). Every run makes it. `Calm`: nobody moves the bid date between
a pass's reads and its claim, nor to a day that is over; and nobody claims a run between the two writes
of its reclaim (`Mending`). `reclaim_stuck` closes the run and then writes the rows it read, by id and
without a condition on their status: when a Send now takes the run up in between and sends, the late
write turns `sent` into `unknown`. That took 41 steps with 2 GCs, a crash, an error and 2 commands, and came to light when the proof of `RunTellsTheTruth` could not be closed. See the hazards.

Properties: `OneEmailPerGc`, `HumanWins`, `RunTellsTheTruth`, `OneBid`,
`AcceptedIsClosed`, `EveryRunSettles`. `OneEmailPerGc` is an account: a GC gets the first email, one more for
each Send now that a person confirmed, and one more for each delivery that raised and so counted as failed. It
does not say that the email after a hidden delivery was confirmed (it is not), nor which confirmation an email rests on
(`NoSilentRetry`, [below](#what-the-runs-found)). Fairness: time passes, every sender finishes the pass it is in
and polls what there is to poll (`polling_loop` runs in every process), and silence is eventually
noticed. Nothing is assumed of people, errors or crashes.

## Send Out (`ProposalSend`)

Send Out emails one proposal to each GC of a project, on a person's command. Rows of different GCs do
not touch each other, so the module has one GC; what a batch does for the others is time that passes
between two of its steps.

| variable | code |
| --- | --- |
| `link` | the `project_gcs` row: on the project or not, its own figures, the approval of a changed price |
| `row` | the `proposal_sends` row; `unknown` is an error that begins "outcome unknown", `old` an `updated_at` beyond `SENDING_STALE_MINUTES` |
| `files` | the documents generated for the GC and the figures in each |
| `events` | `proposal_send_events` of kind resend |
| `logged` | what `email_log` proves was delivered |
| `goneOut` | the send_out head is past the send, which locks prices and links (`gone_out_rule`) |
| `req` | the requests: what each has read and which call it makes next |
| `mail` | history: the emails the GC received, and whether their delivery was known, forced, blind |

Commands: generate, send (with or without force), re-send, mark as sent by hand, "Done sending", a
price change with its request, approval or rejection, removing the GC and putting it back. `Age` makes
a row or an event old enough for the reclaim (`_reclaim_stuck_sending`, `_reclaim_stuck_event`), which
asks `email_log` whether the email left. An email may be delivered or not whatever the sender learns;
the sender may die anywhere; a write may raise.

Assumptions: `Timely`: a send or re-send that is alive is not older than `SENDING_STALE_MINUTES`.
`Calm` keeps windows of one call's length empty: the ones between two calls of the
retirement of a removed GC and between a reclaim's read and its write (`Hushed`); a generate that is at
work on a retired row is not overtaken by the next removal (`Reviving`); and no re-send starts between a
mark's write and its second look (`Unsettled`). The last two were found by the proofs and need more
commands than the run has. Each is listed with the hazards.

Properties: `PendingNotSent` (the handshake between a send and a price request: each claims its own row
and then looks at the other's), `SenderOwnsRow`, `RemovedNotMailed`, `SentWasDelivered`,
`OneConfirmedBid`. Two more are stated and do not hold: `NoBlindRetry` (see
[below](#what-the-runs-found)) and `ResendWasDelivered`.

## The stage machine (`WorkflowStages`)

A bid has six lanes (intake, material and labor numbers, vendors, markup, send_out), each a sequence of
tasks. A handler reads the lanes, checks the head task, reads again and writes the lane; then it opens
the lanes whose prerequisites are now met (`_run_fanout`), lane by lane, and recomputes the headline
`projects.current_stage`. None of this is locked. `StageTables` holds the tables themselves with a
lane's row coded as one number (locked, active on task i, complete).

| variable | code |
| --- | --- |
| `pos` | `project_category_state`, one row per lane |
| `stage` | `projects.current_stage` |
| `back` | `projects.reverify_return_stage` |
| `figures`, `snapshot` | what the live numbers add up to, and the live numbers that the last Verify commit resolved its prices from |
| `decision`, `outcome`, `external` | `go_no_go_decisions`, `bid_outcomes`, the active external submission and what it would restore |
| `req` | the handlers in progress |
| `left` | history: the task an edit pulled the bid from |
| `missed` | history: an edit overtook the last commit and found nothing to pull back |

The handlers: advance, go / no-go and its undo, decline, the Verify commit (price, leave Verify or
return to where an edit pulled the bid from), edits of numbers with the bounce back to Verify
(`maybe_reopen_verify_after_edit`, `reopen_verify`), "Done sending", the outcome, and the two database
procedures that record and undo a submission made outside the app. A handler may break off between
any two calls (`Crash`).

`StageOrdering` is the contract: a lane moves forward one task at a time, opens only with its
prerequisites, and goes back only by an undone Go, a bounce to Verify with its return, or an undone
submission as a whole. `ImplementsOrdering` says that every call of every handler is one such step or
changes no lane.

Assumption `Calm`: two handlers never work on one lane at a time. An edit saves its numbers and looks
at the head at any moment, also in the middle of a commit, as in the code; only a look that finds a bid
past Verify, and so makes the edit a handler of Send Out, waits for the one that has the lane in hand.
Kept out by `Calm`, and found to go wrong without it: a
double click on advance (the router checks the head, `advance_category` reads it again and completes
the *next* task, also one that has its own panel: `PanelOwned`), a stale fan-out that resets a lane
another handler has opened and moved since, a late decline or undone Go against the completion of
intake, an outcome recorded while the bid is pulled back, "Mark submitted" between an edit and its
bounce. Properties that speak of a state at rest (`Quiet`) are checked for bids on which no handler
died: a death between a lane's completion and the fan-out leaves nothing to work on, and no repair
exists.

Properties: `FreshCommit` (a bid past Verify stands on the live figures). It has one exception, which
is the code's: an edit saved after a commit has read the figures, whose look comes while the bid is
still at Verify, finds nothing to pull back (`maybe_reopen_verify_after_edit` returns), and the commit
goes on with the older figures. `Look` takes that step and notes it in `missed`, until the next commit
reads the figures. The property says that this window is the only one: an edit that looks later pulls
the bid back, whatever commits, bounces, returns, submissions and undos came between.
`CommittedIsLive` is the form without the exception; it fails for this reason and has no run. An
Executive's override of a price in the commit replaces the result, not the numbers it was resolved
from, and is not modelled. `RecordsAgree` (the
marker and the decision agree with the lanes), `NotWedged`, `ImplementsOrdering`. `PanelOwned`,
`HeadlineFollows` and `GoneOutStays` are stated, fail for the reasons given with the hazards, and have
no run either.

## AI Estimating runs (`PlansRuns`)

A run reads a set of plans: its pages are planned into groups per document category, each group is one
model call and one queue job, categories get a roll-up and may get an escalation, one main group
consolidates everything (with one retry at lower effort), and the deliverables are rendered. There is
no owner: whoever finishes a group calls `advance`, the page's polls call it when nothing moves, and a
stage is won by a compare-and-set on the run's status.

| variable | code |
| --- | --- |
| `run` | the `plans_reader_runs` row: status, unchanged for `RECOVERY_AFTER_SECONDS` (`old`), planning claim in the ledger (`plan`) |
| `rows` | `plans_reader_groups`: an identity (`_group_key`) has `Slots` rows it can exist in, in creation order, since two threads may insert it |
| `job` | the active `llm_jobs` row of each group |
| `saved` | versions in `plans_reader_deliverables`, per kind |
| `th` | what each thread does: a worker with a group's job, a request, or the reads `advance` has taken |

`StartJob` to `FinishJob` are `run_group`; `ReadRun` to `CloseRun` are the stages of `advance`;
`Insert` to `DeleteWinner` are `_insert_deduped`, one call per step; `Enqueue` is `_enqueue_group`; then
the poll's repairs (`_self_heal`, `_requeue_orphans`), resume, cancel and delete. A file of the run is
split and settled before the model begins. The leases and attempts of the jobs are `LlmQueue`'s: here
a job of a dead thread is swept (`Sweep`), and a failure either requeues or ends it (`FailJob`). The mark on
the group is a call of its own after that (`MarkRow`): the thread may die before it, and an error of it is
logged and forgotten. A deleted row
leaves references that point at nothing (`Gone`), and so does its job, which "finds no group".

Assumptions. An unchanged run is old (`Age`) only when no thread is between a decision and its last
write: ten minutes are longer than that takes, because long steps bump `updated_at`. A queued row counts
as an orphan only when no thread has its identity in hand (`REQUEUE_MIN_AGE_SECONDS`). `Calm`: nobody
dies, fails or resumes inside a dedupe, starts a delete inside another's advance, or dies between the two
calls that take a delete back; one person at a time resumes or deletes the run; a job
is not claimed again while the mark of its last attempt is still on its way (a sweep's late mark would put a
group that runs again back to queued); and a repair's write follows its read before anybody else moves the run. Without it `PaidOnce`, `RenderedOnce` and `DoneIsComplete`
fail; how is noted with the hazards, and `CanceledCounts` names one of the ways. `KeyKept` (no step deletes the last row of an identity) fails even
so: two threads in the dedupe can each take the other's deletion for a start. It has no run.

Properties: `PaidOnce`, `AnswerKept`, `DoneIsComplete`, `RenderedOnce`, and `EveryRunRests` under
fairness: a thread that is at work goes on, a free worker takes jobs and sweeps dead ones, somebody
polls the page, and time passes. Nothing is assumed of people, errors and deaths, except that they are
finitely many. `EveryRunRests` has one exception, `Stranded`: a job failed for good and the mark of its group
was lost, by a death or an error. The group then says running, has no job, and no repair takes it up, as they
look at queued groups only; the run waits for it until a person cancels. `EveryRunRestsUnaided`, without the
exception, does not hold and has no run.

## Merge decisions (`ProjectMatches`)

An invitation that reaches the match step is merged into a project that exists (its GC is put on the
project), found to be a duplicate of one the GC already has, sent on to become a project, or parked for
a person. People merge, say "already on X", say "not a match" or "not an RFP", reopen and unmerge. The
sweep decides alone, under a lease, one row at a time.

A decision (`_record_decision`) writes three tables in up to five calls: the match row, the GC's link,
the row's mark, and last the email by a compare-and-set; if that is lost, it takes the link and the row
back. Nothing spans these calls. What makes it work is the order, a partial unique index (one open row
per email), the link's pointer to the row that made it, and that whoever comes next resumes an open row.

| variable | code |
| --- | --- |
| `status`, `target`, `excluded` | `rfp_emails`: status, `match_project_id` and `excluded_project_ids`. `onward` is harvest, split and create together |
| `matches` | `rfp_project_matches` in the order of `decided_at`; `closed` and `superseded` are both `unmerged_at` set |
| `link` | the GC's `project_gcs` row on each project: its identity and `rfp_match_id`; `rfp_project_matches.project_gc_id` is `StillLinked`, since the foreign key clears it |
| `sent` | the GC's `proposal_sends` rows: nothing gone out, being sent, sent |
| `shut` | projects that are abandoned, declined or out of the window (`_open_project`) |
| `th` | what the sweep and each person's request hold between two calls |

`MeetOpenRow`, `InsertRow`, `InsertLink`, `MeetLink`, `MarkAdded`, `DecideEmail` are the steps of
`_record_decision`; `UndoLink`, `UndoRow` are `_compensate_lost_race`; `SweepRow`, `SweepRoutes`,
`SweepChecks`, `SweepParks` are `_step_match`, `_record_match` and `_finish_decision`; `StartUnmerge` to
`ReturnDuplicate` are `unmerge` and `_finish_unmerge` with its cascade. The rest is what else moves an
email, a GC or a proposal meanwhile. `Trouble` is a process that stops or a call that fails anywhere in
between: a person's request is over, the sweep spends one of the row's attempts.

All emails are from one GC that is resolved. Left out: scoring (a verdict is any), sibling copies of one
invitation, choosing another GC, contacts, the steps before match, and two sweeps at once, which the
lease prevents while it does not lapse.

Assumption `Calm`: nobody begins something on an email, or a removal of the GC from a project, that
another thread has in its hands; blocking a sender, a retry and a rename are single conditional updates and
may come at any time, so a decision can lose its email to them and take back what it wrote. `MergeIsWhole` needs it; `WinnerKept` (`Calm = FALSE`) shows why.
`TypeOK` and `SentStays` do not need it, as the proofs show. A crash between two calls is not excluded
by `Calm`: a person meets whatever it left.

Properties: `TypeOK` with one open row per email, `MergeIsWhole` (a half-made merge stays where somebody
can finish or reverse it, and a merged email has its row and its link), `SentStays` (an unmerge never
takes away a GC whose proposal went out since it looked), `EveryMatchDecided`. Fairness: every thread
goes on with what it holds (weak), and the sweep comes to every row that keeps waiting (strong, because
it may be busy with another row each time: it takes them oldest first). Crashes are finitely many. That
a row comes back to match again and again is left to people, who are counted.

## Runs

| run | what it shows | bounds |
| --- | --- | --- |
| `queue_safety` | Three scenarios whose leases lapse at any time: starts, retries, cancels and releases of one restartable row; the fallbacks of starts whose calls raise; a sandbox run under two of a crash, a shutdown, an error and a command. The state is typed, one active job per row, one writer, settled jobs and rows never change, and the table implements `JobLedger` | 2 workers; 1 material with 2 jobs and 2 commands, or with 1 job, 1 command and 2 faults, or 1 run with 1 job and any two of 1 command, 1 crash, 1 stop, 1 fault, concurrency 2 (`OneScenario`) |
| `queue_settles` | Every job settles and no target is worked on by two claimed jobs, also through a crash with an error or a lost claim; while nothing worse than a shutdown happens every pending row settles as well | 2 workers, concurrency 2; two of an analysis, a chat and a run; 1 stop and no trouble, or 1 crash and 1 fault with the analysis and the run (`Gentle`) |
| `gate` | Permits conserved, reserve kept, every call returns, with settings that ask for a reserve larger than the gate | 4 callers, total 3, reserve 4 |
| `auto_send` | Send Out wins, one bid for all, the run row is true, an accepted run is closed | 2 senders, 2 GCs, 1 date, 2 commands, 1 crash, 1 fault |
| `auto_send_dates` | Whatever the date becomes, a GC gets at most one email more than there were confirmations and deliveries that counted as failed, and every run settles, a crashed one by its reclaim | 2 senders, 1 GC, 2 dates; 1 command and 1 crash or 1 fault, or 2 commands, the second after the date has moved off a run (`Scenarios`) |
| `proposal_send` | Nobody moves a row under its sender, a price under approval is not sent, a removed GC is not mailed, a sent row was delivered, one confirmed bid | 2 requests, 5 commands of any kind, 3 documents, 2 figures, 1 timeout, 1 crash, 1 failed write |
| `proposal_send_blind` | expected violation, see [below](#what-the-runs-found) | as above without crash and failed write |
| `workflow` | Handlers of different lanes and edits in any order, breaking off anywhere: every write is a step of `StageOrdering`, a bid past Verify stands on the live figures unless an edit looked during its commit, records agree, no bid is wedged | 2 requests, 2 figures, 1 crash |
| `plans_runs` | Whatever two troubles befall a run: no group paid twice, no answer lost, nothing rendered twice, done means complete | 2 workers, 1 request thread, 1 category with a group and an escalation, 2 troubles of any kind; a retry of the main group only where the rows before it stand in their first slot (`OneDuplicate`) |
| `plans_settles` | The polls' repairs bring every run to rest, unless a lost mark stranded a group | 1 worker, 1 request thread, 1 category with two groups and a roll-up, 2 deliverables, 2 troubles |
| `project_matches` | The sweep and people in any order: no merge half visible, one open decision per email, a GC whose proposal went out stays, every email at the match step is decided | 2 emails, 4 match rows; 2 people on 1 project with 2 commands and 1 trouble, 1 person on 2 projects with 2 commands, or 1 person on 1 project with 3 commands (`Scenarios`) |
| `matches_race` | expected violation, see [below](#what-the-runs-found) | 2 emails, 1 project, 2 people, not `Calm` |

Why the bounds are enough for what is asked. `MaxAttempts` is 2 (one delay), so a job can be claimed,
lost, claimed again and exhausted. Two workers give every pair of (live thread, sweep or claim of
another process), and since an attempt can be swept and reclaimed by the same process, also the stale
attempt of one's own. Two jobs are what a restartable row needs for an old and a new job side by side.
In auto send, two GCs are the least for a partly sent
run, two dates the least for a carried timeout, two commands the least for a Send now followed by
another or by an acceptance, and a first timeout plus a re-send plus one crash fit. In Send Out, five
commands reach a send that times out, is generated again, priced anew and sent again beside a second
request, three documents one per generate of those, and no pair of requests is left out. The stage
machine needs no bound on commands, because its state is finite: only deaths are counted. Two
requests are the least for two lanes at once and for an edit against a commit; six lanes and all
tasks are the program's own. In a run of AI Estimating, two workers and a poll are three threads in
`advance` at once; two rows per identity are what two threads insert; two troubles are a failed
consolidation and a failed retry, a delete and the failure that undoes it, a death and a second one of
the thread that took over. Two groups are what a roll-up needs, two deliverables what a partly rendered
run needs. Each is in the run where it matters. Of the merge decisions, two emails are the least for a
merge and the duplicate that rests on it, two projects for an unmerge followed by another match, two
people and the sweep for a decision, a reversal and a third who looks on; three commands are a merge, its
unmerge and a removal, or a dismissal and what undoes it. Where a run has scenarios, what their constraint
cuts off is a command, a crash, an error or one of several choices of a step, never a step that fairness
obliges; the liveness properties lose no behaviour of a scenario by it. Rows of the table run out only where a thread
would begin a decision it has no row left for (`Room`).
`CHECK_DEADLOCK` is off where a run ends because its bounded commands, jobs, days or work are used up;
the gate has no such end and is checked for deadlock.

Named bounds: `MaxJobs`, `MaxCrashes`, `MaxStops`, `MaxFaults`, `MaxCommands` (queue), `MaxDate`,
`MaxCommands`, `MaxCrashes`, `MaxFaults` (auto send), `MaxFiles`, `MaxCommands`, `MaxCrashes`,
`MaxTimeouts`, `MaxFaults` (Send Out), `MaxCrashes` (stage machine), `MaxTrouble`, `Slots` (AI
Estimating), `MaxRows`, `MaxCommands`, `MaxTrouble` (merge decisions). They cap how often the world does something, never what the program does; `Slots` is how
many rows of one identity can exist, and no reachable insert finds it full for good.

## Proofs

`LlmQueueProofs` (assumptions: `QueueAssumption`, `BoundAssumption`; any number of workers, targets,
jobs, attempts, crashes and faults, and `Timely` either way):

- `TypeCorrect`, `OneOwnerHolds`, `OneActiveJobHolds`: invariants of `Spec`.
- `SettledJobIsFinalHolds`, `SettledRowIsFinalHolds`: action properties.
- `Refinement`: `Spec => ImplementsLedger`.

The argument. Twenty-odd actions touch the table, but in only five ways: a row is submitted, a batch
is taken, a row is given back, a row is settled, a lease flag is flipped (`RowStep`, lemma
`NextRowStep`). Threads and domain rows get the same treatment (`ThreadStep`, `DomainStep`), so the
preservation lemmas argue about a handful of shapes and not about actions. `OneOwner` is not
inductive: it must be known that the fence tells attempts apart. `IInv` therefore adds `RowsOK` (an
absent row is empty, an unclaimed one has no owner) and `Numbered` (no thread remembers an attempt
beyond its row's count, and two threads never share a job and an attempt number). A claim raises the
count and is the only step that creates a thread, so a new thread's number is new; no step lowers a
count. The refinement follows because each shape of `RowStep` is a step of `JobLedger` or a stutter.

`LlmGateProofs` (assumption: `GateAssumption`; any finite set of callers and *any integers* as
settings): `TypeCorrect`, `PermitsConservedHolds`, `HeadroomHolds`, `NoGridlockHolds`. The inductive invariant is
`PermitsConserved` with the types and non-negative counts; `Clamped` shows what the clamping of
`_Gate.__init__` guarantees, and `HeadroomHolds` counts the holders of `total` by tier.

`PlansRunsProofs` (assumption: `PlansAssumption`; any threads, categories, groups, deliverables and
troubles): `TypeCorrect`, `RowsTyped` and `AnswerKeptHolds` in any timing, `RenderedOnceHolds` for `Calm`.
The 41 actions touch the group rows in two ways (`RowStep`, lemma `RowsChange`): one status is given to
rows that have no answer, or a delete empties the table. Fenced writes are the first by their fence; an
insert is, because it takes a free slot (`FirstFree`: the least free number exists and is free); dedupe
deletes only queued rows. The second layer is about threads: `IInv == Typed /\ (Calm => Rendering)`.
`Typed` has what a thread holds at each place. `Rendering` says who may save: at most one thread is at
`save`, under a status that lets no other begin (`rendering` with a heartbeat no thread has found old, an
ended run, or a deleted one); what it has still to do nobody saved; one delete at a time is past its claim,
and one that found the run over its cap hides no saver. Most steps are `Mild` (lemmas `GroupMild`,
`StageMild`, `QueueMild`, `RequestMild`): they set one thread, make no saver and do not age the run, so only
the steps that start, save, take over, delete or let time pass have to be argued one by one. TLC checked
`Rendering` on small instances before it was proved.

`PlansPaidProofs` adds `PaidOnceHolds`, for `Calm`. The invariant, `Paying`, is about two rows of one
identity. A thread that has only a mark left to write has given up its job, and the row it marks may be gone
or in other hands. Groups of pass 1 never have two (`SubOnce`): a run is planned again only while it has no group,
and by then nobody is about to insert any. Other groups may, as every thread that adds one inserts before it
looks. While the run is `Live`, two such rows are `Covered`: one of them is still in the hands of a thread
that `Awaits` a look at the other, and such a row is queued, has no job and is in nobody else's way to the
queue (`Hands`). So the two never both run, and `Held` gives `Once`, `PaidOnce` pair by pair (`HeldOnce`).
The dedupe is the hard part: a thread lets go of a row only when it has seen every other row of the
identity deleted or its own the winner, and each of its reads, failed deletes and deletions keeps
`Covered` (`LookHeld`, `DeleteHeld`). Once a run has ended, rows may be written in any order (the undo of a
delete, a late cancel), but nobody starts to ask: `DeadStays` shows that an ended run stays ended unless a delete
that found it over its cap is undone, and `Live` counts that as not ended. TLC checked `Paying` on small
instances before it was proved.

It also has `DoneCompleteHolds`, for `Calm`. `DoneIsComplete` looks at one moment, but what it needs was
decided long before, by threads that looked at the groups and went on. The invariant is `Finishing`, beside
`IInv` and `Paying`:

- `Turn`: one person at a time resumes or deletes; a delete has the run to itself and knows every group
  that has not settled, so its undo restores what it read.
- `DoneSafe`: a run that says done, or that the undo of a delete will make say so, is complete.
- `Growing`, while the run is `Live`. The groups of pass 1 come first (`Rooted`); an added group is needed
  (`Why`), and behind reading every category and all that was added for it has settled (`Past => Told`). The
  main group is tried again only when it is stuck (`Retried`), and nobody renders without an answer from one
  of the two (`Answer`). A thread that renders with no step missing has an answer for every group that exists
  or is about to be added (`Sure`), and has saved each deliverable or has it still to do (`Stored`).

A failed group counts as settled only when it is `Stuck`: a delete that holds it could queue it again. A
canceled group exists in a live run only while such an undo is to come (`Stray`). Most steps are `Quiet`:
they move groups that are still active, insert what the thread holds, or delete a queued duplicate, and keep
all of this (`QuietKeeps`). The steps argued one by one are those that decide: the read of the run, what it
makes of the main group, the start of rendering, each save, the close, the insert of pass 1, resume, and the
delete with its undo. TLC checked `Finishing` on small instances before it was proved.

`ProjectMatchesProofs` (assumption: `MatchesAssumption`, which also says that `None` is no link; any emails,
projects, people and bounds): `TypeCorrect`, whose `TypeOK` contains the uniqueness of the open row, and
`SentStaysHolds` in any timing; `MergeWholeHolds` for `Calm`.
`IInv` adds to the types what each step needs of a thread's hand (`HandOK`): its email and project are
there from the first call of a decision on, its row is one that was inserted, and no step makes an
inserted row free again (`Keeps`). Every step replaces at most one hand (`Takes`, lemmas `Taken`,
`HandOnly`) and writes one row or closes rows (`OneRow`, `Closing`), so only `InsertRow` has to argue
about uniqueness: the index admits a row where none is open, and no step reopens one. `SentStaysHolds`
shows that only `Detach` takes a request past the removal of the link (`OwnHand`, `OnlyDetach`), and that
it looks at the proposals in the same step.

`MergeIsWhole` says two things, and its invariant, `WholeInv`, has a layer for each. `Claimed` holds through every
crash: an email has one decider (`Apart`), which finds it where it read it, or parked by the blocklist, and holds
the one row of it that may be open (`Claims`); what a cascade closes are duplicates; and every email is as
`MergeIsWhole` says but for quiet moments (`Visible`). `Smooth` holds as long as nothing crashed or failed
(`trouble = 0`). It follows a merge from its insert to its reversal: a decision meets no open merge, and the
one it makes stays open, with a link that names it, until the email takes it (`Carried`); a reversal has the open
merge of a merged email in hand until it excluded the project (`Reversed`); a GC being removed by hand is not
what an open merge rests on (`Removing`); an open merge has its email or its decider, a reversed one its
exclusion (`Accounted`); and a merged email has its row open and linked, or somebody is reversing it
(`Complete`). The hard steps are those that
take a link away while other threads rest on links (`UndoLink`, `Detach`, `RemoveGc`): `Unlinked` and `LinkSmooth`
show that nobody else's link was meant. A step by anybody else leaves a thread what it holds (`SparesClaim`,
`SparesBusy`), so each action is argued for its own thread and emails only. TLC checked `WholeInv` on the run's
instance (413,000 states) and on several others before it was proved.

`LlmQueueProofs` has a second layer for a lease that outlasts its attempt: `NoOverlapHolds` (`Timely`, and nobody
releases a job). `Leased` is inductive on top of `IInv`: the lease of a thread that passes the fence is
fresh; a thread at work passes the fence; and what a sweep still has to handle either has lapsed or
was taken up again since. Threads and rows are now looked at together (`LeaseStep`): a job leaves its owner
only by a step of that owner, which stops working, or by a sweep, which finds a lapsed lease, and so no
thread at work. With `OneActiveJob` two threads at work on one target would be two owners of one job.
TLC checked `Leased` before it was proved. That a fallback exists only after a call raised is `Faulted`,
which every step keeps.

`AutoSendProofs` (assumption: `AutoSendAssumption`; any GCs, senders, dates and bounds): `TypeCorrect` in any
timing; `PersonWins`, `TruthTold`, `OneBidPerRun`, `OneEmail` and `AcceptanceCloses` for `Timely` and `Calm`.
The invariant is
`Typed /\ (Timely /\ Calm => Orderly)`. `Orderly` says who may write what: a run at sending shuts out every
other, and a pass is the only one inside it (`Alone`); what a pass holds of the rows is what they say, but
for the GC in hand (`Tracks`); a reclaim whose compare-and-set will win has read the rows as they are
(`Reclaiming`); no date after that of a pass has rows (`Rooted`); a run's status tells what its rows say
(`Truth`); a run and what it sent have the same numbers (`Bid`); nothing went out before a pass that sends, and
Send Out leaves at most the one email past its check (`Hushed`). `OneEmailPerGc` is about counts, which no
local fact bounds. `Budget` is the ledger behind it: the emails a GC got, but for the hidden ones (`Known`), with the confirmed passes that may
still mail it, are at most one more than the confirmations, and no more than these while the latest row of
the GC is free to be claimed. A claim of a free row spends the spare one; a claim of an `unknown` row needs
a confirmation of its own; a hidden delivery leaves the ledger as it is, because the row is free again. TLC checked `IInv` on five instances of up to 6 million states.

`ProposalSendProofs` (assumption: `SendAssumption`; any requests, files, figures and bounds):
`TypeCorrect` and `DocumentOnFile` (the document that a row names is stored, whatever the generates that lost
delete) in any timing; `SenderAlone`, `PendingTakenBack`, `RemovedUnmailed`, `SentDelivered` and
`ConfirmedOnce` for `Timely` and `Calm`. The invariant is
`Typed /\ Documents /\ (Timely /\ Calm => Guarded)`. The handshake of sends and price requests is the hard part:
each writes its own claim and then reads the other's, so while a price is under approval and the row at
sending or sent, one of the two has still to look, and `Handshake` says which.

`WorkflowStagesProofs` (assumption: `WorkflowAssumption`; any requests, figures and number of deaths):
`TypeCorrect` in any timing; `PanelsOwn`, `PriceIsFresh`, `RecordsKept`, `SomethingToDo` and `InOrdering`
(`Spec => ImplementsOrdering`) for `Calm`. `PriceIsFresh` proves `FreshCommit` with its exception: while
a bid is past Verify on older figures, an edit is still to look or to bounce it, a commit is about to
stamp newer ones, or an edit was missed. The invariant has three layers: types (`Typed`); under `Calm`
that two handlers share a lane only as edits, that what a handler read is still so, and which lanes can be
where (`Kept`); and while no handler died, that the marker, the decision and the price agree with the
lanes or somebody is about to make them, and that every lane whose prerequisites are met is open or about
to be opened (`Unbroken`). `StageOrdering` has the same tables under names of its own (`SameTables`), and each
call is then one of its steps or changes no lane. TLC checked the invariant with two requests and a death, and
with three requests.

Only model-checked: every liveness property
(`EveryJobSettles`, `EveryRowSettles`, `EveryCallReturns`, `EveryRunSettles`, `EveryRunRests`,
`EveryMatchDecided`), which is beyond the prover together with fairness and ENABLED. No module uses a
RECURSIVE operator.

## What the runs found

`proposal_send_blind` (`NoBlindRetry`): a send that times out leaves its row failed with an error that
begins "outcome unknown", and `schemas.py` says that only force retries it. `generate_documents`, by
hand or through the commit of a new price, accepts a failed row and writes `generated` with no error
over it. The next send sees a plain generated row and emails the GC without force, although the first
email may have arrived.

`matches_race` (`WinnerKept`): two merges of one email into one project, by two reviewers or a double
click. The second finds the first one's open row and resumes it as if a crash had left it. One of them
gets the email; the other loses the compare-and-set, and `_compensate_lost_race` removes the link and the
row both were holding. The email stays merged into a project its GC is not on, and nothing is left to
unmerge. `docs/RFP_MATCHING.md` says that the open merged row's link is never removed there and that
exactly one of two concurrent actions takes effect.

Other properties were stated from what a comment or a document says, do not hold for the code, and
remain in the modules without a run of their own:

| property | what happens |
| --- | --- |
| `OnePaidRun` (`LlmQueue`) | `boq_analysis.py:99` says "One paid extraction at a time per project"; an enqueue whose insert landed and whose answer raised starts the extraction in a background task as well, so two threads work on one target |
| `PendingHasJob` (`LlmQueue`) | `_start_extraction` enqueues and then writes `pending`; the job can run to its end in between, and the late write covers `done` with no job left; a fallback covers it in the same way |
| `SucceededRowSettled` (`LlmQueue`) | `requeue_self` raises during a shutdown, the run returns normally and its job is marked succeeded while the run row stays at running |
| `NoSilentRetry` (`AutoSend`) | an email whose `email_log` write raises counts as failed, and the next Send now repeats it without being asked to; a confirmed re-send that fails before its email, or is stopped, overwrites `unknown`, and the next unconfirmed Send now emails the GC again |
| `NoRowLeftSending` (`AutoSend`) | `reclaim_stuck` closes the run and then its rows; dying in between leaves a row at sending that nobody looks at again |
| `ResendWasDelivered` (`ProposalSend`) | the proof for a stuck re-send is any logged email with that subject to those recipients, also an earlier one |
| `PanelOwned` (`WorkflowStages`, `Calm = FALSE`) | the second of two clicks completes the next task, past Go / No-Go without a decision or past Verify without a commit |
| `CommittedIsLive` (`WorkflowStages`) | an edit saved after a Verify commit has read the figures looks at the head while the bid is still at Verify, finds nothing to bounce, and the commit takes the bid on with the older figures |
| `HeadlineFollows` (`WorkflowStages`) | the headline is read and written in two calls, and the older of two writes can be the last |
| `GoneOutStays` (`WorkflowStages`) | a bounce moves the lane to Verify and marks the bid in two calls; in between, a bid that has gone out counts as one that has not |
| `EveryRunRestsUnaided` (`PlansRuns`) | a process that dies between the terminal write of a group's job and the mark of the group, or a mark that raises, leaves the group at running without a job; `_self_heal` and `_requeue_orphans` ("A poll's safety net") look at queued groups only, and the run never rests |
| `KeyKept` (`PlansRuns`) | two threads in the dedupe delete each other's row, each taking the other's deletion for a start |
| `CanceledCounts` (`PlansRuns`, `Calm = FALSE`) | a delete that finds a group at work takes its claim back in two calls, the status and then the groups the claim had canceled; when the second is lost, a comment says "those pages are then missing like any failed group", but a failed group turns `done` into `done_with_errors` and a canceled one is not counted: the resumed run says `done` without its pages |
| `UnmergeDetaches` (`ProjectMatches`) | a merge that stopped between making its link and marking its row is unmerged: `unmerge` looks at the mark only, closes the row and leaves the system's link on the project |
| `DuplicatesFollow` (`ProjectMatches`) | the sweep sees the GC on the project and inserts a duplicate later; the cascade of an unmerge in between has listed the duplicates too early |

Further weaknesses are listed with the hazards in `PROJECT.json` and kept out of the passing runs by a
stated assumption: a crash between the terminal write of a job and the mark of its domain row; a sweep
that requeues a lease renewed after its read; shutdown hand-backs that exceed the attempt budget; a bid
date moved between a pass's checks and its claim; an `email_log` write that fails after the email left;
a Send Out that fails after the missed check looked at that past day; the short windows of Send Out, of
the stage machine, of AI Estimating and of the merge decisions named in their sections.

## Not modelled

Of the queue: the inline mode with the queue disabled, priorities and the pacing of enqueued jobs, the
separate claim passes per family of jobs, pruning. Of auto send: the preview and digest emails and their
ledger, the other projects of a tick, a GC added or removed between passes, rendering. Of Send Out:
revisions, attachments, the loop over GCs. Of the stage machine: abandoned bids, an open proposal
revision (it suppresses the bounce), the Executive's override of a committed price, the gates that look at drawings, files and prices (an advance may
always be refused), notifications, `stage_events`. Of AI Estimating: uploads, splitting and settling of
files, modify jobs and re-renders, the escalation budget, pacing. Of the RFP emails: the steps before
match, sibling copies, the choice of a GC, scoring, two sweeps after a lapsed lease, and what follows a
match that found no project. Of everything else, the reason is in the inventory: sequential data conversion (parsing, matching, documents,
payroll), pure I/O (storage, mail and portal clients), CRUD, or planned.

## Inventory

State, operations, what is hard, and what makes each component correct. "Modelled" parts are described
above.

| component | state | operations | hard behaviour | correct when |
| --- | --- | --- | --- | --- |
| Durable job queue | `llm_jobs`, domain rows, threads | enqueue, claim, execute, renew, hand back, fail, sweep, cancel, retry, release | stale attempts, lapsed leases, crash between two calls, late marks | one writer, finality, no stranded row, settles |
| Claim passes | free slots per family | one claim per family and tick | an error after an earlier pass committed; the last plans slot | capacities respected, no family starves |
| Admission gate | two semaphores | acquire, release, time out | two-step acquisition, odd settings | permits conserved, reserve kept |
| AI Estimating runs and groups | `plans_reader_runs`, groups, deliverables, messages | plan, run groups, add groups, consolidate, render, repair, resume, cancel, delete | stages won by several threads, duplicate groups, deaths between winning and writing, spend cap | a group paid once, no answer lost, done means complete, comes to rest |
| AI Estimating files | `plans_reader_files`, documents, split jobs | upload, start, settle a split, undo | two settlers, a start undone under a settler | each file settled once |
| BOQ and material extraction | `boq_analyses`, `general_material_estimates` | start, execute | start and job write the same row | status agrees with the job |
| Sandbox ingestion | runs, files, subprocess | start, per-file loop, cancel, hand back | shutdown mid-file, file statuses by compare-and-set | each file processed to one outcome |
| Portal sweep | lease, slot ledger, per-portal cursors | sweep, claim slot, fetch | two processes in one slot, lease lapse | one sweep per slot |
| Email intake | mailbox lease, cursor, message rows | poll, store | duplicate and reordered messages, lease lapse | each message handled once |
| RFP pipeline and matching | `rfp_emails`, `rfp_project_matches`, `project_gcs` | advance a row, merge, mark duplicate, unmerge, reject, reopen, retry, park | three tables in five calls, people against the sweep, crash in between, proposals going out | no half merge, one open decision, a reversal undoes what was done |
| Harvest, split, creation | candidate rows, projects, files | harvest, split, create | step repeated after an error | one project per invitation |
| Auto send | runs, GC rows, switch, estimate cache | see above | timeouts, people racing the pass, crash, moving date | once per GC, one bid, people win |
| Send Out, revisions, external submission | `proposal_sends`, revisions, submissions | claim, email, reclaim, revise, approve | timeouts, crash recovery from `email_log`, approval racing a send | never resent on guesswork, one open revision |
| Workflow stage machine | lanes, headline, marker, committed numbers | advance, decide, commit, edit, submit, undo | concurrent lanes, edits racing a commit, breaking off between calls | only legal lane changes, a bid past Verify stands on the live figures, never wedged |
| Calling in | call list, claims | build, claim, record | two callers, stale lists | each GC called once |
| Reminders and digests | claim ledgers | claim, send, release on failure | crash after the claim, failure after the send | at most one email per day and person |
| RFQs and vendors | RFQs, replies, nudges | send, poll inbox, nudge | reply matched twice | a reply belongs to one RFQ |
| Estimator rounds | rounds, seals, assignments | submit, seal, reopen, hand over | submit racing reassignment | a sealed round does not change |
| Notifications and alerts | bell rows, routes | notify, dismiss, route | none that others rely on | best effort |
| Project intake, merge, delete | every table of a project | create, merge, delete, restore | several calls without a transaction | nothing left behind in half |
| Payroll, certified payroll | reports, rates | parse, match, compute | rounding, overtime rules | sequential |
| Project management, submittals | documents, submittals | approve, send, ingest | approvals out of order | CRUD otherwise |
| Model calls and health | targets, spend, health probes | call, classify, switch target | a cap read before and written after the call | spend cap not overrun by much |
| Files and storage | objects, links | upload, link, export | partial uploads | I/O |
| Core | settings, users, rate buckets | authenticate, limit | concurrent buckets | limits hold |

## Plan

Modules in this order; each with a type invariant, its deep properties, and a run only where it asks a
new question (the runs stay few: a later module may take the place of a run that has said its say).

1. Done: `LlmQueue`, `JobLedger`, `LlmGate`, `AutoSend`, `ProposalSend`, `StageTables`, `StageOrdering`,
   `WorkflowStages`, `PlansRuns`, `ProjectMatches`, and a module of proofs about each component.
2. `LlmClaimPass`: the passes of one claim tick, refining `Claim`'s capacity; what an error in a later
   pass loses.
3. `PlansFiles`: creating a run, its uploads, the start and its undo against the settling of split
   files, up to where `PlansRuns` begins.
4. `ProposalSend` composed with `AutoSend` in place of its one-status view of Send Out; revisions.
5. `ProjectMatches` with two sweeps and with sibling copies.
6. `IngestFiles`, `PortalSlots`, `EmailLease`, `ClaimLedger` (one module for reminders, digests and
   calls, with an abstract at-most-once ledger), `EstimatorRounds`, `ProjectMerge`.

Theorems next come with the next modules: no safety invariant or action property of a passing run is left
without a theorem, and liveness stays with TLC.
