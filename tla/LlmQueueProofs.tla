--------------------------- MODULE LlmQueueProofs ---------------------------
(***************************************************************************)
(* Theorems about LlmQueue, for any number of processes, jobs and targets, *)
(* any concurrency and retry schedule, and any number of crashes, errors   *)
(* and commands.                                                           *)
(*                                                                         *)
(* Every step changes the job table in one of five ways (RowStep).  What   *)
(* is claimed of the table alone follows from that; what is claimed of the *)
(* threads follows from the numbering of attempts (Numbered).              *)
(***************************************************************************)
EXTENDS LlmQueue, TLAPS

\* Rows of the table: what a status says of the other columns.
RowsOK ==
    \A j \in JobIds :
        /\ jobs[j].status = "absent" => jobs[j] = NoRow
        /\ jobs[j].status # "absent" => jobs[j].target \in Targets
        /\ jobs[j].status = "running" => jobs[j].owner \in Workers

\* A thread's attempt is one its row has counted, and no other thread's.
Numbered ==
    /\ \A e \in execs : /\ jobs[e.job].status # "absent"
                        /\ e.attempt <= jobs[e.job].attempts
    /\ \A e1, e2 \in execs :
          e1.job = e2.job /\ e1.attempt = e2.attempt => e1 = e2

\* Jobs named by what is in progress are in the table.
IInv == TypeOK /\ RowsOK /\ Numbered

-----------------------------------------------------------------------------
(* The five ways a step changes the table.                                 *)

Submitted(j, t) ==
    /\ jobs[j].status = "absent" /\ t \in Targets
    /\ ActiveJobs(t) = {}
    /\ jobs' = [jobs EXCEPT ![j] = [NoRow EXCEPT
                     !.status = "queued", !.target = t, !.due = TRUE]]

Taken(w, batch) ==
    /\ \A j \in batch : jobs[j].status = "queued"
    /\ jobs' = [j \in JobIds |-> IF j \in batch THEN Claimed(w, jobs[j])
                                                ELSE jobs[j]]

GivenBack(j, due) ==
    /\ jobs[j].status = "running"
    /\ jobs' = [jobs EXCEPT ![j] = Requeued(@, due)]

Settled(j, s) ==
    /\ jobs[j].status \in Active
    /\ s = "succeeded" => jobs[j].status = "running"
    /\ jobs' = [jobs EXCEPT ![j] = Closed(@, s)]

\* A lease is renewed or lapses, a delay passes: no other column moves.
Ticked(j) ==
    \E row \in JobRow :
        /\ row.status = jobs[j].status /\ row.target = jobs[j].target
        /\ row.attempts = jobs[j].attempts /\ row.owner = jobs[j].owner
        /\ jobs[j].status \in Active
        /\ jobs' = [jobs EXCEPT ![j] = row]

\* The three ways a step changes the set of threads.
Pcs == {"start", "work", "finish", "transient", "permanent",
        "force", "pending", "failed"}

Spawned(w, batch) ==
    /\ Taken(w, batch)
    /\ execs' = execs \cup {[job |-> j, attempt |-> jobs[j].attempts + 1,
                              worker |-> w, pc |-> "start"] : j \in batch}

ThreadStep ==
    \/ execs' \subseteq execs
    \/ \E e \in execs, pc \in Pcs : Goto(e, pc)
    \/ \E w \in Workers, batch \in SUBSET JobIds : Spawned(w, batch)

\* The two ways a step changes the domain rows.
DomainStep ==
    \/ UNCHANGED domain
    \/ \E t \in Targets, s \in DomainStatuses :
          /\ t \in Open \/ domain[t] \in InFlight \cup {"none"}
          /\ domain' = [domain EXCEPT ![t] = s]

RowStep ==
    \/ UNCHANGED jobs
    \/ \E j \in JobIds, t \in Targets : Submitted(j, t)
    \/ \E w \in Workers, batch \in SUBSET JobIds : Taken(w, batch)
    \/ \E j \in JobIds, due \in BOOLEAN : GivenBack(j, due)
    \/ \E j \in JobIds, s \in Terminal : Settled(j, s)
    \/ \E j \in JobIds : Ticked(j)

-----------------------------------------------------------------------------
\* What each write leaves is a row.
LEMMA RowTypes ==
    ASSUME NEW row \in JobRow
    PROVE  /\ \A t \in Targets : [NoRow EXCEPT !.status = "queued", !.target = t,
                                             !.due = TRUE] \in JobRow
           /\ \A due \in BOOLEAN : Requeued(row, due) \in JobRow
           /\ \A s \in Terminal : Closed(row, s) \in JobRow
           /\ \A w \in Workers : Claimed(w, row) \in JobRow
           /\ [row EXCEPT !.lapsed = FALSE] \in JobRow
<1>1. \A t \in Targets : [NoRow EXCEPT !.status = "queued", !.target = t,
                                      !.due = TRUE] \in JobRow
  BY DEF NoRow, JobRow, Active
<1>2. \A due \in BOOLEAN : Requeued(row, due) \in JobRow
  BY DEF Requeued, JobRow, Active
<1>3. \A s \in Terminal : Closed(row, s) \in JobRow
  BY DEF Closed, JobRow
<1>4. \A w \in Workers : Claimed(w, row) \in JobRow
  <2>. TAKE w \in Workers
  <2>. DEFINE n == row.attempts + 1
  <2>1. n \in Nat
    BY DEF JobRow
  <2>. HIDE DEF n
  <2>2. [row EXCEPT !.status = "running", !.owner = w, !.lapsed = FALSE,
                    !.attempts = n] \in JobRow
    BY <2>1 DEF JobRow, Active
  <2>. QED BY <2>2 DEF Claimed, n
<1>5. [row EXCEPT !.lapsed = FALSE] \in JobRow
  BY DEF JobRow
<1>. QED BY <1>1, <1>2, <1>3, <1>4, <1>5

\* What a claim does to the rows of its batch, and to no other.
LEMMA TakenRows ==
    ASSUME jobs \in [JobIds -> JobRow],
           NEW w \in Workers, NEW batch \in SUBSET JobIds, Taken(w, batch)
    PROVE  /\ \A j \in batch :
                 /\ jobs[j].status = "queued" /\ jobs'[j].status = "running"
                 /\ jobs'[j].owner = w /\ jobs'[j].target = jobs[j].target
                 /\ jobs'[j].attempts = jobs[j].attempts + 1
           /\ \A j \in JobIds \ batch : jobs'[j] = jobs[j]
<1>1. ASSUME NEW j \in batch
      PROVE  /\ jobs[j].status = "queued" /\ jobs'[j].status = "running"
             /\ jobs'[j].owner = w /\ jobs'[j].target = jobs[j].target
             /\ jobs'[j].attempts = jobs[j].attempts + 1
  <2>1. jobs'[j] = Claimed(w, jobs[j]) /\ jobs[j].status = "queued"
    BY DEF Taken
  <2>2. jobs[j] \in JobRow
    OBVIOUS
  <2>. QED BY <2>1, <2>2 DEF Claimed, JobRow
<1>. QED BY <1>1 DEF Taken

LEMMA EnqueueRow ==
    ASSUME IInv, NEW t \in Targets, Enqueue(t)
    PROVE  RowStep
BY DEF Enqueue, RowStep, Submitted

LEMMA NextRowStep ==
    ASSUME IInv, [Next]_vars
    PROVE  RowStep
<1>. USE DEF IInv, TypeOK
<1>1. CASE UNCHANGED vars
  BY <1>1 DEF vars, RowStep
<1>2. ASSUME NEW w \in Workers, NEW t \in Targets,
             StartRow(w, t) \/ StartMaterial(w, t) \/ CancelRun(w, t)
      PROVE  RowStep
  BY <1>2 DEF StartRow, StartMaterial, CancelRun, RowStep
<1>3. ASSUME NEW w \in Workers, NEW j \in JobIds, Retry(w, j)
      PROVE  RowStep
  BY <1>3 DEF Retry, RowStep
<1>4. ASSUME NEW w \in Workers, NEW j \in JobIds, Cancel(w, j) \/ Release(w, j)
      PROVE  RowStep
  <2>1. Settled(j, "canceled") \/ Settled(j, "failed")
    BY <1>4 DEF Cancel, Release, Cancelable, Settled, Active
  <2>. QED BY <2>1 DEF RowStep, Terminal
<1>5. ASSUME NEW w \in Workers, Claim(w)
      PROVE  RowStep
  <2>1. Taken(w, Oldest(Capacity(w))) /\ Oldest(Capacity(w)) \in SUBSET JobIds
    BY <1>5 DEF Claim, Taken, Oldest, Due
  <2>. QED BY <2>1 DEF RowStep
<1>6. ASSUME NEW w \in Workers, SweepSelect(w) \/ SweepMark(w)
      PROVE  RowStep
  BY <1>6 DEF SweepSelect, SweepMark, RowStep
<1>7. ASSUME NEW w \in Workers, NEW c \in sweep[w].todo, SweepCas(w, c)
      PROVE  RowStep
  <2>1. c \in Claims
    BY DEF Sweeps
  <2>2. CASE UNCHANGED jobs
    BY <2>2 DEF RowStep
  <2>3. CASE Fence(c) /\ jobs' = [jobs EXCEPT ![c.job] =
                IF SweepVerdict(c) = "pending" THEN Requeued(@, TRUE)
                                               ELSE Closed(@, "failed")]
    <3>1. GivenBack(c.job, TRUE) \/ Settled(c.job, "failed")
      BY <2>3 DEF Fence, GivenBack, Settled, Active
    <3>. QED BY <3>1, <2>1 DEF RowStep, Terminal, Claims
  <2>. QED BY <1>7, <2>2, <2>3 DEF SweepCas
<1>8. ASSUME NEW w \in Workers, Stop(w) \/ Crash(w)
      PROVE  RowStep
  BY <1>8 DEF Stop, Crash, RowStep
<1>9. ASSUME NEW o \in ops, HandlerStep(o), ~ CancelJobStep(o)
      PROVE  RowStep
  <2>1. o.target \in Targets
    BY DEF Ops
  <2>2. Enqueue(o.target) \/ UNCHANGED jobs
    BY <1>9 DEF HandlerStep, EnqueueStep, DispatchStep, OpMark, InlinePending,
                InlineStart, InlineDone, InlineFails
  <2>. QED BY <2>1, <2>2, EnqueueRow DEF RowStep
<1>10. ASSUME NEW o \in ops, CancelJobStep(o)
       PROVE  RowStep
  <2>1. UNCHANGED jobs \/ \E j \in JobIds : Settled(j, "canceled")
    BY <1>10 DEF CancelJobStep, ActiveJobs, Settled
  <2>. QED BY <2>1 DEF RowStep, Terminal
<1>11. ASSUME NEW e \in execs, ExecStep(e) \/ Renew(e)
       PROVE  RowStep
  <2>1. e \in Execs /\ e.job \in JobIds
    BY DEF Execs
  <2>2. CASE WorkStart(e) \/ WorkDone(e) \/ WorkFails(e) \/ Abandon(e) \/ ExecMark(e)
    BY <2>2 DEF WorkStart, WorkDone, WorkFails, Abandon, ExecMark, RowStep
  <2>3. CASE HandBack(e)
    <3>1. UNCHANGED jobs \/ GivenBack(e.job, TRUE)
      BY <2>3 DEF HandBack, Fence, GivenBack
    <3>. QED BY <3>1, <2>1 DEF RowStep
  <2>4. CASE Finish(e)
    <3>1. UNCHANGED jobs \/ Settled(e.job, "succeeded")
      BY <2>4 DEF Finish, Fence, Settled, Active
    <3>. QED BY <3>1, <2>1 DEF RowStep, Terminal
  <2>5. CASE HandleFailure(e) \/ ForceFailed(e)
    <3>1. UNCHANGED jobs \/ GivenBack(e.job, FALSE) \/ Settled(e.job, "failed")
      BY <2>5 DEF HandleFailure, ForceFailed, Fence, GivenBack, Settled, Active
    <3>. QED BY <3>1, <2>1 DEF RowStep, Terminal
  <2>6. CASE Renew(e)
    <3>1. CASE jobs' = [jobs EXCEPT ![e.job].lapsed = FALSE] /\ Fence(e)
      <4>. DEFINE row == [jobs[e.job] EXCEPT !.lapsed = FALSE]
      <4>1. jobs[e.job] \in JobRow /\ row \in JobRow
        BY <2>1, RowTypes
      <4>2. jobs' = [jobs EXCEPT ![e.job] = row]
        BY <3>1, <2>1 DEF JobRow
      <4>3. Ticked(e.job)
        BY <4>1, <4>2, <3>1 DEF Ticked, Fence, Active, JobRow
      <4>. QED BY <4>3, <2>1 DEF RowStep
    <3>2. CASE UNCHANGED jobs
      BY <3>2 DEF RowStep
    <3>. QED BY <2>6, <3>1, <3>2 DEF Renew
  <2>. QED BY <1>11, <2>2, <2>3, <2>4, <2>5, <2>6 DEF ExecStep
<1>12. ASSUME NEW j \in JobIds, Lapse(j) \/ BecomeDue(j)
       PROVE  RowStep
  <2>. PICK row \in JobRow :
             /\ row = [jobs[j] EXCEPT !.lapsed = TRUE]
                \/ row = [jobs[j] EXCEPT !.due = TRUE]
             /\ jobs' = [jobs EXCEPT ![j] = row]
    BY ZenonT(60), <1>12 DEF Lapse, BecomeDue, JobRow
  <2>1. Ticked(j)
    BY <1>12 DEF Lapse, BecomeDue, Ticked, JobRow, Active
  <2>. QED BY <2>1 DEF RowStep
<1>. QED
  BY <1>1, <1>2, <1>3, <1>4, <1>5, <1>6, <1>7, <1>8, <1>9, <1>10, <1>11, <1>12
  DEF Next, Start, LoopStep, SweepStep

-----------------------------------------------------------------------------
(* The invariant.                                                          *)

LEMMA RowStepRowsOK ==
    ASSUME IInv, RowStep
    PROVE  RowsOK'
<1>. USE DEF IInv, TypeOK, RowsOK
<1>1. CASE UNCHANGED jobs
  BY <1>1
<1>2. ASSUME NEW j \in JobIds, NEW t \in Targets, Submitted(j, t)
      PROVE  RowsOK'
  BY <1>2 DEF Submitted, NoRow
<1>3. ASSUME NEW w \in Workers, NEW batch \in SUBSET JobIds, Taken(w, batch)
      PROVE  RowsOK'
  BY ZenonT(60), <1>3 DEF Taken, Claimed, JobRow
<1>4. ASSUME NEW j \in JobIds, NEW due \in BOOLEAN, GivenBack(j, due)
      PROVE  RowsOK'
  BY <1>4 DEF GivenBack, Requeued, JobRow
<1>5. ASSUME NEW j \in JobIds, NEW s \in Terminal, Settled(j, s)
      PROVE  RowsOK'
  BY <1>5 DEF Settled, Closed, JobRow, Terminal, Active
<1>6. ASSUME NEW j \in JobIds, Ticked(j)
      PROVE  RowsOK'
  BY <1>6 DEF Ticked, JobRow, Active
<1>. QED BY <1>1, <1>2, <1>3, <1>4, <1>5, <1>6 DEF RowStep

LEMMA RowStepType ==
    ASSUME IInv, RowStep
    PROVE  /\ jobs' \in [JobIds -> JobRow]
           /\ \A j \in JobIds : jobs[j].status # "absent" =>
                 /\ jobs'[j].status # "absent"
                 /\ jobs'[j].target = jobs[j].target
                 /\ jobs[j].attempts <= jobs'[j].attempts
<1>. DEFINE Kept(j) == /\ jobs'[j] \in JobRow
                       /\ jobs[j].status # "absent" =>
                             /\ jobs'[j].status # "absent"
                             /\ jobs'[j].target = jobs[j].target
                             /\ jobs[j].attempts <= jobs'[j].attempts
            Result == jobs' \in [JobIds -> JobRow] /\ \A j \in JobIds : Kept(j)
<1>. USE DEF IInv, TypeOK
<1>1. CASE UNCHANGED jobs
  BY <1>1 DEF JobRow
<1>2. ASSUME NEW j \in JobIds, NEW t \in Targets, Submitted(j, t)
      PROVE  Result
  <2>1. jobs' \in [JobIds -> JobRow]
    BY <1>2, RowTypes DEF Submitted
  <2>. QED BY <1>2, <2>1 DEF Submitted, NoRow, JobRow
<1>3. ASSUME NEW w \in Workers, NEW batch \in SUBSET JobIds, Taken(w, batch)
      PROVE  Result
  <2>1. jobs' \in [JobIds -> JobRow]
    BY <1>3, RowTypes DEF Taken
  <2>2. \A i \in JobIds : jobs[i].attempts \in Nat
    BY DEF JobRow
  <2>. QED BY <1>3, <2>1, <2>2, TakenRows
<1>4. ASSUME NEW j \in JobIds, NEW due \in BOOLEAN, GivenBack(j, due)
      PROVE  Result
  <2>1. jobs' \in [JobIds -> JobRow]
    BY <1>4, RowTypes DEF GivenBack
  <2>. QED BY <1>4, <2>1 DEF GivenBack, Requeued, JobRow
<1>5. ASSUME NEW j \in JobIds, NEW s \in Terminal, Settled(j, s)
      PROVE  Result
  <2>1. jobs' \in [JobIds -> JobRow]
    BY <1>5, RowTypes DEF Settled
  <2>. QED BY <1>5, <2>1 DEF Settled, Closed, JobRow, Terminal
<1>6. ASSUME NEW j \in JobIds, Ticked(j)
      PROVE  Result
  BY <1>6 DEF Ticked, JobRow
<1>. QED BY <1>1, <1>2, <1>3, <1>4, <1>5, <1>6 DEF RowStep

LEMMA NextThreadStep ==
    ASSUME IInv, [Next]_vars
    PROVE  ThreadStep
<1>1. CASE UNCHANGED vars
  BY <1>1 DEF vars, ThreadStep
<1>2. ASSUME NEW w \in Workers, Start(w)
      PROVE  ThreadStep
  BY <1>2 DEF Start, StartRow, StartMaterial, CancelRun, Retry, Cancel, Release,
              ThreadStep
<1>3. ASSUME NEW w \in Workers, Claim(w)
      PROVE  ThreadStep
  <2>1. Oldest(Capacity(w)) \in SUBSET JobIds
    BY DEF Oldest, Due
  <2>2. UNCHANGED execs \/ Spawned(w, Oldest(Capacity(w)))
    BY <1>3 DEF Claim, Spawned, Taken, Oldest, Due
  <2>. QED BY <2>1, <2>2 DEF ThreadStep
<1>4. ASSUME NEW w \in Workers,
             SweepSelect(w) \/ SweepStep(w) \/ Stop(w) \/ Crash(w)
      PROVE  ThreadStep
  BY <1>4 DEF SweepSelect, SweepStep, SweepMark, SweepCas, Stop, Crash, ThreadStep
<1>5. ASSUME NEW o \in ops, HandlerStep(o)
      PROVE  ThreadStep
  BY <1>5 DEF HandlerStep, EnqueueStep, DispatchStep, OpMark, CancelJobStep, InlinePending,
     InlineStart, InlineDone, InlineFails,
              ThreadStep
<1>6. ASSUME NEW e \in execs, ExecStep(e) \/ Renew(e)
      PROVE  ThreadStep
  <2>1. \/ UNCHANGED execs \/ End(e)
        \/ \E pc \in Pcs : Goto(e, pc)
    BY <1>6 DEF ExecStep, WorkStart, WorkDone, WorkFails, Abandon, HandBack,
                Finish, HandleFailure, ForceFailed, ExecMark, Renew, Pcs
  <2>. QED BY <2>1 DEF ThreadStep, End
<1>7. ASSUME NEW j \in JobIds, Lapse(j) \/ BecomeDue(j)
      PROVE  ThreadStep
  BY <1>7 DEF Lapse, BecomeDue, ThreadStep
<1>. QED BY <1>1, <1>2, <1>3, <1>4, <1>5, <1>6, <1>7 DEF Next, LoopStep

\* A new thread's attempt is above every attempt of an earlier thread of its
\* job, and no row goes back to a lower count.
LEMMA ThreadStepNumbered ==
    ASSUME IInv, RowStep, ThreadStep
    PROVE  execs' \subseteq Execs /\ Numbered'
<1>. USE DEF IInv
<1>1. \A j \in JobIds : jobs[j].status # "absent" =>
         /\ jobs'[j].status # "absent"
         /\ jobs[j].attempts <= jobs'[j].attempts
         /\ jobs[j].attempts \in Nat /\ jobs'[j].attempts \in Nat
  BY RowStepType DEF TypeOK, JobRow
<1>2. \A e \in execs : e \in Execs /\ e.job \in JobIds /\ e.attempt \in Nat
  BY DEF TypeOK, Execs
<1>3. \A e \in execs : jobs'[e.job].status # "absent"
                       /\ e.attempt <= jobs'[e.job].attempts
  BY <1>1, <1>2 DEF Numbered
<1>4. CASE execs' \subseteq execs
  BY <1>2, <1>3, <1>4 DEF Numbered
<1>5. ASSUME NEW e \in execs, NEW pc \in Pcs, Goto(e, pc)
      PROVE  execs' \subseteq Execs /\ Numbered'
  <2>. DEFINE f == [e EXCEPT !.pc = pc]
  <2>1. f \in Execs /\ f.job = e.job /\ f.attempt = e.attempt
    BY <1>2 DEF Execs, Pcs
  <2>2. execs' = (execs \ {e}) \cup {f}
    BY <1>5 DEF Goto
  <2>. HIDE DEF f
  <2>. QED BY <1>2, <1>3, <2>1, <2>2 DEF Numbered
<1>6. ASSUME NEW w \in Workers, NEW batch \in SUBSET JobIds, Spawned(w, batch)
      PROVE  execs' \subseteq Execs /\ Numbered'
  <2>. DEFINE new(j) == [job |-> j, attempt |-> jobs[j].attempts + 1,
                         worker |-> w, pc |-> "start"]
  <2>1. execs' = execs \cup {new(j) : j \in batch}
    BY <1>6 DEF Spawned
  <2>2. \A j \in batch : jobs[j].attempts \in Nat /\ jobs[j] \in JobRow
    BY DEF TypeOK, JobRow
  <2>3. \A j \in batch : /\ jobs'[j].status = "running"
                         /\ jobs'[j].attempts = jobs[j].attempts + 1
    BY <1>6, <2>2 DEF Spawned, Taken, Claimed, JobRow
  <2>4. \A j \in batch : /\ new(j) \in Execs /\ new(j).job = j
                         /\ new(j).attempt = jobs[j].attempts + 1
    BY <2>2 DEF Execs
  <2>5. \A j \in batch, e \in execs : e.job = j => e.attempt < new(j).attempt
    BY <1>2, <2>2, <2>4 DEF Numbered
  <2>. HIDE DEF new
  <2>6. \A e1, e2 \in execs' :
           e1.job = e2.job /\ e1.attempt = e2.attempt => e1 = e2
    BY <1>2, <2>1, <2>2, <2>4, <2>5 DEF Numbered
  <2>7. \A e \in execs' : jobs'[e.job].status # "absent"
                          /\ e.attempt <= jobs'[e.job].attempts
    BY <1>3, <2>1, <2>2, <2>3, <2>4
  <2>. QED BY <1>2, <2>1, <2>4, <2>6, <2>7 DEF Numbered
<1>. QED BY <1>4, <1>5, <1>6 DEF ThreadStep

-----------------------------------------------------------------------------
(* Domain rows, and the rest of the state.                                 *)

LEMMA ThreadTarget ==
    ASSUME IInv, NEW e \in execs
    PROVE  e \in Execs /\ Goal(e) \in Targets
BY DEF IInv, TypeOK, RowsOK, Numbered, Execs, Goal

LEMMA MarkStep ==
    ASSUME NEW t \in Targets, NEW s \in {"pending", "failed"}, domain' = Mark(t, s)
    PROVE  DomainStep
BY DEF Mark, DomainStep, DomainStatuses, InFlight

\* The work's own marks.
LEMMA WorkStep ==
    ASSUME NEW t \in Targets, Begins(t) \/ Ends(t)
    PROVE  DomainStep
<1>1. CASE UNCHANGED domain
  BY <1>1 DEF DomainStep
<1>2. CASE MayBegin(t) /\ domain' = [domain EXCEPT ![t] = "running"]
  BY <1>2 DEF MayBegin, DomainStep, DomainStatuses, InFlight
<1>3. CASE MayEnd(t) /\ \E s \in {"done", "failed"} : domain' = [domain EXCEPT ![t] = s]
  BY <1>3 DEF MayEnd, DomainStep, DomainStatuses, InFlight
<1>. QED BY <1>1, <1>2, <1>3 DEF Begins, Ends

LEMMA NextDomainStep ==
    ASSUME IInv, [Next]_vars
    PROVE  DomainStep
<1>1. CASE UNCHANGED vars
  BY <1>1 DEF vars, DomainStep
<1>2. ASSUME NEW w \in Workers, Start(w)
      PROVE  DomainStep
  <2>1. CASE UNCHANGED domain
    BY <2>1 DEF DomainStep
  <2>2. ASSUME NEW t \in Targets, StartRow(w, t) \/ CancelRun(w, t)
        PROVE  DomainStep
    BY <2>2 DEF StartRow, CancelRun, DomainStep, DomainStatuses, InFlight
  <2>. QED BY <1>2, <2>1, <2>2 DEF Start, StartMaterial, Retry, Cancel, Release
<1>3. ASSUME NEW w \in Workers, LoopStep(w) \/ Stop(w) \/ Crash(w)
      PROVE  DomainStep
  <2>1. CASE UNCHANGED domain
    BY <2>1 DEF DomainStep
  <2>2. CASE SweepMark(w)
    <3>1. PICK m \in sweep[w].mark : domain' = Mark(m[1], m[2]) \/ UNCHANGED domain
      BY <2>2 DEF SweepMark
    <3>2. m[1] \in Targets /\ m[2] \in {"pending", "failed"}
      BY DEF IInv, TypeOK, Sweeps
    <3>. QED BY <3>1, <3>2, <2>1, MarkStep
  <2>. QED BY <1>3, <2>1, <2>2 DEF LoopStep, Claim, SweepSelect, SweepStep,
                                   SweepCas, Stop, Crash
<1>4. ASSUME NEW o \in ops, HandlerStep(o)
      PROVE  DomainStep
  <2>1. CASE UNCHANGED domain
    BY <2>1 DEF DomainStep
  <2>2. CASE OpMark(o)
    <3>1. /\ domain' = Mark(o.target, o.step) \/ UNCHANGED domain
          /\ o.target \in Targets /\ o.step \in {"pending", "failed"}
      BY <2>2 DEF OpMark, IInv, TypeOK, Ops
    <3>. QED BY <3>1, <2>1, MarkStep
  <2>3. CASE InlinePending(o) \/ InlineStart(o) \/ InlineDone(o)
    <3>1. o.target \in Targets
      BY DEF IInv, TypeOK, Ops
    <3>2. \/ UNCHANGED domain \/ Begins(o.target) \/ Ends(o.target)
          \/ domain' = Mark(o.target, "pending")
      BY <2>3 DEF InlinePending, InlineStart, InlineDone
    <3>. QED BY <3>1, <3>2, <2>1, WorkStep, MarkStep
  <2>. QED BY <1>4, <2>1, <2>2, <2>3 DEF HandlerStep, EnqueueStep, DispatchStep,
                                         CancelJobStep, InlineFails
<1>5. ASSUME NEW e \in execs, ExecStep(e) \/ Renew(e)
      PROVE  DomainStep
  <2>1. CASE UNCHANGED domain
    BY <2>1 DEF DomainStep
  <2>2. CASE WorkStart(e) \/ WorkDone(e)
    <3>1. UNCHANGED domain \/ Begins(Goal(e)) \/ Ends(Goal(e))
      BY <2>2 DEF WorkStart, WorkDone
    <3>. QED BY <3>1, <2>1, WorkStep, ThreadTarget
  <2>4. CASE ExecMark(e)
    <3>1. /\ domain' = Mark(Goal(e), e.pc) \/ UNCHANGED domain
          /\ e.pc \in {"pending", "failed"}
      BY <2>4 DEF ExecMark
    <3>. QED BY <3>1, <2>1, MarkStep, ThreadTarget
  <2>. QED BY <1>5, <2>1, <2>2, <2>4
           DEF ExecStep, WorkFails, Abandon, HandBack, Finish, HandleFailure,
               ForceFailed, Renew
<1>6. ASSUME NEW j \in JobIds, Lapse(j) \/ BecomeDue(j)
      PROVE  DomainStep
  BY <1>6 DEF Lapse, BecomeDue, DomainStep
<1>. QED BY <1>1, <1>2, <1>3, <1>4, <1>5, <1>6 DEF Next

LEMMA NextOps ==
    ASSUME IInv, [Next]_vars
    PROVE  ops' \subseteq Ops
<1>0. ops \subseteq Ops
  BY DEF IInv, TypeOK
<1>1. CASE ops' \subseteq ops
  BY <1>0, <1>1
<1>2. ASSUME NEW w \in Workers, NEW t \in Targets,
             NEW s \in OpSteps, NEW n \in Nat,
             ops' \subseteq ops \cup {Op(w, s, t, n)}
      PROVE  ops' \subseteq Ops
  BY <1>0, <1>2 DEF Op, Ops
<1>3. \A j \in JobIds : jobs[j].status # "absent" => jobs[j].target \in Targets
  BY DEF IInv, RowsOK
<1>4. ASSUME NEW w \in Workers, Start(w)
      PROVE  ops' \subseteq Ops
  <2>0. Command => commands' \in Nat
    BY DEF Command, IInv, TypeOK
  <2>1. ASSUME NEW t \in Targets, StartRow(w, t) \/ StartMaterial(w, t) \/ CancelRun(w, t)
        PROVE  ops' \subseteq Ops
    <3>1. \E s \in OpSteps, n \in Nat : ops' = ops \cup {Op(w, s, t, n)}
      BY <2>0, <2>1 DEF StartRow, StartMaterial, CancelRun, OpSteps
    <3>. QED BY <1>2, <3>1
  <2>2. ASSUME NEW j \in JobIds, Retry(w, j) \/ Cancel(w, j) \/ Release(w, j)
        PROVE  ops' \subseteq Ops
    <3>1. \E s \in OpSteps, n \in Nat : ops' = ops \cup {Op(w, s, jobs[j].target, n)}
      BY <2>0, <2>2 DEF Retry, Cancel, Release, OpSteps
    <3>2. jobs[j].target \in Targets
      BY <1>3, <2>2 DEF Retry, Cancel, Release, Retryable, Cancelable, Active
    <3>. QED BY <1>2, <3>1, <3>2
  <2>. QED BY <1>4, <2>1, <2>2 DEF Start
<1>5. ASSUME NEW o \in ops, HandlerStep(o)
      PROVE  ops' \subseteq Ops
  <2>1. o \in Ops
    BY <1>0
  <2>2. Return(o) \/ \E s \in OpSteps : Then(o, s)
    BY <1>5 DEF HandlerStep, EnqueueStep, DispatchStep, OpMark, CancelJobStep,
       InlinePending, InlineStart, InlineDone, InlineFails, OpSteps
  <2>3. ASSUME NEW s \in OpSteps, Then(o, s) PROVE ops' \subseteq Ops
    <3>1. [o EXCEPT !.step = s] \in Ops
      BY <2>1 DEF Ops
    <3>. QED BY <1>0, <2>3, <3>1 DEF Then
  <2>. QED BY <1>1, <2>2, <2>3 DEF Return
<1>6. CASE Next /\ ~ (\E w \in Workers : Start(w)) /\ ~ (\E o \in ops : HandlerStep(o))
  BY <1>1, <1>6 DEF Next, LoopStep, Claim, SweepSelect, SweepStep, SweepMark,
     SweepCas, Stop, Crash, ExecStep, WorkStart, WorkDone, WorkFails, Abandon,
     HandBack, Finish, HandleFailure, ForceFailed, ExecMark, Renew, Lapse, BecomeDue
<1>. QED BY <1>1, <1>4, <1>5, <1>6 DEF Next, vars

LEMMA NextSweep ==
    ASSUME IInv, [Next]_vars
    PROVE  sweep' \in [Workers -> Sweeps]
<1>0. sweep \in [Workers -> Sweeps]
  BY DEF IInv, TypeOK
<1>1. CASE UNCHANGED sweep
  BY <1>0, <1>1
<1>2. ASSUME NEW w \in Workers, SweepSelect(w)
      PROVE  sweep' \in [Workers -> Sweeps]
  <2>. DEFINE todo == {[job |-> j, attempt |-> jobs[j].attempts,
                        worker |-> jobs[j].owner] : j \in Expired(w)}
  <2>1. \A j \in Expired(w) : /\ j \in JobIds /\ jobs[j].attempts \in Nat
                              /\ jobs[j].owner \in Workers
    BY DEF Expired, IInv, TypeOK, RowsOK, JobRow
  <2>2. todo \subseteq Claims
    BY <2>1 DEF Claims
  <2>3. sweep' = [sweep EXCEPT ![w].todo = todo]
    BY <1>2 DEF SweepSelect
  <2>. HIDE DEF todo
  <2>. QED BY <1>0, <2>2, <2>3 DEF Sweeps
<1>3. ASSUME NEW w \in Workers, NEW c \in sweep[w].todo, SweepCas(w, c)
      PROVE  sweep' \in [Workers -> Sweeps]
  <2>1. sweep[w].todo \subseteq Claims /\ c \in Claims
    BY <1>0 DEF Sweeps
  <2>2. CASE sweep' = [sweep EXCEPT ![w] = Idle]
    BY <1>0, <2>2 DEF Sweeps, Idle
  <2>3. CASE sweep' = [sweep EXCEPT ![w].todo = @ \ {c}]
    BY <1>0, <2>1, <2>3 DEF Sweeps
  <2>4. CASE /\ Fence(c)
             /\ sweep' = [sweep EXCEPT ![w] = [todo |-> @.todo \ {c},
                            mark |-> {<<jobs[c.job].target, SweepVerdict(c)>>}]]
    <3>1. jobs[c.job].target \in Targets /\ SweepVerdict(c) \in {"pending", "failed"}
      BY <2>1, <2>4 DEF Fence, IInv, RowsOK, SweepVerdict, Claims
    <3>2. [todo |-> sweep[w].todo \ {c},
           mark |-> {<<jobs[c.job].target, SweepVerdict(c)>>}] \in Sweeps
      BY <2>1, <3>1 DEF Sweeps
    <3>. QED BY <1>0, <2>4, <3>2
  <2>. QED BY <1>3, <2>2, <2>3, <2>4 DEF SweepCas
<1>4. ASSUME NEW w \in Workers, SweepMark(w)
      PROVE  sweep' \in [Workers -> Sweeps]
  BY <1>0, <1>4 DEF SweepMark, Sweeps
<1>5. ASSUME NEW w \in Workers, Crash(w)
      PROVE  sweep' \in [Workers -> Sweeps]
  BY <1>0, <1>5 DEF Crash, Sweeps, Idle
<1>6. CASE Next /\ ~ (\E w \in Workers : \/ SweepSelect(w) \/ SweepStep(w)
                                         \/ Crash(w))
  BY <1>1, <1>6 DEF Next, LoopStep, Claim, Stop, Start, StartRow, StartMaterial,
     CancelRun, Retry, Cancel, Release, HandlerStep, EnqueueStep, DispatchStep,
     OpMark, CancelJobStep, InlinePending,
     InlineStart, InlineDone, InlineFails, ExecStep, WorkStart, WorkDone, WorkFails, Abandon,
     HandBack, Finish, HandleFailure, ForceFailed, ExecMark, Renew, Lapse, BecomeDue
<1>. QED BY <1>1, <1>2, <1>3, <1>4, <1>5, <1>6 DEF vars, SweepStep

LEMMA NextCounters ==
    ASSUME IInv, [Next]_vars
    PROVE  /\ process' \in [Workers -> {"up", "stopping", "dead"}]
           /\ faults' \in Nat /\ commands' \in Nat /\ faults <= faults'
<1>0. /\ process \in [Workers -> {"up", "stopping", "dead"}]
      /\ faults \in Nat /\ commands \in Nat
  BY DEF IInv, TypeOK
<1>1. \/ UNCHANGED process
      \/ \E w \in Workers, s \in {"stopping", "dead"} :
            process' = [process EXCEPT ![w] = s]
  BY DEF Next, LoopStep, Claim, Stop, Crash, SweepSelect, SweepStep, SweepCas,
     SweepMark, Start, StartRow, StartMaterial,
     CancelRun, Retry, Cancel, Release, HandlerStep, EnqueueStep, DispatchStep,
     OpMark, CancelJobStep, InlinePending,
     InlineStart, InlineDone, InlineFails, ExecStep, WorkStart, WorkDone, WorkFails, Abandon,
     HandBack, Finish, HandleFailure, ForceFailed, ExecMark, Renew, Lapse,
     BecomeDue, vars
<1>2. (UNCHANGED faults \/ Fault) /\ (UNCHANGED commands \/ Command)
  BY ZenonT(60) DEF Next, LoopStep, Claim, Stop, Crash, SweepSelect, SweepStep, SweepCas,
     SweepMark, Start, StartRow, StartMaterial,
     CancelRun, Retry, Cancel, Release, HandlerStep, EnqueueStep, DispatchStep,
     OpMark, CancelJobStep, InlinePending,
     InlineStart, InlineDone, InlineFails, ExecStep, WorkStart, WorkDone, WorkFails, Abandon,
     HandBack, Finish, HandleFailure, ForceFailed, ExecMark, Renew, Lapse,
     BecomeDue, vars
<1>3. process' \in [Workers -> {"up", "stopping", "dead"}]
  BY <1>0, <1>1
<1>. QED BY <1>0, <1>2, <1>3 DEF Fault, Command

LEMMA InitInvariant == Init => IInv
<1>. SUFFICES ASSUME Init PROVE IInv
  OBVIOUS
<1>1. NoRow \in JobRow
  BY DEF NoRow, JobRow
<1>2. TypeOK
  BY <1>1 DEF Init, TypeOK, DomainStatuses, Idle, Sweeps
<1>. QED BY <1>2 DEF Init, IInv, RowsOK, Numbered, NoRow

LEMMA NextInvariant == IInv /\ [Next]_vars => IInv'
<1>. SUFFICES ASSUME IInv, [Next]_vars PROVE IInv'
  OBVIOUS
<1>1. RowStep /\ ThreadStep /\ DomainStep
  BY NextRowStep, NextThreadStep, NextDomainStep
<1>2. RowsOK'
  BY <1>1, RowStepRowsOK
<1>3. execs' \subseteq Execs /\ Numbered'
  BY <1>1, ThreadStepNumbered
<1>4. jobs' \in [JobIds -> JobRow]
  BY <1>1, RowStepType
<1>5. domain' \in [Targets -> DomainStatuses]
  BY <1>1 DEF DomainStep, IInv, TypeOK
<1>. QED BY <1>2, <1>3, <1>4, <1>5, NextOps, NextSweep, NextCounters
         DEF IInv, TypeOK

\* The inductive invariant holds of every behaviour of the queue.
THEOREM Invariant == Spec => []IInv
BY InitInvariant, NextInvariant, PTL DEF Spec

\* Type correctness of the queue's state.
THEOREM TypeCorrect == Spec => []TypeOK
BY Invariant, PTL DEF IInv

\* Mutual exclusion of writers: of all the threads that ever claimed a job,
\* at most one passes the fence of _cas_job.
THEOREM OneOwnerHolds == Spec => []OneOwner
<1>1. IInv => OneOwner
  BY DEF IInv, Numbered, OneOwner, Fence
<1>. QED BY <1>1, Invariant, PTL

-----------------------------------------------------------------------------
(* The table on its own.                                                   *)

LEMMA RowStepActive ==
    ASSUME IInv, RowStep, OneActiveJob
    PROVE  OneActiveJob'
<1>. USE DEF OneActiveJob, ActiveJobs
<1>1. \A j \in JobIds : jobs[j] \in JobRow
  BY DEF IInv, TypeOK
<1>2. ASSUME \A j \in JobIds : jobs'[j].status \in Active =>
                /\ jobs[j].status \in Active
                /\ jobs'[j].target = jobs[j].target
      PROVE  OneActiveJob'
  BY <1>2
<1>3. CASE UNCHANGED jobs
  BY <1>3
<1>4. ASSUME NEW j \in JobIds, NEW t \in Targets, Submitted(j, t)
      PROVE  OneActiveJob'
  <2>1. /\ jobs'[j].status = "queued" /\ jobs'[j].target = t
        /\ \A i \in JobIds \ {j} : jobs'[i] = jobs[i]
    BY <1>4 DEF Submitted, NoRow, IInv, TypeOK
  <2>2. \A i \in JobIds : jobs[i].target = t => jobs[i].status \notin Active
    BY <1>4 DEF Submitted
  <2>3. ASSUME NEW u \in Targets, NEW i1 \in ActiveJobs(u)', NEW i2 \in ActiveJobs(u)'
        PROVE  i1 = i2
    BY <2>1, <2>2, <2>3
  <2>. QED BY <2>3
<1>5. ASSUME NEW w \in Workers, NEW batch \in SUBSET JobIds, Taken(w, batch)
      PROVE  OneActiveJob'
  <2>1. \A j \in JobIds : jobs'[j].status \in Active =>
           jobs[j].status \in Active /\ jobs'[j].target = jobs[j].target
    BY <1>5, TakenRows DEF IInv, TypeOK, Active
  <2>. QED BY <1>2, <2>1
<1>6. ASSUME NEW j \in JobIds, NEW due \in BOOLEAN, GivenBack(j, due)
      PROVE  OneActiveJob'
  BY <1>1, <1>2, <1>6 DEF GivenBack, Requeued, JobRow, Active, IInv, TypeOK
<1>7. ASSUME NEW j \in JobIds, NEW s \in Terminal, Settled(j, s)
      PROVE  OneActiveJob'
  BY <1>1, <1>2, <1>7 DEF Settled, Closed, JobRow, Active, Terminal, IInv, TypeOK
<1>8. ASSUME NEW j \in JobIds, Ticked(j)
      PROVE  OneActiveJob'
  BY <1>1, <1>2, <1>8 DEF Ticked, IInv, TypeOK
<1>. QED BY <1>3, <1>4, <1>5, <1>6, <1>7, <1>8 DEF RowStep

\* One active job per target, whatever handlers, retries and sweeps overlap.
THEOREM OneActiveJobHolds == Spec => []OneActiveJob
<1>1. Init => OneActiveJob
  BY DEF Init, OneActiveJob, ActiveJobs, NoRow, Active
<1>2. IInv /\ OneActiveJob /\ [Next]_vars => OneActiveJob'
  BY NextRowStep, RowStepActive
<1>. QED BY <1>1, <1>2, Invariant, PTL DEF Spec

\* No step writes a settled row: not a stale thread, a sweep with an old
\* snapshot, a late cancel, nor a release.
THEOREM SettledJobIsFinalHolds == Spec => SettledJobIsFinal
<1>1. ASSUME IInv, [Next]_vars, NEW j \in JobIds, jobs[j].status \in Terminal
      PROVE  jobs'[j] = jobs[j]
  <2>1. RowStep
    BY <1>1, NextRowStep
  <2>2. /\ jobs[j].status \notin Active /\ jobs[j].status # "absent"
        /\ jobs[j].status # "queued" /\ jobs[j].status # "running"
    BY <1>1 DEF Terminal, Active
  <2>. QED BY <2>1, <2>2, <1>1
           DEF RowStep, Submitted, Taken, GivenBack, Settled, Ticked, IInv, TypeOK
<1>2. IInv /\ [Next]_vars =>
         [\A j \in JobIds : jobs[j].status \in Terminal => jobs'[j] = jobs[j]]_vars
  BY <1>1
<1>. QED BY <1>2, Invariant, PTL DEF Spec, SettledJobIsFinal

\* No late mark of the queue or of a stale attempt flips a settled chat
\* answer or run.
THEOREM SettledRowIsFinalHolds == Spec => SettledRowIsFinal
<1>1. ASSUME IInv, [Next]_vars, NEW t \in Targets \ Open,
             domain[t] \in {"done", "failed", "canceled"}
      PROVE  domain'[t] = domain[t]
  BY <1>1, NextDomainStep DEF DomainStep, InFlight, IInv, TypeOK
<1>2. IInv /\ [Next]_vars =>
         [\A t \in Targets \ Open :
            domain[t] \in {"done", "failed", "canceled"} => domain'[t] = domain[t]]_vars
  BY <1>1
<1>. QED BY <1>2, Invariant, PTL DEF Spec, SettledRowIsFinal

-----------------------------------------------------------------------------
(* The queue implements the ledger.                                        *)

LEMMA RowStepLedger ==
    ASSUME IInv, RowStep
    PROVE  [Ledger!Next]_(Ledger!ledger)
<1>. DEFINE phase == [j \in JobIds |-> jobs[j].status]
            goal == [j \in JobIds |-> jobs[j].target]
            holder == [j \in JobIds |-> jobs[j].owner]
            turns == [j \in JobIds |-> jobs[j].attempts]
<1>0. jobs \in [JobIds -> JobRow] /\ jobs' \in [JobIds -> JobRow]
  BY RowStepType DEF IInv, TypeOK
<1>1. CASE UNCHANGED jobs
  BY <1>1 DEF Ledger!ledger
<1>2. ASSUME NEW j \in JobIds, NEW t \in Targets, Submitted(j, t)
      PROVE  Ledger!Submit(j, t)
  <2>1. jobs[j] = NoRow
    BY <1>2 DEF Submitted, IInv, RowsOK
  <2>2. \A i \in JobIds : jobs[i].target = t => jobs[i].status \notin Active
    BY <1>2 DEF Submitted, ActiveJobs
  <2>3. jobs' = [jobs EXCEPT ![j] = [NoRow EXCEPT
                     !.status = "queued", !.target = t, !.due = TRUE]]
    BY <1>2 DEF Submitted
  <2>4. /\ jobs'[j].status = "queued" /\ jobs'[j].target = t
        /\ jobs'[j].owner = jobs[j].owner /\ jobs'[j].attempts = jobs[j].attempts
        /\ \A i \in JobIds \ {j} : jobs'[i] = jobs[i]
    BY <1>0, <2>1, <2>3 DEF NoRow
  <2>5. phase[j] = "absent" /\ \A i \in JobIds : goal[i] = t => phase[i] \notin Active
    BY <1>2, <2>2 DEF Submitted
  <2>6. phase' = [phase EXCEPT ![j] = "queued"] /\ goal' = [goal EXCEPT ![j] = t]
    BY <2>4
  <2>7. UNCHANGED <<holder, turns>>
    BY <2>4
  <2>. QED BY <2>5, <2>6, <2>7 DEF Ledger!Submit, Ledger!Unsettled, Active
<1>3. ASSUME NEW w \in Workers, NEW batch \in SUBSET JobIds, Taken(w, batch)
      PROVE  Ledger!Take(w, batch)
  <2>1. /\ \A j \in batch :
              /\ jobs[j].status = "queued" /\ jobs'[j].status = "running"
              /\ jobs'[j].owner = w /\ jobs'[j].target = jobs[j].target
              /\ jobs'[j].attempts = jobs[j].attempts + 1
        /\ \A j \in JobIds \ batch : jobs'[j] = jobs[j]
    BY <1>0, <1>3, TakenRows
  <2>. QED BY <2>1 DEF Ledger!Take
<1>4. ASSUME NEW j \in JobIds, NEW due \in BOOLEAN, GivenBack(j, due)
      PROVE  Ledger!GiveBack(j)
  BY <1>0, <1>4 DEF GivenBack, Requeued, JobRow, Ledger!GiveBack
<1>5. ASSUME NEW j \in JobIds, NEW s \in Terminal, Settled(j, s)
      PROVE  Ledger!Settle(j, s)
  BY <1>0, <1>5 DEF Settled, Closed, JobRow, Active, Ledger!Settle, Ledger!Unsettled
<1>6. ASSUME NEW j \in JobIds, Ticked(j)
      PROVE  UNCHANGED Ledger!ledger
  BY <1>0, <1>6 DEF Ticked, Ledger!ledger
<1>. QED BY <1>1, <1>2, <1>3, <1>4, <1>5, <1>6
         DEF RowStep, Ledger!Next, Ledger!Outcomes, Terminal

\* Leases, sweeps, stale threads, crashes and lost answers never make a job
\* held twice, revive it, or lose count of its turns.
THEOREM Refinement == Spec => ImplementsLedger
<1>1. Init => Ledger!Init
  BY DEF Init, Ledger!Init, NoRow
<1>2. IInv /\ [Next]_vars => [Ledger!Next]_(Ledger!ledger)
  BY NextRowStep, RowStepLedger
<1>. QED BY <1>1, <1>2, Invariant, PTL DEF Spec, ImplementsLedger, Ledger!Spec

-----------------------------------------------------------------------------
(* While leases outlast attempts, a lease lapses under no live thread, and *)
(* only a release takes a job from the thread that works on it.            *)

Attending == {"start", "work"}

\* A fenced thread's lease is fresh; a thread at work has its fence; and what
\* a sweep still has to do is lapsed or has been taken up again since.
Leased ==
    /\ \A e \in execs : Fence(e) => ~ jobs[e.job].lapsed
    /\ \A e \in execs : e.pc \in Attending => Fence(e)
    /\ \A w \in Workers : \A c \in sweep[w].todo :
          /\ jobs[c.job].status # "absent" /\ c.attempt <= jobs[c.job].attempts
          /\ Fence(c) => jobs[c.job].lapsed

NoRelease == ~ \E w \in Workers, j \in JobIds : Release(w, j)

Same(e, f) == e.job = f.job /\ e.attempt = f.attempt /\ e.worker = f.worker

\* No thread begins, and none goes back to work.
NoneBegins ==
    \A f \in execs' : \E e \in execs :
        Same(e, f) /\ (f.pc \in Attending => e.pc \in Attending)

\* A job leaves its owner, and no thread at work was that owner.
LetGo(j) ==
    /\ NoneBegins
    /\ \/ \E due \in BOOLEAN : GivenBack(j, due)
       \/ \E s \in Terminal : Settled(j, s)
    /\ \A f \in execs' : f.pc \in Attending => ~ (f.job = j /\ Fence(f))

\* What a step without a release does to the jobs and threads together.
LeaseStep ==
    \/ UNCHANGED jobs /\ NoneBegins
    \/ \E j \in JobIds, t \in Targets : Submitted(j, t) /\ UNCHANGED execs
    \/ \E w \in Workers, batch \in SUBSET JobIds :
          \/ Spawned(w, batch)
          \/ Taken(w, batch) /\ UNCHANGED execs
    \/ \E j \in JobIds : LetGo(j)
    \/ \E j \in JobIds : Lapse(j) \/ BecomeDue(j)

LEMMA Stay ==
    ASSUME execs' \subseteq execs
    PROVE  NoneBegins
BY DEF NoneBegins, Same

LEMMA Moved ==
    ASSUME IInv, NEW e \in execs, NEW pc, Goto(e, pc),
           pc \in Attending => e.pc \in Attending
    PROVE  NoneBegins
<1>. DEFINE f == [e EXCEPT !.pc = pc]
<1>1. f.job = e.job /\ f.attempt = e.attempt /\ f.worker = e.worker /\ f.pc = pc
  BY ThreadTarget DEF Execs
<1>2. execs' = (execs \ {e}) \cup {f}
  BY DEF Goto
<1>. HIDE DEF f
<1>. QED BY <1>1, <1>2 DEF NoneBegins, Same

\* The one thread that a fence lets through.
LEMMA OneFenced ==
    ASSUME IInv, NEW e \in execs, NEW f \in execs, e.job = f.job, Fence(e), Fence(f)
    PROVE  e = f
BY DEF IInv, Numbered, Fence

\* A thread that closes or gives back its job is at work on it no longer.
LEMMA Dropped ==
    ASSUME IInv, NEW e \in execs, Fence(e),
           \/ End(e)
           \/ \E pc \in Pcs \ Attending : Goto(e, pc)
    PROVE  \A f \in execs' : f.pc \in Attending => ~ (f.job = e.job /\ Fence(f))
<1>. SUFFICES ASSUME NEW f \in execs', f.pc \in Attending, f.job = e.job, Fence(f)
              PROVE  FALSE
  OBVIOUS
<1>1. CASE f \in execs /\ f # e
  BY <1>1, OneFenced
<1>2. CASE ~ (f \in execs /\ f # e)
  <2>1. PICK pc \in Pcs \ Attending : Goto(e, pc)
    BY <1>2 DEF End
  <2>2. f = [e EXCEPT !.pc = pc]
    BY <1>2, <2>1 DEF Goto
  <2>3. f.pc = pc
    BY <2>2, ThreadTarget DEF Execs
  <2>. QED BY <2>1, <2>3
<1>. QED BY <1>1, <1>2

LEMMA NextLeaseStep ==
    ASSUME IInv, Leased, Timely, NoRelease, Next
    PROVE  LeaseStep
<1>1. ASSUME NEW w \in Workers, Start(w) PROVE LeaseStep
  <2>1. ASSUME NEW j \in JobIds, Cancel(w, j) PROVE LetGo(j)
    <3>1. Settled(j, "canceled") /\ UNCHANGED execs
      BY <2>1 DEF Cancel, Cancelable, Settled, Active
    <3>2. ASSUME NEW f \in execs, f.job = j, Fence(f) PROVE FALSE
      BY <2>1, <3>2 DEF Cancel, Cancelable, Leased, Fence
    <3>. QED BY <3>1, <3>2, Stay DEF LetGo, Terminal
  <2>2. CASE UNCHANGED <<jobs, execs>>
    BY <2>2, Stay DEF LeaseStep
  <2>. QED BY <1>1, <2>1, <2>2 DEF Start, StartRow, StartMaterial, CancelRun, Retry,
              NoRelease, LeaseStep
<1>2. ASSUME NEW w \in Workers, Claim(w) PROVE LeaseStep
  <2>1. Oldest(Capacity(w)) \in SUBSET JobIds
    BY DEF Oldest, Due
  <2>2. \/ Taken(w, Oldest(Capacity(w))) /\ UNCHANGED execs
        \/ Spawned(w, Oldest(Capacity(w)))
    BY <1>2 DEF Claim, Spawned, Taken, Oldest, Due
  <2>. QED BY <2>1, <2>2 DEF LeaseStep
<1>3. ASSUME NEW w \in Workers, NEW c \in sweep[w].todo, SweepCas(w, c)
      PROVE  LeaseStep
  <2>1. execs' = execs
    BY <1>3 DEF SweepCas
  <2>2. CASE UNCHANGED jobs
    BY <2>1, <2>2, Stay DEF LeaseStep
  <2>3. CASE ~ UNCHANGED jobs
    <3>1. c \in Claims /\ c.job \in JobIds
      BY DEF IInv, TypeOK, Sweeps, Claims
    <3>2. Fence(c) /\ jobs' = [jobs EXCEPT ![c.job] =
              IF SweepVerdict(c) = "pending" THEN Requeued(@, TRUE) ELSE Closed(@, "failed")]
      BY <1>3, <2>3 DEF SweepCas
    <3>3. GivenBack(c.job, TRUE) \/ Settled(c.job, "failed")
      BY <3>2 DEF Fence, GivenBack, Settled, Active
    <3>4. ASSUME NEW f \in execs, f.job = c.job, Fence(f) PROVE FALSE
      BY <3>2, <3>4 DEF Leased
    <3>. QED BY <2>1, <3>1, <3>3, <3>4, Stay DEF LetGo, Terminal, LeaseStep
  <2>. QED BY <2>2, <2>3
<1>4. ASSUME NEW w \in Workers, SweepSelect(w) \/ SweepMark(w) \/ Stop(w) \/ Crash(w)
      PROVE  LeaseStep
  <2>1. UNCHANGED jobs /\ execs' \subseteq execs
    BY <1>4 DEF SweepSelect, SweepMark, Stop, Crash
  <2>. QED BY <2>1, Stay DEF LeaseStep
<1>5. ASSUME NEW o \in ops, HandlerStep(o) PROVE LeaseStep
  <2>1. execs' = execs /\ o.target \in Targets
    BY <1>5 DEF HandlerStep, EnqueueStep, DispatchStep, OpMark, CancelJobStep, InlinePending,
     InlineStart, InlineDone, InlineFails, IInv,
       TypeOK, Ops
  <2>2. CASE UNCHANGED jobs
    BY <2>1, <2>2, Stay DEF LeaseStep
  <2>3. CASE Enqueue(o.target)
    BY <2>1, <2>2, <2>3 DEF Enqueue, Submitted, LeaseStep
  <2>4. ASSUME NEW j \in ActiveJobs(o.target), Cancelable(j),
               jobs' = [jobs EXCEPT ![j] = Closed(@, "canceled")]
        PROVE  LeaseStep
    <3>1. Settled(j, "canceled") /\ j \in JobIds
      BY <2>4 DEF Cancelable, Settled, Active, ActiveJobs
    <3>2. ASSUME NEW f \in execs, f.job = j, Fence(f) PROVE FALSE
      BY <2>4, <3>2 DEF Cancelable, Leased, Fence
    <3>. QED BY <2>1, <3>1, <3>2, Stay DEF LetGo, Terminal, LeaseStep
  <2>. QED BY <1>5, <2>2, <2>3, <2>4 DEF HandlerStep, EnqueueStep, DispatchStep, OpMark,
              CancelJobStep, InlinePending, InlineStart, InlineDone, InlineFails
<1>6. ASSUME NEW e \in execs, ExecStep(e) \/ Renew(e) PROVE LeaseStep
  <2>0. e \in Execs /\ e.job \in JobIds
    BY ThreadTarget DEF Execs
  <2>1. CASE WorkStart(e)
    <3>1. UNCHANGED jobs /\ e.pc \in Attending /\ \E pc \in Pcs : Goto(e, pc)
      BY <2>1 DEF WorkStart, Attending, Pcs
    <3>. QED BY <3>1, Moved DEF LeaseStep
  <2>2. CASE UNCHANGED jobs /\ (End(e) \/ \E pc \in Pcs \ Attending : Goto(e, pc))
    <3>1. End(e) => NoneBegins
      BY Stay DEF End
    <3>. QED BY <2>2, <3>1, Moved DEF LeaseStep
  <2>3. CASE /\ \/ GivenBack(e.job, TRUE) \/ GivenBack(e.job, FALSE)
                \/ Settled(e.job, "succeeded") \/ Settled(e.job, "failed")
             /\ Fence(e) /\ (End(e) \/ \E pc \in Pcs \ Attending : Goto(e, pc))
    <3>1. NoneBegins
      BY <2>3, Stay, Moved DEF End
    <3>2. \A f \in execs' : f.pc \in Attending => ~ (f.job = e.job /\ Fence(f))
      BY <2>3, Dropped
    <3>. QED BY <2>0, <2>3, <3>1, <3>2 DEF LetGo, Terminal, LeaseStep
  <2>4. ~ (e.pc = "work" /\ Fence(e) /\ jobs[e.job].lapsed)
    BY DEF Leased
  <2>5. CASE WorkDone(e) \/ WorkFails(e) \/ Abandon(e) \/ ExecMark(e) \/ Renew(e)
    BY <2>2, <2>4, <2>5 DEF WorkDone, WorkFails, Abandon, ExecMark, Renew, Pcs, Attending
  <2>6. CASE HandBack(e)
    BY <2>2, <2>3, <2>6 DEF HandBack, Pcs, Attending, GivenBack, Fence
  <2>7. CASE Finish(e)
    BY <2>2, <2>3, <2>7 DEF Finish, Pcs, Attending, Settled, Active, Fence
  <2>8. CASE HandleFailure(e) \/ ForceFailed(e)
    BY <2>2, <2>3, <2>8 DEF HandleFailure, ForceFailed, Pcs, Attending, Settled, Active,
       GivenBack, Fence
  <2>. QED BY <1>6, <2>1, <2>5, <2>6, <2>7, <2>8 DEF ExecStep
<1>. QED BY <1>1, <1>2, <1>3, <1>4, <1>5, <1>6 DEF Next, LoopStep, SweepStep, LeaseStep

\* A stint at a job ends for good: whoever holds the fence after a step held
\* it before, or begins with a fresh lease an attempt above every other.
LEMMA Stints ==
    ASSUME IInv, LeaseStep, NEW j \in JobIds, jobs'[j].status = "running"
    PROVE  \/ /\ jobs[j].status = "running"
              /\ jobs'[j].owner = jobs[j].owner /\ jobs'[j].attempts = jobs[j].attempts
              /\ jobs[j].lapsed => jobs'[j].lapsed
              /\ jobs'[j].lapsed /\ (\E e \in execs : e.job = j /\ Fence(e)) /\ Timely
                 => jobs[j].lapsed
           \/ /\ jobs[j].status # "running"
              /\ jobs'[j].attempts = jobs[j].attempts + 1 /\ ~ jobs'[j].lapsed
<1>. USE DEF IInv, TypeOK
<1>0. jobs[j] \in JobRow /\ DOMAIN jobs = JobIds
  OBVIOUS
<1>1. CASE UNCHANGED jobs
  BY <1>1
<1>2. ASSUME NEW i \in JobIds, NEW t \in Targets, Submitted(i, t)
      PROVE  jobs' = [jobs EXCEPT ![i] = jobs'[i]] /\ jobs'[i].status = "queued"
  BY <1>2 DEF Submitted, NoRow
<1>3. ASSUME NEW w \in Workers, NEW batch \in SUBSET JobIds, Taken(w, batch)
      PROVE  \/ jobs'[j] = jobs[j]
             \/ /\ jobs[j].status # "running"
                /\ jobs'[j].attempts = jobs[j].attempts + 1 /\ ~ jobs'[j].lapsed
  BY <1>0, <1>3 DEF Taken, Claimed, JobRow
<1>4. ASSUME NEW i \in JobIds, LetGo(i)
      PROVE  jobs' = [jobs EXCEPT ![i] = jobs'[i]] /\ jobs'[i].status # "running"
  BY <1>4 DEF LetGo, GivenBack, Settled, Requeued, Closed, Terminal, JobRow
<1>5. ASSUME NEW i \in JobIds, Lapse(i)
      PROVE  \/ jobs'[j] = jobs[j]
             \/ /\ jobs[j].status = "running"
                /\ jobs'[j].owner = jobs[j].owner /\ jobs'[j].attempts = jobs[j].attempts
                /\ jobs'[j].lapsed /\ (Timely => ~ \E e \in execs : e.job = j /\ Fence(e))
  BY <1>0, <1>5 DEF Lapse, JobRow
<1>6. ASSUME NEW i \in JobIds, BecomeDue(i)
      PROVE  jobs'[j] = jobs[j] \/ jobs'[j].status = "queued"
  BY <1>0, <1>6 DEF BecomeDue, JobRow
<1>7. CASE jobs'[j] = jobs[j]
  BY <1>7
<1>. QED BY <1>0, <1>1, <1>2, <1>3, <1>4, <1>5, <1>6, <1>7 DEF LeaseStep, Spawned

\* A thread after a step was one before, or begins with the fence of a job
\* that nobody had.
LEMMA Threads ==
    ASSUME IInv, LeaseStep, NEW f \in execs'
    PROVE  \/ \E e \in execs : Same(e, f) /\ (f.pc \in Attending => e.pc \in Attending)
           \/ /\ f.job \in JobIds /\ jobs[f.job].status = "queued"
              /\ jobs'[f.job].status = "running" /\ jobs'[f.job].owner = f.worker
              /\ jobs'[f.job].attempts = f.attempt /\ ~ jobs'[f.job].lapsed
<1>. USE DEF IInv, TypeOK
<1>1. CASE f \in execs
  BY <1>1 DEF Same
<1>2. CASE NoneBegins
  BY <1>2 DEF NoneBegins
<1>3. ASSUME NEW w \in Workers, NEW batch \in SUBSET JobIds, Spawned(w, batch), f \notin execs
      PROVE  /\ f.job \in JobIds /\ jobs[f.job].status = "queued"
             /\ jobs'[f.job].status = "running" /\ jobs'[f.job].owner = f.worker
             /\ jobs'[f.job].attempts = f.attempt /\ ~ jobs'[f.job].lapsed
  <2>1. PICK j \in batch : f = [job |-> j, attempt |-> jobs[j].attempts + 1, worker |-> w,
                                pc |-> "start"]
    BY <1>3 DEF Spawned
  <2>2. f.job = j /\ f.attempt = jobs[j].attempts + 1 /\ f.worker = w
    BY <2>1
  <2>3. jobs'[j] = Claimed(w, jobs[j]) /\ jobs[j].status = "queued" /\ jobs[j] \in JobRow
    BY <1>3 DEF Spawned, Taken
  <2>4. ~ jobs'[j].lapsed
    BY <2>3 DEF Claimed, JobRow
  <2>. QED BY <1>3, <2>2, <2>4, TakenRows DEF Spawned
<1>. QED BY <1>1, <1>2, <1>3 DEF LeaseStep, LetGo, Lapse, BecomeDue

\* What a sweep has to do after a step it had before, or has just read.
LEMMA ToDo ==
    ASSUME IInv, Next, NEW w \in Workers, NEW c \in sweep'[w].todo
    PROVE  \/ c \in sweep[w].todo
           \/ /\ c.job \in JobIds /\ UNCHANGED jobs
              /\ jobs[c.job].status = "running" /\ jobs[c.job].lapsed
              /\ c.attempt = jobs[c.job].attempts
<1>0. sweep \in [Workers -> Sweeps]
  BY DEF IInv, TypeOK
<1>1. CASE UNCHANGED sweep
  BY <1>1
<1>2. ASSUME NEW u \in Workers, SweepSelect(u)
      PROVE  \/ c \in sweep[w].todo
             \/ /\ c.job \in JobIds /\ UNCHANGED jobs
                /\ jobs[c.job].status = "running" /\ jobs[c.job].lapsed
                /\ c.attempt = jobs[c.job].attempts
  <2>. DEFINE todo == {[job |-> j, attempt |-> jobs[j].attempts,
                        worker |-> jobs[j].owner] : j \in Expired(u)}
  <2>1. /\ \A x \in todo : /\ x.job \in JobIds /\ jobs[x.job].status = "running"
                           /\ jobs[x.job].lapsed /\ x.attempt = jobs[x.job].attempts
    BY DEF Expired
  <2>2. UNCHANGED jobs /\ sweep' = [sweep EXCEPT ![u].todo = todo]
    BY <1>2 DEF SweepSelect
  <2>. HIDE DEF todo
  <2>. QED BY <1>0, <2>1, <2>2 DEF Sweeps
<1>3. ASSUME NEW u \in Workers, SweepStep(u) \/ Crash(u)
      PROVE  c \in sweep[w].todo
  <2>1. \/ \E x : sweep' = [sweep EXCEPT ![u].todo = @ \ {x}]
        \/ \E x, y : sweep' = [sweep EXCEPT ![u] = [todo |-> @.todo \ {x}, mark |-> y]]
        \/ sweep' = [sweep EXCEPT ![u] = Idle]
        \/ sweep' = [sweep EXCEPT ![u].mark = {}]
    BY <1>3 DEF SweepStep, SweepCas, SweepMark, Crash
  <2>. QED BY <1>0, <2>1 DEF Sweeps, Idle
<1>4. CASE ~ \E u \in Workers : SweepSelect(u) \/ SweepStep(u) \/ Crash(u)
  BY <1>1, <1>4 DEF Next, LoopStep, Claim, Stop, Start, StartRow, StartMaterial,
     CancelRun, Retry, Cancel, Release, HandlerStep, EnqueueStep, DispatchStep,
     OpMark, CancelJobStep, InlinePending,
     InlineStart, InlineDone, InlineFails, ExecStep, WorkStart, WorkDone, WorkFails, Abandon,
     HandBack, Finish, HandleFailure, ForceFailed, ExecMark, Renew, Lapse, BecomeDue
<1>. QED BY <1>2, <1>3, <1>4

\* A job under a thread at work stays its own.
LEMMA WorkStays ==
    ASSUME IInv, Leased, LeaseStep, NEW e \in execs, NEW f \in execs', Same(e, f),
           e.pc \in Attending, f.pc \in Attending
    PROVE  jobs'[f.job].status = "running"
<1>. USE DEF IInv, TypeOK, Same
<1>1. /\ Fence(e) /\ e.job \in JobIds /\ jobs[e.job] \in JobRow
      /\ jobs[e.job].status = "running" /\ Fence(f) /\ DOMAIN jobs = JobIds
  BY ThreadTarget DEF Leased, Fence, Execs
<1>2. ASSUME NEW j \in JobIds, LetGo(j) PROVE j # f.job /\ jobs'[f.job] = jobs[f.job]
  <2>1. j # f.job
    BY <1>1, <1>2 DEF LetGo
  <2>. QED BY <1>1, <1>2, <2>1 DEF LetGo, GivenBack, Settled
<1>3. ASSUME NEW j \in JobIds, Lapse(j) \/ BecomeDue(j)
      PROVE  jobs'[f.job].status = jobs[f.job].status
  BY <1>1, <1>3 DEF Lapse, BecomeDue, JobRow
<1>4. ASSUME NEW w \in Workers, NEW batch \in SUBSET JobIds, Taken(w, batch)
      PROVE  jobs'[f.job] = jobs[f.job]
  BY <1>1, <1>4, TakenRows
<1>5. ASSUME NEW i \in JobIds, NEW t \in Targets, Submitted(i, t)
      PROVE  jobs'[f.job] = jobs[f.job]
  BY <1>1, <1>5 DEF Submitted
<1>. QED BY <1>1, <1>2, <1>3, <1>4, <1>5 DEF LeaseStep, Spawned

LEMMA LeasedStep ==
    ASSUME Timely, IInv, Leased, Next, NoRelease
    PROVE  Leased'
<1>1. LeaseStep
  BY NextLeaseStep
<1>2. RowStep
  BY NextRowStep
<1>3. \A j \in JobIds : jobs[j].status # "absent"
         => jobs'[j].status # "absent" /\ jobs[j].attempts <= jobs'[j].attempts
  BY <1>2, RowStepType
<1>4. \A j \in JobIds : jobs[j].attempts \in Nat /\ jobs'[j].attempts \in Nat
  BY <1>2, RowStepType DEF IInv, TypeOK, JobRow
<1>5. ASSUME NEW e \in execs, NEW f \in execs', Same(e, f), Fence(f)'
      PROVE  Fence(e) /\ ~ jobs'[f.job].lapsed
  <2>1. /\ e.job \in JobIds /\ e.job = f.job /\ e.attempt <= jobs[f.job].attempts
        /\ e.attempt \in Nat /\ jobs'[f.job].status = "running"
        /\ jobs'[f.job].owner = e.worker /\ jobs'[f.job].attempts = e.attempt
    BY <1>5, ThreadTarget DEF IInv, Numbered, Execs, Same, Fence
  <2>2. /\ jobs[f.job].status = "running"
        /\ jobs'[f.job].owner = jobs[f.job].owner
        /\ jobs'[f.job].attempts = jobs[f.job].attempts
        /\ jobs'[f.job].lapsed /\ (\E x \in execs : x.job = f.job /\ Fence(x)) /\ Timely
           => jobs[f.job].lapsed
    BY <1>1, <1>4, <2>1, Stints
  <2>3. Fence(e)
    BY <2>1, <2>2 DEF Fence
  <2>. QED BY <2>1, <2>2, <2>3 DEF Leased
<1>6. ASSUME NEW f \in execs', Fence(f)' PROVE ~ jobs'[f.job].lapsed
  BY <1>1, <1>5, <1>6, Threads
<1>7. ASSUME NEW f \in execs', f.pc \in Attending PROVE Fence(f)'
  <2>1. CASE \E e \in execs : Same(e, f) /\ e.pc \in Attending
    <3>1. PICK e \in execs : Same(e, f) /\ e.pc \in Attending
      BY <2>1
    <3>2. /\ jobs'[f.job].status = "running" /\ e.job \in JobIds /\ e.job = f.job
          /\ Fence(e) /\ e.attempt = f.attempt /\ e.worker = f.worker
      BY <1>1, <1>7, <3>1, WorkStays, ThreadTarget DEF Leased, Execs, Same
    <3>3. /\ jobs'[f.job].owner = jobs[f.job].owner
          /\ jobs'[f.job].attempts = jobs[f.job].attempts
      BY <1>1, <3>2, Stints DEF Fence
    <3>. QED BY <3>2, <3>3 DEF Fence
  <2>2. CASE ~ \E e \in execs : Same(e, f) /\ e.pc \in Attending
    BY <1>1, <1>7, <2>2, Threads DEF Fence
  <2>. QED BY <2>1, <2>2
<1>8. ASSUME NEW w \in Workers, NEW c \in sweep'[w].todo
      PROVE  /\ jobs'[c.job].status # "absent" /\ c.attempt <= jobs'[c.job].attempts
             /\ Fence(c)' => jobs'[c.job].lapsed
  <2>1. CASE c \in sweep[w].todo
    <3>1. c \in Claims /\ c.job \in JobIds /\ c.attempt \in Nat
      BY <2>1 DEF IInv, TypeOK, Sweeps, Claims
    <3>2. /\ jobs[c.job].status # "absent" /\ c.attempt <= jobs[c.job].attempts
          /\ Fence(c) => jobs[c.job].lapsed
      BY <2>1 DEF Leased
    <3>3. jobs'[c.job].status # "absent" /\ c.attempt <= jobs'[c.job].attempts
      BY <1>3, <1>4, <3>1, <3>2
    <3>4. ASSUME Fence(c)' PROVE jobs'[c.job].lapsed
      <4>1. jobs'[c.job].status = "running" /\ jobs'[c.job].attempts = c.attempt
            /\ jobs'[c.job].owner = c.worker
        BY <3>4 DEF Fence
      <4>2. /\ jobs[c.job].status = "running" /\ jobs'[c.job].owner = jobs[c.job].owner
            /\ jobs'[c.job].attempts = jobs[c.job].attempts
            /\ jobs[c.job].lapsed => jobs'[c.job].lapsed
        BY <1>1, <1>4, <3>1, <3>2, <4>1, Stints
      <4>. QED BY <3>2, <4>1, <4>2 DEF Fence
    <3>. QED BY <3>3, <3>4
  <2>2. CASE c \notin sweep[w].todo
    BY <1>4, <2>2, ToDo
  <2>. QED BY <2>1, <2>2
<1>. QED BY <1>6, <1>7, <1>8 DEF Leased

\* The inductive invariant of leases, as long as nobody releases jobs.
THEOREM LeasesHold ==
    ASSUME Timely
    PROVE  Spec /\ [][NoRelease]_vars => []Leased
<1>1. Init => Leased
  BY DEF Init, Leased, Idle
<1>2. IInv /\ Leased /\ [Next]_vars /\ [NoRelease]_vars => Leased'
  <2>. SUFFICES ASSUME IInv, Leased, [Next]_vars, [NoRelease]_vars PROVE Leased'
      OBVIOUS
  <2>1. CASE UNCHANGED vars
    BY <2>1 DEF vars, Leased, Fence
  <2>2. CASE Next /\ NoRelease
    BY <2>2, LeasedStep
  <2>. QED BY <2>1, <2>2
<1>. QED BY <1>1, <1>2, Invariant, PTL DEF Spec

\* A handler runs its target itself only after a call of its own has raised.
FallbackSteps == {"inline_pending", "inline", "begun"}
Faulted == \A o \in ops : o.step \in FallbackSteps => faults > 0

LEMMA FaultedStep ==
    ASSUME IInv, Faulted, [Next]_vars
    PROVE  Faulted'
<1>1. faults \in Nat /\ faults' \in Nat /\ faults <= faults'
  BY NextCounters DEF IInv, TypeOK
<1>2. CASE ops' \subseteq ops
  BY <1>1, <1>2 DEF Faulted
<1>3. ASSUME NEW w \in Workers, Start(w)
      PROVE  Faulted'
  <2>1. \A o \in ops' \ ops : o.step \notin FallbackSteps
    BY <1>3 DEF Start, StartRow, StartMaterial, CancelRun, Retry, Cancel, Release, Op,
       FallbackSteps
  <2>. QED BY <1>1, <2>1 DEF Faulted
<1>4. ASSUME NEW o \in ops, HandlerStep(o)
      PROVE  Faulted'
  <2>1. \/ Return(o)
        \/ \E s \in OpSteps : /\ Then(o, s)
                              /\ s \in FallbackSteps => Fault \/ o.step \in FallbackSteps
    BY <1>4 DEF HandlerStep, EnqueueStep, DispatchStep, OpMark, CancelJobStep,
       InlinePending, InlineStart, InlineDone, InlineFails, OpSteps, FallbackSteps
  <2>2. ASSUME NEW s \in OpSteps, Then(o, s),
               s \in FallbackSteps => Fault \/ o.step \in FallbackSteps
        PROVE  Faulted'
    <3>1. o \in Ops /\ [o EXCEPT !.step = s].step = s
      BY DEF IInv, TypeOK, Ops
    <3>2. s \in FallbackSteps => faults' > 0
      BY <1>1, <2>2 DEF Faulted, Fault
    <3>3. \A p \in ops' : p \in ops \/ p.step = s
      BY <2>2, <3>1 DEF Then
    <3>. QED BY <1>1, <3>2, <3>3 DEF Faulted
  <2>. QED BY <1>2, <2>1, <2>2 DEF Return
<1>5. CASE Next /\ ~ (\E w \in Workers : Start(w)) /\ ~ (\E o \in ops : HandlerStep(o))
  BY <1>2, <1>5 DEF Next, LoopStep, Claim, SweepSelect, SweepStep, SweepMark,
     SweepCas, Stop, Crash, ExecStep, WorkStart, WorkDone, WorkFails, Abandon,
     HandBack, Finish, HandleFailure, ForceFailed, ExecMark, Renew, Lapse, BecomeDue
<1>. QED BY <1>2, <1>3, <1>4, <1>5 DEF Next, vars

LEMMA FaultedHolds == Spec => []Faulted
<1>1. Init => Faulted
  BY DEF Init, Faulted
<1>2. IInv /\ Faulted /\ [Next]_vars => Faulted'
  BY FaultedStep
<1>. QED BY <1>1, <1>2, Invariant, PTL DEF Spec

\* While leases outlast attempts, no target is worked on by two threads that
\* claimed its job, for any crashes, errors, lost answers, starts, retries and
\* cancels, and a fallback is at work only once a call has raised.  A release
\* may take a job from a live thread, and its target be started again.
THEOREM NoOverlapHolds ==
    ASSUME Timely
    PROVE  Spec /\ [][NoRelease]_vars => []NoOverlap
<1>1. IInv /\ OneActiveJob /\ Leased /\ Faulted => NoOverlap
  <2>. SUFFICES ASSUME IInv, OneActiveJob, Leased, Faulted, NEW t \in Targets
                PROVE  /\ \A e1, e2 \in Claimants(t) : e1 = e2
                       /\ faults = 0 => Fallbacks(t) = {}
      BY DEF NoOverlap
  <2>1. ASSUME NEW e \in Claimants(t), NEW f \in Claimants(t) PROVE e = f
    <3>1. /\ e \in execs /\ f \in execs /\ Goal(e) = t /\ Goal(f) = t
          /\ e.pc \in Attending /\ f.pc \in Attending
      BY DEF Claimants, Attending
    <3>2. /\ Fence(e) /\ Fence(f) /\ e.job \in JobIds /\ f.job \in JobIds
      BY <3>1, ThreadTarget DEF Leased, Execs
    <3>3. e.job \in ActiveJobs(t) /\ f.job \in ActiveJobs(t)
      BY <3>1, <3>2 DEF Fence, ActiveJobs, Goal, Active
    <3>4. e.job = f.job
      BY <3>3 DEF OneActiveJob
    <3>. QED BY <3>1, <3>2, <3>4, OneFenced
  <2>2. faults = 0 => Fallbacks(t) = {}
    BY DEF Fallbacks, Faulted, FallbackSteps
  <2>. QED BY <2>1, <2>2
<1>. QED BY <1>1, Invariant, OneActiveJobHolds, LeasesHold, FaultedHolds, PTL

=============================================================================
