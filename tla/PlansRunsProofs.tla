--------------------------- MODULE PlansRunsProofs ---------------------------
(***************************************************************************)
(* Theorems about PlansRuns for any number of threads, categories, groups  *)
(* and deliverables, any troubles, and Calm either way unless a theorem    *)
(* assumes it.                                                             *)
(***************************************************************************)
EXTENDS PlansRuns, WellFoundedInduction, TLAPS

RowStatuses == {"none", "queued", "running"} \cup GroupTerminal

RowsOK == rows \in [Rows -> RowStatuses]

\* Whatever a step does to the group rows, it gives one status to some rows
\* without an answer, or deletes the run.
Given(S, status) == rows' = [r \in Rows |-> IF r \in S THEN status ELSE rows[r]]

RowStep ==
    \/ \E S \in SUBSET Rows, status \in RowStatuses :
        (\A r \in S : rows[r] # "done") /\ Given(S, status)
    \/ run'.status = "deleted" /\ rows' = [r \in Rows |-> "none"]

\* A step that leaves the rows alone.
LEMMA Unchanged ==
    ASSUME RowsOK, rows' = rows
    PROVE  RowStep
<1>1. Given({}, "none")
  BY DEF Given, RowsOK
<1>. QED BY <1>1 DEF RowStep, RowStatuses

\* The writes to one row are fenced on its active statuses.
LEMMA Fenced ==
    ASSUME RowsOK, NEW r, NEW status \in RowStatuses, rows' = Write(r, status)
    PROVE  RowStep
<1>1. CASE StatusOf(r) \in ActiveGroup
  <2>1. r \in Rows /\ rows[r] # "done"
    BY <1>1 DEF StatusOf, ActiveGroup
  <2>2. Given({r}, status)
    BY <1>1, <2>1 DEF Given, Write, RowsOK
  <2>. QED BY <2>1, <2>2 DEF RowStep
<1>2. CASE StatusOf(r) \notin ActiveGroup
  BY <1>2, Unchanged DEF Write
<1>. QED BY <1>1, <1>2

\* Rows are inserted where there are none.
LEMMA Inserted ==
    ASSUME RowsOK, NEW new, \A r \in new \cap Rows : rows[r] = "none",
           rows' = [r \in Rows |-> IF r \in new THEN "queued" ELSE rows[r]]
    PROVE  RowStep
<1>1. Given(new \cap Rows, "queued")
  BY DEF Given
<1>. QED BY <1>1 DEF RowStep, RowStatuses

LEMMA Free ==
    ASSUME NEW k, NEW s \in FreeSlots(k), <<k, s>> \in Rows
    PROVE  rows[<<k, s>>] = "none"
BY DEF FreeSlots

\* A set of numbers that is not empty has a least one.
LEMMA LeastIn ==
    ASSUME NEW S, S \subseteq Nat, S # {}
    PROVE  \E n \in S : \A m \in S : n =< m
<1>. DEFINE Less == {ss \in Nat \X Nat : ss[1] < ss[2]}
<1>1. IsWellFoundedOn(Less, Nat)
  BY NatLessThanWellFounded DEF OpToRel
<1>2. PICK n \in S : \A m \in S : <<m, n>> \notin Less
  <2>. HIDE DEF Less
  <2>. QED BY <1>1, WFMin
<1>3. ASSUME NEW m \in S PROVE n =< m
  <2>1. m \in Nat /\ n \in Nat
    OBVIOUS
  <2>2. <<m, n>> \in Less <=> m < n
    BY <2>1
  <2>3. ~(m < n)
    BY <1>2, <2>2
  <2>. QED BY <2>1, <2>3
<1>. QED BY <1>3

LEMMA MinIn ==
    ASSUME NEW S, S \subseteq Nat, S # {}
    PROVE  Min(S) \in S
BY LeastIn DEF Min

LEMMA FirstFree ==
    ASSUME NEW k, FreeSlots(k) # {}
    PROVE  Min(FreeSlots(k)) \in FreeSlots(k)
<1>1. FreeSlots(k) \subseteq Nat
  BY PlansAssumption DEF FreeSlots
<1>. QED BY <1>1, MinIn

LEMMA InsertedSubs ==
    ASSUME RowsOK, NEW t, InsertSubs(t)
    PROVE  RowStep
<1>. DEFINE new == {<<k, Min(FreeSlots(k))>> : k \in SubKeys}
<1>1. rows' = [r \in Rows |-> IF r \in new THEN "queued" ELSE rows[r]]
  BY DEF InsertSubs
<1>2. ASSUME NEW r \in new \cap Rows PROVE rows[r] = "none"
  <2>1. PICK k \in SubKeys : r = <<k, Min(FreeSlots(k))>>
    BY <1>2
  <2>2. FreeSlots(k) # {}
    BY DEF InsertSubs
  <2>. QED BY <1>2, <2>1, <2>2, FirstFree, Free
<1>. HIDE DEF new
<1>. QED BY <1>1, <1>2, Inserted

LEMMA InsertedRows ==
    ASSUME RowsOK, NEW t, Insert(t)
    PROVE  RowStep
<1>1. PICK slot \in [th[t].keys -> 1..Slots] :
        /\ \A k \in th[t].keys : slot[k] \in FreeSlots(k)
        /\ rows' = [r \in Rows |-> IF r \in {<<k, slot[k]>> : k \in th[t].keys}
                                   THEN "queued" ELSE rows[r]]
  BY DEF Insert
<1>. DEFINE new == {<<k, slot[k]>> : k \in th[t].keys}
<1>2. ASSUME NEW r \in new \cap Rows PROVE rows[r] = "none"
  BY <1>1, <1>2, Free
<1>3. rows' = [r \in Rows |-> IF r \in new THEN "queued" ELSE rows[r]]
  BY <1>1
<1>. HIDE DEF new
<1>. QED BY <1>2, <1>3, Inserted

\* The dedupe deletes a row that is still queued.
LEMMA Deleted ==
    ASSUME RowsOK, NEW t, NEW r, NEW l, StatusOf(r) = "queued", DeleteRow(t, r, l)
    PROVE  RowStep
<1>1. r \in Rows /\ rows[r] # "done"
  BY DEF StatusOf
<1>2. Given({r}, "none")
  BY <1>1 DEF Given, DeleteRow, RowsOK
<1>. QED BY <1>1, <1>2 DEF RowStep, RowStatuses

LEMMA RowsChange ==
    ASSUME RowsOK, [Next]_vars
    PROVE  RowStep
<1>1. CASE UNCHANGED vars
  BY <1>1, Unchanged DEF vars
<1>2. ASSUME NEW t \in Threads, GroupStep(t) PROVE RowStep
  <2>1. CASE PauseRun(t) \/ FinishJob(t)
    BY <2>1, Unchanged DEF PauseRun, FinishJob
  <2>2. CASE ClaimGroup(t)
    BY <2>2, Fenced DEF ClaimGroup, RowStatuses
  <2>3. CASE Recheck(t)
    <3>1. CASE rows' = rows
      BY <3>1, Unchanged
    <3>2. CASE \E status \in {"canceled", "queued"} : rows' = Write(th[t].row, status)
      BY <3>2, Fenced DEF RowStatuses, GroupTerminal
    <3>. QED BY <2>3, <3>1, <3>2 DEF Recheck
  <2>4. CASE CallModel(t)
    <3>1. CASE rows' = Write(th[t].row, "done")
      BY <3>1, Fenced DEF RowStatuses, GroupTerminal
    <3>2. CASE rows' = rows
      BY <3>2, Unchanged
    <3>. QED BY <2>4, <3>1, <3>2 DEF CallModel
  <2>5. CASE MarkRow(t)
    <3>1. CASE rows' = rows
      BY <3>1, Unchanged
    <3>2. CASE \E status \in {"failed", "queued"} : rows' = Write(th[t].row, status)
      BY <3>2, Fenced DEF RowStatuses, GroupTerminal
    <3>. QED BY <2>5, <3>1, <3>2 DEF MarkRow
  <2>. QED BY <1>2, <2>1, <2>2, <2>3, <2>4, <2>5 DEF GroupStep
<1>3. ASSUME NEW t \in Threads, AdvanceStep(t) PROVE RowStep
  <2>1. CASE InsertSubs(t) \/ Insert(t)
    BY <2>1, InsertedSubs, InsertedRows
  <2>2. CASE DeleteLoser(t)
    <3>1. CASE rows' = rows
      BY <3>1, Unchanged
    <3>2. CASE \E r, l : StatusOf(r) = "queued" /\ DeleteRow(t, r, l)
      BY <3>2, Deleted
    <3>. QED BY <2>2, <3>1, <3>2 DEF DeleteLoser
  <2>3. CASE DeleteWinner(t)
    <3>1. CASE rows' = rows
      BY <3>1, Unchanged
    <3>2. CASE \E r, l : StatusOf(r) = "queued" /\ DeleteRow(t, r, l)
      BY <3>2, Deleted
    <3>. QED BY <2>3, <3>1, <3>2 DEF DeleteWinner
  <2>4. CASE ~(InsertSubs(t) \/ Insert(t) \/ DeleteLoser(t) \/ DeleteWinner(t))
    <3>1. rows' = rows
      BY <1>3, <2>4 DEF AdvanceStep, ReadRun, ClaimPlanning, Plan, Replan, Consolidate, FailRun,
         TakeRender, StartRendering, Save, CloseRun, ReadDups, Enqueue
    <3>. QED BY <3>1, Unchanged
  <2>. QED BY <2>1, <2>2, <2>3, <2>4
<1>4. ASSUME NEW t \in Threads, RequestStep(t) PROVE RowStep
  <2>1. CASE CancelGroups(t)
    <3>1. Given({r \in Rows : rows[r] \in ActiveGroup}, "canceled")
      BY <2>1 DEF CancelGroups, Given
    <3>. QED BY <3>1 DEF RowStep, RowStatuses, GroupTerminal, ActiveGroup
  <2>2. CASE DeleteJobs(t)
    <3>1. Given({r \in Rows : rows[r] \in ActiveGroup /\ job[r] = "queued"}, "failed")
      BY <2>2 DEF DeleteJobs, Given
    <3>. QED BY <3>1 DEF RowStep, RowStatuses, GroupTerminal, ActiveGroup
  <2>3. CASE DeleteRun(t)
    <3>1. CASE rows' = rows
      BY <3>1, Unchanged
    <3>2. CASE run'.status = "deleted" /\ rows' = [r \in Rows |-> "none"]
      BY <3>2 DEF RowStep
    <3>. QED BY <2>3, <3>1, <3>2 DEF DeleteRun, Touch
  <2>4. CASE UndoGroups(t)
    <3>1. Given({r \in Rows : r \in th[t].set /\ rows[r] \in {"failed", "canceled"}}, "queued")
      BY <2>4 DEF UndoGroups, Given
    <3>. QED BY <3>1 DEF RowStep, RowStatuses
  <2>5. CASE ~(CancelGroups(t) \/ DeleteJobs(t) \/ DeleteRun(t) \/ UndoGroups(t))
    <3>1. rows' = rows
      BY <1>4, <2>5 DEF RequestStep, ResumeRun, CancelJobs, DeleteClaim, DeleteCheck, UndoDelete
    <3>. QED BY <3>1, Unchanged
  <2>. QED BY <2>1, <2>2, <2>3, <2>4, <2>5
<1>5. ASSUME NEW t \in Threads, Take(t) PROVE RowStep
  <2>1. PICK r \in Rows : StartJob(t, r)
    BY <1>5 DEF Take
  <2>2. CASE rows' = rows
    BY <2>2, Unchanged
  <2>3. CASE \E status \in {"queued", "canceled"} : rows' = Write(r, status)
    BY <2>3, Fenced DEF RowStatuses, GroupTerminal
  <2>. QED BY <2>1, <2>2, <2>3 DEF StartJob
<1>6. ASSUME NEW t \in Threads, Reap(t) \/ Fault(t) PROVE RowStep
  BY <1>6, Unchanged DEF Reap, Sweep, Fault
<1>7. ASSUME NEW t \in Threads, Crash(t) \/ Poll(t) \/ Resume(t) \/ CancelRun(t) \/ Delete(t)
      PROVE  RowStep
  BY <1>7, Unchanged DEF Crash, Poll, Resume, CancelRun, Delete
<1>8. CASE Age \/ ClaimExpires
  BY <1>8, Unchanged DEF Age, ClaimExpires
<1>. QED BY <1>1, <1>2, <1>3, <1>4, <1>5, <1>6, <1>7, <1>8 DEF Next, Step, Threads

\* A group row has a status at all times.
THEOREM RowsTyped == Spec => []RowsOK
<1>1. Init => RowsOK
  BY DEF Init, RowsOK, RowStatuses
<1>2. RowsOK /\ [Next]_vars => RowsOK'
  <2>. SUFFICES ASSUME RowsOK, [Next]_vars PROVE RowsOK'
    OBVIOUS
  <2>1. RowStep
    BY RowsChange
  <2>. QED BY <2>1 DEF RowStep, RowsOK, Given, RowStatuses
<1>. QED BY <1>1, <1>2, PTL DEF Spec

\* A stored answer is written over by no retry, mark, cancel, repair or undo,
\* and deleted by no dedupe: only a delete of the run takes it away.
THEOREM AnswerKeptHolds == Spec => AnswerKept
<1>1. RowsOK /\ [Next]_vars
        => [\A r \in Rows : rows[r] = "done" => rows'[r] = "done" \/ run'.status = "deleted"]_vars
  <2>. SUFFICES ASSUME RowsOK, [Next]_vars, NEW r \in Rows, rows[r] = "done"
                PROVE  rows'[r] = "done" \/ run'.status = "deleted"
    OBVIOUS
  <2>1. RowStep
    BY RowsChange
  <2>. QED BY <2>1 DEF RowStep, Given
<1>. QED BY <1>1, RowsTyped, PTL DEF Spec, AnswerKept

-----------------------------------------------------------------------------
(* What a thread holds.                                                    *)

Whole(l) ==
    l = [pc |-> l.pc, row |-> l.row, set |-> l.set, keys |-> l.keys, dups |-> l.dups,
         todo |-> l.todo, then |-> l.then, was |-> l.was, bad |-> l.bad]

\* A request that has claimed the run for its deletion.
Holding == {"delete_check", "delete_jobs", "delete_run", "undo"}

LocalOK(l) ==
    /\ Whole(l) /\ l.set \subseteq Rows /\ l.keys \subseteq Keys
    /\ l.pc = "resume" => l.was \in ActiveRun
    /\ l.pc \in Holding \cup {"delete_claim"} => l.was \in TerminalRun \cup {"over_cap"}
    /\ l.pc = "save" => l.todo \subseteq Kinds

ThreadsOK == DOMAIN th = Threads /\ \A t \in Threads : LocalOK(th[t])

\* A row has been read, and the thread goes on or goes home.
Plain(l) == Whole(l) /\ l.set \subseteq Rows /\ l.keys \subseteq Keys

LEMMA IdleOK == LocalOK(Idle) /\ Idle.pc = "idle"
BY DEF LocalOK, Whole, Idle, Holding

LEMMA HomeOK ==
    ASSUME NEW l
    PROVE  LocalOK(Home(l)) /\ Home(l).pc \in {"idle", "finish"}
BY DEF LocalOK, Whole, Idle, Home, Holding

LEMMA AdvanceOK ==
    ASSUME NEW l
    PROVE  LocalOK(Advance(l)) /\ Advance(l).pc = "advance"
<1>. SUFFICES ASSUME NEW m, m = Advance(l) PROVE LocalOK(m) /\ m.pc = "advance"
  OBVIOUS
<1>. QED BY DEF LocalOK, Whole, Idle, Advance, Holding

LEMMA EnqueuingOK ==
    ASSUME NEW l, Plain(l)
    PROVE  /\ LocalOK(Enqueuing(l))
           /\ Enqueuing(l).pc \in {"enqueue", "advance", "idle", "finish"}
<1>1. CASE l.set # {}
  <2>1. Enqueuing(l) = [l EXCEPT !.pc = "enqueue"]
    BY <1>1 DEF Enqueuing
  <2>. QED BY <2>1 DEF Plain, LocalOK, Whole, Holding
<1>2. CASE l.set = {}
  BY <1>2, HomeOK, AdvanceOK DEF Enqueuing
<1>. QED BY <1>1, <1>2

LEMMA DedupedOK ==
    ASSUME NEW l, Plain(l)
    PROVE  /\ LocalOK(Deduped(l))
           /\ Deduped(l).pc \in {"dedupe", "enqueue", "advance", "idle", "finish"}
<1>1. CASE \E d \in l.dups : d.lose # {}
  <2>1. Deduped(l) = [l EXCEPT !.pc = "dedupe"]
    BY <1>1 DEF Deduped
  <2>. QED BY <2>1 DEF Plain, LocalOK, Whole, Holding
<1>2. CASE ~ \E d \in l.dups : d.lose # {}
  <2>. DEFINE won == {d.win : d \in {d \in l.dups : d.fresh /\ d.win \in l.set}}
              m == [l EXCEPT !.keys = {}, !.dups = {}, !.set = won]
  <2>1. Deduped(l) = Enqueuing(m)
    BY <1>2 DEF Deduped
  <2>2. won \subseteq l.set
    OBVIOUS
  <2>3. Plain(m)
    <3>. SUFFICES ASSUME NEW n, n = m PROVE Plain(n)
      OBVIOUS
    <3>. HIDE DEF won
    <3>. QED BY <2>2 DEF Plain, Whole
  <2>. QED BY <2>1, <2>3, EnqueuingOK
<1>. QED BY <1>1, <1>2

LEMMA WithoutOK ==
    ASSUME NEW l, NEW r
    PROVE  /\ LocalOK(l) => LocalOK(Without(l, r))
           /\ Plain(l) => Plain(Without(l, r))
           /\ Whole(l) => Without(l, r).pc = l.pc /\ Without(l, r).todo = l.todo
                          /\ Without(l, r).was = l.was
<1>. DEFINE row == IF l.row = r THEN Gone(r) ELSE l.row
            dups == {[win |-> IF d.win = r THEN Gone(r) ELSE d.win, fresh |-> d.fresh,
                      lose |-> {IF s = r THEN Gone(r) ELSE s : s \in d.lose}] : d \in l.dups}
<1>1. Without(l, r) = [l EXCEPT !.row = row, !.set = @ \ {r}, !.dups = dups]
  BY DEF Without
<1>2. Whole(l) => Without(l, r) = [pc |-> l.pc, row |-> row, set |-> l.set \ {r}, keys |-> l.keys,
                                   dups |-> dups, todo |-> l.todo, then |-> l.then, was |-> l.was,
                                   bad |-> l.bad]
  <2>. HIDE DEF row, dups
  <2>. QED BY <1>1 DEF Whole
<1>. HIDE DEF row, dups
<1>. QED BY <1>2 DEF LocalOK, Plain, Whole

-----------------------------------------------------------------------------
(* A step sets one thread; it may delete a row others refer to.            *)

Apart == Holding \cup {"save"}

Sets(l) ==
    /\ LocalOK(l)
    /\ \E t \in Threads :
          \/ th' = [th EXCEPT ![t] = l]
          \/ \E r \in Rows : th' = [u \in Threads |-> IF u = t THEN l ELSE Without(th[u], r)]

\* A thread that neither renders nor has claimed the run for its deletion.
SetsPlain == \E l : l.pc \notin Apart /\ Sets(l)

RunOK == run \in [status : RunStatuses, old : BOOLEAN, plan : {"none", "live", "dead"}]

\* The run does not age, and a render that is taken over was old.
RunStep ==
    /\ run'.status = run.status => (run'.old => run.old)
    /\ run'.status # run.status =>
          /\ run.status \notin {"canceled", "deleted"} \cup TerminalRun
          /\ run.status = "rendering" => run'.status \in TerminalRun \/ (Calm => run.old)

Mild == RunOK' /\ RunStep /\ saved' = saved /\ SetsPlain

LEMMA SetOne ==
    ASSUME NEW t \in Threads, NEW l, LocalOK(l), l.pc \notin Apart, Local(t, l)
    PROVE  SetsPlain
BY DEF Local, Sets, SetsPlain

LEMMA SameRun ==
    ASSUME RunOK, UNCHANGED run
    PROVE  RunOK' /\ RunStep
BY DEF RunOK, RunStep

LEMMA TouchOK ==
    ASSUME RunOK, run' = Touch(run)
    PROVE  RunOK' /\ RunStep
BY DEF RunOK, RunStep, Touch

\* _cas_status from statuses that are neither final nor a render.
LEMMA CasOK ==
    ASSUME RunOK, NEW from, NEW to \in RunStatuses, CasStatus(from, to),
           from \cap (TerminalRun \cup {"deleted"}) = {},
           "rendering" \in from => to \in TerminalRun
    PROVE  RunOK' /\ RunStep
<1>1. CASE run.status \in from
  <2>1. run' = [run EXCEPT !.old = FALSE, !.status = to]
    BY <1>1 DEF CasStatus, Touch
  <2>2. RunOK' /\ run'.status = to /\ run'.old = FALSE
    BY <2>1 DEF RunOK
  <2>3. run.status \notin {"canceled", "deleted"} \cup TerminalRun
    BY <1>1 DEF TerminalRun
  <2>. QED BY <1>1, <2>2, <2>3 DEF RunStep
<1>2. CASE run.status \notin from
  BY <1>2, SameRun DEF CasStatus
<1>. QED BY <1>1, <1>2

LEMMA FailSets ==
    ASSUME NEW t \in Threads, NEW r, FailJob(t, r)
    PROVE  SetsPlain
<1>1. PICK pc \in {"mark_queued", "mark_failed"} : Local(t, [Idle EXCEPT !.pc = pc, !.row = r])
  BY DEF FailJob
<1>2. SUFFICES ASSUME NEW l, l = [Idle EXCEPT !.pc = pc, !.row = r] PROVE LocalOK(l) /\ l.pc \notin Apart
  BY <1>1, SetOne
<1>. QED BY <1>2 DEF LocalOK, Whole, Idle, Apart, Holding

\* A worker's group job.
LEMMA GroupMild ==
    ASSUME RunOK, ThreadsOK, NEW t \in Threads,
           GroupStep(t) \/ Take(t) \/ Reap(t)
    PROVE  Mild
<1>0. LocalOK(th[t])
  BY DEF ThreadsOK
<1>h. LocalOK(Home(th[t])) /\ Home(th[t]).pc \notin Apart
  BY HomeOK DEF Apart, Holding
<1>a. LocalOK(Advance(th[t])) /\ Advance(th[t]).pc \notin Apart
  BY AdvanceOK DEF Apart, Holding
<1>g. ASSUME NEW pc \in {"build", "call"}
      PROVE  /\ LocalOK([th[t] EXCEPT !.pc = pc]) /\ [th[t] EXCEPT !.pc = pc].pc \notin Apart
  BY <1>0 DEF LocalOK, Whole, Apart, Holding
<1>1. CASE PauseRun(t)
  <2>1. RunOK' /\ RunStep
    BY <1>1, CasOK DEF PauseRun, ActiveRun, TerminalRun, RunStatuses
  <2>. QED BY <1>1, <1>h, <2>1, SetOne DEF PauseRun, Mild
<1>2. CASE ClaimGroup(t)
  BY <1>2, <1>h, <1>g, SetOne, SameRun DEF ClaimGroup, Mild
<1>3. CASE Recheck(t)
  <2>1. CASE Goto(t, "call")
    <3>1. Local(t, [th[t] EXCEPT !.pc = "call"])
      BY <2>1 DEF Goto, Local, ThreadsOK
    <3>. QED BY <1>3, <3>1, <1>g, SetOne, SameRun DEF Recheck, Mild
  <2>2. CASE Local(t, Home(th[t]))
    BY <1>3, <2>2, <1>h, SetOne, SameRun DEF Recheck, Mild
  <2>. QED BY <1>3, <2>1, <2>2 DEF Recheck
<1>4. CASE CallModel(t)
  <2>1. CASE Local(t, Advance(th[t])) /\ run' = Touch(run)
    BY <1>4, <2>1, <1>a, SetOne, TouchOK DEF CallModel, Mild
  <2>2. CASE FailJob(t, th[t].row) /\ UNCHANGED run
    BY <1>4, <2>2, FailSets, SameRun DEF CallModel, Mild
  <2>. QED BY <1>4, <2>1, <2>2 DEF CallModel
<1>5. CASE FinishJob(t)
  BY <1>5, SetOne, IdleOK, SameRun DEF FinishJob, Mild, Apart, Holding
<1>6. CASE Take(t)
  <2>1. PICK r \in Rows : StartJob(t, r)
    BY <1>6 DEF Take
  <2>. DEFINE l == [Idle EXCEPT !.row = r]
  <2>2. ASSUME NEW pc \in {"claim", "pause"}
        PROVE  LocalOK([l EXCEPT !.pc = pc]) /\ [l EXCEPT !.pc = pc].pc \notin Apart
    <3>. SUFFICES ASSUME NEW m, m = [l EXCEPT !.pc = pc] PROVE LocalOK(m) /\ m.pc \notin Apart
      OBVIOUS
    <3>. QED BY DEF LocalOK, Whole, Idle, Apart, Holding
  <2>3. LocalOK(Home(l)) /\ Home(l).pc \notin Apart /\ LocalOK(Advance(l)) /\ Advance(l).pc \notin Apart
    BY HomeOK, AdvanceOK DEF Apart, Holding
  <2>4. PICK m : /\ m \in {[l EXCEPT !.pc = "claim"], [l EXCEPT !.pc = "pause"], Home(l), Advance(l)}
                 /\ Local(t, m)
    BY <2>1 DEF StartJob
  <2>5. LocalOK(m) /\ m.pc \notin Apart
    BY <2>2, <2>3, <2>4
  <2>. QED BY <2>1, <2>4, <2>5, SetOne, SameRun DEF StartJob, Mild
<1>7. CASE Reap(t)
  BY <1>7, FailSets, SameRun DEF Reap, Sweep, Mild
<1>8. CASE MarkRow(t)
  <2>1. PICK l : l \in {Idle, Advance(Idle)} /\ Local(t, l)
    BY <1>8 DEF MarkRow
  <2>2. LocalOK(l) /\ l.pc \notin Apart
    BY <2>1, IdleOK, AdvanceOK DEF Apart, Holding
  <2>. QED BY <1>8, <2>1, <2>2, SetOne, SameRun DEF MarkRow, Mild
<1>. QED BY <1>1, <1>2, <1>3, <1>4, <1>5, <1>6, <1>7, <1>8 DEF GroupStep

\* _advance_consolidating goes one of five ways.
LEMMA ConsolidatingIs ==
    ASSUME NEW l
    PROVE  ConsolidatingStage(l) \in
             {Home(l), AfterOutputs(l), UseMain(l),
              [l EXCEPT !.pc = "insert", !.keys = {Main(2)}], [l EXCEPT !.pc = "fail_run"]}
<1>. DEFINE first == rows[FirstOf(Main(1))]
            retry == IF RowsOf(Main(2)) = {} THEN "none" ELSE rows[FirstOf(Main(2))]
            second == CASE retry = "none" /\ HasLower ->
                              [l EXCEPT !.pc = "insert", !.keys = {Main(2)}]
                       [] retry \in ActiveGroup -> Home(l)
                       [] retry = "done" -> UseMain(l)
                       [] OTHER -> [l EXCEPT !.pc = "fail_run"]
<1>1. second \in {Home(l), UseMain(l), [l EXCEPT !.pc = "insert", !.keys = {Main(2)}],
                  [l EXCEPT !.pc = "fail_run"]}
  <2>. HIDE DEF retry
  <2>. QED BY Zenon DEF ActiveGroup
<1>2. ConsolidatingStage(l) =
        IF RowsOf(Main(1)) = {} THEN IF run.old THEN AfterOutputs(l) ELSE Home(l)
        ELSE CASE first \in ActiveGroup -> Home(l)
               [] first = "done" -> UseMain(l)
               [] OTHER -> second
  BY DEF ConsolidatingStage
<1>. HIDE DEF second, first, retry
<1>. QED BY <1>1, <1>2, Zenon DEF ActiveGroup

\* The stages of advance but for the renders.
LEMMA StageMild ==
    ASSUME RunOK, ThreadsOK, NEW t \in Threads,
           \/ ReadRun(t) \/ ClaimPlanning(t) \/ Plan(t) \/ InsertSubs(t) \/ Replan(t)
           \/ Consolidate(t) \/ FailRun(t) \/ TakeRender(t)
    PROVE  Mild
<1>0. LocalOK(th[t]) /\ Plain(th[t])
  BY DEF ThreadsOK, LocalOK, Plain
<1>h. \A l : LocalOK(Home(l)) /\ Home(l).pc \notin Apart
  BY HomeOK DEF Apart, Holding
<1>a. \A l : LocalOK(Advance(l)) /\ Advance(l).pc \notin Apart
  BY AdvanceOK DEF Apart, Holding
<1>p. ASSUME NEW l, Plain(l), NEW pc, pc \notin Apart \cup {"resume", "delete_claim"}
      PROVE  LocalOK([l EXCEPT !.pc = pc]) /\ [l EXCEPT !.pc = pc].pc \notin Apart
  <2>. SUFFICES ASSUME NEW m, m = [l EXCEPT !.pc = pc] PROVE LocalOK(m) /\ m.pc \notin Apart
    OBVIOUS
  <2>. QED BY <1>p DEF Plain, LocalOK, Whole, Apart, Holding
<1>k. ASSUME NEW l, Plain(l), NEW keys \in SUBSET Keys
      PROVE  /\ LocalOK([l EXCEPT !.pc = "insert", !.keys = keys])
             /\ [l EXCEPT !.pc = "insert", !.keys = keys].pc \notin Apart
  <2>. SUFFICES ASSUME NEW m, m = [l EXCEPT !.pc = "insert", !.keys = keys]
                PROVE  LocalOK(m) /\ m.pc \notin Apart
    OBVIOUS
  <2>. QED BY <1>k DEF Plain, LocalOK, Whole, Apart, Holding
<1>o. ASSUME NEW l, Plain(l)
      PROVE  LocalOK(AfterOutputs(l)) /\ AfterOutputs(l).pc \notin Apart
  <2>1. {Main(1)} \subseteq Keys
    BY DEF Keys
  <2>2. "fail_run" \notin Apart \cup {"resume", "delete_claim"}
    BY DEF Apart, Holding
  <2>. QED BY <1>o, <1>k, <1>p, <2>1, <2>2 DEF AfterOutputs
<1>g. ASSUME NEW pc, pc \notin Apart \cup {"resume", "delete_claim"}, Goto(t, pc)
      PROVE  SetsPlain
  <2>1. Local(t, [th[t] EXCEPT !.pc = pc])
    BY <1>g DEF Goto, Local, ThreadsOK
  <2>. QED BY <1>0, <1>p, <1>g, <2>1, SetOne
<1>1. CASE ReadRun(t)
  <2>. DEFINE l == [th[t] EXCEPT !.then = "return"]
  <2>1. Plain(l)
    <3>. SUFFICES ASSUME NEW m, m = l PROVE Plain(m)
      OBVIOUS
    <3>. QED BY <1>0 DEF Plain, Whole
  <2>2. LocalOK(ReadingStage(l)) /\ ReadingStage(l).pc \notin Apart
    <3>1. Missing \subseteq Keys
      BY DEF Missing, Keys
    <3>2. \A pc \in {"replan", "consolidate"} : pc \notin Apart \cup {"resume", "delete_claim"}
      BY DEF Apart, Holding
    <3>. HIDE DEF l
    <3>. QED BY <1>h, <1>p, <1>k, <2>1, <3>1, <3>2 DEF ReadingStage
  <2>3. LocalOK(ConsolidatingStage(l)) /\ ConsolidatingStage(l).pc \notin Apart
    <3>1. {Main(2)} \subseteq Keys
      BY DEF Keys
    <3>2. "fail_run" \notin Apart \cup {"resume", "delete_claim"}
      BY DEF Apart, Holding
    <3>3. LocalOK(UseMain(l)) /\ UseMain(l).pc \notin Apart
      <4>. SUFFICES ASSUME NEW m, m = UseMain(l) PROVE LocalOK(m) /\ m.pc \notin Apart
        OBVIOUS
      <4>. DEFINE bad == \E r \in Rows : rows[r] = "failed" /\ r[1] \notin {Main(1), Main(2)}
      <4>1. m = [l EXCEPT !.pc = "render", !.bad = bad]
        BY DEF UseMain
      <4>. HIDE DEF l, bad
      <4>. QED BY <2>1, <4>1 DEF LocalOK, Plain, Whole, Apart, Holding
    <3>4. ConsolidatingStage(l) \in
            {Home(l), AfterOutputs(l), UseMain(l),
             [l EXCEPT !.pc = "insert", !.keys = {Main(2)}], [l EXCEPT !.pc = "fail_run"]}
      BY ConsolidatingIs
    <3>. HIDE DEF l
    <3>5. /\ LocalOK([l EXCEPT !.pc = "insert", !.keys = {Main(2)}])
          /\ [l EXCEPT !.pc = "insert", !.keys = {Main(2)}].pc \notin Apart
      BY <1>k, <2>1, <3>1
    <3>6. LocalOK([l EXCEPT !.pc = "fail_run"]) /\ [l EXCEPT !.pc = "fail_run"].pc \notin Apart
      BY <1>p, <2>1, <3>2
    <3>7. LocalOK(AfterOutputs(l)) /\ AfterOutputs(l).pc \notin Apart
      BY <1>o, <2>1
    <3>. QED BY <1>h, <3>3, <3>4, <3>5, <3>6, <3>7
  <2>4. \A pc \in {"claim_plan", "take_render"} :
           /\ LocalOK([l EXCEPT !.pc = pc]) /\ [l EXCEPT !.pc = pc].pc \notin Apart
    <3>1. \A pc \in {"claim_plan", "take_render"} : pc \notin Apart \cup {"resume", "delete_claim"}
      BY DEF Apart, Holding
    <3>. HIDE DEF l
    <3>. QED BY <1>p, <2>1, <3>1
  <2>5. PICK m : /\ m \in {[l EXCEPT !.pc = "claim_plan"], ReadingStage(l), ConsolidatingStage(l),
                           [l EXCEPT !.pc = "take_render"], Home(l)}
                 /\ Local(t, m)
    <3>1. Local(t, CASE run.status = "splitting"     -> [l EXCEPT !.pc = "claim_plan"]
                     [] run.status = "reading"       -> ReadingStage(l)
                     [] run.status = "consolidating" -> ConsolidatingStage(l)
                     [] run.status = "rendering" /\ run.old -> [l EXCEPT !.pc = "take_render"]
                     [] OTHER -> Home(l))
      BY <1>1 DEF ReadRun
    <3>. HIDE DEF l
    <3>. QED BY <3>1, Zenon
  <2>6. LocalOK(m) /\ m.pc \notin Apart
    <3>. HIDE DEF l
    <3>. QED BY <1>h, <2>2, <2>3, <2>4, <2>5
  <2>7. RunOK' /\ RunStep
    <3>1. run' = Touch(run) \/ run' = run
      BY <1>1 DEF ReadRun
    <3>. QED BY <3>1, TouchOK, SameRun
  <2>. QED BY <1>1, <2>5, <2>6, <2>7, SetOne DEF ReadRun, Mild
<1>2. CASE ClaimPlanning(t)
  <2>1. "plan" \notin Apart \cup {"resume", "delete_claim"}
    BY DEF Apart, Holding
  <2>2. SetsPlain
    BY <1>2, <1>g, <1>h, <2>1, SetOne DEF ClaimPlanning
  <2>3. RunOK' /\ RunStep
    BY <1>2 DEF ClaimPlanning, RunOK, RunStep, Touch
  <2>. QED BY <1>2, <2>2, <2>3 DEF ClaimPlanning, Mild
<1>3. CASE Plan(t)
  <2>1. /\ LocalOK([th[t] EXCEPT !.pc = "insert_subs"])
        /\ [th[t] EXCEPT !.pc = "insert_subs"].pc \notin Apart
    BY <1>0, <1>p DEF Apart, Holding
  <2>2. SetsPlain
    BY <1>3, <1>h, <2>1, SetOne DEF Plan, Win
  <2>3. RunOK' /\ RunStep
    <3>1. CASE CasStatus({"splitting"}, "reading")
      BY <3>1, CasOK DEF RunStatuses, TerminalRun, ActiveRun
    <3>2. CASE CasStatus({"splitting"}, "failed")
      BY <3>2, CasOK DEF RunStatuses, TerminalRun, ActiveRun
    <3>. QED BY <1>3, <3>1, <3>2 DEF Plan, Win
  <2>. QED BY <1>3, <2>2, <2>3 DEF Plan, Mild
<1>4. CASE InsertSubs(t)
  <2>. DEFINE new == {<<k, Min(FreeSlots(k))>> : k \in SubKeys}
              l == [th[t] EXCEPT !.pc = "enqueue", !.set = new]
  <2>1. new \subseteq Rows
    <3>. SUFFICES ASSUME NEW k \in SubKeys PROVE <<k, Min(FreeSlots(k))>> \in Rows
      OBVIOUS
    <3>1. Min(FreeSlots(k)) \in FreeSlots(k)
      BY <1>4, FirstFree DEF InsertSubs
    <3>2. Min(FreeSlots(k)) \in 1..Slots /\ k \in Keys
      BY <3>1 DEF FreeSlots, Keys
    <3>. QED BY <3>2 DEF Rows
  <2>2. LocalOK(l) /\ l.pc \notin Apart
    <3>. SUFFICES ASSUME NEW m, m = l PROVE LocalOK(m) /\ m.pc \notin Apart
      OBVIOUS
    <3>. HIDE DEF new
    <3>. QED BY <1>0, <2>1 DEF Plain, LocalOK, Whole, Apart, Holding
  <2>3. Local(t, l)
    BY <1>4 DEF InsertSubs
  <2>. HIDE DEF l
  <2>. QED BY <1>4, <2>2, <2>3, SetOne, SameRun DEF InsertSubs, Mild
<1>5. CASE Replan(t)
  <2>1. SetsPlain
    BY <1>5, <1>h, <1>a, SetOne DEF Replan
  <2>2. RunOK' /\ RunStep
    BY <1>5 DEF Replan, RunOK, RunStep, Touch, RunStatuses, TerminalRun
  <2>. QED BY <1>5, <2>1, <2>2 DEF Replan, Mild
<1>6. CASE Consolidate(t)
  <2>1. SetsPlain
    BY <1>0, <1>6, <1>h, <1>o, SetOne DEF Consolidate, Win
  <2>2. RunOK' /\ RunStep
    BY <1>6, CasOK DEF Consolidate, Win, RunStatuses, TerminalRun, ActiveRun
  <2>. QED BY <1>6, <2>1, <2>2 DEF Consolidate, Mild
<1>7. CASE FailRun(t)
  <2>1. RunOK' /\ RunStep
    BY <1>7, CasOK DEF FailRun, RunStatuses, TerminalRun, ActiveRun
  <2>. QED BY <1>7, <1>h, <2>1, SetOne DEF FailRun, Mild
<1>8. CASE TakeRender(t)
  <2>1. SetsPlain
    BY <1>8, <1>h, <1>a, SetOne DEF TakeRender
  <2>2. RunOK' /\ RunStep
    BY <1>8 DEF TakeRender, StillOld, CasStatus, RunOK, RunStep, Touch, RunStatuses, ActiveRun,
                TerminalRun
  <2>. QED BY <1>8, <2>1, <2>2 DEF TakeRender, Mild
<1>. QED BY <1>1, <1>2, <1>3, <1>4, <1>5, <1>6, <1>7, <1>8

\* _insert_deduped and _enqueue_groups.
LEMMA QueueMild ==
    ASSUME RunOK, ThreadsOK, NEW t \in Threads,
           Insert(t) \/ ReadDups(t) \/ DeleteLoser(t) \/ DeleteWinner(t) \/ Enqueue(t)
    PROVE  Mild
<1>0. LocalOK(th[t]) /\ Plain(th[t])
  BY DEF ThreadsOK, LocalOK, Plain
<1>d. ASSUME NEW l, Plain(l) PROVE LocalOK(Deduped(l)) /\ Deduped(l).pc \notin Apart
  BY <1>d, DedupedOK DEF Apart, Holding
<1>e. ASSUME NEW l, Plain(l) PROVE LocalOK(Enqueuing(l)) /\ Enqueuing(l).pc \notin Apart
  BY <1>e, EnqueuingOK DEF Apart, Holding
<1>x. ASSUME NEW r, StatusOf(r) = "queued", NEW l, Plain(l), DeleteRow(t, r, Deduped(Without(l, r)))
      PROVE  SetsPlain
  <2>1. r \in Rows
    BY <1>x DEF StatusOf
  <2>2. Plain(Without(l, r))
    BY <1>x, WithoutOK
  <2>3. LocalOK(Deduped(Without(l, r))) /\ Deduped(Without(l, r)).pc \notin Apart
    BY <1>d, <2>2
  <2>. QED BY <1>x, <2>1, <2>3 DEF DeleteRow, Sets, SetsPlain
<1>1. CASE Insert(t)
  <2>1. PICK slot \in [th[t].keys -> 1..Slots] :
          Local(t, [th[t] EXCEPT !.pc = "read_dups", !.set = {<<k, slot[k]>> : k \in th[t].keys}])
    BY <1>1 DEF Insert
  <2>. DEFINE new == {<<k, slot[k]>> : k \in th[t].keys}
              l == [th[t] EXCEPT !.pc = "read_dups", !.set = new]
  <2>2. new \subseteq Rows
    BY <1>0 DEF Plain, Rows
  <2>3. LocalOK(l) /\ l.pc \notin Apart
    <3>. SUFFICES ASSUME NEW m, m = l PROVE LocalOK(m) /\ m.pc \notin Apart
      OBVIOUS
    <3>. HIDE DEF new
    <3>. QED BY <1>0, <2>2 DEF Plain, LocalOK, Whole, Apart, Holding
  <2>4. Local(t, l)
    BY <2>1
  <2>. HIDE DEF l
  <2>. QED BY <1>1, <2>3, <2>4, SetOne, SameRun DEF Insert, Mild
<1>2. CASE ReadDups(t)
  <2>. DEFINE dups == {[win |-> Winner(k), fresh |-> rows[Winner(k)] = "queued",
                        lose |-> {r \in RowsOf(k) \ {Winner(k)} : rows[r] = "queued"}]
                       : k \in {k \in th[t].keys : RowsOf(k) # {}}}
              l == [th[t] EXCEPT !.dups = dups]
  <2>1. Local(t, Deduped(l))
    BY <1>2 DEF ReadDups
  <2>2. Plain(l)
    <3>. SUFFICES ASSUME NEW m, m = l PROVE Plain(m)
      OBVIOUS
    <3>. HIDE DEF dups
    <3>. QED BY <1>0 DEF Plain, Whole
  <2>. HIDE DEF l
  <2>. QED BY <1>2, <1>d, <2>1, <2>2, SetOne, SameRun DEF ReadDups, Mild
<1>3. CASE DeleteLoser(t)
  <2>0. PICK d \in th[t].dups : \E r \in d.lose :
          LET l == [th[t] EXCEPT !.dups = (@ \ {d}) \cup {[d EXCEPT !.lose = @ \ {r}]}]
          IN  IF StatusOf(r) = "queued"
              THEN DeleteRow(t, r, Deduped(Without(l, r)))
              ELSE Local(t, IF d.fresh THEN [l EXCEPT !.pc = "delete_winner", !.todo = {r}] ELSE Deduped(l))
    BY <1>3 DEF DeleteLoser
  <2>1. PICK r \in d.lose :
          LET l == [th[t] EXCEPT !.dups = (@ \ {d}) \cup {[d EXCEPT !.lose = @ \ {r}]}]
          IN  IF StatusOf(r) = "queued"
              THEN DeleteRow(t, r, Deduped(Without(l, r)))
              ELSE Local(t, IF d.fresh THEN [l EXCEPT !.pc = "delete_winner", !.todo = {r}] ELSE Deduped(l))
    BY <2>0
  <2>. DEFINE dups == (th[t].dups \ {d}) \cup {[d EXCEPT !.lose = @ \ {r}]}
              l == [th[t] EXCEPT !.dups = dups]
              w == [l EXCEPT !.pc = "delete_winner", !.todo = {r}]
  <2>2. Plain(l)
    <3>. SUFFICES ASSUME NEW m, m = l PROVE Plain(m)
      OBVIOUS
    <3>. HIDE DEF dups
    <3>. QED BY <1>0 DEF Plain, Whole
  <2>3. LocalOK(w) /\ w.pc \notin Apart
    <3>. SUFFICES ASSUME NEW m, m = w PROVE LocalOK(m) /\ m.pc \notin Apart
      OBVIOUS
    <3>. HIDE DEF l
    <3>. QED BY <2>2 DEF Plain, LocalOK, Whole, Apart, Holding
  <2>4. IF StatusOf(r) = "queued" THEN DeleteRow(t, r, Deduped(Without(l, r)))
        ELSE Local(t, IF d.fresh THEN w ELSE Deduped(l))
    BY <2>1
  <2>. HIDE DEF l, w
  <2>5. SetsPlain
    BY <1>x, <1>d, <2>2, <2>3, <2>4, SetOne
  <2>. QED BY <1>3, <2>5, SameRun DEF DeleteLoser, Mild
<1>4. CASE DeleteWinner(t)
  <2>0. PICK r \in th[t].todo : \E d \in {d \in th[t].dups : d.win[1] = r[1]} :
          LET l == [th[t] EXCEPT !.todo = {}]
              kept == [l EXCEPT !.dups = (@ \ {d}) \cup {[d EXCEPT !.win = r, !.fresh = FALSE]}]
          IN  IF StatusOf(d.win) = "queued"
              THEN DeleteRow(t, d.win, Deduped(Without(kept, d.win)))
              ELSE Local(t, Deduped(l))
    BY <1>4 DEF DeleteWinner
  <2>1. PICK d \in {d \in th[t].dups : d.win[1] = r[1]} :
          LET l == [th[t] EXCEPT !.todo = {}]
              kept == [l EXCEPT !.dups = (@ \ {d}) \cup {[d EXCEPT !.win = r, !.fresh = FALSE]}]
          IN  IF StatusOf(d.win) = "queued"
              THEN DeleteRow(t, d.win, Deduped(Without(kept, d.win)))
              ELSE Local(t, Deduped(l))
    BY <2>0
  <2>. DEFINE l == [th[t] EXCEPT !.todo = {}]
              dups == (l.dups \ {d}) \cup {[d EXCEPT !.win = r, !.fresh = FALSE]}
              kept == [l EXCEPT !.dups = dups]
  <2>2. Plain(l)
    <3>. SUFFICES ASSUME NEW m, m = l PROVE Plain(m)
      OBVIOUS
    <3>. QED BY <1>0 DEF Plain, Whole
  <2>3. Plain(kept)
    <3>. SUFFICES ASSUME NEW m, m = kept PROVE Plain(m)
      OBVIOUS
    <3>. HIDE DEF dups, l
    <3>. QED BY <2>2 DEF Plain, Whole
  <2>4. IF StatusOf(d.win) = "queued" THEN DeleteRow(t, d.win, Deduped(Without(kept, d.win)))
        ELSE Local(t, Deduped(l))
    BY <2>1
  <2>. HIDE DEF l, kept
  <2>5. SetsPlain
    BY <1>x, <1>d, <2>2, <2>3, <2>4, SetOne
  <2>. QED BY <1>4, <2>5, SameRun DEF DeleteWinner, Mild
<1>5. CASE Enqueue(t)
  <2>1. CASE Local(t, Enqueuing(th[t]))
    BY <1>0, <1>5, <1>e, <2>1, SetOne, SameRun DEF Enqueue, Mild
  <2>2. CASE \E r : Local(t, Enqueuing([th[t] EXCEPT !.set = @ \ {r}]))
    <3>1. PICK r : Local(t, Enqueuing([th[t] EXCEPT !.set = @ \ {r}]))
      BY <2>2
    <3>2. Plain([th[t] EXCEPT !.set = @ \ {r}])
      <4>. SUFFICES ASSUME NEW m, m = [th[t] EXCEPT !.set = @ \ {r}] PROVE Plain(m)
        OBVIOUS
      <4>. QED BY <1>0 DEF Plain, Whole
    <3>. QED BY <1>5, <1>e, <3>1, <3>2, SetOne, SameRun DEF Enqueue, Mild
  <2>. QED BY <1>5, <2>1, <2>2 DEF Enqueue
<1>. QED BY <1>1, <1>2, <1>3, <1>4, <1>5

\* The polls' repairs, resume, cancel, the reads of a delete, errors and deaths.
LEMMA RequestMild ==
    ASSUME RunOK, ThreadsOK, NEW t \in Threads,
           \/ Poll(t) \/ Resume(t) \/ ResumeRun(t) \/ CancelRun(t) \/ CancelGroups(t) \/ CancelJobs(t)
           \/ Delete(t) \/ UndoGroups(t) \/ CloseRun(t) \/ Fault(t) \/ Crash(t)
    PROVE  Mild
<1>0. LocalOK(th[t]) /\ Plain(th[t])
  BY DEF ThreadsOK, LocalOK, Plain
<1>i. LocalOK(Idle) /\ Idle.pc \notin Apart
  BY IdleOK DEF Apart, Holding
<1>1. CASE Poll(t)
  <2>1. CASE Local(t, Advance(Idle))
    BY <1>1, <2>1, AdvanceOK, SetOne, SameRun DEF Poll, Mild, Apart, Holding
  <2>2. CASE Local(t, [Idle EXCEPT !.pc = "enqueue", !.set = Orphans])
    <3>. SUFFICES ASSUME NEW l, l = [Idle EXCEPT !.pc = "enqueue", !.set = Orphans] PROVE Mild
      OBVIOUS
    <3>1. Orphans \subseteq Rows
      BY DEF Orphans
    <3>2. LocalOK(l) /\ l.pc \notin Apart
      BY <3>1 DEF LocalOK, Whole, Idle, Apart, Holding
    <3>. QED BY <1>1, <2>2, <3>2, SetOne, SameRun DEF Poll, Mild
  <2>. QED BY <1>1, <2>1, <2>2 DEF Poll
<1>2. CASE Resume(t)
  <2>. DEFINE was == IF RowsIn({Main(1), Main(2)}) # {} THEN "consolidating" ELSE "reading"
              waiting == {r \in Rows : rows[r] = "queued"}
              l == [Idle EXCEPT !.pc = "resume", !.then = "advance", !.was = was, !.set = waiting]
  <2>1. Local(t, l)
    BY <1>2 DEF Resume
  <2>2. was \in ActiveRun /\ waiting \subseteq Rows
    BY DEF ActiveRun
  <2>3. LocalOK(l) /\ l.pc \notin Apart
    <3>. SUFFICES ASSUME NEW m, m = l PROVE LocalOK(m) /\ m.pc \notin Apart
      OBVIOUS
    <3>. HIDE DEF was, waiting
    <3>. QED BY <2>2 DEF LocalOK, Whole, Idle, Apart, Holding
  <2>. HIDE DEF l
  <2>. QED BY <1>2, <2>1, <2>3, SetOne, SameRun DEF Resume, Mild
<1>3. CASE ResumeRun(t)
  <2>. DEFINE l == [th[t] EXCEPT !.was = "none"]
  <2>1. Plain(l)
    <3>. SUFFICES ASSUME NEW m, m = l PROVE Plain(m)
      OBVIOUS
    <3>. QED BY <1>0 DEF Plain, Whole
  <2>2. LocalOK(Enqueuing(l)) /\ Enqueuing(l).pc \notin Apart
    <3>. HIDE DEF l
    <3>. QED BY <2>1, EnqueuingOK DEF Apart, Holding
  <2>3. Local(t, IF run.status = "over_cap" THEN Enqueuing(l) ELSE Home(th[t]))
    BY <1>3 DEF ResumeRun, Win
  <2>4. th[t].was \in ActiveRun
    BY <1>0, <1>3 DEF LocalOK, ResumeRun, At
  <2>5. RunOK' /\ RunStep
    BY <1>3, <2>4, CasOK DEF ResumeRun, Win, RunStatuses, TerminalRun, ActiveRun
  <2>6. LocalOK(Home(th[t])) /\ Home(th[t]).pc \notin Apart
    BY HomeOK DEF Apart, Holding
  <2>. HIDE DEF l
  <2>. QED BY <1>3, <2>2, <2>3, <2>5, <2>6, SetOne DEF ResumeRun, Mild
<1>4. CASE CancelRun(t)
  <2>1. Local(t, [th[t] EXCEPT !.pc = "cancel_groups"])
    BY <1>4 DEF CancelRun, Goto, Local, ThreadsOK
  <2>2. /\ LocalOK([th[t] EXCEPT !.pc = "cancel_groups"])
        /\ [th[t] EXCEPT !.pc = "cancel_groups"].pc \notin Apart
    <3>. SUFFICES ASSUME NEW m, m = [th[t] EXCEPT !.pc = "cancel_groups"]
                  PROVE  LocalOK(m) /\ m.pc \notin Apart
      OBVIOUS
    <3>. QED BY <1>0 DEF Plain, LocalOK, Whole, Apart, Holding
  <2>3. RunOK' /\ RunStep
    BY <1>4, CasOK DEF CancelRun, RunStatuses, TerminalRun, ActiveRun
  <2>. QED BY <1>4, <2>1, <2>2, <2>3, SetOne DEF CancelRun, Mild
<1>5. CASE CancelGroups(t)
  <2>. DEFINE waiting == {r \in Rows : rows[r] \in ActiveGroup}
              l == [th[t] EXCEPT !.pc = "cancel_jobs", !.set = waiting]
  <2>1. Local(t, l)
    BY <1>5 DEF CancelGroups
  <2>2. LocalOK(l) /\ l.pc \notin Apart
    <3>. SUFFICES ASSUME NEW m, m = l PROVE LocalOK(m) /\ m.pc \notin Apart
      OBVIOUS
    <3>1. waiting \subseteq Rows
      OBVIOUS
    <3>. HIDE DEF waiting
    <3>. QED BY <1>0, <3>1 DEF Plain, LocalOK, Whole, Apart, Holding
  <2>. HIDE DEF l
  <2>. QED BY <1>5, <2>1, <2>2, SetOne, SameRun DEF CancelGroups, Mild
<1>6. CASE CancelJobs(t) \/ UndoGroups(t) \/ Crash(t)
  BY <1>6, <1>i, SetOne, SameRun DEF CancelJobs, UndoGroups, Crash, Mild
<1>7. CASE Delete(t)
  <2>. DEFINE waiting == {r \in Rows : rows[r] \in ActiveGroup}
              l == [Idle EXCEPT !.pc = "delete_claim", !.was = run.status, !.set = waiting]
  <2>1. Local(t, l) /\ run.status \in TerminalRun \cup {"over_cap"}
    BY <1>7 DEF Delete
  <2>2. LocalOK(l) /\ l.pc \notin Apart
    <3>. SUFFICES ASSUME NEW m, m = l PROVE LocalOK(m) /\ m.pc \notin Apart
      OBVIOUS
    <3>1. waiting \subseteq Rows
      OBVIOUS
    <3>. HIDE DEF waiting
    <3>. QED BY <2>1, <3>1 DEF LocalOK, Whole, Idle, Apart, Holding
  <2>. HIDE DEF l
  <2>. QED BY <1>7, <2>1, <2>2, SetOne, SameRun DEF Delete, Mild
<1>8. CASE CloseRun(t)
  <2>1. PICK status \in {"done", "done_with_errors"} : CasStatus({"rendering"}, status)
    BY <1>8 DEF CloseRun
  <2>2. RunOK' /\ RunStep
    BY <2>1, CasOK DEF RunStatuses, TerminalRun
  <2>. QED BY <1>8, <2>2, HomeOK, SetOne DEF CloseRun, Mild, Apart, Holding
<1>9. CASE Fault(t)
  <2>1. SetsPlain
    BY <1>9, <1>i, FailSets, SetOne DEF Fault
  <2>2. RunOK' /\ RunStep
    BY <1>9 DEF Fault, RunOK, RunStep, Touch
  <2>. QED BY <1>9, <2>1, <2>2 DEF Fault, Mild
<1>. QED BY <1>1, <1>2, <1>3, <1>4, <1>5, <1>6, <1>7, <1>8, <1>9

-----------------------------------------------------------------------------
(* Types.                                                                  *)

JobOK == job \in [Rows -> {"none", "queued", "running"}]

StoreOK == JobOK /\ saved \in [Kinds -> Nat] /\ trouble \in 0..MaxTrouble

Typed == RunOK /\ RowsOK /\ StoreOK /\ ThreadsOK

LEMMA JobSet ==
    ASSUME JobOK, NEW r, NEW status \in {"none", "queued", "running"}, job' = WithJob(r, status)
    PROVE  JobOK'
BY DEF WithJob, JobOK

LEMMA JobStep ==
    ASSUME JobOK, [Next]_vars
    PROVE  JobOK'
<1>0. CASE job' = job
  BY <1>0 DEF JobOK
<1>1. ASSUME NEW t, NEW r, FailJob(t, r) PROVE JobOK'
  BY <1>1, JobSet DEF FailJob
<1>2. CASE \E S : job' = [r \in Rows |-> IF r \in S THEN "none" ELSE job[r]]
  BY <1>2 DEF JobOK
<1>3. CASE \E r : job' = [job EXCEPT ![r] = "none"]
  BY <1>3 DEF JobOK
<1>4. ASSUME NEW t \in Threads, Step(t) PROVE JobOK'
  <2>1. CASE GroupStep(t)
    <3>1. job' = job \/ FailJob(t, th[t].row) \/ job' = WithJob(th[t].row, "none")
      BY <2>1 DEF GroupStep, PauseRun, ClaimGroup, Recheck, CallModel, MarkRow, FinishJob
    <3>. QED BY <1>0, <1>1, <3>1, JobSet
  <2>2. CASE Enqueue(t)
    <3>1. PICK r : job' = job \/ job' = WithJob(r, IF job[r] = "none" THEN "queued" ELSE job[r])
      BY <2>2 DEF Enqueue
    <3>2. CASE r \in Rows /\ job' # job
      <4>1. (IF job[r] = "none" THEN "queued" ELSE job[r]) \in {"none", "queued", "running"}
        BY <3>2 DEF JobOK
      <4>. QED BY <3>1, <3>2, <4>1, JobSet
    <3>3. CASE r \notin Rows
      BY <1>0, <3>1, <3>3 DEF WithJob
    <3>. QED BY <1>0, <3>2, <3>3
  <2>3. CASE DeleteLoser(t) \/ DeleteWinner(t)
    BY <1>0, <1>3, <2>3 DEF DeleteLoser, DeleteWinner, DeleteRow
  <2>4. CASE AdvanceStep(t) /\ ~(Enqueue(t) \/ DeleteLoser(t) \/ DeleteWinner(t))
    BY <1>0, <2>4 DEF AdvanceStep, ReadRun, ClaimPlanning, Plan, InsertSubs, Replan, Consolidate,
       FailRun, TakeRender, StartRendering, Save, CloseRun, Insert, ReadDups
  <2>5. CASE CancelJobs(t)
    <3>1. job' = [r \in Rows |-> IF r \in {s \in th[t].set : job[s] = "queued"} THEN "none" ELSE job[r]]
      BY <2>5 DEF CancelJobs
    <3>. QED BY <1>2, <3>1
  <2>6. CASE DeleteJobs(t)
    BY <1>2, <2>6 DEF DeleteJobs
  <2>7. CASE DeleteRun(t)
    BY <1>0, <2>7 DEF DeleteRun, JobOK
  <2>8. CASE RequestStep(t) /\ ~(CancelJobs(t) \/ DeleteJobs(t) \/ DeleteRun(t))
    BY <1>0, <2>8 DEF RequestStep, ResumeRun, CancelGroups, DeleteClaim, DeleteCheck, UndoDelete,
       UndoGroups
  <2>. QED BY <1>4, <2>1, <2>2, <2>3, <2>4, <2>5, <2>6, <2>7, <2>8 DEF Step, AdvanceStep, RequestStep
<1>5. ASSUME NEW t \in Threads, Take(t) \/ Reap(t) \/ Fault(t) \/ Crash(t) PROVE JobOK'
  <2>1. \/ job' = job \/ \E r : FailJob(t, r)
        \/ \E r : job' = WithJob(r, "running")
    BY <1>5 DEF Take, StartJob, Reap, Sweep, Fault, Crash
  <2>2. CASE \E r : job' = WithJob(r, "running")
    BY <2>2, JobSet
  <2>. QED BY <1>0, <1>1, <2>1, <2>2
<1>6. CASE \E t \in Requests : Poll(t) \/ Resume(t) \/ CancelRun(t) \/ Delete(t)
  BY <1>0, <1>6 DEF Poll, Resume, CancelRun, Delete
<1>7. CASE Age \/ ClaimExpires \/ UNCHANGED vars
  BY <1>0, <1>7 DEF Age, ClaimExpires, vars
<1>. QED BY <1>4, <1>5, <1>6, <1>7 DEF Next

LEMMA TroubleStep ==
    ASSUME trouble \in 0..MaxTrouble, [Next]_vars
    PROVE  trouble' \in 0..MaxTrouble
<1>0. MaxTrouble \in Nat
  BY PlansAssumption
<1>1. trouble' = trouble \/ Trouble
  <2>1. ASSUME NEW t \in Threads, GroupStep(t) \/ Take(t) \/ Reap(t) \/ Fault(t) \/ Crash(t)
        PROVE  trouble' = trouble \/ Trouble
    BY <2>1 DEF GroupStep, PauseRun, ClaimGroup, Recheck, CallModel, MarkRow, FinishJob, Take, StartJob,
                Reap, Sweep, Fault, Crash
  <2>2. ASSUME NEW t \in Threads, AdvanceStep(t) PROVE trouble' = trouble \/ Trouble
    BY <2>2 DEF AdvanceStep, ReadRun, ClaimPlanning, Plan, InsertSubs, Replan, Consolidate, FailRun,
                TakeRender, StartRendering, Save, CloseRun, Insert, ReadDups, DeleteLoser,
                DeleteWinner, Enqueue
  <2>3. ASSUME NEW t \in Threads, RequestStep(t) PROVE trouble' = trouble \/ Trouble
    BY <2>3 DEF RequestStep, ResumeRun, CancelGroups, CancelJobs, DeleteClaim, DeleteCheck,
                DeleteJobs, DeleteRun, UndoDelete, UndoGroups
  <2>4. CASE \E t \in Requests : Poll(t) \/ Resume(t) \/ CancelRun(t) \/ Delete(t)
    BY <2>4 DEF Poll, Resume, CancelRun, Delete
  <2>5. CASE Age \/ ClaimExpires \/ UNCHANGED vars
    BY <2>5 DEF Age, ClaimExpires, vars
  <2>. QED BY <2>1, <2>2, <2>3, <2>4, <2>5 DEF Next, Step
<1>. QED BY <1>0, <1>1 DEF Trouble

\* A thread that renders or deletes goes on with that, or is done with it.
LEMMA Kept ==
    ASSUME ThreadsOK, NEW l, Sets(l)
    PROVE  /\ ThreadsOK'
           /\ \A u \in Threads :
                 \/ th'[u] = l
                 \/ th'[u].pc = th[u].pc /\ th'[u].was = th[u].was /\ th'[u].todo = th[u].todo
<1>1. PICK t \in Threads :
        \/ th' = [th EXCEPT ![t] = l]
        \/ \E r \in Rows : th' = [u \in Threads |-> IF u = t THEN l ELSE Without(th[u], r)]
  BY DEF Sets
<1>2. CASE th' = [th EXCEPT ![t] = l]
  BY <1>2 DEF Sets, ThreadsOK
<1>3. CASE \E r \in Rows : th' = [u \in Threads |-> IF u = t THEN l ELSE Without(th[u], r)]
  <2>1. PICK r \in Rows : th' = [u \in Threads |-> IF u = t THEN l ELSE Without(th[u], r)]
    BY <1>3
  <2>2. ASSUME NEW u \in Threads, u # t
        PROVE  /\ th'[u] = Without(th[u], r) /\ LocalOK(Without(th[u], r))
               /\ th'[u].pc = th[u].pc /\ th'[u].was = th[u].was /\ th'[u].todo = th[u].todo
    <3>1. LocalOK(th[u]) /\ Whole(th[u])
      BY DEF ThreadsOK, LocalOK
    <3>2. th'[u] = Without(th[u], r)
      BY <2>1, <2>2
    <3>. QED BY <3>1, <3>2, WithoutOK
  <2>3. th'[t] = l /\ LocalOK(l) /\ DOMAIN th' = Threads
    BY <2>1 DEF Sets
  <2>4. \A u \in Threads : LocalOK(th'[u])
    BY <2>2, <2>3
  <2>. QED BY <2>2, <2>3, <2>4 DEF ThreadsOK
<1>. QED BY <1>1, <1>2, <1>3

-----------------------------------------------------------------------------
(* The steps of a render, of a delete, and of time.                        *)

\* A request whose claim of the run for deletion is to be undone.
Holder(t) == th[t].pc \in Holding /\ th[t].was # "canceled"

Saving(t) == th[t].pc = "save"

\* A render saves what nobody saved, under a status that lets no other render
\* begin; a claim for deletion hides nothing that could be rendered again.
Rendering ==
    /\ \A t, u \in Threads : Saving(t) /\ Saving(u) => t = u
    /\ \A t \in Threads : Saving(t) =>
          /\ run.status \in {"rendering", "deleted"} \cup TerminalRun
          /\ run.status = "rendering" => ~run.old
          /\ \A k \in th[t].todo : saved[k] = 0
    /\ \A t \in Threads : Holder(t) => run.status \in {"canceled", "deleted"}
    /\ \A t, u \in Threads : Holder(t) /\ Holder(u) => t = u
    /\ \A t, u \in Threads : th[t].pc \in Holding /\ th[t].was = "over_cap" => ~Saving(u)
    /\ RenderedOnce

IInv == Typed /\ (Calm => Rendering)

\* A step of one thread, the thread's place given.
LEMMA Places ==
    ASSUME ThreadsOK, NEW t \in Threads, NEW l, LocalOK(l), Local(t, l)
    PROVE  /\ ThreadsOK' /\ th'[t] = l
           /\ \A u \in Threads \ {t} : th'[u] = th[u]
BY DEF ThreadsOK, Local

LEMMA MildKeeps ==
    ASSUME Typed, Mild
    PROVE  /\ RunOK' /\ ThreadsOK'
           /\ Calm /\ Rendering => Rendering'
<1>1. PICK l : l.pc \notin Apart /\ Sets(l)
  BY DEF Mild, SetsPlain
<1>2. /\ ThreadsOK'
      /\ \A u \in Threads :
            \/ th'[u] = l
            \/ th'[u].pc = th[u].pc /\ th'[u].was = th[u].was /\ th'[u].todo = th[u].todo
  BY <1>1, Kept DEF Typed
<1>3. \A u \in Threads : th'[u].pc \in Apart
        => th'[u].pc = th[u].pc /\ th'[u].was = th[u].was /\ th'[u].todo = th[u].todo
  BY <1>1, <1>2
<1>4. RunOK' /\ RunStep /\ saved' = saved
  BY DEF Mild
<1>5. ASSUME Calm, Rendering PROVE Rendering'
  <2>1. ASSUME NEW u \in Threads
        PROVE  /\ Saving(u)' => Saving(u) /\ th'[u].todo = th[u].todo
               /\ Holder(u)' => Holder(u)
               /\ th'[u].pc \in Holding => th[u].pc \in Holding /\ th'[u].was = th[u].was
    BY <1>3 DEF Saving, Holder, Apart
  <2>2. ASSUME NEW u \in Threads, Saving(u)'
        PROVE  /\ run'.status \in {"rendering", "deleted"} \cup TerminalRun
               /\ run'.status = "rendering" => ~run'.old
               /\ \A k \in th'[u].todo : saved'[k] = 0
    BY <1>4, <1>5, <2>1, <2>2 DEF Rendering, RunStep, RunOK, TerminalRun
  <2>3. ASSUME NEW u \in Threads, Holder(u)' PROVE run'.status \in {"canceled", "deleted"}
    BY <1>4, <1>5, <2>1, <2>3 DEF Rendering, RunStep
  <2>4. /\ \A u, v \in Threads : Saving(u)' /\ Saving(v)' => u = v
        /\ \A u, v \in Threads : Holder(u)' /\ Holder(v)' => u = v
        /\ \A u, v \in Threads : th'[u].pc \in Holding /\ th'[u].was = "over_cap" => ~Saving(v)'
    BY <1>5, <2>1 DEF Rendering
  <2>5. RenderedOnce'
    BY <1>4, <1>5 DEF Rendering, RenderedOnce
  <2>. QED BY <2>2, <2>3, <2>4, <2>5 DEF Rendering
<1>. QED BY <1>2, <1>4, <1>5

LEMMA StartKeeps ==
    ASSUME Typed, NEW t \in Threads, StartRendering(t)
    PROVE  /\ RunOK' /\ ThreadsOK'
           /\ Calm /\ Rendering => Rendering'
<1>1. CASE run.status # "consolidating"
  <2>1. Mild
    BY <1>1, HomeOK, SetOne, SameRun DEF StartRendering, Win, CasStatus, Mild, Apart, Holding, Typed
  <2>. QED BY <2>1, MildKeeps
<1>2. CASE run.status = "consolidating"
  <2>. DEFINE rest == {k \in Kinds : saved[k] = 0}
              l == [th[t] EXCEPT !.pc = "save", !.todo = rest]
  <2>1. LocalOK(l) /\ l.pc = "save" /\ l.todo = {k \in Kinds : saved[k] = 0}
    <3>. SUFFICES ASSUME NEW m, m = l PROVE LocalOK(m) /\ m.pc = "save" /\ m.todo = rest
      OBVIOUS
    <3>1. rest \subseteq Kinds /\ LocalOK(th[t])
      BY DEF Typed, ThreadsOK
    <3>. HIDE DEF rest
    <3>. QED BY <3>1 DEF LocalOK, Whole, Holding
  <2>2. Local(t, l) /\ run' = [run EXCEPT !.old = FALSE, !.status = "rendering"] /\ saved' = saved
    BY <1>2 DEF StartRendering, Win, CasStatus, Touch
  <2>. HIDE DEF l
  <2>3. ThreadsOK' /\ th'[t] = l /\ \A u \in Threads \ {t} : th'[u] = th[u]
    BY <2>1, <2>2, Places DEF Typed
  <2>4. RunOK' /\ run'.status = "rendering" /\ ~run'.old
    BY <2>2 DEF Typed, RunOK, RunStatuses
  <2>5. ASSUME Rendering PROVE Rendering'
    <3>1. \A u \in Threads : ~Saving(u) /\ ~Holder(u)
      BY <1>2, <2>5 DEF Rendering, TerminalRun
    <3>2. \A u \in Threads : Saving(u)' => u = t
      BY <2>3, <3>1 DEF Saving
    <3>3. \A u \in Threads : th'[u].pc \in Holding => u # t /\ th[u].pc \in Holding /\ th'[u].was = th[u].was
      BY <2>1, <2>3 DEF Holding
    <3>4. \A u \in Threads : th[u].pc \in Holding => th[u].was = "canceled"
      BY <3>1 DEF Holder
    <3>. QED BY <2>1, <2>2, <2>3, <2>4, <2>5, <3>2, <3>3, <3>4 DEF Rendering, RenderedOnce, Holder
  <2>. QED BY <2>3, <2>4, <2>5
<1>. QED BY <1>1, <1>2

LEMMA SaveKeeps ==
    ASSUME Typed, NEW t \in Threads, Save(t)
    PROVE  /\ RunOK' /\ ThreadsOK' /\ saved' \in [Kinds -> Nat]
           /\ Calm /\ Rendering => Rendering'
<1>. DEFINE k == Min(th[t].todo)
<1>0. LocalOK(th[t]) /\ th[t].pc = "save" /\ th[t].todo \subseteq Kinds /\ th[t].todo # {}
  BY DEF Typed, ThreadsOK, LocalOK, Save, At
<1>1. k \in th[t].todo
  BY <1>0, MinIn, PlansAssumption
<1>2. PICK l : /\ l \in {[th[t] EXCEPT !.todo = @ \ {k}], [th[t] EXCEPT !.todo = @ \ {k}, !.bad = TRUE]}
               /\ Local(t, l)
  BY DEF Save
<1>3. saved' = [saved EXCEPT ![k] = @ + 1] \/ saved' = saved
  BY DEF Save
<1>. HIDE DEF k
<1>4. LocalOK(l) /\ l.pc = "save" /\ l.todo = th[t].todo \ {k}
  BY <1>0, <1>2 DEF LocalOK, Whole, Holding
<1>5. ThreadsOK' /\ th'[t] = l /\ \A u \in Threads \ {t} : th'[u] = th[u]
  BY <1>2, <1>4, Places DEF Typed
<1>6. RunOK' /\ RunStep /\ run'.status = run.status
  BY DEF Save, Touch, Typed, RunOK, RunStep
<1>7. saved' \in [Kinds -> Nat]
  BY <1>3 DEF Typed, StoreOK
<1>8. ASSUME Rendering PROVE Rendering'
  <2>1. \A u \in Threads : /\ Saving(u)' <=> Saving(u)
                           /\ th'[u].pc \in Holding <=> th[u].pc \in Holding
                           /\ u # t => th'[u].was = th[u].was /\ th'[u].todo = th[u].todo
                           /\ Holder(u)' <=> Holder(u)
    BY <1>0, <1>4, <1>5 DEF Saving, Holder, Holding
  <2>2. \A u \in Threads : Saving(u) => u = t
    BY <1>0, <1>8 DEF Rendering, Saving
  <2>3. \A j \in th'[t].todo : saved'[j] = 0
    <3>1. \A j \in th'[t].todo : j # k /\ j \in th[t].todo /\ j \in Kinds
      BY <1>0, <1>4, <1>5
    <3>2. \A j \in th[t].todo : saved[j] = 0
      BY <1>0, <1>8 DEF Rendering, Saving
    <3>. QED BY <1>3, <3>1, <3>2 DEF Typed, StoreOK
  <2>4. RenderedOnce'
    <3>1. saved[k] = 0 /\ k \in Kinds
      BY <1>0, <1>1, <1>8 DEF Rendering, Saving
    <3>. QED BY <1>3, <1>8, <3>1 DEF Rendering, RenderedOnce, Typed, StoreOK
  <2>5. \A u \in Threads : Saving(u)' =>
          /\ run'.status \in {"rendering", "deleted"} \cup TerminalRun
          /\ run'.status = "rendering" => ~run'.old
          /\ \A j \in th'[u].todo : saved'[j] = 0
    BY <1>6, <1>8, <2>1, <2>2, <2>3 DEF Rendering, RunStep, Typed, RunOK
  <2>6. \A u \in Threads : th'[u].pc \in Holding => th'[u].was = th[u].was /\ u # t
    BY <1>0, <1>4, <1>5, <2>1 DEF Holding
  <2>. QED BY <1>6, <1>8, <2>1, <2>4, <2>5, <2>6 DEF Rendering
<1>. QED BY <1>5, <1>6, <1>7, <1>8

\* A claim, a look and the jobs of a delete.
LEMMA ClaimKeeps ==
    ASSUME Typed, NEW t \in Threads,
           DeleteClaim(t) \/ DeleteCheck(t) \/ DeleteJobs(t) \/ UndoDelete(t)
    PROVE  /\ RunOK' /\ ThreadsOK' /\ saved' = saved
           /\ Calm /\ Rendering => Rendering'
<1>0. LocalOK(th[t]) /\ th[t].was \in TerminalRun \cup {"over_cap"}
  BY DEF Typed, ThreadsOK, LocalOK, Holding, DeleteClaim, DeleteCheck, DeleteJobs, UndoDelete, At
<1>h. LocalOK(Home(th[t])) /\ Home(th[t]).pc \notin Apart
  BY HomeOK DEF Apart, Holding
<1>1. ASSUME NEW pc \in Holding \cup {"undo_groups"}
      PROVE  /\ LocalOK([th[t] EXCEPT !.pc = pc])
             /\ [th[t] EXCEPT !.pc = pc].pc = pc /\ [th[t] EXCEPT !.pc = pc].was = th[t].was
  <2>. SUFFICES ASSUME NEW m, m = [th[t] EXCEPT !.pc = pc]
                PROVE  LocalOK(m) /\ m.pc = pc /\ m.was = th[t].was
    OBVIOUS
  <2>. QED BY <1>0 DEF LocalOK, Whole, Holding
<1>2. saved' = saved
  BY DEF DeleteClaim, DeleteCheck, DeleteJobs, UndoDelete
<1>3. CASE (DeleteClaim(t) /\ run.status # th[t].was) \/ (UndoDelete(t) /\ run.status # "canceled")
  <2>1. Mild
    BY <1>h, <1>2, <1>3, SetOne, SameRun DEF DeleteClaim, UndoDelete, Win, CasStatus, Mild, Typed
  <2>. QED BY <1>2, <2>1, MildKeeps
<1>4. CASE DeleteClaim(t) /\ run.status = th[t].was
  <2>. DEFINE l == [th[t] EXCEPT !.pc = "delete_check"]
  <2>1. Local(t, l) /\ run' = [run EXCEPT !.old = FALSE, !.status = "canceled"]
    BY <1>4 DEF DeleteClaim, Win, CasStatus, Touch
  <2>2. LocalOK(l) /\ l.pc = "delete_check" /\ l.was = th[t].was
    BY <1>1 DEF Holding
  <2>. HIDE DEF l
  <2>3. ThreadsOK' /\ th'[t] = l /\ \A u \in Threads \ {t} : th'[u] = th[u]
    BY <2>1, <2>2, Places DEF Typed
  <2>4. RunOK' /\ run'.status = "canceled"
    BY <2>1 DEF Typed, RunOK, RunStatuses, TerminalRun
  <2>5. ASSUME Rendering PROVE Rendering'
    <3>1. \A u \in Threads : Saving(u)' => Saving(u) /\ u # t /\ th'[u].todo = th[u].todo
      BY <2>2, <2>3 DEF Saving
    <3>2. \A u \in Threads : u # t /\ th'[u].pc \in Holding
                               => th[u].pc \in Holding /\ th'[u].was = th[u].was
      BY <2>3
    <3>3. \A u, v \in Threads : Holder(u)' /\ Holder(v)' => u = v
      <4>1. CASE th[t].was = "canceled"
        <5>1. ~Holder(t)'
          BY <2>2, <2>3, <4>1 DEF Holder
        <5>. QED BY <2>5, <3>2, <5>1 DEF Rendering, Holder
      <4>2. CASE th[t].was # "canceled"
        <5>1. \A u \in Threads : ~Holder(u)
          BY <1>0, <1>4, <2>5, <4>2 DEF Rendering, TerminalRun
        <5>. QED BY <3>2, <5>1 DEF Holder
      <4>. QED BY <4>1, <4>2
    <3>4. \A u, v \in Threads : th'[u].pc \in Holding /\ th'[u].was = "over_cap" => ~Saving(v)'
      <4>1. th[t].was = "over_cap" => \A v \in Threads : ~Saving(v)
        BY <1>4, <2>5 DEF Rendering, TerminalRun
      <4>. QED BY <2>2, <2>3, <2>5, <3>1, <3>2, <4>1 DEF Rendering
    <3>5. RenderedOnce'
      BY <1>2, <2>5 DEF Rendering, RenderedOnce
    <3>6. \A u \in Threads : Saving(u)' => \A k \in th'[u].todo : saved'[k] = 0
      BY <1>2, <2>5, <3>1 DEF Rendering
    <3>7. \A u, v \in Threads : Saving(u)' /\ Saving(v)' => u = v
      BY <2>5, <3>1 DEF Rendering
    <3>. QED BY <2>4, <3>3, <3>4, <3>5, <3>6, <3>7 DEF Rendering, TerminalRun
  <2>. QED BY <1>2, <2>3, <2>4, <2>5
<1>5. CASE DeleteCheck(t) \/ DeleteJobs(t)
  <2>1. PICK pc \in Holding : Goto(t, pc) /\ run' = run
    BY <1>5 DEF DeleteCheck, DeleteJobs, Holding
  <2>. DEFINE l == [th[t] EXCEPT !.pc = pc]
  <2>2. Local(t, l)
    BY <2>1 DEF Goto, Local, Typed, ThreadsOK
  <2>3. LocalOK(l) /\ l.pc \in Holding /\ l.was = th[t].was
    BY <1>1
  <2>. HIDE DEF l
  <2>4. ThreadsOK' /\ th'[t] = l /\ \A u \in Threads \ {t} : th'[u] = th[u]
    BY <2>2, <2>3, Places DEF Typed
  <2>5. RunOK'
    BY <2>1 DEF Typed, RunOK
  <2>6. th[t].pc \in Holding
    BY <1>5 DEF DeleteCheck, DeleteJobs, At, Holding
  <2>7. \A u \in Threads : /\ Saving(u)' <=> Saving(u)
                           /\ Saving(u)' => th'[u].todo = th[u].todo
                           /\ th'[u].pc \in Holding <=> th[u].pc \in Holding
                           /\ th'[u].was = th[u].was
    BY <2>3, <2>4, <2>6 DEF Saving, Holding
  <2>8. \A u \in Threads : Holder(u)' <=> Holder(u)
    BY <2>7 DEF Holder
  <2>9. Rendering => Rendering'
    BY <1>2, <2>1, <2>7, <2>8 DEF Rendering, RenderedOnce
  <2>. QED BY <1>2, <2>4, <2>5, <2>9
<1>6. CASE UndoDelete(t) /\ run.status = "canceled"
  <2>. DEFINE l == [th[t] EXCEPT !.pc = "undo_groups"]
  <2>1. Local(t, l) /\ run' = [run EXCEPT !.old = FALSE, !.status = th[t].was]
    BY <1>6 DEF UndoDelete, Win, CasStatus, Touch
  <2>2. LocalOK(l) /\ l.pc = "undo_groups"
    BY <1>1
  <2>. HIDE DEF l
  <2>3. ThreadsOK' /\ th'[t] = l /\ \A u \in Threads \ {t} : th'[u] = th[u]
    BY <2>1, <2>2, Places DEF Typed
  <2>4. RunOK' /\ run'.status = th[t].was
    BY <1>0, <2>1 DEF Typed, RunOK, RunStatuses
  <2>5. ASSUME Rendering PROVE Rendering'
    <3>0. th[t].pc \in Holding
      BY <1>6 DEF UndoDelete, At, Holding
    <3>1. \A u \in Threads : /\ Saving(u)' => Saving(u) /\ th'[u].todo = th[u].todo
                             /\ th'[u].pc \in Holding
                                  => u # t /\ th[u].pc \in Holding /\ th'[u].was = th[u].was
                             /\ Holder(u)' => u # t /\ Holder(u)
      BY <2>2, <2>3 DEF Saving, Holding, Holder
    <3>2. \A u \in Threads : Saving(u)' => run'.status \in TerminalRun
      BY <1>0, <2>4, <2>5, <3>0, <3>1 DEF Rendering
    <3>3. \A u \in Threads : Holder(u)' => run'.status = "canceled"
      <4>1. th[t].was # "canceled" => Holder(t)
        BY <3>0 DEF Holder
      <4>. QED BY <2>4, <2>5, <3>1, <4>1 DEF Rendering
    <3>4. \A u \in Threads : Saving(u)' => \A k \in th'[u].todo : saved'[k] = 0
      BY <1>2, <2>5, <3>1 DEF Rendering
    <3>5. RenderedOnce'
      BY <1>2, <2>5 DEF Rendering, RenderedOnce
    <3>6. /\ \A u, v \in Threads : Saving(u)' /\ Saving(v)' => u = v
          /\ \A u, v \in Threads : Holder(u)' /\ Holder(v)' => u = v
          /\ \A u, v \in Threads : th'[u].pc \in Holding /\ th'[u].was = "over_cap" => ~Saving(v)'
      BY <2>5, <3>1 DEF Rendering
    <3>. QED BY <3>2, <3>3, <3>4, <3>5, <3>6 DEF Rendering, TerminalRun
  <2>. QED BY <1>2, <2>3, <2>4, <2>5
<1>. QED BY <1>3, <1>4, <1>5, <1>6

LEMMA DeleteKeeps ==
    ASSUME Typed, NEW t \in Threads, DeleteRun(t)
    PROVE  /\ RunOK' /\ ThreadsOK' /\ saved' \in [Kinds -> Nat]
           /\ Calm /\ Rendering => Rendering'
<1>0. th[t].pc \in Holding /\ LocalOK(th[t])
  BY DEF DeleteRun, At, Holding, Typed, ThreadsOK
<1>1. CASE run'.status = "deleted" /\ saved' = [k \in Kinds |-> 0]
           /\ th' = [u \in Threads |-> IF u = t \/ th[u].row = NoRow THEN Idle
                                       ELSE [th[u] EXCEPT !.row = Gone(@)]]
           /\ run' = [status |-> "deleted", old |-> FALSE, plan |-> run.plan]
  <2>1. ASSUME NEW u \in Threads
        PROVE  /\ LocalOK(th'[u])
               /\ \/ th'[u].pc = "idle"
                  \/ /\ th'[u].pc = th[u].pc /\ th'[u].todo = th[u].todo
                     /\ th'[u].was = th[u].was
    <3>1. LocalOK(th[u])
      BY DEF Typed, ThreadsOK
    <3>2. CASE th'[u] = Idle
      BY <3>2, IdleOK
    <3>3. CASE th'[u] = [th[u] EXCEPT !.row = Gone(@)]
      BY <3>1, <3>3 DEF LocalOK, Whole
    <3>. QED BY <1>1, <3>2, <3>3
  <2>2. ThreadsOK'
    BY <1>1, <2>1 DEF ThreadsOK
  <2>3. RunOK'
    BY <1>1 DEF Typed, RunOK, RunStatuses
  <2>4. ASSUME Rendering PROVE Rendering'
    <3>1. \A u \in Threads : /\ Saving(u)' => Saving(u) /\ th'[u].todo = th[u].todo
                             /\ th'[u].pc \in Holding => th[u].pc \in Holding /\ th'[u].was = th[u].was
                             /\ Holder(u)' => Holder(u)
      BY <2>1 DEF Saving, Holding, Holder
    <3>2. \A u \in Threads : Saving(u) => th[u].todo \subseteq Kinds
      BY DEF Typed, ThreadsOK, LocalOK, Saving
    <3>. QED BY <1>1, <2>4, <3>1, <3>2 DEF Rendering, RenderedOnce
  <2>. QED BY <1>1, <2>2, <2>3, <2>4
<1>2. CASE Goto(t, "undo") /\ UNCHANGED <<run, saved>>
  <2>. DEFINE l == [th[t] EXCEPT !.pc = "undo"]
  <2>1. Local(t, l)
    BY <1>2 DEF Goto, Local, Typed, ThreadsOK
  <2>2. LocalOK(l) /\ l.pc = "undo" /\ l.was = th[t].was
    <3>. SUFFICES ASSUME NEW m, m = l PROVE LocalOK(m) /\ m.pc = "undo" /\ m.was = th[t].was
      OBVIOUS
    <3>. QED BY <1>0 DEF LocalOK, Whole, Holding
  <2>. HIDE DEF l
  <2>3. ThreadsOK' /\ th'[t] = l /\ \A u \in Threads \ {t} : th'[u] = th[u]
    BY <2>1, <2>2, Places DEF Typed
  <2>4. \A u \in Threads : /\ Saving(u)' <=> Saving(u)
                           /\ Saving(u)' => th'[u].todo = th[u].todo
                           /\ th'[u].pc \in Holding <=> th[u].pc \in Holding
                           /\ th'[u].was = th[u].was
    BY <1>0, <2>2, <2>3 DEF Saving, Holding
  <2>5. \A u \in Threads : Holder(u)' <=> Holder(u)
    BY <2>4 DEF Holder
  <2>6. Rendering => Rendering'
    BY <1>2, <2>4, <2>5 DEF Rendering, RenderedOnce
  <2>. QED BY <1>2, <2>3, <2>6 DEF Typed, RunOK, StoreOK
<1>. QED BY <1>1, <1>2 DEF DeleteRun

\* A run that a thread renders does not grow old.
LEMMA TimeKeeps ==
    ASSUME Typed, Age \/ ClaimExpires \/ UNCHANGED vars
    PROVE  /\ RunOK' /\ ThreadsOK' /\ saved' = saved
           /\ Rendering => Rendering'
<1>1. th' = th /\ saved' = saved
  BY DEF Age, ClaimExpires, vars
<1>2. RunOK' /\ run'.status = run.status
  BY DEF Age, ClaimExpires, vars, Typed, RunOK
<1>3. run'.old => run.old \/ \A t \in Threads : ~Saving(t)
  BY DEF Age, ClaimExpires, vars, Typed, RunOK, Saving, Advancing, AdvancePcs
<1>. QED BY <1>1, <1>2, <1>3 DEF Rendering, RenderedOnce, Saving, Holder, Typed, ThreadsOK

LEMMA InitInv == Init => IInv
<1>. SUFFICES ASSUME Init PROVE IInv
  OBVIOUS
<1>1. RunOK /\ RowsOK
  BY DEF Init, RunOK, RowsOK, RunStatuses, RowStatuses
<1>2. StoreOK
  BY PlansAssumption DEF Init, StoreOK, JobOK
<1>3. ThreadsOK /\ \A t \in Threads : th[t].pc = "idle"
  BY IdleOK DEF Init, ThreadsOK
<1>4. Rendering
  BY <1>3 DEF Init, Rendering, Saving, Holder, Holding, RenderedOnce
<1>. QED BY <1>1, <1>2, <1>3, <1>4 DEF IInv, Typed

LEMMA StepInv == IInv /\ [Next]_vars => IInv'
<1>. SUFFICES ASSUME IInv, [Next]_vars PROVE IInv'
  OBVIOUS
<1>0. Typed /\ RunOK /\ ThreadsOK
  BY DEF IInv, Typed
<1>1. RowsOK'
  <2>1. RowStep
    BY <1>0, RowsChange DEF Typed
  <2>. QED BY <1>0, <2>1 DEF RowStep, RowsOK, Given, RowStatuses, Typed
<1>2. JobOK' /\ (trouble \in 0..MaxTrouble)'
  BY <1>0, JobStep, TroubleStep DEF Typed, StoreOK
<1>3. /\ RunOK' /\ ThreadsOK' /\ (saved \in [Kinds -> Nat])'
      /\ Calm /\ Rendering => Rendering'
  <2>1. saved \in [Kinds -> Nat]
    BY <1>0 DEF Typed, StoreOK
  <2>2. CASE Mild
    BY <1>0, <2>1, <2>2, MildKeeps DEF Mild
  <2>3. ASSUME NEW t \in Threads, Step(t) \/ Take(t) \/ Reap(t) \/ Fault(t) \/ Crash(t)
        PROVE  \/ Mild
               \/ StartRendering(t) \/ Save(t) \/ DeleteClaim(t) \/ DeleteCheck(t) \/ DeleteJobs(t)
               \/ UndoDelete(t) \/ DeleteRun(t)
    BY <1>0, <2>3, GroupMild, StageMild, QueueMild, RequestMild DEF Step, AdvanceStep, RequestStep
  <2>4. ASSUME NEW t \in Requests, Poll(t) \/ Resume(t) \/ CancelRun(t) \/ Delete(t)
        PROVE  Mild
    BY <1>0, <2>4, RequestMild DEF Threads
  <2>5. ASSUME NEW t \in Threads, StartRendering(t)
        PROVE  RunOK' /\ ThreadsOK' /\ saved' = saved /\ (Calm /\ Rendering => Rendering')
    BY <1>0, <2>5, StartKeeps DEF StartRendering
  <2>6. ASSUME NEW t \in Threads,
               \/ Save(t) \/ DeleteClaim(t) \/ DeleteCheck(t) \/ DeleteJobs(t)
               \/ UndoDelete(t) \/ DeleteRun(t)
        PROVE  /\ RunOK' /\ ThreadsOK' /\ saved' \in [Kinds -> Nat]
               /\ Calm /\ Rendering => Rendering'
    BY <1>0, <2>1, <2>6, SaveKeeps, ClaimKeeps, DeleteKeeps
  <2>7. CASE Age \/ ClaimExpires \/ UNCHANGED vars
    BY <1>0, <2>1, <2>7, TimeKeeps
  <2>. QED BY <2>1, <2>2, <2>3, <2>4, <2>5, <2>6, <2>7 DEF Next
<1>. QED BY <1>1, <1>2, <1>3 DEF IInv, Typed, StoreOK

\* Every behaviour keeps the invariant.
THEOREM Invariance == Spec => []IInv
BY InitInv, StepInv, PTL DEF Spec

\* The run, its rows, jobs and deliverables keep their types, and what a thread
\* is about to add or to enqueue is an identity of the run or a row of it.
THEOREM TypeCorrect == Spec => []TypeOK
<1>1. IInv => TypeOK
  BY DEF IInv, Typed, RunOK, RowsOK, RowStatuses, StoreOK, JobOK, ThreadsOK, LocalOK, TypeOK
<1>. QED BY <1>1, Invariance, PTL

\* _advance_rendering and render_all_deliverables: however many threads advance, die and
\* take over, a deliverable is saved once.
THEOREM RenderedOnceHolds == ASSUME Calm PROVE Spec => []RenderedOnce
<1>1. IInv => RenderedOnce
  BY DEF IInv, Rendering
<1>. QED BY <1>1, Invariance, PTL
=============================================================================
