--------------------------- MODULE PlansPaidProofs ---------------------------
(***************************************************************************)
(* PaidOnce and DoneIsComplete of PlansRuns.                               *)
(*                                                                         *)
(* Paying: the model is asked once for a group, however many rows the      *)
(* group has for a while.  Two rows of one identity are harmless while one *)
(* of them still waits in the hands of a thread that will look at the      *)
(* other; once the run has ended nothing is asked.                         *)
(*                                                                         *)
(* Finishing: what a run that says done has.  Behind reading every         *)
(* category has settled and so has what was added for it; a thread that    *)
(* renders without a missing step has an answer for every group that       *)
(* exists or is about to be added; a delete that is undone finds the run   *)
(* as it read it.                                                          *)
(***************************************************************************)
EXTENDS PlansRunsProofs, FiniteSetTheorems

\* Between its insert and its last delete.
Dedupe == {"read_dups", "dedupe", "delete_winner"}

\* About to put what it holds into the queue.
Handing == {"enqueue", "resume"}

\* The run may still ask the model: it has not ended, or the delete that ended
\* it may be undone.
Live ==
    \/ run.status \notin TerminalRun \cup {"deleted"}
    \/ /\ run.status = "canceled"
       /\ \E t \in Threads : th[t].pc \in Holding /\ th[t].was = "over_cap"

\* What a thread has read for the dedupe: one record per identity.
HandOK(l) ==
    /\ l.keys \cap SubKeys = {}
    /\ l.pc = "read_dups" => \A r \in l.set : r[1] \in l.keys
    /\ l.pc \in {"dedupe", "delete_winner"} =>
          /\ \A d \in l.dups : d = [win |-> d.win, fresh |-> d.fresh, lose |-> d.lose]
          /\ \A d, e \in l.dups : d.win[1] = e.win[1] => d = e
    /\ l.pc = "delete_winner" => \A x, y \in l.todo : x = y

HandsOK == \A t \in Threads : HandOK(th[t])

SubRow(r) == r[1] \in SubKeys /\ rows[r] # "none"

\* The groups of pass 1 are inserted once: a run is planned again only while
\* it has none and nobody is about to insert them.
SubOnce ==
    /\ \A r, s \in Rows : SubRow(r) /\ SubRow(s) /\ r[1] = s[1] => r = s
    /\ \A t \in Threads : th[t].pc = "insert_subs" =>
          ~run.old /\ run.status # "splitting" /\ \A r \in Rows : ~SubRow(r)
    /\ \A t, u \in Threads : th[t].pc = "insert_subs" /\ th[u].pc = "insert_subs" => t = u
    /\ run.status = "splitting" => ~run.old /\ \A r \in Rows : ~SubRow(r)
    /\ \A t \in Threads : th[t].pc = "replan" /\ run.old => \A r \in Rows : ~SubRow(r)

Canceling(l) == l.pc \in {"cancel_groups", "cancel_jobs"}

CancelPast == \A t \in Threads : Canceling(th[t]) => ~Live

\* The mark on the row is still to be made.
Marks == {"mark_queued", "mark_failed"}

\* A job runs as long as one worker works on it; the worker that has only the
\* mark left has given it up, and nobody has taken it up before the mark.
JobsHeld ==
    /\ \A t \in Threads \ Workers : th[t].row = NoRow
    /\ \A t \in Threads : th[t].row \in Rows => (job[th[t].row] = "running" <=> th[t].pc \notin Marks)
    /\ \A t, u \in Threads : th[t].row \in Rows /\ th[t].row = th[u].row => t = u

Exist ==
    /\ \A r \in Rows : rows[r] = "none" => job[r] = "none"
    /\ \A t \in Threads : \A r \in th[t].set : rows[r] # "none"
    /\ \A t \in Threads : th[t].pc \in {"build", "call"} =>
          th[t].row \in Rows /\ rows[th[t].row] = "running"
    /\ \A t \in Threads : th[t].row \in Rows => rows[th[t].row] # "none"

InHand(l, r) == l.pc \in Dedupe /\ r \in l.set

\* A row still in the hands of the thread that inserted it waits: it has no
\* job, nobody will mark it and nobody else will give it one.
Hands ==
    \A t \in Threads, r \in Rows : InHand(th[t], r) =>
        /\ rows[r] = "queued" /\ job[r] = "none" /\ \A u \in Threads : th[u].row # r
        /\ \A u \in Threads \ {t} : r \in th[u].set => th[u].pc \notin Dedupe \cup Handing

\* A thread with row o in its hands has still to look at row x.
Awaits(l, o, x) ==
    /\ InHand(l, o)
    /\ \/ l.pc = "read_dups"
       \/ \E d \in l.dups : o \in d.lose
       \/ \E d \in l.dups :
            /\ d.win = o /\ d.fresh
            /\ x \in d.lose \/ (l.pc = "delete_winner" /\ x \in l.todo)

Twins(r, s) == r # s /\ r[1] = s[1] /\ r[1] \notin SubKeys /\ rows[r] # "none" /\ rows[s] # "none"

Covered == \A r, s \in Rows : Twins(r, s) =>
    \E t \in Threads : Awaits(th[t], r, s) \/ Awaits(th[t], s, r)

Held == JobsHeld /\ Exist /\ Hands /\ Covered

\* PaidOnce, pair by pair.
Once ==
    /\ \A t, u \in Threads :
          th[t].pc = "call" /\ th[u].pc = "call" /\ th[t].row[1] = th[u].row[1] => t = u
    /\ \A r, s \in Rows : rows[r] = "done" /\ rows[s] = "done" /\ r[1] = s[1] => r = s
    /\ \A t \in Threads, r \in Rows :
          th[t].pc = "call" /\ rows[r] = "done" => th[t].row[1] # r[1]

Paying == HandsOK /\ SubOnce /\ CancelPast /\ Once /\ (Live => Held)

-----------------------------------------------------------------------------
(* What the helpers on a thread return.                                    *)

Rested == {"idle", "finish", "advance"}

LEMMA RowFacts ==
    /\ NoRow \notin Rows
    /\ \A r : Gone(r) \notin Rows /\ Gone(r)[1] = r[1]
<1>1. 0 \notin 1..Slots
  BY PlansAssumption
<1>. QED BY <1>1 DEF Rows, NoRow, Gone

LEMMA IdleHas ==
    /\ HandOK(Idle) /\ Idle.pc = "idle" /\ Idle.row = NoRow /\ Idle.set = {}
BY DEF HandOK, Idle

LEMMA HomeHas ==
    ASSUME NEW l
    PROVE  /\ HandOK(Home(l)) /\ Home(l).pc \in {"idle", "finish"}
           /\ Home(l).row = l.row /\ Home(l).set = {}
<1>. SUFFICES ASSUME NEW m, m = Home(l)
              PROVE  HandOK(m) /\ m.pc \in {"idle", "finish"} /\ m.row = l.row /\ m.set = {}
  OBVIOUS
<1>. QED BY DEF HandOK, Idle, Home

LEMMA AdvanceHas ==
    ASSUME NEW l
    PROVE  /\ HandOK(Advance(l)) /\ Advance(l).pc = "advance"
           /\ Advance(l).row = l.row /\ Advance(l).set = {}
<1>. SUFFICES ASSUME NEW m, m = Advance(l)
              PROVE  HandOK(m) /\ m.pc = "advance" /\ m.row = l.row /\ m.set = {}
  OBVIOUS
<1>. QED BY DEF HandOK, Idle, Advance

\* A record with another place keeps the rest.
LEMMA PlaceHas ==
    ASSUME NEW l, Plain(l), l.keys \cap SubKeys = {}, NEW pc, pc \notin Dedupe
    PROVE  LET m == [l EXCEPT !.pc = pc] IN
           /\ HandOK(m) /\ m.pc = pc /\ m.row = l.row /\ m.set = l.set /\ m.keys = l.keys
           /\ m.was = l.was
<1>. SUFFICES ASSUME NEW m, m = [l EXCEPT !.pc = pc]
              PROVE  /\ HandOK(m) /\ m.pc = pc /\ m.row = l.row /\ m.set = l.set /\ m.keys = l.keys
                     /\ m.was = l.was
  OBVIOUS
<1>. QED BY DEF Plain, Whole, HandOK, Dedupe

LEMMA EnqueuingHas ==
    ASSUME NEW l, Plain(l), l.keys \cap SubKeys = {}
    PROVE  /\ HandOK(Enqueuing(l)) /\ Enqueuing(l).pc \in Rested \cup {"enqueue"}
           /\ Enqueuing(l).row = l.row /\ Enqueuing(l).set = l.set
<1>1. CASE l.set # {}
  BY <1>1, PlaceHas DEF Enqueuing, Dedupe
<1>2. CASE l.set = {}
  BY <1>2, HomeHas, AdvanceHas DEF Enqueuing, Rested
<1>. QED BY <1>1, <1>2

LEMMA DedupedHas ==
    ASSUME NEW l, Plain(l), l.keys \cap SubKeys = {}
    PROVE  LET m == Deduped(l) IN
           /\ m.row = l.row
           /\ \/ /\ \E d \in l.dups : d.lose # {}
                 /\ m.pc = "dedupe" /\ m.set = l.set /\ m.keys = l.keys /\ m.dups = l.dups
              \/ /\ \A d \in l.dups : d.lose = {}
                 /\ m.pc \in Rested \cup {"enqueue"} /\ m.set \subseteq l.set
                 /\ HandOK(m)
<1>1. CASE \E d \in l.dups : d.lose # {}
  <2>. SUFFICES ASSUME NEW m, m = [l EXCEPT !.pc = "dedupe"]
                PROVE  /\ m.row = l.row /\ m.pc = "dedupe" /\ m.set = l.set /\ m.keys = l.keys
                       /\ m.dups = l.dups
    BY <1>1 DEF Deduped
  <2>. QED BY DEF Plain, Whole
<1>2. CASE ~ \E d \in l.dups : d.lose # {}
  <2>. DEFINE won == {d.win : d \in {d \in l.dups : d.fresh /\ d.win \in l.set}}
              n == [l EXCEPT !.keys = {}, !.dups = {}, !.set = won]
  <2>1. Deduped(l) = Enqueuing(n)
    BY <1>2 DEF Deduped
  <2>2. won \subseteq l.set
    OBVIOUS
  <2>3. Plain(n) /\ n.keys = {} /\ n.row = l.row /\ n.set = won
    <3>. SUFFICES ASSUME NEW m, m = n
                  PROVE  Plain(m) /\ m.keys = {} /\ m.row = l.row /\ m.set = won
      OBVIOUS
    <3>. HIDE DEF won
    <3>. QED BY <2>2 DEF Plain, Whole
  <2>. HIDE DEF n, won
  <2>4. n.keys \cap SubKeys = {}
    BY <2>3
  <2>. QED BY <1>2, <2>1, <2>2, <2>3, <2>4, EnqueuingHas
<1>. QED BY <1>1, <1>2

LEMMA WithoutHas ==
    ASSUME NEW l, NEW r, Whole(l)
    PROVE  LET m == Without(l, r) IN
           /\ m.pc = l.pc /\ m.row = (IF l.row = r THEN Gone(r) ELSE l.row) /\ m.set = l.set \ {r}
           /\ m.keys = l.keys /\ m.todo = l.todo /\ m.was = l.was /\ m.bad = l.bad
           /\ m.dups = {[win |-> IF d.win = r THEN Gone(r) ELSE d.win, fresh |-> d.fresh,
                         lose |-> {IF s = r THEN Gone(r) ELSE s : s \in d.lose}] : d \in l.dups}
<1>. DEFINE row == IF l.row = r THEN Gone(r) ELSE l.row
            dups == {[win |-> IF d.win = r THEN Gone(r) ELSE d.win, fresh |-> d.fresh,
                      lose |-> {IF s = r THEN Gone(r) ELSE s : s \in d.lose}] : d \in l.dups}
<1>1. Without(l, r) = [l EXCEPT !.row = row, !.set = @ \ {r}, !.dups = dups]
  BY DEF Without
<1>. SUFFICES ASSUME NEW m, m = [l EXCEPT !.row = row, !.set = @ \ {r}, !.dups = dups]
              PROVE  /\ m.pc = l.pc /\ m.row = row /\ m.set = l.set \ {r}
                     /\ m.keys = l.keys /\ m.todo = l.todo /\ m.was = l.was /\ m.bad = l.bad
                     /\ m.dups = dups
  BY <1>1
<1>. HIDE DEF row, dups
<1>. QED BY DEF Whole

\* A row that is deleted elsewhere leaves a thread's reads in order, and what
\* it awaits of other rows.
LEMMA WithoutKeeps ==
    ASSUME NEW l, NEW r, Whole(l)
    PROVE  /\ HandOK(l) => HandOK(Without(l, r))
           /\ \A o, x : o # r /\ x # r /\ Awaits(l, o, x) => Awaits(Without(l, r), o, x)
<1>. DEFINE Swap(s) == IF s = r THEN Gone(r) ELSE s
            Lose(d) == {IF s = r THEN Gone(r) ELSE s : s \in d.lose}
            Rec(d) == [win |-> IF d.win = r THEN Gone(r) ELSE d.win, fresh |-> d.fresh, lose |-> Lose(d)]
            m == Without(l, r)
<1>1. /\ m.pc = l.pc /\ m.set = l.set \ {r} /\ m.keys = l.keys /\ m.todo = l.todo
      /\ m.dups = {Rec(d) : d \in l.dups}
  BY WithoutHas
<1>2. \A d : Rec(d).win[1] = d.win[1]
  BY RowFacts
<1>3. \A d : Rec(d) = [win |-> Rec(d).win, fresh |-> Rec(d).fresh, lose |-> Rec(d).lose]
  OBVIOUS
<1>4. \A d, o : o # r /\ d.win = o => Rec(d).win = o
  OBVIOUS
<1>5. \A d : Rec(d).fresh = d.fresh
  OBVIOUS
<1>6. \A d, o : o # r /\ o \in d.lose => o \in Rec(d).lose
  OBVIOUS
<1>. HIDE DEF Rec, m
<1>7. ASSUME HandOK(l) PROVE HandOK(m)
  <2>1. ASSUME l.pc \in {"dedupe", "delete_winner"}, NEW d \in m.dups, NEW e \in m.dups,
               d.win[1] = e.win[1]
        PROVE  d = e
    <3>1. PICK dd \in l.dups : d = Rec(dd)
      BY <1>1
    <3>2. PICK ee \in l.dups : e = Rec(ee)
      BY <1>1
    <3>. QED BY <1>2, <1>7, <2>1, <3>1, <3>2 DEF HandOK
  <2>2. \A d \in m.dups : d = [win |-> d.win, fresh |-> d.fresh, lose |-> d.lose]
    BY <1>1, <1>3
  <2>. QED BY <1>1, <1>7, <2>1, <2>2 DEF HandOK
<1>8. ASSUME NEW o, NEW x, o # r, x # r, Awaits(l, o, x)
      PROVE  Awaits(m, o, x)
  <2>1. InHand(m, o)
    BY <1>1, <1>8 DEF Awaits, InHand
  <2>2. CASE l.pc = "read_dups"
    BY <1>1, <2>1, <2>2 DEF Awaits
  <2>3. CASE \E d \in l.dups : o \in d.lose
    BY <1>1, <1>6, <1>8, <2>1, <2>3 DEF Awaits
  <2>4. ASSUME NEW d \in l.dups, d.win = o, d.fresh,
               x \in d.lose \/ (l.pc = "delete_winner" /\ x \in l.todo)
        PROVE  Awaits(m, o, x)
    <3>1. Rec(d) \in m.dups /\ Rec(d).win = o /\ Rec(d).fresh
      BY <1>1, <1>4, <1>5, <1>8, <2>4
    <3>2. x \in Rec(d).lose \/ (m.pc = "delete_winner" /\ x \in m.todo)
      BY <1>1, <1>6, <1>8, <2>4
    <3>. QED BY <2>1, <3>1, <3>2 DEF Awaits
  <2>. QED BY <1>8, <2>2, <2>3, <2>4 DEF Awaits
<1>. QED BY <1>7, <1>8 DEF m

-----------------------------------------------------------------------------
(* Steps outside the dedupe keep Held.                                     *)

LEMMA Put ==
    ASSUME DOMAIN th = Threads, NEW t \in Threads, NEW l, Local(t, l)
    PROVE  th'[t] = l /\ \A u \in Threads \ {t} : th'[u] = th[u]
BY DEF Local

\* A step that leaves alone the rows that are in somebody's hands, and whose
\* thread holds what it may.
LEMMA QuietHeld ==
    ASSUME Held, ThreadsOK, NEW t \in Threads, NEW l, Local(t, l),
           th[t].pc \notin Dedupe, l.pc \notin Dedupe,
           \A r \in Rows : rows'[r] = "none" <=> rows[r] = "none",
           \A r \in Rows : rows'[r] = "none" => job'[r] = "none",
           \A u \in Threads, r \in Rows : InHand(th[u], r) => rows'[r] = rows[r] /\ job'[r] = job[r],
           \A u \in Threads \ {t} : th[u].row \in Rows =>
               /\ th[u].row # l.row /\ (job'[th[u].row] = "running" <=> job[th[u].row] = "running")
               /\ th[u].pc \notin Marks /\ rows[th[u].row] = "running" => rows'[th[u].row] = "running",
           t \notin Workers => l.row = NoRow,
           l.row \in Rows => (job'[l.row] = "running" <=> l.pc \notin Marks) /\ rows[l.row] # "none",
           \A u \in Threads, r \in Rows : InHand(th[u], r) => l.row # r,
           l.set \subseteq Rows, \A r \in l.set : rows[r] # "none",
           l.pc \in Handing => \A u \in Threads : \A r \in l.set : ~InHand(th[u], r),
           l.pc \in {"build", "call"} => l.row \in Rows /\ rows'[l.row] = "running"
    PROVE  Held'
<1>1. th'[t] = l /\ \A u \in Threads \ {t} : th'[u] = th[u]
  BY Put DEF ThreadsOK
<1>2. JobsHeld'
  <2>1. \A u \in Threads \ Workers : th'[u].row = NoRow
    BY <1>1 DEF Held, JobsHeld
  <2>2. \A u \in Threads : th'[u].row \in Rows => (job'[th'[u].row] = "running" <=> th'[u].pc \notin Marks)
    BY <1>1 DEF Held, JobsHeld
  <2>3. \A u, v \in Threads : th'[u].row \in Rows /\ th'[u].row = th'[v].row => u = v
    BY <1>1 DEF Held, JobsHeld
  <2>. QED BY <2>1, <2>2, <2>3 DEF JobsHeld
<1>3. Exist'
  <2>1. \A u \in Threads : \A r \in th'[u].set : rows'[r] # "none"
    <3>1. \A u \in Threads : th[u].set \subseteq Rows
      BY DEF ThreadsOK, LocalOK
    <3>. QED BY <1>1, <3>1 DEF Held, Exist
  <2>2. \A u \in Threads : th'[u].pc \in {"build", "call"} =>
          th'[u].row \in Rows /\ rows'[th'[u].row] = "running"
    BY <1>1 DEF Held, Exist, Marks
  <2>3. \A u \in Threads : th'[u].row \in Rows => rows'[th'[u].row] # "none"
    BY <1>1 DEF Held, Exist
  <2>. QED BY <2>1, <2>2, <2>3 DEF Exist
<1>4. \A u \in Threads, r \in Rows : InHand(th'[u], r) => u # t /\ InHand(th[u], r)
  BY <1>1 DEF InHand
<1>5. Hands'
  <2>. SUFFICES ASSUME NEW u \in Threads, NEW r \in Rows, InHand(th'[u], r)
                PROVE  /\ rows'[r] = "queued" /\ job'[r] = "none" /\ \A v \in Threads : th'[v].row # r
                       /\ \A v \in Threads \ {u} : r \in th'[v].set => th'[v].pc \notin Dedupe \cup Handing
    BY DEF Hands
  <2>1. u # t /\ InHand(th[u], r)
    BY <1>4
  <2>2. rows'[r] = "queued" /\ job'[r] = "none" /\ \A v \in Threads : th'[v].row # r
    BY <1>1, <2>1 DEF Held, Hands
  <2>3. r \in th'[t].set => th'[t].pc \notin Dedupe \cup Handing
    BY <1>1, <2>1
  <2>4. \A v \in Threads \ {u, t} : r \in th'[v].set => th'[v].pc \notin Dedupe \cup Handing
    BY <1>1, <2>1 DEF Held, Hands
  <2>. QED BY <2>2, <2>3, <2>4
<1>6. Covered'
  <2>. SUFFICES ASSUME NEW r \in Rows, NEW s \in Rows, Twins(r, s)'
                PROVE  \E u \in Threads : Awaits(th'[u], r, s) \/ Awaits(th'[u], s, r)
    BY DEF Covered
  <2>1. Twins(r, s)
    BY DEF Twins
  <2>2. PICK u \in Threads : Awaits(th[u], r, s) \/ Awaits(th[u], s, r)
    BY <2>1 DEF Held, Covered
  <2>3. u # t
    BY <2>2 DEF Awaits, InHand
  <2>. QED BY <1>1, <2>2, <2>3
<1>. QED BY <1>2, <1>3, <1>5, <1>6 DEF Held

\* A step that writes to no row and no job, and hands nothing over that was not
\* being handed over.
LEMMA LocalHeld ==
    ASSUME Held, ThreadsOK, NEW t \in Threads, NEW l, Local(t, l), UNCHANGED <<rows, job>>,
           th[t].pc \notin Dedupe, l.pc \notin Dedupe \cup {"build", "call"},
           l.row \in {th[t].row, NoRow}, l.set \subseteq th[t].set,
           l.row # NoRow => th[t].pc \notin Marks /\ l.pc \notin Marks,
           l.pc \in Handing => th[t].pc \in Handing
    PROVE  Held'
<1>1. th[t].set \subseteq Rows /\ NoRow \notin Rows
  BY RowFacts DEF ThreadsOK, LocalOK
<1>2. \A u \in Threads \ {t} : th[u].row \in Rows =>
               /\ th[u].row # l.row /\ (job'[th[u].row] = "running" <=> job[th[u].row] = "running")
               /\ th[u].pc \notin Marks /\ rows[th[u].row] = "running" => rows'[th[u].row] = "running"
  BY <1>1 DEF Held, JobsHeld
<1>3. t \notin Workers => l.row = NoRow
  BY DEF Held, JobsHeld
<1>4. /\ l.row \in Rows => (job'[l.row] = "running" <=> l.pc \notin Marks) /\ rows[l.row] # "none"
      /\ \A u \in Threads, r \in Rows : InHand(th[u], r) => l.row # r
  BY <1>1 DEF Held, JobsHeld, Exist, Hands
<1>5. \A r \in Rows : rows'[r] = "none" => job'[r] = "none"
  BY DEF Held, Exist
<1>6. l.set \subseteq Rows /\ \A r \in l.set : rows[r] # "none"
  BY <1>1 DEF Held, Exist
<1>7. l.pc \in Handing => \A u \in Threads : \A r \in l.set : ~InHand(th[u], r)
  <2>. SUFFICES ASSUME l.pc \in Handing, NEW u \in Threads, NEW r \in l.set, InHand(th[u], r)
                PROVE  FALSE
    OBVIOUS
  <2>1. u # t /\ r \in Rows /\ r \in th[t].set
    BY <1>6 DEF InHand
  <2>. QED BY <2>1 DEF Held, Hands
<1>. QED BY <1>2, <1>3, <1>4, <1>5, <1>6, <1>7, QuietHeld

\* A step of the thread that holds a row's job, or that takes it.
LEMMA OwnHeld ==
    ASSUME Held, ThreadsOK, NEW t \in Threads, NEW l, Local(t, l),
           th[t].pc \notin Dedupe, l.pc \notin Dedupe \cup Handing, l.set \subseteq th[t].set,
           NEW q, q \in Rows => /\ job[q] # "none" \/ th[t].row = q
                              /\ \A u \in Threads \ {t} : th[u].row # q,
           \A r \in Rows \ {q} : rows'[r] = rows[r] /\ job'[r] = job[r],
           q \in Rows => rows'[q] # "none",
           \/ l.row = NoRow
           \/ l.row = q /\ t \in Workers /\ (q \in Rows => (job'[q] = "running" <=> l.pc \notin Marks)),
           l.pc \in {"build", "call"} => l.row \in Rows /\ rows'[l.row] = "running"
    PROVE  Held'
<1>1. NoRow \notin Rows
  BY RowFacts
<1>2. q \in Rows => rows[q] # "none"
  BY DEF Held, Exist
<1>3. \A u \in Threads \ {t} : th[u].row \in Rows =>
               /\ th[u].row # l.row /\ (job'[th[u].row] = "running" <=> job[th[u].row] = "running")
               /\ th[u].pc \notin Marks /\ rows[th[u].row] = "running" => rows'[th[u].row] = "running"
  <2>. SUFFICES ASSUME NEW u \in Threads \ {t}, th[u].row \in Rows
                PROVE  /\ th[u].row # l.row /\ (job'[th[u].row] = "running" <=> job[th[u].row] = "running")
                       /\ th[u].pc \notin Marks /\ rows[th[u].row] = "running" => rows'[th[u].row] = "running"
    OBVIOUS
  <2>1. th[u].row \in Rows \ {q}
    OBVIOUS
  <2>. QED BY <1>1, <2>1
<1>4. \A u \in Threads, r \in Rows : InHand(th[u], r) => rows'[r] = rows[r] /\ job'[r] = job[r] /\ l.row # r
  <2>. SUFFICES ASSUME NEW u \in Threads, NEW r \in Rows, InHand(th[u], r)
                PROVE  rows'[r] = rows[r] /\ job'[r] = job[r] /\ l.row # r
    OBVIOUS
  <2>1. job[r] = "none" /\ th[t].row # r
    BY DEF Held, Hands
  <2>. QED BY <1>1, <2>1
<1>5. \A r \in Rows : rows'[r] = "none" <=> rows[r] = "none"
  BY <1>2
<1>6. \A r \in Rows : rows'[r] = "none" => job'[r] = "none"
  BY DEF Held, Exist
<1>7. t \notin Workers => l.row = NoRow
  OBVIOUS
<1>8. l.row \in Rows => (job'[l.row] = "running" <=> l.pc \notin Marks) /\ rows[l.row] # "none"
  BY <1>1, <1>2
<1>9. l.set \subseteq Rows /\ \A r \in l.set : rows[r] # "none"
  BY DEF Held, Exist, ThreadsOK, LocalOK
<1>10. l.pc \notin Dedupe /\ (l.pc \in Handing => \A u \in Threads : \A r \in l.set : ~InHand(th[u], r))
  OBVIOUS
<1>. QED BY <1>3, <1>4, <1>5, <1>6, <1>7, <1>8, <1>9, <1>10, QuietHeld

-----------------------------------------------------------------------------
(* The steps of the dedupe keep Held.                                      *)

\* Rows come to light in the hands of the thread that inserts them.
LEMMA InsertHeld ==
    ASSUME Held, ThreadsOK, NEW t \in Threads, NEW l, Local(t, l),
           th[t].pc \notin Dedupe \cup Marks, l.pc \in {"enqueue", "read_dups"}, l.row = th[t].row,
           l.set \subseteq Rows, \A r \in l.set : rows[r] = "none",
           l.pc = "enqueue" => \A r \in l.set : r[1] \in SubKeys,
           \A r \in Rows : rows'[r] = (IF r \in l.set THEN "queued" ELSE rows[r]), job' = job
    PROVE  Held'
<1>1. th'[t] = l /\ \A u \in Threads \ {t} : th'[u] = th[u]
  BY Put DEF ThreadsOK
<1>2. \A u \in Threads : th[u].set \subseteq Rows /\ th[u].set \cap l.set = {}
  BY DEF ThreadsOK, LocalOK, Held, Exist
<1>3. JobsHeld'
  BY <1>1 DEF Held, JobsHeld, Marks
<1>4. Exist'
  <2>1. \A r \in Rows : rows'[r] = "none" => job'[r] = "none"
    BY DEF Held, Exist
  <2>2. \A u \in Threads : \A r \in th'[u].set : rows'[r] # "none"
    <3>1. \A u \in Threads : \A r \in th[u].set : r \in Rows /\ rows[r] # "none"
      BY <1>2 DEF Held, Exist
    <3>2. \A r \in l.set : rows'[r] = "queued"
      OBVIOUS
    <3>. QED BY <1>1, <3>1, <3>2
  <2>3. \A u \in Threads : th'[u].pc \in {"build", "call"} =>
          th'[u].row \in Rows /\ rows'[th'[u].row] = "running"
    <3>1. \A u \in Threads : th'[u].pc \in {"build", "call"} => u # t
      BY <1>1
    <3>2. \A u \in Threads : th[u].pc \in {"build", "call"} =>
            th[u].row \in Rows /\ rows[th[u].row] = "running"
      BY DEF Held, Exist
    <3>3. \A r \in Rows : rows[r] = "running" => rows'[r] = "running"
      OBVIOUS
    <3>. QED BY <1>1, <3>1, <3>2, <3>3
  <2>4. \A u \in Threads : th'[u].row \in Rows => rows'[th'[u].row] # "none"
    BY <1>1 DEF Held, Exist
  <2>. QED BY <2>1, <2>2, <2>3, <2>4 DEF Exist
<1>5. Hands'
  <2>. SUFFICES ASSUME NEW u \in Threads, NEW r \in Rows, InHand(th'[u], r)
                PROVE  /\ rows'[r] = "queued" /\ job'[r] = "none" /\ \A v \in Threads : th'[v].row # r
                       /\ \A v \in Threads \ {u} : r \in th'[v].set => th'[v].pc \notin Dedupe \cup Handing
    BY DEF Hands
  <2>1. CASE u = t
    <3>1. r \in l.set
      BY <1>1, <2>1 DEF InHand
    <3>2. \A v \in Threads \ {t} : r \notin th'[v].set
      BY <1>1, <1>2, <3>1
    <3>3. job[r] = "none" /\ \A v \in Threads : th'[v].row # r
      BY <1>1, <3>1 DEF Held, Exist
    <3>. QED BY <2>1, <3>1, <3>2, <3>3
  <2>2. CASE u # t
    <3>1. InHand(th[u], r) /\ r \in th[u].set
      BY <1>1, <2>2 DEF InHand
    <3>2. r \notin l.set
      BY <1>2, <3>1
    <3>. QED BY <1>1, <2>2, <3>1, <3>2 DEF Held, Hands
  <2>. QED BY <2>1, <2>2
<1>6. Covered'
  <2>. SUFFICES ASSUME NEW r \in Rows, NEW s \in Rows, Twins(r, s)'
                PROVE  \E u \in Threads : Awaits(th'[u], r, s) \/ Awaits(th'[u], s, r)
    BY DEF Covered
  <2>1. CASE r \in l.set \/ s \in l.set
    <3>1. r[1] = s[1] /\ r[1] \notin SubKeys
      BY DEF Twins
    <3>2. l.pc = "read_dups"
      BY <2>1, <3>1
    <3>3. Awaits(l, r, s) \/ Awaits(l, s, r)
      BY <2>1, <3>2 DEF Awaits, InHand, Dedupe
    <3>. QED BY <1>1, <3>3
  <2>2. CASE r \notin l.set /\ s \notin l.set
    <3>1. Twins(r, s)
      BY <2>2 DEF Twins
    <3>2. PICK u \in Threads : Awaits(th[u], r, s) \/ Awaits(th[u], s, r)
      BY <3>1 DEF Held, Covered
    <3>3. u # t
      BY <3>2 DEF Awaits, InHand
    <3>. QED BY <1>1, <3>2, <3>3
  <2>. QED BY <2>1, <2>2
<1>. QED BY <1>3, <1>4, <1>5, <1>6 DEF Held

\* A look at the rows, or an attempt to delete that failed.
LEMMA LookHeld ==
    ASSUME Held, ThreadsOK, NEW t \in Threads, NEW l, Local(t, l), UNCHANGED <<rows, job>>,
           th[t].pc \in Dedupe, l.pc \in Dedupe \cup Rested \cup {"enqueue"},
           l.row = th[t].row, l.set \subseteq th[t].set,
           \A r, s \in Rows : Twins(r, s) /\ Awaits(th[t], r, s) => Awaits(l, r, s)
    PROVE  Held'
<1>1. th'[t] = l /\ \A u \in Threads \ {t} : th'[u] = th[u]
  BY Put DEF ThreadsOK
<1>2. JobsHeld'
  BY <1>1 DEF Held, JobsHeld, Dedupe, Rested, Marks
<1>3. Exist'
  BY <1>1 DEF Held, Exist, Dedupe, Rested
<1>4. Hands'
  <2>. SUFFICES ASSUME NEW u \in Threads, NEW r \in Rows, InHand(th'[u], r)
                PROVE  /\ rows'[r] = "queued" /\ job'[r] = "none" /\ \A v \in Threads : th'[v].row # r
                       /\ \A v \in Threads \ {u} : r \in th'[v].set => th'[v].pc \notin Dedupe \cup Handing
    BY DEF Hands
  <2>1. InHand(th[u], r)
    BY <1>1 DEF InHand
  <2>2. \A v \in Threads \ {u} : r \in th[v].set => th[v].pc \notin Dedupe \cup Handing
    BY <2>1 DEF Held, Hands
  <2>3. u # t => r \notin th[t].set
    BY <2>2
  <2>. QED BY <1>1, <2>1, <2>2, <2>3 DEF Held, Hands
<1>5. Covered'
  <2>. SUFFICES ASSUME NEW r \in Rows, NEW s \in Rows, Twins(r, s)'
                PROVE  \E u \in Threads : Awaits(th'[u], r, s) \/ Awaits(th'[u], s, r)
    BY DEF Covered
  <2>1. Twins(r, s) /\ Twins(s, r)
    BY DEF Twins
  <2>2. PICK u \in Threads : Awaits(th[u], r, s) \/ Awaits(th[u], s, r)
    BY <2>1 DEF Held, Covered
  <2>. QED BY <1>1, <2>1, <2>2
<1>. QED BY <1>2, <1>3, <1>4, <1>5 DEF Held

\* A row that waits is deleted.
LEMMA DeleteHeld ==
    ASSUME Held, ThreadsOK, NEW t \in Threads, NEW l, NEW w \in Rows,
           rows[w] = "queued", RowsOK, JobOK, DeleteRow(t, w, l),
           th[t].pc \in Dedupe, l.pc \in Dedupe \cup Rested \cup {"enqueue"},
           l.row = (IF th[t].row = w THEN Gone(w) ELSE th[t].row), l.set \subseteq th[t].set \ {w},
           \A r, s \in Rows \ {w} : Twins(r, s) /\ Awaits(th[t], r, s) => Awaits(l, r, s)
    PROVE  Held'
<1>1. /\ th'[t] = l
      /\ \A u \in Threads \ {t} : th'[u] = Without(th[u], w)
  BY DEF DeleteRow
<1>2. /\ \A r \in Rows : rows'[r] = IF r = w THEN "none" ELSE rows[r]
      /\ \A r \in Rows : job'[r] = IF r = w THEN "none" ELSE job[r]
  BY DEF DeleteRow, RowsOK, JobOK
<1>3. \A u \in Threads : /\ th'[u].row = IF th[u].row = w THEN Gone(w) ELSE th[u].row
                         /\ th'[u].set \subseteq th[u].set \ {w}
                         /\ u # t => th'[u].pc = th[u].pc
  <2>1. \A u \in Threads : Whole(th[u])
    BY DEF ThreadsOK, LocalOK
  <2>. QED BY <1>1, <2>1, WithoutHas
<1>4. NoRow \notin Rows /\ Gone(w) \notin Rows
  BY RowFacts
<1>5. JobsHeld'
  <2>1. \A u \in Threads : th'[u].row \in Rows => th'[u].row = th[u].row /\ th[u].row # w
    BY <1>3, <1>4
  <2>2. \A u \in Threads \ Workers : th'[u].row = NoRow
    BY <1>3, <1>4 DEF Held, JobsHeld
  <2>3. \A u \in Threads : th'[u].row \in Rows => (job'[th'[u].row] = "running" <=> th'[u].pc \notin Marks)
    <3>1. \A u \in Threads : th'[u].pc \in Marks <=> th[u].pc \in Marks
      BY <1>1, <1>3 DEF Dedupe, Rested, Marks
    <3>. QED BY <1>2, <2>1, <3>1 DEF Held, JobsHeld
  <2>4. \A u, v \in Threads : th'[u].row \in Rows /\ th'[u].row = th'[v].row => u = v
    BY <2>1 DEF Held, JobsHeld
  <2>. QED BY <2>2, <2>3, <2>4 DEF JobsHeld
<1>6. Exist'
  <2>1. \A r \in Rows : rows'[r] = "none" => job'[r] = "none"
    BY <1>2 DEF Held, Exist
  <2>2. \A u \in Threads : \A r \in th'[u].set : rows'[r] # "none"
    <3>1. \A u \in Threads : \A r \in th[u].set : r \in Rows /\ rows[r] # "none"
      BY DEF Held, Exist, ThreadsOK, LocalOK
    <3>. QED BY <1>2, <1>3, <3>1
  <2>3. \A u \in Threads : th'[u].pc \in {"build", "call"} =>
          th'[u].row \in Rows /\ rows'[th'[u].row] = "running"
    <3>. SUFFICES ASSUME NEW u \in Threads, th'[u].pc \in {"build", "call"}
                  PROVE  th'[u].row \in Rows /\ rows'[th'[u].row] = "running"
      OBVIOUS
    <3>1. u # t
      BY <1>1 DEF Dedupe, Rested
    <3>2. th[u].row \in Rows /\ rows[th[u].row] = "running"
      BY <1>3, <3>1 DEF Held, Exist
    <3>. QED BY <1>2, <1>3, <3>2
  <2>4. \A u \in Threads : th'[u].row \in Rows => rows'[th'[u].row] # "none"
    BY <1>2, <1>3, <1>4 DEF Held, Exist
  <2>. QED BY <2>1, <2>2, <2>3, <2>4 DEF Exist
<1>7. Hands'
  <2>. SUFFICES ASSUME NEW u \in Threads, NEW r \in Rows, InHand(th'[u], r)
                PROVE  /\ rows'[r] = "queued" /\ job'[r] = "none" /\ \A v \in Threads : th'[v].row # r
                       /\ \A v \in Threads \ {u} : r \in th'[v].set => th'[v].pc \notin Dedupe \cup Handing
    BY DEF Hands
  <2>1. InHand(th[u], r) /\ r # w
    BY <1>3 DEF InHand
  <2>2. \A v \in Threads \ {u} : r \in th[v].set => th[v].pc \notin Dedupe \cup Handing
    BY <2>1 DEF Held, Hands
  <2>3. u # t => r \notin th[t].set
    BY <2>2
  <2>4. rows[r] = "queued" /\ job[r] = "none" /\ \A v \in Threads : th[v].row # r
    BY <2>1 DEF Held, Hands
  <2>5. \A v \in Threads : th'[v].row # r
    BY <1>3, <1>4, <2>4
  <2>. QED BY <1>2, <1>3, <2>1, <2>2, <2>3, <2>4, <2>5
<1>8. Covered'
  <2>. SUFFICES ASSUME NEW r \in Rows, NEW s \in Rows, Twins(r, s)'
                PROVE  \E u \in Threads : Awaits(th'[u], r, s) \/ Awaits(th'[u], s, r)
    BY DEF Covered
  <2>1. Twins(r, s) /\ Twins(s, r) /\ r # w /\ s # w
    BY <1>2 DEF Twins
  <2>2. PICK u \in Threads : Awaits(th[u], r, s) \/ Awaits(th[u], s, r)
    BY <2>1 DEF Held, Covered
  <2>3. CASE u = t
    BY <1>1, <2>1, <2>2, <2>3
  <2>4. CASE u # t
    <3>1. Whole(th[u])
      BY DEF ThreadsOK, LocalOK
    <3>2. \/ Awaits(Without(th[u], w), r, s)
          \/ Awaits(Without(th[u], w), s, r)
      BY <2>1, <2>2, <3>1, WithoutKeeps
    <3>. QED BY <1>1, <2>4, <3>2
  <2>. QED BY <2>3, <2>4
<1>. QED BY <1>5, <1>6, <1>7, <1>8 DEF Held

LEMMA EarliestIn ==
    ASSUME NEW k, NEW S \in SUBSET RowsOf(k), S # {}
    PROVE  \E r \in S : \A s \in S \ {r} : Earlier(r, s)
<1>1. \A r \in RowsOf(k) : r[2] \in Nat /\ r = <<k, r[2]>>
  BY PlansAssumption DEF RowsOf, Rows
<1>. DEFINE N == {r[2] : r \in S}
<1>2. N \subseteq Nat /\ N # {}
  BY <1>1
<1>3. PICK n \in N : \A m \in N : n =< m
  <2>. HIDE DEF N
  <2>. QED BY <1>2, LeastIn
<1>4. PICK r \in S : r[2] = n
  OBVIOUS
<1>5. ASSUME NEW s \in S \ {r} PROVE Earlier(r, s)
  <2>1. r = <<k, r[2]>> /\ s = <<k, s[2]>> /\ r[2] \in Nat /\ s[2] \in Nat
    BY <1>1
  <2>2. r[2] =< s[2]
    BY <1>3, <1>4
  <2>. QED BY <2>1, <2>2 DEF Earlier
<1>. QED BY <1>5

LEMMA WinnerIn ==
    ASSUME NEW k, RowsOf(k) # {}
    PROVE  /\ Winner(k) \in RowsOf(k)
           /\ \A s \in RowsOf(k) \ {Winner(k)} : Before(Winner(k), s)
<1>. DEFINE started == {r \in RowsOf(k) : rows[r] # "queued"}
<1>1. \E r \in RowsOf(k) : \A s \in RowsOf(k) \ {r} : Before(r, s)
  <2>1. CASE started # {}
    <3>0. started \in SUBSET RowsOf(k)
      OBVIOUS
    <3>1. PICK r \in started : \A s \in started \ {r} : Earlier(r, s)
      <4>. HIDE DEF started
      <4>. QED BY <2>1, <3>0, EarliestIn
    <3>. QED BY <3>1 DEF Before
  <2>2. CASE started = {}
    <3>1. PICK r \in RowsOf(k) : \A s \in RowsOf(k) \ {r} : Earlier(r, s)
      BY EarliestIn
    <3>. QED BY <2>2, <3>1 DEF Before
  <2>. QED BY <2>1, <2>2
<1>. QED BY <1>1 DEF Winner

\* The dedupe goes on as long as something is awaited.
LEMMA DedupedKeeps ==
    ASSUME NEW l, Plain(l), HandOK(l), l.pc \in {"dedupe", "delete_winner"}
    PROVE  LET m == Deduped(l) IN
           /\ HandOK(m) /\ m.pc \in {"dedupe", "enqueue"} \cup Rested
           /\ m.row = l.row /\ m.set \subseteq l.set
           /\ \A o, x : /\ Awaits(l, o, x)
                        /\ l.pc = "delete_winner" => x \notin l.todo
                        => Awaits(m, o, x)
<1>. DEFINE m == Deduped(l)
<1>1. l.keys \cap SubKeys = {}
  BY DEF HandOK
<1>2. /\ m.row = l.row
      /\ \/ /\ \E d \in l.dups : d.lose # {}
            /\ m.pc = "dedupe" /\ m.set = l.set /\ m.keys = l.keys /\ m.dups = l.dups
         \/ /\ \A d \in l.dups : d.lose = {}
            /\ m.pc \in Rested \cup {"enqueue"} /\ m.set \subseteq l.set
            /\ HandOK(m)
  BY <1>1, DedupedHas
<1>. HIDE DEF m
<1>3. HandOK(m) /\ m.set \subseteq l.set /\ m.pc \in {"dedupe", "enqueue"} \cup Rested
  BY <1>1, <1>2 DEF HandOK
<1>4. ASSUME NEW o, NEW x, Awaits(l, o, x), l.pc = "delete_winner" => x \notin l.todo
      PROVE  Awaits(m, o, x)
  <2>1. \E d \in l.dups : o \in d.lose \/ (d.win = o /\ d.fresh /\ x \in d.lose)
    BY <1>4 DEF Awaits
  <2>2. m.pc = "dedupe" /\ m.set = l.set /\ m.dups = l.dups
    BY <1>2, <2>1
  <2>. QED BY <1>4, <2>1, <2>2 DEF Awaits, InHand, Dedupe
<1>. QED BY <1>2, <1>3, <1>4 DEF m

LEMMA ReadDupsKeeps ==
    ASSUME ThreadsOK, HandsOK, NEW t \in Threads, ReadDups(t)
    PROVE  /\ \E l : /\ Local(t, l) /\ HandOK(l) /\ l.row = th[t].row
                     /\ l.pc \in {"dedupe", "enqueue"} \cup Rested
           /\ Held => Held'
<1>. DEFINE Rec(k) == [win |-> Winner(k), fresh |-> rows[Winner(k)] = "queued",
                       lose |-> {r \in RowsOf(k) \ {Winner(k)} : rows[r] = "queued"}]
            dups == {Rec(k) : k \in {k \in th[t].keys : RowsOf(k) # {}}}
            l == [th[t] EXCEPT !.dups = dups]
            m == Deduped(l)
<1>0. Plain(th[t]) /\ HandOK(th[t]) /\ th[t].pc = "read_dups"
  BY DEF ThreadsOK, LocalOK, Plain, HandsOK, ReadDups, At
<1>1. Local(t, m) /\ UNCHANGED <<rows, job>>
  BY DEF ReadDups
<1>2. Plain(l) /\ l.keys = th[t].keys /\ l.set = th[t].set /\ l.row = th[t].row /\ l.dups = dups
  <2>. SUFFICES ASSUME NEW n, n = l
                PROVE  /\ Plain(n) /\ n.keys = th[t].keys /\ n.set = th[t].set /\ n.row = th[t].row
                       /\ n.dups = dups
    OBVIOUS
  <2>. HIDE DEF dups
  <2>. QED BY <1>0 DEF Plain, Whole
<1>. HIDE DEF l
<1>3. /\ m.row = th[t].row
      /\ \/ m.pc = "dedupe" /\ m.set = th[t].set /\ m.keys = th[t].keys /\ m.dups = dups
         \/ /\ \A d \in dups : d.lose = {}
            /\ m.pc \in Rested \cup {"enqueue"} /\ m.set \subseteq th[t].set
            /\ HandOK(m)
  <2>1. l.keys \cap SubKeys = {}
    BY <1>0, <1>2 DEF HandOK
  <2>. HIDE DEF dups
  <2>. QED BY <1>2, <2>1, DedupedHas
<1>4. \A k : RowsOf(k) # {} => Rec(k).win[1] = k
  BY WinnerIn DEF RowsOf
<1>5. \A k : Rec(k) = [win |-> Rec(k).win, fresh |-> Rec(k).fresh, lose |-> Rec(k).lose]
  OBVIOUS
<1>6. HandOK(m)
  <2>1. CASE m.pc = "dedupe" /\ m.keys = th[t].keys /\ m.dups = dups
    <3>1. \A d, e \in dups : d.win[1] = e.win[1] => d = e
      <4>. HIDE DEF Rec
      <4>. QED BY <1>4
    <3>2. \A d \in dups : d = [win |-> d.win, fresh |-> d.fresh, lose |-> d.lose]
      <4>. HIDE DEF Rec
      <4>. QED BY <1>5
    <3>. HIDE DEF m, dups
    <3>. QED BY <1>0, <2>1, <3>1, <3>2 DEF HandOK
  <2>. QED BY <1>3, <2>1
<1>7. ASSUME Held PROVE Held'
  <2>1. ASSUME NEW r \in Rows, NEW s \in Rows, Twins(r, s), Awaits(th[t], r, s)
        PROVE  Awaits(m, r, s)
    <3>. DEFINE k == r[1]  w == Winner(k)
    <3>1. r \in th[t].set /\ k \in th[t].keys
      BY <1>0, <2>1 DEF Awaits, InHand, HandOK
    <3>2. r \in RowsOf(k) /\ s \in RowsOf(k) /\ r # s
      BY <2>1 DEF Twins, RowsOf
    <3>3. rows[r] = "queued"
      BY <1>7, <2>1 DEF Awaits, Held, Hands
    <3>4. w \in RowsOf(k) /\ \A x \in RowsOf(k) \ {w} : Before(w, x)
      <4>. HIDE DEF k
      <4>. QED BY <3>2, WinnerIn
    <3>5. Rec(k) \in dups
      BY <3>1, <3>2
    <3>6. r \in Rec(k).lose \/ (Rec(k).win = r /\ Rec(k).fresh /\ s \in Rec(k).lose)
      <4>1. CASE r # w
        BY <3>2, <3>3, <4>1
      <4>2. CASE r = w
        <5>1. Before(r, s)
          BY <3>2, <3>4, <4>2
        <5>2. rows[s] = "queued"
          BY <3>3, <5>1 DEF Before
        <5>. QED BY <3>2, <3>3, <4>2, <5>2
      <4>. QED BY <4>1, <4>2
    <3>. HIDE DEF Rec, m, dups, k
    <3>7. m.pc = "dedupe" /\ m.set = th[t].set /\ m.dups = dups
      BY <1>3, <3>5, <3>6
    <3>. QED BY <3>1, <3>5, <3>6, <3>7 DEF Awaits, InHand, Dedupe
  <2>2. m.pc \in Dedupe \cup Rested \cup {"enqueue"} /\ m.row = th[t].row /\ m.set \subseteq th[t].set
    BY <1>3 DEF Dedupe
  <2>3. th[t].pc \in Dedupe
    BY <1>0 DEF Dedupe
  <2>. HIDE DEF m
  <2>. QED BY <1>1, <1>7, <2>1, <2>2, <2>3, LookHeld
<1>. QED BY <1>1, <1>3, <1>6, <1>7

\* Whatever a dedupe writes: its own record, or a row that waited is gone.
Dedupes(t) ==
    \/ /\ UNCHANGED <<rows, job>>
       /\ \E l : /\ Local(t, l) /\ HandOK(l) /\ l.row = th[t].row
                 /\ l.pc \in {"dedupe", "delete_winner", "enqueue"} \cup Rested
    \/ \E w \in Rows : \E l :
          /\ rows[w] = "queued" /\ DeleteRow(t, w, l) /\ HandOK(l)
          /\ l.row = (IF th[t].row = w THEN Gone(w) ELSE th[t].row)
          /\ l.pc \in {"dedupe", "enqueue"} \cup Rested

\* The deletion of row w by a thread whose record, before w is gone, is l.
LEMMA RowDeleted ==
    ASSUME ThreadsOK, RowsOK, JobOK, NEW t \in Threads, th[t].pc \in Dedupe,
           NEW w, StatusOf(w) = "queued", NEW l, DeleteRow(t, w, Deduped(Without(l, w))),
           Plain(l), HandOK(l), l.pc \in {"dedupe", "delete_winner"}, l.row = th[t].row,
           l.set = th[t].set, l.pc = "delete_winner" => l.todo = {},
           \A r, s \in Rows \ {w} : Twins(r, s) /\ Awaits(th[t], r, s) => Awaits(l, r, s)
    PROVE  Dedupes(t) /\ (Held => Held')
<1>. DEFINE n == Without(l, w)  m == Deduped(n)
<1>1. w \in Rows /\ rows[w] = "queued"
  BY DEF StatusOf
<1>2. Whole(l)
  BY DEF Plain
<1>3. /\ Plain(n) /\ HandOK(n) /\ n.pc = l.pc /\ n.todo = l.todo /\ n.set = l.set \ {w}
      /\ n.row = IF l.row = w THEN Gone(w) ELSE l.row
      /\ \A o, x : o # w /\ x # w /\ Awaits(l, o, x) => Awaits(n, o, x)
  BY <1>2, WithoutOK, WithoutHas, WithoutKeeps
<1>. HIDE DEF n
<1>4. /\ HandOK(m) /\ m.pc \in {"dedupe", "enqueue"} \cup Rested
      /\ m.row = n.row /\ m.set \subseteq n.set
      /\ \A o, x : /\ Awaits(n, o, x)
                   /\ n.pc = "delete_winner" => x \notin n.todo
                   => Awaits(m, o, x)
  BY <1>3, DedupedKeeps
<1>5. DeleteRow(t, w, m)
  BY DEF n
<1>. HIDE DEF m
<1>6. Dedupes(t)
  BY <1>1, <1>3, <1>4, <1>5 DEF Dedupes
<1>7. ASSUME NEW r \in Rows \ {w}, NEW s \in Rows \ {w}, Twins(r, s), Awaits(th[t], r, s)
      PROVE  Awaits(m, r, s)
  <2>1. Awaits(n, r, s)
    BY <1>3, <1>7
  <2>. QED BY <1>3, <1>4, <2>1
<1>8. m.pc \in Dedupe \cup Rested \cup {"enqueue"} /\ m.set \subseteq th[t].set \ {w}
      /\ m.row = (IF th[t].row = w THEN Gone(w) ELSE th[t].row)
  BY <1>3, <1>4 DEF Dedupe
<1>9. Held => Held'
  BY <1>1, <1>5, <1>7, <1>8, DeleteHeld
<1>. QED BY <1>6, <1>9

LEMMA DeleteLoserKeeps ==
    ASSUME ThreadsOK, HandsOK, RowsOK, JobOK, NEW t \in Threads, DeleteLoser(t)
    PROVE  Dedupes(t) /\ (Held => Held')
<1>0. Plain(th[t]) /\ HandOK(th[t]) /\ th[t].pc = "dedupe"
  BY DEF ThreadsOK, LocalOK, Plain, HandsOK, DeleteLoser, At
<1>1. PICK d \in th[t].dups : \E r \in d.lose :
        LET l == [th[t] EXCEPT !.dups = (@ \ {d}) \cup {[d EXCEPT !.lose = @ \ {r}]}]
        IN  IF StatusOf(r) = "queued"
            THEN DeleteRow(t, r, Deduped(Without(l, r)))
            ELSE /\ Local(t, IF d.fresh THEN [l EXCEPT !.pc = "delete_winner", !.todo = {r}] ELSE Deduped(l))
                 /\ UNCHANGED <<rows, job>>
  BY DEF DeleteLoser
<1>2. PICK r \in d.lose :
        LET l == [th[t] EXCEPT !.dups = (@ \ {d}) \cup {[d EXCEPT !.lose = @ \ {r}]}]
        IN  IF StatusOf(r) = "queued"
            THEN DeleteRow(t, r, Deduped(Without(l, r)))
            ELSE /\ Local(t, IF d.fresh THEN [l EXCEPT !.pc = "delete_winner", !.todo = {r}] ELSE Deduped(l))
                 /\ UNCHANGED <<rows, job>>
  BY <1>1
<1>. DEFINE e == [d EXCEPT !.lose = @ \ {r}]
            dups == (th[t].dups \ {d}) \cup {e}
            l == [th[t] EXCEPT !.dups = dups]
            w == [l EXCEPT !.pc = "delete_winner", !.todo = {r}]
<1>3. /\ StatusOf(r) = "queued" => DeleteRow(t, r, Deduped(Without(l, r)))
      /\ StatusOf(r) # "queued" => /\ Local(t, IF d.fresh THEN w ELSE Deduped(l))
                                   /\ UNCHANGED <<rows, job>>
  BY <1>2
<1>4. e = [win |-> d.win, fresh |-> d.fresh, lose |-> d.lose \ {r}]
  <2>1. d = [win |-> d.win, fresh |-> d.fresh, lose |-> d.lose]
    BY <1>0 DEF HandOK
  <2>. QED BY <2>1
<1>. HIDE DEF e
<1>5. /\ Plain(l) /\ l.pc = "dedupe" /\ l.row = th[t].row /\ l.set = th[t].set
      /\ l.keys = th[t].keys /\ l.dups = dups
  <2>. SUFFICES ASSUME NEW n, n = l
                PROVE  /\ Plain(n) /\ n.pc = "dedupe" /\ n.row = th[t].row /\ n.set = th[t].set
                       /\ n.keys = th[t].keys /\ n.dups = dups
    OBVIOUS
  <2>. HIDE DEF dups
  <2>. QED BY <1>0 DEF Plain, Whole
<1>6. /\ \A f \in dups : f = [win |-> f.win, fresh |-> f.fresh, lose |-> f.lose]
      /\ \A f, g \in dups : f.win[1] = g.win[1] => f = g
  <2>1. \A f, g \in th[t].dups : f.win[1] = g.win[1] => f = g
    BY <1>0 DEF HandOK
  <2>2. \A f \in th[t].dups : f = [win |-> f.win, fresh |-> f.fresh, lose |-> f.lose]
    BY <1>0 DEF HandOK
  <2>3. e.win = d.win /\ e = [win |-> e.win, fresh |-> e.fresh, lose |-> e.lose]
    BY <1>4
  <2>. QED BY <2>1, <2>2, <2>3
<1>. HIDE DEF l
<1>7. HandOK(l)
  <2>. HIDE DEF dups
  <2>. QED BY <1>0, <1>5, <1>6 DEF HandOK
\* What was awaited still is, but for the row that was looked at.
<1>8. ASSUME NEW o, NEW x, Awaits(th[t], o, x), o # r, x # r \/ ~d.fresh
      PROVE  Awaits(l, o, x)
  <2>1. o \in th[t].set
    BY <1>8 DEF Awaits, InHand
  <2>2. PICK f \in th[t].dups : o \in f.lose \/ (f.win = o /\ f.fresh /\ x \in f.lose)
    BY <1>0, <1>8 DEF Awaits
  <2>3. CASE f # d
    <3>1. f \in l.dups
      BY <1>5, <2>3
    <3>. HIDE DEF dups
    <3>. QED BY <1>5, <2>1, <2>2, <3>1 DEF Awaits, InHand, Dedupe
  <2>4. CASE f = d
    <3>1. e \in l.dups /\ e.win = d.win /\ e.fresh = d.fresh /\ e.lose = d.lose \ {r}
      BY <1>4, <1>5
    <3>2. o \in e.lose \/ (e.win = o /\ e.fresh /\ x \in e.lose)
      BY <1>8, <2>2, <2>4, <3>1
    <3>. HIDE DEF dups
    <3>. QED BY <1>5, <2>1, <3>1, <3>2 DEF Awaits, InHand, Dedupe
  <2>. QED BY <2>3, <2>4
<1>9. th[t].pc \in Dedupe
  BY <1>0 DEF Dedupe
<1>10. CASE StatusOf(r) = "queued"
  <2>1. \A o, x \in Rows \ {r} : Twins(o, x) /\ Awaits(th[t], o, x) => Awaits(l, o, x)
    BY <1>8
  <2>2. DeleteRow(t, r, Deduped(Without(l, r)))
    BY <1>3, <1>10
  <2>. HIDE DEF dups
  <2>. QED BY <1>5, <1>7, <1>9, <1>10, <2>1, <2>2, RowDeleted
<1>11. CASE StatusOf(r) # "queued"
  <2>1. Held => \A o \in Rows : InHand(th[t], o) => o # r
    BY <1>11 DEF Held, Hands, StatusOf
  <2>2. CASE d.fresh
    <3>1. Local(t, w) /\ UNCHANGED <<rows, job>>
      BY <1>3, <1>11, <2>2
    <3>2. /\ w.pc = "delete_winner" /\ w.todo = {r} /\ w.row = l.row /\ w.set = l.set
          /\ w.keys = l.keys /\ w.dups = l.dups
      <4>. SUFFICES ASSUME NEW n, n = w
                    PROVE  /\ n.pc = "delete_winner" /\ n.todo = {r} /\ n.row = l.row /\ n.set = l.set
                           /\ n.keys = l.keys /\ n.dups = l.dups
        OBVIOUS
      <4>. HIDE DEF dups
      <4>. QED BY <1>5 DEF Plain, Whole
    <3>. HIDE DEF w
    <3>3. HandOK(w)
      <4>. HIDE DEF dups
      <4>. QED BY <1>5, <1>7, <3>2 DEF HandOK
    <3>4. ASSUME Held, NEW o \in Rows, NEW x \in Rows, Twins(o, x), Awaits(th[t], o, x)
          PROVE  Awaits(w, o, x)
      <4>1. o # r /\ InHand(th[t], o)
        BY <2>1, <3>4 DEF Awaits
      <4>2. CASE x # r
        <5>1. Awaits(l, o, x)
          BY <1>8, <3>4, <4>1, <4>2
        <5>. HIDE DEF dups
        <5>. QED BY <1>5, <3>2, <5>1 DEF Awaits, InHand, Dedupe
      <4>3. CASE x = r
        <5>1. PICK f \in th[t].dups : o \in f.lose \/ (f.win = o /\ f.fresh /\ x \in f.lose)
          BY <1>0, <3>4 DEF Awaits
        <5>2. PICK g \in dups : o \in g.lose \/ (g.win = o /\ g.fresh)
          <6>1. CASE f # d
            BY <5>1, <6>1
          <6>2. CASE f = d
            <7>1. e \in dups /\ e.win = d.win /\ e.fresh = d.fresh /\ e.lose = d.lose \ {r}
              BY <1>4
            <7>. HIDE DEF dups
            <7>. QED BY <4>1, <5>1, <6>2, <7>1
          <6>. QED BY <6>1, <6>2
        <5>3. w.pc = "delete_winner" /\ x \in w.todo /\ InHand(w, o) /\ g \in w.dups
          <6>. HIDE DEF dups
          <6>. QED BY <1>5, <3>2, <4>1, <4>3 DEF InHand, Dedupe
        <5>. HIDE DEF dups
        <5>. QED BY <5>2, <5>3 DEF Awaits
      <4>. QED BY <4>2, <4>3
    <3>5. w.pc \in Dedupe \cup Rested \cup {"enqueue"} /\ w.row = th[t].row /\ w.set \subseteq th[t].set
      BY <1>5, <3>2 DEF Dedupe
    <3>6. Held => Held'
      BY <1>9, <3>1, <3>4, <3>5, LookHeld
    <3>. QED BY <3>1, <3>2, <3>3, <3>5, <3>6 DEF Dedupes
  <2>3. CASE ~d.fresh
    <3>. DEFINE m == Deduped(l)
    <3>1. Local(t, m) /\ UNCHANGED <<rows, job>>
      BY <1>3, <1>11, <2>3
    <3>2. /\ HandOK(m) /\ m.pc \in {"dedupe", "enqueue"} \cup Rested
          /\ m.row = l.row /\ m.set \subseteq l.set
          /\ \A o, x : /\ Awaits(l, o, x)
                       /\ l.pc = "delete_winner" => x \notin l.todo
                       => Awaits(m, o, x)
      <4>. HIDE DEF dups
      <4>. QED BY <1>5, <1>7, DedupedKeeps
    <3>. HIDE DEF m
    <3>3. ASSUME Held, NEW o \in Rows, NEW x \in Rows, Twins(o, x), Awaits(th[t], o, x)
          PROVE  Awaits(m, o, x)
      <4>1. o # r
        BY <2>1, <3>3 DEF Awaits
      <4>2. Awaits(l, o, x)
        BY <1>8, <2>3, <3>3, <4>1
      <4>. QED BY <1>5, <3>2, <4>2
    <3>4. m.pc \in Dedupe \cup Rested \cup {"enqueue"} /\ m.row = th[t].row /\ m.set \subseteq th[t].set
      BY <1>5, <3>2 DEF Dedupe
    <3>5. Held => Held'
      BY <1>9, <3>1, <3>3, <3>4, LookHeld
    <3>. QED BY <3>1, <3>2, <3>4, <3>5 DEF Dedupes
  <2>. QED BY <2>2, <2>3
<1>. QED BY <1>10, <1>11

LEMMA DeleteWinnerKeeps ==
    ASSUME ThreadsOK, HandsOK, RowsOK, JobOK, NEW t \in Threads, DeleteWinner(t)
    PROVE  Dedupes(t) /\ (Held => Held')
<1>0. Plain(th[t]) /\ HandOK(th[t]) /\ th[t].pc = "delete_winner"
  BY DEF ThreadsOK, LocalOK, Plain, HandsOK, DeleteWinner, At
<1>1. PICK r \in th[t].todo : \E d \in {d \in th[t].dups : d.win[1] = r[1]} :
        LET l == [th[t] EXCEPT !.todo = {}]
            kept == [l EXCEPT !.dups = (@ \ {d}) \cup {[d EXCEPT !.win = r, !.fresh = FALSE]}]
        IN  IF StatusOf(d.win) = "queued"
            THEN DeleteRow(t, d.win, Deduped(Without(kept, d.win)))
            ELSE Local(t, Deduped(l)) /\ UNCHANGED <<rows, job>>
  BY DEF DeleteWinner
<1>2. PICK d \in {d \in th[t].dups : d.win[1] = r[1]} :
        LET l == [th[t] EXCEPT !.todo = {}]
            kept == [l EXCEPT !.dups = (@ \ {d}) \cup {[d EXCEPT !.win = r, !.fresh = FALSE]}]
        IN  IF StatusOf(d.win) = "queued"
            THEN DeleteRow(t, d.win, Deduped(Without(kept, d.win)))
            ELSE Local(t, Deduped(l)) /\ UNCHANGED <<rows, job>>
  BY <1>1
<1>. DEFINE l == [th[t] EXCEPT !.todo = {}]
            e == [d EXCEPT !.win = r, !.fresh = FALSE]
            dups == (l.dups \ {d}) \cup {e}
            kept == [l EXCEPT !.dups = dups]
            w == d.win
<1>3. /\ StatusOf(w) = "queued" => DeleteRow(t, w, Deduped(Without(kept, w)))
      /\ StatusOf(w) # "queued" => Local(t, Deduped(l)) /\ UNCHANGED <<rows, job>>
  BY <1>2
<1>4. d \in th[t].dups /\ w[1] = r[1] /\ \A x \in th[t].todo : x = r
  BY <1>0, <1>2 DEF HandOK
<1>5. e = [win |-> r, fresh |-> FALSE, lose |-> d.lose]
  <2>1. d = [win |-> d.win, fresh |-> d.fresh, lose |-> d.lose]
    BY <1>0, <1>4 DEF HandOK
  <2>. DEFINE c == [d EXCEPT !.win = r]
  <2>2. c = [win |-> r, fresh |-> d.fresh, lose |-> d.lose]
    BY <2>1
  <2>. HIDE DEF c
  <2>3. \A b : [c EXCEPT !.fresh = b] = [win |-> r, fresh |-> b, lose |-> d.lose]
    BY <2>2
  <2>. QED BY <2>3, Zenon DEF c
<1>. HIDE DEF e
<1>6. /\ Plain(l) /\ l.pc = "delete_winner" /\ l.row = th[t].row /\ l.set = th[t].set
      /\ l.keys = th[t].keys /\ l.dups = th[t].dups /\ l.todo = {}
  <2>. SUFFICES ASSUME NEW n, n = l
                PROVE  /\ Plain(n) /\ n.pc = "delete_winner" /\ n.row = th[t].row /\ n.set = th[t].set
                       /\ n.keys = th[t].keys /\ n.dups = th[t].dups /\ n.todo = {}
    OBVIOUS
  <2>. QED BY <1>0 DEF Plain, Whole
<1>. HIDE DEF l
<1>7. /\ Plain(kept) /\ kept.pc = "delete_winner" /\ kept.row = th[t].row /\ kept.set = th[t].set
      /\ kept.keys = th[t].keys /\ kept.dups = dups /\ kept.todo = {}
  <2>. SUFFICES ASSUME NEW n, n = kept
                PROVE  /\ Plain(n) /\ n.pc = "delete_winner" /\ n.row = th[t].row /\ n.set = th[t].set
                       /\ n.keys = th[t].keys /\ n.dups = dups /\ n.todo = {}
    OBVIOUS
  <2>. HIDE DEF dups
  <2>. QED BY <1>6 DEF Plain, Whole
<1>. HIDE DEF kept
<1>8. \A f, g \in th[t].dups : f.win[1] = g.win[1] => f = g
  BY <1>0 DEF HandOK
<1>9. HandOK(l)
  BY <1>0, <1>6 DEF HandOK
<1>10. th[t].pc \in Dedupe
  BY <1>0 DEF Dedupe
\* No record but d has a winner of that identity.
<1>11. ASSUME NEW o, NEW x, Awaits(th[t], o, x), o[1] = x[1], o # w
       PROVE  /\ o \in th[t].set
              /\ \E f \in th[t].dups : o \in f.lose \/ (f # d /\ f.win = o /\ f.fresh /\ x \in f.lose)
  <2>1. o \in th[t].set
    BY <1>11 DEF Awaits, InHand
  <2>2. PICK f \in th[t].dups : o \in f.lose \/ (f.win = o /\ f.fresh /\ (x \in f.lose \/ x \in th[t].todo))
    BY <1>0, <1>11 DEF Awaits
  <2>3. f.win = o => f # d
    BY <1>11
  <2>4. f.win = o /\ x \in th[t].todo => f = d
    BY <1>4, <1>8, <1>11
  <2>. QED BY <2>1, <2>2, <2>3, <2>4
<1>12. CASE StatusOf(w) = "queued"
  <2>1. HandOK(kept)
    <3>1. \A f \in th[t].dups : f = [win |-> f.win, fresh |-> f.fresh, lose |-> f.lose]
      BY <1>0 DEF HandOK
    <3>2. e = [win |-> e.win, fresh |-> e.fresh, lose |-> e.lose] /\ e.win[1] = w[1]
      BY <1>4, <1>5
    <3>3. \A f \in dups : f = [win |-> f.win, fresh |-> f.fresh, lose |-> f.lose]
      BY <1>6, <3>1, <3>2
    <3>4. \A f, g \in dups : f.win[1] = g.win[1] => f = g
      BY <1>4, <1>6, <1>8, <3>2
    <3>. HIDE DEF dups
    <3>. QED BY <1>0, <1>7, <3>3, <3>4 DEF HandOK
  <2>2. ASSUME NEW o \in Rows \ {w}, NEW x \in Rows \ {w}, Twins(o, x), Awaits(th[t], o, x)
        PROVE  Awaits(kept, o, x)
    <3>1. o[1] = x[1] /\ o # w
      BY <2>2 DEF Twins
    <3>2. o \in th[t].set
      BY <1>11, <2>2, <3>1
    <3>3. PICK f \in th[t].dups : o \in f.lose \/ (f # d /\ f.win = o /\ f.fresh /\ x \in f.lose)
      BY <1>11, <2>2, <3>1
    <3>4. CASE f # d
      <4>1. f \in kept.dups
        BY <1>6, <1>7, <3>4
      <4>. HIDE DEF dups
      <4>. QED BY <1>7, <3>2, <3>3, <4>1 DEF Awaits, InHand, Dedupe
    <3>5. CASE f = d
      <4>1. e \in kept.dups /\ o \in e.lose
        BY <1>5, <1>7, <3>3, <3>5
      <4>. HIDE DEF dups
      <4>. QED BY <1>7, <3>2, <4>1 DEF Awaits, InHand, Dedupe
    <3>. QED BY <3>4, <3>5
  <2>3. DeleteRow(t, w, Deduped(Without(kept, w)))
    BY <1>3, <1>12
  <2>. HIDE DEF dups, w
  <2>. QED BY <1>7, <1>10, <1>12, <2>1, <2>2, <2>3, RowDeleted
<1>13. CASE StatusOf(w) # "queued"
  <2>. DEFINE m == Deduped(l)
  <2>1. Local(t, m) /\ UNCHANGED <<rows, job>>
    BY <1>3, <1>13
  <2>2. /\ HandOK(m) /\ m.pc \in {"dedupe", "enqueue"} \cup Rested
        /\ m.row = l.row /\ m.set \subseteq l.set
        /\ \A o, x : /\ Awaits(l, o, x)
                     /\ l.pc = "delete_winner" => x \notin l.todo
                     => Awaits(m, o, x)
    BY <1>6, <1>9, DedupedKeeps
  <2>. HIDE DEF m
  <2>3. ASSUME Held, NEW o \in Rows, NEW x \in Rows, Twins(o, x), Awaits(th[t], o, x)
        PROVE  Awaits(m, o, x)
    <3>1. InHand(th[t], o) /\ o[1] = x[1]
      BY <2>3 DEF Awaits, Twins
    <3>2. o # w
      BY <1>13, <2>3, <3>1 DEF Held, Hands, StatusOf
    <3>3. o \in th[t].set
      BY <1>11, <2>3, <3>1, <3>2
    <3>4. PICK f \in th[t].dups : o \in f.lose \/ (f # d /\ f.win = o /\ f.fresh /\ x \in f.lose)
      BY <1>11, <2>3, <3>1, <3>2
    <3>5. Awaits(l, o, x)
      BY <1>6, <3>3, <3>4 DEF Awaits, InHand, Dedupe
    <3>. QED BY <1>6, <2>2, <3>5
  <2>4. m.pc \in Dedupe \cup Rested \cup {"enqueue"} /\ m.row = th[t].row /\ m.set \subseteq th[t].set
    BY <1>6, <2>2 DEF Dedupe
  <2>5. Held => Held'
    BY <1>10, <2>1, <2>3, <2>4, LookHeld
  <2>. QED BY <1>6, <2>1, <2>2, <2>5 DEF Dedupes
<1>. QED BY <1>12, <1>13

-----------------------------------------------------------------------------
(* A run that has ended for good stays ended.                              *)

LEMMA HoldKept ==
    ASSUME run'.status = run.status, Live',
           \A u \in Threads : th'[u].pc \in Holding /\ th'[u].was = "over_cap"
                                => th[u].pc \in Holding /\ th[u].was = "over_cap"
    PROVE  Live
BY DEF Live

LEMMA DeleteDead ==
    ASSUME Typed, Rendering, NEW t \in Threads, Live',
           DeleteClaim(t) \/ DeleteCheck(t) \/ DeleteJobs(t) \/ DeleteRun(t) \/ UndoDelete(t)
    PROVE  Live
<1>0. DOMAIN th = Threads /\ LocalOK(th[t]) /\ Whole(th[t])
  BY DEF Typed, ThreadsOK, LocalOK
<1>1. ASSUME NEW pc PROVE [th[t] EXCEPT !.pc = pc].was = th[t].was /\ [th[t] EXCEPT !.pc = pc].pc = pc
  <2>. SUFFICES ASSUME NEW m, m = [th[t] EXCEPT !.pc = pc] PROVE m.was = th[t].was /\ m.pc = pc
    OBVIOUS
  <2>. QED BY <1>0 DEF Whole
<1>2. Home(th[t]).pc \notin Holding
  BY HomeHas DEF Holding
<1>3. CASE DeleteCheck(t) \/ DeleteJobs(t) \/ (DeleteRun(t) /\ run' = run)
  <2>1. PICK pc : Goto(t, pc) /\ run' = run
    <3>1. CASE DeleteRun(t) /\ run' = run
      <4>1. run'.status # "deleted" \/ Goto(t, "undo")
        BY <3>1 DEF DeleteRun
      <4>2. run'.status # "deleted"
        BY DEF Live, TerminalRun
      <4>3. run.status = "canceled" /\ run' = [status |-> "deleted", old |-> FALSE, plan |-> run.plan]
             => run'.status = "deleted"
        OBVIOUS
      <4>. QED BY <3>1, <4>2, <4>3 DEF DeleteRun
    <3>. QED BY <1>3, <3>1 DEF DeleteCheck, DeleteJobs
  <2>2. Local(t, [th[t] EXCEPT !.pc = pc])
    BY <1>0, <2>1 DEF Goto, Local
  <2>a. th'[t] = [th[t] EXCEPT !.pc = pc] /\ \A u \in Threads \ {t} : th'[u] = th[u]
    BY <1>0, <2>2, Put
  <2>b. th'[t].was = th[t].was
    BY <1>1, <2>a
  <2>3. \A u \in Threads : th'[u].was = th[u].was /\ (u # t => th'[u] = th[u])
    BY <2>a, <2>b
  <2>4. th[t].pc \in Holding
    BY <1>3 DEF DeleteCheck, DeleteJobs, DeleteRun, At, Holding
  <2>. QED BY <2>1, <2>3, <2>4, HoldKept
<1>4. CASE DeleteRun(t) /\ run' # run
  <2>1. run'.status = "deleted"
    BY <1>4 DEF DeleteRun
  <2>. QED BY <2>1 DEF Live
<1>5. CASE \/ DeleteClaim(t) /\ run.status # th[t].was
           \/ UndoDelete(t) /\ run.status # "canceled"
  <2>1. run' = run /\ Local(t, Home(th[t]))
    BY <1>5 DEF DeleteClaim, UndoDelete, Win, CasStatus
  <2>2. \A u \in Threads : th'[u].pc \in Holding => th'[u] = th[u]
    BY <1>0, <1>2, <2>1, Put
  <2>. QED BY <2>1, <2>2, HoldKept
<1>6. CASE DeleteClaim(t) /\ run.status = th[t].was
  <2>1. Local(t, [th[t] EXCEPT !.pc = "delete_check"])
    BY <1>6 DEF DeleteClaim, Win
  <2>a. th'[t] = [th[t] EXCEPT !.pc = "delete_check"] /\ \A u \in Threads \ {t} : th'[u] = th[u]
    BY <1>0, <2>1, Put
  <2>2. th'[t].was = th[t].was /\ \A u \in Threads \ {t} : th'[u] = th[u]
    BY <1>1, <2>a
  <2>3. run'.status = "canceled"
    BY <1>6 DEF DeleteClaim, Win, CasStatus, Touch, Typed, RunOK
  <2>4. PICK u \in Threads : th'[u].pc \in Holding /\ th'[u].was = "over_cap"
    BY <2>3 DEF Live, TerminalRun
  <2>5. CASE u = t
    BY <1>6, <2>2, <2>4, <2>5 DEF Live, TerminalRun
  <2>6. CASE u # t
    <3>1. Holder(u) /\ th[u].pc \in Holding /\ th[u].was = "over_cap"
      BY <2>2, <2>4, <2>6 DEF Holder
    <3>2. run.status \in {"canceled", "deleted"}
      BY <3>1 DEF Rendering
    <3>3. th[t].was # "deleted"
      BY <1>0, <1>6 DEF LocalOK, DeleteClaim, At, TerminalRun
    <3>. QED BY <1>6, <3>1, <3>2, <3>3 DEF Live
  <2>. QED BY <2>5, <2>6
<1>7. CASE UndoDelete(t) /\ run.status = "canceled"
  <2>1. Local(t, [th[t] EXCEPT !.pc = "undo_groups"])
    BY <1>7 DEF UndoDelete, Win
  <2>a. th'[t] = [th[t] EXCEPT !.pc = "undo_groups"] /\ \A u \in Threads \ {t} : th'[u] = th[u]
    BY <1>0, <2>1, Put
  <2>2. th'[t].pc = "undo_groups" /\ \A u \in Threads \ {t} : th'[u] = th[u]
    BY <1>1, <2>a
  <2>3. run'.status = th[t].was /\ th[t].pc \in Holding
    BY <1>7 DEF UndoDelete, Win, CasStatus, Touch, Typed, RunOK, At, Holding
  <2>4. CASE th[t].was = "over_cap"
    BY <1>7, <2>3, <2>4 DEF Live
  <2>5. CASE th[t].was # "over_cap"
    <3>1. run'.status \in TerminalRun
      BY <1>0, <2>3, <2>5 DEF LocalOK
    <3>2. PICK u \in Threads : th'[u].pc \in Holding /\ th'[u].was = "over_cap"
      BY <3>1 DEF Live
    <3>3. u # t
      BY <2>2, <3>2 DEF Holding
    <3>. QED BY <1>7, <2>2, <3>2, <3>3 DEF Live
  <2>. QED BY <2>4, <2>5
<1>. QED BY <1>3, <1>4, <1>5, <1>6, <1>7

LEMMA DeadStays ==
    ASSUME Calm, IInv, [Next]_vars, Live'
    PROVE  Live
<1>0. Typed /\ Rendering /\ RunOK /\ ThreadsOK
  BY DEF IInv, Typed
<1>1. CASE Mild
  <2>1. PICK l : l.pc \notin Apart /\ Sets(l)
    BY <1>1 DEF Mild, SetsPlain
  <2>2. \A u \in Threads :
          \/ th'[u] = l
          \/ th'[u].pc = th[u].pc /\ th'[u].was = th[u].was
    BY <1>0, <2>1, Kept
  <2>3. \A u \in Threads : th'[u].pc \in Holding => th'[u].pc = th[u].pc /\ th'[u].was = th[u].was
    BY <2>1, <2>2 DEF Apart
  <2>4. CASE run'.status = run.status
    BY <2>3, <2>4, HoldKept
  <2>5. CASE run'.status # run.status
    BY <1>1, <2>5 DEF Mild, RunStep, Live
  <2>. QED BY <2>4, <2>5
<1>2. ASSUME NEW t \in Threads, StartRendering(t) PROVE Live
  <2>1. CASE run.status = "consolidating"
    BY <2>1 DEF Live, TerminalRun
  <2>2. CASE run.status # "consolidating"
    <3>1. run' = run /\ Local(t, Home(th[t]))
      BY <1>2, <2>2 DEF StartRendering, Win, CasStatus
    <3>2. \A u \in Threads : th'[u].pc \in Holding => th'[u] = th[u]
      BY <1>0, <3>1, Put, HomeHas DEF ThreadsOK, Holding
    <3>. QED BY <3>1, <3>2, HoldKept
  <2>. QED BY <2>1, <2>2
<1>3. ASSUME NEW t \in Threads, Save(t) PROVE Live
  <2>1. run'.status = run.status
    BY <1>0, <1>3 DEF Save, Touch, RunOK
  <2>2. PICK m : /\ m \in {[th[t] EXCEPT !.todo = @ \ {Min(th[t].todo)}],
                           [th[t] EXCEPT !.todo = @ \ {Min(th[t].todo)}, !.bad = TRUE]}
                 /\ Local(t, m)
    BY <1>3 DEF Save
  <2>3. m.pc = "save"
    BY <1>0, <1>3, <2>2 DEF Save, At, ThreadsOK, LocalOK, Whole
  <2>4. \A u \in Threads : th'[u].pc \in Holding => th'[u] = th[u]
    BY <1>0, <2>2, <2>3, Put DEF ThreadsOK, Holding
  <2>. QED BY <2>1, <2>4, HoldKept
<1>4. CASE Age \/ ClaimExpires \/ UNCHANGED vars
  <2>1. run'.status = run.status /\ th' = th
    BY <1>0, <1>4 DEF Age, ClaimExpires, vars, RunOK
  <2>. QED BY <2>1, HoldKept
<1>5. ASSUME NEW t \in Threads, Step(t) \/ Take(t) \/ Reap(t) \/ Fault(t) \/ Crash(t)
      PROVE  \/ Mild
             \/ StartRendering(t) \/ Save(t) \/ DeleteClaim(t) \/ DeleteCheck(t) \/ DeleteJobs(t)
             \/ UndoDelete(t) \/ DeleteRun(t)
  BY <1>0, <1>5, GroupMild, StageMild, QueueMild, RequestMild DEF Step, AdvanceStep, RequestStep
<1>6. ASSUME NEW t \in Requests, Poll(t) \/ Resume(t) \/ CancelRun(t) \/ Delete(t)
      PROVE  Mild
  BY <1>0, <1>6, RequestMild DEF Threads
<1>. QED BY <1>0, <1>1, <1>2, <1>3, <1>4, <1>5, <1>6, DeleteDead DEF Next

-----------------------------------------------------------------------------
(* The other parts of Paying, and steps that ask for nothing.              *)

RunGentle == (run'.old => run.old) /\ (run'.status = "splitting" => run.status = "splitting")

\* No answer is stored, and no row of pass 1 comes to light.
RowsGentle == \A r \in Rows :
    /\ rows'[r] = "done" => rows[r] = "done"
    /\ rows'[r] # "none" /\ r[1] \in SubKeys => rows[r] # "none"

LEMMA SameGentle ==
    /\ UNCHANGED run => RunGentle
    /\ UNCHANGED rows => RowsGentle
BY DEF RunGentle, RowsGentle

LEMMA TouchGentle ==
    ASSUME RunOK, run' = Touch(run)
    PROVE  RunGentle
BY DEF RunGentle, RunOK, Touch

LEMMA CasGentle ==
    ASSUME RunOK, NEW from, NEW to, CasStatus(from, to), to # "splitting"
    PROVE  RunGentle
BY DEF RunGentle, RunOK, CasStatus, Touch

LEMMA SubKept ==
    ASSUME SubOnce, RunGentle,
           \A r \in Rows : rows'[r] # "none" /\ r[1] \in SubKeys => rows[r] # "none",
           \A u \in Threads : th'[u].pc \in {"insert_subs", "replan"} => th[u].pc = th'[u].pc
    PROVE  SubOnce'
<1>1. \A r \in Rows : SubRow(r)' => SubRow(r)
  BY DEF SubRow
<1>2. \A r, s \in Rows : SubRow(r)' /\ SubRow(s)' /\ r[1] = s[1] => r = s
  BY <1>1 DEF SubOnce
<1>3. \A t \in Threads : th'[t].pc = "insert_subs" =>
          ~run'.old /\ run'.status # "splitting" /\ \A r \in Rows : ~SubRow(r)'
  BY <1>1 DEF SubOnce, RunGentle
<1>4. \A t, u \in Threads : th'[t].pc = "insert_subs" /\ th'[u].pc = "insert_subs" => t = u
  BY DEF SubOnce
<1>5. run'.status = "splitting" => ~run'.old /\ \A r \in Rows : ~SubRow(r)'
  BY <1>1 DEF SubOnce, RunGentle
<1>6. \A t \in Threads : th'[t].pc = "replan" /\ run'.old => \A r \in Rows : ~SubRow(r)'
  BY <1>1 DEF SubOnce, RunGentle
<1>. QED BY <1>2, <1>3, <1>4, <1>5, <1>6 DEF SubOnce

LEMMA OnceKept ==
    ASSUME Once, \A r \in Rows : rows'[r] = "done" => rows[r] = "done",
           \A u \in Threads : th'[u].pc = "call" => th[u].pc = "call" /\ th'[u].row[1] = th[u].row[1]
    PROVE  Once'
BY DEF Once

LEMMA CancelKept ==
    ASSUME CancelPast, Live' => Live,
           \A u \in Threads : Canceling(th'[u]) => Canceling(th[u])
    PROVE  CancelPast'
BY DEF CancelPast

\* As long as the run lives, the rows of an identity are one and what waits in
\* a thread's hands.
LEMMA HeldOnce == Held /\ SubOnce => Once
<1>. SUFFICES ASSUME Held, SubOnce PROVE Once
  OBVIOUS
<1>1. ASSUME NEW r \in Rows, NEW s \in Rows, r[1] = s[1],
             rows[r] \notin {"none", "queued"}, rows[s] \notin {"none", "queued"}
      PROVE  r = s
  <2>1. CASE r[1] \in SubKeys
    BY <1>1, <2>1 DEF SubOnce, SubRow
  <2>2. ASSUME r[1] \notin SubKeys, r # s PROVE FALSE
    <3>1. PICK t \in Threads : Awaits(th[t], r, s) \/ Awaits(th[t], s, r)
      BY <1>1, <2>2 DEF Held, Covered, Twins
    <3>2. InHand(th[t], r) \/ InHand(th[t], s)
      BY <3>1 DEF Awaits
    <3>. QED BY <1>1, <3>2 DEF Held, Hands
  <2>. QED BY <2>1, <2>2
<1>2. \A t \in Threads : th[t].pc = "call" => th[t].row \in Rows /\ rows[th[t].row] = "running"
  BY DEF Held, Exist
<1>3. \A t, u \in Threads :
          th[t].pc = "call" /\ th[u].pc = "call" /\ th[t].row[1] = th[u].row[1] => t = u
  BY <1>1, <1>2 DEF Held, JobsHeld
<1>4. \A t \in Threads, r \in Rows :
          th[t].pc = "call" /\ rows[r] = "done" => th[t].row[1] # r[1]
  BY <1>1, <1>2
<1>. QED BY <1>1, <1>3, <1>4 DEF Once

LEMMA HeldOnceNext == Held' /\ SubOnce' => Once'
BY HeldOnce, PTL

\* Places that a step of its own argument leads to.
Special == {"insert_subs", "replan", "call", "cancel_groups", "cancel_jobs"}

\* A step of one thread that goes to no such place.
LEMMA StepPaying ==
    ASSUME Paying, ThreadsOK, Live' => Live, NEW t \in Threads, NEW l, Local(t, l),
           HandOK(l), l.pc \notin Special, RunGentle, RowsGentle, Held => Held'
    PROVE  Paying'
<1>1. th'[t] = l /\ \A u \in Threads \ {t} : th'[u] = th[u]
  BY Put DEF ThreadsOK
<1>2. HandsOK'
  BY <1>1 DEF Paying, HandsOK
<1>3. SubOnce'
  BY <1>1, SubKept DEF Paying, Special, RowsGentle
<1>4. Once'
  BY <1>1, OnceKept DEF Paying, Special, RowsGentle
<1>5. CancelPast'
  BY <1>1, CancelKept DEF Paying, Special, Canceling
<1>. QED BY <1>2, <1>3, <1>4, <1>5 DEF Paying

\* Such a step that writes to no row and no job.
Plainly(t, l) ==
    /\ Local(t, l) /\ HandOK(l)
    /\ l.row \in {th[t].row, NoRow} /\ l.set \subseteq th[t].set
    /\ l.row # NoRow => th[t].pc \notin Marks
    /\ l.pc \notin Special \cup Dedupe \cup {"build"} \cup Marks
    /\ l.pc \in Handing => th[t].pc \in Handing

LEMMA PlainPaying ==
    ASSUME Paying, ThreadsOK, Live' => Live, NEW t \in Threads, th[t].pc \notin Dedupe,
           \E l : Plainly(t, l), UNCHANGED <<rows, job>>, RunGentle
    PROVE  Paying'
<1>1. PICK l : Plainly(t, l)
  OBVIOUS
<1>2. Held => Held'
  <2>1. l.pc \notin Dedupe \cup {"build", "call"}
    BY <1>1 DEF Plainly, Special
  <2>. QED BY <1>1, <2>1, LocalHeld DEF Plainly
<1>3. l.pc \notin Special
  BY <1>1 DEF Plainly
<1>. QED BY <1>1, <1>2, <1>3, StepPaying, SameGentle DEF Plainly

LEMMA HomePlainly ==
    ASSUME NEW t \in Threads
    PROVE  /\ Local(t, Home(th[t])) /\ th[t].pc \notin Marks => \E l : Plainly(t, l)
           /\ Local(t, Advance(th[t])) /\ th[t].pc \notin Marks => \E l : Plainly(t, l)
           /\ Local(t, Idle) => \E l : Plainly(t, l)
<1>1. ASSUME NEW l, Local(t, l), HandOK(l), l.pc \in Rested, l.row \in {th[t].row, NoRow}, l.set = {},
             l.row # NoRow => th[t].pc \notin Marks
      PROVE  Plainly(t, l)
  BY <1>1 DEF Plainly, Special, Dedupe, Rested, Handing, Marks
<1>2. Local(t, Home(th[t])) /\ th[t].pc \notin Marks => Plainly(t, Home(th[t]))
  BY <1>1, HomeHas DEF Rested
<1>3. Local(t, Advance(th[t])) /\ th[t].pc \notin Marks => Plainly(t, Advance(th[t]))
  BY <1>1, AdvanceHas DEF Rested
<1>4. Local(t, Idle) => Plainly(t, Idle)
  BY <1>1, IdleHas DEF Rested
<1>. QED BY <1>2, <1>3, <1>4

LEMMA PlacePlainly ==
    ASSUME ThreadsOK, HandsOK, NEW t \in Threads,
           th[t].pc \notin Marks,
           NEW pc, pc \notin Special \cup Dedupe \cup {"build"} \cup Handing \cup Marks,
           Local(t, [th[t] EXCEPT !.pc = pc]) \/ Goto(t, pc)
    PROVE  \E l : Plainly(t, l)
<1>1. Local(t, [th[t] EXCEPT !.pc = pc])
  BY DEF Goto, Local, ThreadsOK
<1>2. Plain(th[t]) /\ th[t].keys \cap SubKeys = {}
  BY DEF ThreadsOK, LocalOK, Plain, HandsOK, HandOK
<1>. DEFINE m == [th[t] EXCEPT !.pc = pc]
<1>3. HandOK(m) /\ m.pc = pc /\ m.row = th[t].row /\ m.set = th[t].set
  <2>1. pc \notin Dedupe
    BY DEF Special
  <2>. QED BY <1>2, <2>1, PlaceHas
<1>. HIDE DEF m
<1>4. Local(t, m)
  BY <1>1 DEF m
<1>5. m.row \in {th[t].row, NoRow} /\ m.set \subseteq th[t].set
  BY <1>3
<1>6. m.pc \notin Special \cup Dedupe \cup {"build"} \cup Marks /\ (m.pc \in Handing => th[t].pc \in Handing)
  BY <1>3
<1>. QED BY <1>3, <1>4, <1>5, <1>6 DEF Plainly

-----------------------------------------------------------------------------
(* The queue job of one group.                                             *)

\* A mark on a row: no answer, and no row that was not there.
LEMMA Marked ==
    ASSUME RowsOK, NEW r, NEW status \in {"queued", "failed", "canceled", "running"},
           rows' = Write(r, status)
    PROVE  /\ RowsGentle /\ \A s \in Rows : rows'[s] = "none" <=> rows[s] = "none"
           /\ \A s \in Rows \ {r} : rows'[s] = rows[s]
           /\ r \in Rows /\ rows[r] \in ActiveGroup => rows'[r] = status
BY DEF Write, StatusOf, RowsGentle, RowsOK, ActiveGroup, GroupTerminal, RowStatuses

LEMMA Jobbed ==
    ASSUME JobOK, NEW r, NEW status, job' = WithJob(r, status)
    PROVE  /\ \A s \in Rows \ {r} : job'[s] = job[s]
           /\ r \in Rows => job'[r] = status
BY DEF WithJob, JobOK

\* A step of the thread that holds the job of row q, or takes it.
LEMMA OwnPaying ==
    ASSUME Paying, ThreadsOK, Live' => Live, NEW t \in Threads, NEW l, Local(t, l), HandOK(l),
           th[t].pc \notin Dedupe, l.pc \notin Special \cup Dedupe \cup Handing,
           l.set \subseteq th[t].set, RunGentle, RowsGentle,
           NEW q, Held /\ q \in Rows => /\ job[q] # "none" \/ th[t].row = q
                                      /\ \A u \in Threads \ {t} : th[u].row # q,
           \A r \in Rows \ {q} : rows'[r] = rows[r] /\ job'[r] = job[r],
           \A r \in Rows : rows[r] # "none" => rows'[r] # "none",
           Held => \/ l.row = NoRow
                   \/ /\ l.row = q /\ t \in Workers
                      /\ q \in Rows => (job'[q] = "running" <=> l.pc \notin Marks),
           l.pc = "build" => l.row \in Rows /\ rows'[l.row] = "running"
    PROVE  Paying'
<1>1. ASSUME Held PROVE Held'
  <2>1. q \in Rows => rows'[q] # "none"
    BY <1>1 DEF Held, Exist
  <2>2. /\ l.pc \notin Dedupe \cup Handing
        /\ l.pc \in {"build", "call"} => l.row \in Rows /\ rows'[l.row] = "running"
    BY DEF Special
  <2>. QED BY <1>1, <2>1, <2>2, OwnHeld
<1>2. l.pc \notin Special
  OBVIOUS
<1>. QED BY <1>1, <1>2, StepPaying

\* A step of the thread that runs a group's job.
LEMMA RowPaying ==
    ASSUME Paying, ThreadsOK, Live' => Live, NEW t \in Threads, NEW l, Local(t, l), HandOK(l),
           th[t].pc \notin Dedupe \cup Marks, l.pc \notin Special \cup Dedupe \cup Handing \cup Marks,
           l.set \subseteq th[t].set, l.row = th[t].row, UNCHANGED job, RunGentle, RowsGentle,
           \A r \in Rows \ {th[t].row} : rows'[r] = rows[r],
           \A r \in Rows : rows[r] # "none" => rows'[r] # "none",
           l.pc = "build" => l.row \in Rows /\ rows'[l.row] = "running"
    PROVE  Paying'
<1>. DEFINE q == th[t].row
<1>1. Held /\ q \in Rows => job[q] = "running" /\ \A u \in Threads \ {t} : th[u].row # q
  BY DEF Held, JobsHeld
<1>2. Held => \/ l.row = NoRow
              \/ l.row = q /\ t \in Workers /\ (q \in Rows => (job'[q] = "running" <=> l.pc \notin Marks))
  BY <1>1 DEF Held, JobsHeld
<1>3. \A r \in Rows \ {q} : rows'[r] = rows[r] /\ job'[r] = job[r]
  OBVIOUS
<1>4. Held /\ q \in Rows => job[q] # "none" /\ \A u \in Threads \ {t} : th[u].row # q
  BY <1>1
<1>. HIDE DEF q
<1>. QED BY <1>2, <1>3, <1>4, OwnPaying

\* The queue's failure handling, of a job nobody else runs.
LEMMA FailPaying ==
    ASSUME Paying, Typed, Live' => Live, NEW t \in Threads, NEW r, FailJob(t, r), UNCHANGED rows,
           th[t].pc \notin Dedupe, RunGentle,
           Held /\ r \in Rows => job[r] # "none" /\ \A u \in Threads \ {t} : th[u].row # r,
           Held => r = NoRow \/ t \in Workers
    PROVE  Paying'
<1>1. PICK pc \in Marks : Local(t, [Idle EXCEPT !.pc = pc, !.row = r])
  BY DEF FailJob, Marks
<1>. DEFINE l == [Idle EXCEPT !.pc = pc, !.row = r]
<1>2. HandOK(l) /\ l.pc \in Marks /\ l.row = r /\ l.set = {}
  <2>. SUFFICES ASSUME NEW m, m = l PROVE HandOK(m) /\ m.pc \in Marks /\ m.row = r /\ m.set = {}
    OBVIOUS
  <2>. QED BY <1>1 DEF HandOK, Idle, Marks
<1>3. Local(t, l)
  BY <1>1
<1>. HIDE DEF l
<1>4. PICK status \in {"queued", "none"} : job' = WithJob(r, status)
  BY DEF FailJob
<1>5. RowsGentle /\ \A s \in Rows : rows'[s] = rows[s]
  BY SameGentle
<1>6. (\A s \in Rows \ {r} : job'[s] = job[s]) /\ (r \in Rows => job'[r] # "running")
  BY <1>4, Jobbed DEF Typed, StoreOK
<1>7. l.pc \notin Special \cup Dedupe \cup Handing /\ l.pc # "build"
  BY <1>2 DEF Marks, Special, Dedupe, Handing
<1>8. ThreadsOK
  BY DEF Typed
<1>. QED BY <1>2, <1>3, <1>5, <1>6, <1>7, <1>8, OwnPaying

\* The mark of a row whose job is given up.
LEMMA MarkPaying ==
    ASSUME Paying, Typed, Live' => Live, NEW t \in Threads, MarkRow(t)
    PROVE  Paying'
<1>1. PICK l \in {Idle, Advance(Idle)} : Local(t, l)
  BY DEF MarkRow
<1>2. HandOK(l) /\ l.pc \in Rested /\ l.row = NoRow /\ l.set = {}
  BY <1>1, IdleHas, AdvanceHas DEF Rested
<1>. DEFINE q == th[t].row
<1>3. th[t].pc \in Marks /\ UNCHANGED <<run, job>>
  BY DEF MarkRow, Marking, At, Marks
<1>4. rows' = rows \/ \E status \in {"queued", "failed"} : rows' = Write(q, status)
  BY DEF MarkRow
<1>5. /\ RowsGentle /\ \A s \in Rows : rows[s] # "none" => rows'[s] # "none"
      /\ \A s \in Rows \ {q} : rows'[s] = rows[s]
  <2>1. CASE rows' = rows
    BY <2>1, SameGentle
  <2>2. ASSUME NEW status \in {"queued", "failed"}, rows' = Write(q, status)
        PROVE  /\ RowsGentle /\ \A s \in Rows : rows[s] # "none" => rows'[s] # "none"
               /\ \A s \in Rows \ {q} : rows'[s] = rows[s]
    BY <2>2, Marked DEF Typed
  <2>. QED BY <1>4, <2>1, <2>2
<1>6. Held /\ q \in Rows => \A u \in Threads \ {t} : th[u].row # q
  BY DEF Held, JobsHeld
<1>7. /\ l.pc \notin Special \cup Dedupe \cup Handing /\ l.pc # "build"
      /\ th[t].pc \notin Dedupe /\ ThreadsOK /\ RunGentle
  BY <1>2, <1>3, SameGentle DEF Rested, Special, Dedupe, Handing, Marks, Typed
<1>8. \A r \in Rows \ {q} : rows'[r] = rows[r] /\ job'[r] = job[r]
  BY <1>3, <1>5
<1>9. th[t].row = q
  OBVIOUS
<1>. HIDE DEF q
<1>. QED BY <1>1, <1>2, <1>5, <1>6, <1>7, <1>8, <1>9, OwnPaying

LEMMA StartPaying ==
    ASSUME Paying, Typed, Calm, Live' => Live, NEW t \in Threads, NEW r \in Rows, StartJob(t, r)
    PROVE  Paying'
<1>. DEFINE l == [Idle EXCEPT !.row = r]
<1>1. /\ th[t].pc = "idle" /\ t \in Workers /\ job[r] = "queued" /\ job' = WithJob(r, "running")
      /\ run' = run
  BY DEF StartJob, At
<1>2. ASSUME NEW pc \in {"claim", "pause"}
      PROVE  LET m == [l EXCEPT !.pc = pc] IN
             HandOK(m) /\ m.pc = pc /\ m.row = r /\ m.set = {}
  <2>. SUFFICES ASSUME NEW m, m = [l EXCEPT !.pc = pc]
                PROVE  HandOK(m) /\ m.pc = pc /\ m.row = r /\ m.set = {}
    OBVIOUS
  <2>. QED BY DEF HandOK, Idle
<1>3. l.row = r
  BY DEF Idle
<1>4. PICK m : /\ Local(t, m) /\ HandOK(m) /\ m.pc \in {"claim", "pause", "idle", "finish", "advance"}
               /\ m.row = r /\ m.set = {}
  <2>1. \/ Local(t, [l EXCEPT !.pc = "claim"]) \/ Local(t, [l EXCEPT !.pc = "pause"])
        \/ Local(t, Advance(l)) \/ Local(t, Home(l))
    BY DEF StartJob
  <2>. HIDE DEF l
  <2>. QED BY <1>2, <1>3, <2>1, HomeHas, AdvanceHas
<1>5. rows' = rows \/ \E status \in {"queued", "canceled"} : rows' = Write(r, status)
  BY DEF StartJob
<1>6. /\ RowsGentle /\ \A s \in Rows : rows[s] # "none" => rows'[s] # "none"
      /\ \A s \in Rows \ {r} : rows'[s] = rows[s]
  BY <1>5, Marked, SameGentle DEF Typed
<1>7. job'[r] = "running" /\ \A s \in Rows \ {r} : job'[s] = job[s]
  BY <1>1, Jobbed DEF Typed, StoreOK
<1>8. Held => \A u \in Threads \ {t} : th[u].row # r
  <2>. SUFFICES ASSUME Held, NEW u \in Threads \ {t}, th[u].row = r PROVE FALSE
    OBVIOUS
  <2>1. th[u].pc \in Marks /\ u \in Workers
    BY <1>1, RowFacts DEF Held, JobsHeld
  <2>. QED BY <2>1 DEF StartJob, Marking, Marks
<1>9. /\ m.pc \notin Special \cup Dedupe \cup Handing \cup Marks /\ m.pc # "build"
      /\ th[t].pc \notin Dedupe /\ m.set \subseteq th[t].set /\ ThreadsOK /\ RunGentle
  BY <1>1, <1>4, SameGentle DEF Special, Dedupe, Handing, Marks, Typed
<1>. QED BY <1>1, <1>4, <1>6, <1>7, <1>8, <1>9, OwnPaying

\* The model is asked, or asked in vain.
LEMMA RecheckPaying ==
    ASSUME Paying, Typed, Live' => Live, NEW t \in Threads, Recheck(t)
    PROVE  Paying'
<1>0. th[t].pc = "build" /\ Plain(th[t]) /\ th[t].keys \cap SubKeys = {} /\ ThreadsOK
  BY DEF Recheck, At, Typed, ThreadsOK, LocalOK, Plain, Paying, HandsOK, HandOK
<1>1. UNCHANGED <<run, job>> /\ RunGentle
  BY SameGentle DEF Recheck
<1>2. CASE run.status \notin ActiveRun
  <2>1. Local(t, Home(th[t]))
    BY <1>2 DEF Recheck
  <2>2. rows' = rows \/ \E status \in {"queued", "canceled"} : rows' = Write(th[t].row, status)
    BY <1>2 DEF Recheck
  <2>3. /\ RowsGentle /\ \A s \in Rows : rows[s] # "none" => rows'[s] # "none"
        /\ \A s \in Rows \ {th[t].row} : rows'[s] = rows[s]
    BY <2>2, Marked, SameGentle DEF Typed
  <2>. DEFINE l == Home(th[t])
  <2>4. HandOK(l) /\ l.pc \in {"idle", "finish"} /\ l.row = th[t].row /\ l.set = {}
    BY HomeHas
  <2>. HIDE DEF l
  <2>5. /\ l.pc \notin Special \cup Dedupe \cup Handing \cup Marks /\ l.pc # "build"
        /\ th[t].pc \notin Dedupe \cup Marks
    BY <1>0, <2>4 DEF Special, Dedupe, Handing, Marks
  <2>. QED BY <1>0, <1>1, <2>1, <2>3, <2>4, <2>5, RowPaying DEF l
<1>3. CASE run.status \in ActiveRun
  <2>. DEFINE l == [th[t] EXCEPT !.pc = "call"]
  <2>1. Local(t, l) /\ UNCHANGED rows
    BY <1>0, <1>3 DEF Recheck, Goto, Local, ThreadsOK
  <2>2. HandOK(l) /\ l.pc = "call" /\ l.row = th[t].row /\ l.set = th[t].set
    BY <1>0, PlaceHas DEF Dedupe
  <2>. HIDE DEF l
  <2>3. Live
    BY <1>3 DEF Live, ActiveRun, TerminalRun
  <2>4. Held'
    <3>. DEFINE q == th[t].row
    <3>1. q \in Rows /\ rows[q] = "running" /\ job[q] = "running" /\ \A u \in Threads \ {t} : th[u].row # q
      BY <1>0, <2>3 DEF Paying, Held, JobsHeld, Exist, Marks
    <3>2. t \in Workers
      BY <2>3, <3>1, RowFacts DEF Paying, Held, JobsHeld
    <3>3. th[t].pc \notin Dedupe /\ l.pc \notin Dedupe \cup Handing /\ l.set \subseteq th[t].set
      BY <1>0, <2>2 DEF Dedupe, Handing
    <3>4. l.row = q /\ rows' = rows /\ job' = job /\ l.pc \notin Marks
      BY <1>1, <2>1, <2>2 DEF Marks
    <3>. HIDE DEF q
    <3>. QED BY <1>0, <2>1, <2>3, <3>1, <3>2, <3>3, <3>4, OwnHeld DEF Paying
  <2>5. th'[t] = l /\ \A u \in Threads \ {t} : th'[u] = th[u]
    BY <1>0, <2>1, Put DEF ThreadsOK
  <2>6. SubOnce'
    BY <1>1, <2>1, <2>2, <2>5, SubKept DEF Paying
  <2>7. CancelPast'
    BY <2>2, <2>5, CancelKept DEF Paying, Canceling
  <2>8. HandsOK'
    BY <2>2, <2>5 DEF Paying, HandsOK
  <2>. QED BY <2>4, <2>6, <2>7, <2>8, HeldOnceNext DEF Paying
<1>. QED BY <1>2, <1>3

\* The answer of a group nobody else asked for.
LEMMA AnswerPaying ==
    ASSUME Paying, Typed, Live' => Live, NEW t \in Threads, th[t].pc = "call",
           rows' = Write(th[t].row, "done"), Local(t, Advance(th[t])), run' = Touch(run),
           UNCHANGED job
    PROVE  Paying'
<1>. DEFINE q == th[t].row  l == Advance(th[t])
<1>0. ThreadsOK
  BY DEF Typed
<1>1. HandOK(l) /\ l.pc = "advance" /\ l.row = q /\ l.set = {}
  BY AdvanceHas
<1>. HIDE DEF l
<1>2. /\ \A r \in Rows : rows'[r] = "none" <=> rows[r] = "none"
      /\ \A r \in Rows : rows'[r] = "done" => rows[r] = "done" \/ r = q
      /\ \A r \in Rows \ {q} : rows'[r] = rows[r]
  BY DEF Write, StatusOf, Typed, RowsOK, ActiveGroup
<1>. HIDE DEF q
<1>3. Local(t, l)
  BY DEF l
<1>4. th'[t] = l /\ \A u \in Threads \ {t} : th'[u] = th[u]
  BY <1>0, <1>3, Put DEF ThreadsOK
<1>5. ASSUME Held PROVE Held'
  <2>1. q \in Rows => job[q] = "running" /\ \A u \in Threads \ {t} : th[u].row # q
    BY <1>5 DEF Held, JobsHeld, Marks, q
  <2>2. l.row = NoRow \/ t \in Workers
    BY <1>1, <1>5 DEF Held, JobsHeld, q
  <2>3. q \in Rows => rows'[q] # "none"
    BY <1>2, <1>5, <2>1 DEF Held, Exist
  <2>4. /\ th[t].pc \notin Dedupe /\ l.pc \notin Dedupe \cup Handing \cup {"build", "call"} \cup Marks
        /\ l.set \subseteq th[t].set
    BY <1>1 DEF Dedupe, Handing, Marks
  <2>. QED BY <1>0, <1>1, <1>2, <1>3, <1>5, <2>1, <2>2, <2>3, <2>4, OwnHeld
<1>6. SubOnce'
  <2>1. RunGentle
    BY TouchGentle DEF Typed
  <2>. QED BY <1>1, <1>2, <1>4, <2>1, SubKept DEF Paying
<1>7. Once'
  <2>1. \A u \in Threads : th'[u].pc = "call" => u # t /\ th'[u] = th[u] /\ th[u].row[1] # q[1]
    BY <1>1, <1>4 DEF Paying, Once, q
  <2>2. \A r \in Rows : rows[r] = "done" => r[1] # q[1]
    BY DEF Paying, Once, q
  <2>3. \A r \in Rows : rows'[r] = "done" => r = q \/ (rows[r] = "done" /\ r[1] # q[1])
    BY <1>2, <2>2
  <2>. QED BY <2>1, <2>3 DEF Paying, Once
<1>8. CancelPast'
  BY <1>1, <1>4, CancelKept DEF Paying, Canceling
<1>9. HandsOK'
  BY <1>1, <1>4 DEF Paying, HandsOK
<1>. QED BY <1>5, <1>6, <1>7, <1>8, <1>9 DEF Paying

LEMMA GroupPaying ==
    ASSUME Paying, Typed, Live' => Live, NEW t \in Threads, GroupStep(t)
    PROVE  Paying'
<1>0. ThreadsOK /\ RunOK
  BY DEF Typed
<1>1. CASE PauseRun(t)
  <2>1. RunGentle
    BY <1>0, <1>1, CasGentle DEF PauseRun
  <2>2. \E l : Plainly(t, l)
    BY <1>1, HomePlainly DEF PauseRun, At, Marks
  <2>3. th[t].pc \notin Dedupe /\ UNCHANGED <<rows, job>>
    BY <1>1 DEF PauseRun, At, Dedupe
  <2>. QED BY <1>0, <2>1, <2>2, <2>3, PlainPaying
<1>2. CASE ClaimGroup(t)
  <2>1. th[t].pc = "claim" /\ UNCHANGED <<run, job>> /\ rows' = Write(th[t].row, "running")
    BY <1>2 DEF ClaimGroup, At
  <2>2. /\ RowsGentle /\ \A s \in Rows : rows[s] # "none" => rows'[s] # "none"
        /\ \A s \in Rows \ {th[t].row} : rows'[s] = rows[s]
        /\ th[t].row \in Rows /\ rows[th[t].row] \in ActiveGroup => rows'[th[t].row] = "running"
    BY <2>1, Marked DEF Typed
  <2>3. Plain(th[t]) /\ th[t].keys \cap SubKeys = {}
    BY <1>0 DEF ThreadsOK, LocalOK, Plain, Paying, HandsOK, HandOK
  <2>4. th[t].pc \notin Dedupe \cup Marks /\ RunGentle
    BY <2>1, SameGentle DEF Dedupe, Marks
  <2>5. CASE StatusOf(th[t].row) \in ActiveGroup
    <3>. DEFINE l == [th[t] EXCEPT !.pc = "build"]
    <3>1. Local(t, l)
      BY <1>2, <2>5 DEF ClaimGroup
    <3>2. HandOK(l) /\ l.pc = "build" /\ l.row = th[t].row /\ l.set = th[t].set
      BY <2>3, PlaceHas DEF Dedupe
    <3>. HIDE DEF l
    <3>3. l.row \in Rows /\ rows'[l.row] = "running"
      BY <2>2, <2>5, <3>2 DEF StatusOf, ActiveGroup
    <3>4. l.pc \notin Special \cup Dedupe \cup Handing \cup Marks
      BY <3>2 DEF Special, Dedupe, Handing, Marks
    <3>. QED BY <1>0, <2>1, <2>2, <2>4, <3>1, <3>2, <3>3, <3>4, RowPaying
  <2>6. CASE StatusOf(th[t].row) \notin ActiveGroup
    <3>. DEFINE l == Home(th[t])
    <3>1. Local(t, l)
      BY <1>2, <2>6 DEF ClaimGroup
    <3>2. HandOK(l) /\ l.pc \in {"idle", "finish"} /\ l.row = th[t].row /\ l.set = {}
      BY HomeHas
    <3>. HIDE DEF l
    <3>3. l.pc \notin Special \cup Dedupe \cup Handing \cup Marks /\ l.pc # "build"
      BY <3>2 DEF Special, Dedupe, Handing, Marks
    <3>. QED BY <1>0, <2>1, <2>2, <2>4, <3>1, <3>2, <3>3, RowPaying
  <2>. QED BY <2>5, <2>6
<1>3. CASE Recheck(t)
  BY <1>3, RecheckPaying
<1>4. CASE CallModel(t)
  <2>1. th[t].pc = "call" /\ th[t].pc \notin Dedupe
    BY <1>4 DEF CallModel, At, Dedupe
  <2>2. CASE FailJob(t, th[t].row) /\ UNCHANGED <<run, rows>>
    <3>. DEFINE q == th[t].row
    <3>1. RunGentle
      BY <2>2, SameGentle
    <3>2. /\ Held /\ q \in Rows => job[q] # "none" /\ \A u \in Threads \ {t} : th[u].row # q
          /\ Held => q = NoRow \/ t \in Workers
      BY <2>1 DEF Held, JobsHeld, Marks
    <3>3. FailJob(t, q) /\ UNCHANGED rows
      BY <2>2
    <3>. HIDE DEF q
    <3>. QED BY <2>1, <3>1, <3>2, <3>3, FailPaying
  <2>3. CASE rows' = Write(th[t].row, "done") /\ Local(t, Advance(th[t])) /\ run' = Touch(run) /\ job' = job
    BY <2>1, <2>3, AnswerPaying
  <2>. QED BY <1>4, <2>2, <2>3 DEF CallModel
<1>5. CASE FinishJob(t)
  <2>. DEFINE q == th[t].row
  <2>1. Local(t, Idle) /\ UNCHANGED <<run, rows>> /\ job' = WithJob(q, "none") /\ th[t].pc \notin Dedupe
    BY <1>5 DEF FinishJob, At, Dedupe
  <2>2. \A s \in Rows \ {q} : job'[s] = job[s]
    BY <2>1, Jobbed DEF Typed, StoreOK
  <2>3. Held /\ q \in Rows => th[t].row = q /\ \A u \in Threads \ {t} : th[u].row # q
    BY DEF Held, JobsHeld
  <2>4. Idle.pc \notin Special \cup Dedupe \cup Handing /\ Idle.pc # "build"
    BY IdleHas DEF Special, Dedupe, Handing
  <2>5. RunGentle /\ RowsGentle
    BY <2>1, SameGentle
  <2>. HIDE DEF q
  <2>. QED BY <1>0, <2>1, <2>2, <2>3, <2>4, <2>5, IdleHas, OwnPaying
<1>6. CASE MarkRow(t)
  BY <1>6, MarkPaying
<1>. QED BY <1>1, <1>2, <1>3, <1>4, <1>5, <1>6 DEF GroupStep

-----------------------------------------------------------------------------
(* The stages of advance.                                                  *)

\* Where a stage leads: no row is in hand, and none of pass 1 is to come.
Staged == {"idle", "finish", "advance", "claim_plan", "plan", "take_render", "consolidate",
           "fail_run", "render", "save", "insert"}

Reached(l, m) == HandOK(m) /\ m.pc \in Staged /\ m.row = l.row /\ m.set \subseteq l.set

LEMMA ReachedPlainly ==
    ASSUME NEW t \in Threads, NEW l, l.row = th[t].row, l.set = th[t].set,
           th[t].pc \notin Marks, NEW m, Reached(l, m), Local(t, m)
    PROVE  \E n : Plainly(t, n)
<1>1. m.pc \notin Special \cup Dedupe \cup {"build"} \cup Handing \cup Marks
  BY DEF Reached, Staged, Special, Dedupe, Handing, Marks
<1>2. Plainly(t, m)
  BY <1>1 DEF Plainly, Reached
<1>. QED BY <1>2

LEMMA Identities ==
    /\ Missing \cap SubKeys = {} /\ {Main(1)} \cap SubKeys = {} /\ {Main(2)} \cap SubKeys = {}
    /\ \A r : SubRow(r) => r[1] \in SubKeys
<1>1. \A c, i, d, j : Sub(c, i) # RollUp(d) /\ Sub(c, i) # Escalation(d) /\ Sub(c, i) # Main(j)
  BY DEF Sub, RollUp, Escalation, Main
<1>2. \A k \in SubKeys : \E c, i : k = Sub(c, i)
  BY DEF SubKeys
<1>3. \A k \in Missing : \E c : k = RollUp(c) \/ k = Escalation(c)
  BY DEF Missing
<1>. QED BY <1>1, <1>2, <1>3 DEF SubRow

LEMMA PlaceReached ==
    ASSUME NEW l, Plain(l), l.keys \cap SubKeys = {}
    PROVE  /\ Reached(l, Home(l)) /\ Reached(l, Advance(l))
           /\ \A pc \in Staged : Reached(l, [l EXCEPT !.pc = pc])
           /\ \A keys \in SUBSET Keys : keys \cap SubKeys = {} =>
                 Reached(l, [l EXCEPT !.pc = "insert", !.keys = keys])
           /\ \A bad : Reached(l, [l EXCEPT !.pc = "render", !.bad = bad])
           /\ \A todo : Reached(l, [l EXCEPT !.pc = "save", !.todo = todo])
<1>1. Reached(l, Home(l)) /\ Reached(l, Advance(l))
  BY HomeHas, AdvanceHas DEF Reached, Staged
<1>2. ASSUME NEW pc \in Staged PROVE Reached(l, [l EXCEPT !.pc = pc])
  <2>. DEFINE m == [l EXCEPT !.pc = pc]
  <2>1. pc \notin Dedupe
    BY DEF Staged, Dedupe
  <2>2. HandOK(m) /\ m.pc = pc /\ m.row = l.row /\ m.set = l.set
    BY <2>1, PlaceHas
  <2>. HIDE DEF m
  <2>3. Reached(l, m)
    BY <2>2 DEF Reached
  <2>. QED BY <2>3 DEF m
<1>3. ASSUME NEW keys \in SUBSET Keys, keys \cap SubKeys = {}
      PROVE  Reached(l, [l EXCEPT !.pc = "insert", !.keys = keys])
  <2>. SUFFICES ASSUME NEW m, m = [l EXCEPT !.pc = "insert", !.keys = keys] PROVE Reached(l, m)
    OBVIOUS
  <2>. QED BY <1>3 DEF Plain, Whole, Reached, HandOK, Staged
<1>4. ASSUME NEW bad PROVE Reached(l, [l EXCEPT !.pc = "render", !.bad = bad])
  <2>. SUFFICES ASSUME NEW m, m = [l EXCEPT !.pc = "render", !.bad = bad] PROVE Reached(l, m)
    OBVIOUS
  <2>. QED BY DEF Plain, Whole, Reached, HandOK, Staged
<1>5. ASSUME NEW todo PROVE Reached(l, [l EXCEPT !.pc = "save", !.todo = todo])
  <2>. SUFFICES ASSUME NEW m, m = [l EXCEPT !.pc = "save", !.todo = todo] PROVE Reached(l, m)
    OBVIOUS
  <2>. QED BY DEF Plain, Whole, Reached, HandOK, Staged
<1>. QED BY <1>1, <1>2, <1>3, <1>4, <1>5

LEMMA StageReached ==
    ASSUME NEW l, Plain(l), l.keys \cap SubKeys = {}
    PROVE  /\ Reached(l, AfterOutputs(l)) /\ Reached(l, ConsolidatingStage(l))
           /\ \/ Reached(l, ReadingStage(l))
              \/ ReadingStage(l) = [l EXCEPT !.pc = "replan"] /\ RowsIn(SubKeys) = {}
<1>1. {Main(1)} \in SUBSET Keys /\ {Main(2)} \in SUBSET Keys /\ Missing \in SUBSET Keys
  BY DEF Keys, Missing
<1>2. "fail_run" \in Staged /\ "consolidate" \in Staged
  BY DEF Staged
<1>3. Reached(l, [l EXCEPT !.pc = "fail_run"]) /\ Reached(l, [l EXCEPT !.pc = "consolidate"])
  BY <1>2, PlaceReached
<1>4. /\ Reached(l, [l EXCEPT !.pc = "insert", !.keys = {Main(1)}])
      /\ Reached(l, [l EXCEPT !.pc = "insert", !.keys = {Main(2)}])
      /\ Reached(l, [l EXCEPT !.pc = "insert", !.keys = Missing])
  BY <1>1, Identities, PlaceReached
<1>5. Reached(l, Home(l))
  BY PlaceReached
<1>6. Reached(l, AfterOutputs(l))
  BY <1>3, <1>4 DEF AfterOutputs
<1>7. Reached(l, UseMain(l))
  <2>. DEFINE bad == \E r \in Rows : rows[r] = "failed" /\ r[1] \notin {Main(1), Main(2)}
  <2>1. UseMain(l) = [l EXCEPT !.pc = "render", !.bad = bad]
    BY DEF UseMain
  <2>2. \A b : Reached(l, [l EXCEPT !.pc = "render", !.bad = b])
    BY PlaceReached
  <2>. HIDE DEF bad
  <2>. QED BY <2>1, <2>2
<1>8. Reached(l, ConsolidatingStage(l))
  BY <1>3, <1>4, <1>5, <1>6, <1>7, ConsolidatingIs
<1>9. \/ Reached(l, ReadingStage(l))
      \/ ReadingStage(l) = [l EXCEPT !.pc = "replan"] /\ RowsIn(SubKeys) = {}
  BY <1>3, <1>4, <1>5 DEF ReadingStage
<1>. QED BY <1>6, <1>8, <1>9

\* A step towards the plan of a run that has no groups yet.
LEMMA PlanPaying ==
    ASSUME Paying, ThreadsOK, Live' => Live, NEW t \in Threads, NEW l, Local(t, l),
           HandOK(l), th[t].pc \notin Dedupe \cup Marks, l.pc \in {"insert_subs", "replan", "advance"},
           l.row = th[t].row, l.set \subseteq th[t].set, UNCHANGED <<rows, job>>, SubOnce'
    PROVE  Paying'
<1>1. th'[t] = l /\ \A u \in Threads \ {t} : th'[u] = th[u]
  BY Put DEF ThreadsOK
<1>2. HandsOK'
  BY <1>1 DEF Paying, HandsOK
<1>3. Once'
  BY <1>1, OnceKept DEF Paying
<1>4. CancelPast'
  BY <1>1, CancelKept DEF Paying, Canceling
<1>5. Held => Held'
  <2>1. l.pc \notin Dedupe \cup {"build", "call"} \cup Marks /\ l.pc \notin Handing
    BY DEF Dedupe, Handing, Marks
  <2>. QED BY <2>1, LocalHeld
<1>. QED BY <1>2, <1>3, <1>4, <1>5 DEF Paying

LEMMA ReadRunPaying ==
    ASSUME Paying, Typed, Live' => Live, NEW t \in Threads, ReadRun(t)
    PROVE  Paying'
<1>. DEFINE l == [th[t] EXCEPT !.then = "return"]
<1>0. th[t].pc \notin Dedupe \cup Marks /\ ThreadsOK /\ RunOK /\ UNCHANGED <<rows, job>>
  BY DEF ReadRun, At, Dedupe, Marks, Typed
<1>1. Plain(l) /\ l.keys \cap SubKeys = {} /\ l.row = th[t].row /\ l.set = th[t].set
  <2>1. Plain(th[t]) /\ th[t].keys \cap SubKeys = {}
    BY <1>0 DEF ThreadsOK, LocalOK, Plain, Paying, HandsOK, HandOK
  <2>. SUFFICES ASSUME NEW m, m = l
                PROVE  Plain(m) /\ m.keys \cap SubKeys = {} /\ m.row = th[t].row /\ m.set = th[t].set
    OBVIOUS
  <2>. QED BY <2>1 DEF Plain, Whole
<1>2. PICK m : /\ \/ m \in {[l EXCEPT !.pc = "claim_plan"], ConsolidatingStage(l),
                           [l EXCEPT !.pc = "take_render"], Home(l)}
                  \/ m = ReadingStage(l) /\ run.status = "reading"
               /\ Local(t, m)
  <2>1. Local(t, CASE run.status = "splitting"     -> [l EXCEPT !.pc = "claim_plan"]
                   [] run.status = "reading"       -> ReadingStage(l)
                   [] run.status = "consolidating" -> ConsolidatingStage(l)
                   [] run.status = "rendering" /\ run.old -> [l EXCEPT !.pc = "take_render"]
                   [] OTHER -> Home(l))
    BY DEF ReadRun
  <2>. HIDE DEF l
  <2>. QED BY <2>1, Zenon
<1>. HIDE DEF l
<1>3. run' = Touch(run) \/ run' = run
  BY DEF ReadRun
<1>4. RunGentle
  BY <1>0, <1>3, TouchGentle, SameGentle
<1>5. CASE Reached(l, m)
  <2>1. \E n : Plainly(t, n)
    BY <1>0, <1>1, <1>2, <1>5, ReachedPlainly
  <2>. QED BY <1>0, <1>4, <2>1, PlainPaying
<1>6. CASE m = [l EXCEPT !.pc = "replan"] /\ RowsIn(SubKeys) = {}
  <2>1. HandOK(m) /\ m.pc = "replan" /\ m.row = th[t].row /\ m.set = th[t].set
    BY <1>1, <1>6, PlaceHas DEF Dedupe
  <2>2. \A r \in Rows : ~SubRow(r)
    BY <1>6 DEF RowsIn, RowsOf, SubRow
  <2>3. th'[t] = m /\ \A u \in Threads \ {t} : th'[u] = th[u]
    BY <1>0, <1>2, Put DEF ThreadsOK
  <2>4. SubOnce'
    <3>1. \A r \in Rows : ~SubRow(r)'
      BY <1>0, <2>2 DEF SubRow
    <3>2. \A u \in Threads : th'[u].pc = "insert_subs" => th[u].pc = "insert_subs"
      BY <2>1, <2>3
    <3>. QED BY <1>4, <3>1, <3>2 DEF SubOnce, Paying, RunGentle
  <2>. QED BY <1>0, <1>2, <2>1, <2>4, PlanPaying
<1>7. Reached(l, m) \/ (m = [l EXCEPT !.pc = "replan"] /\ RowsIn(SubKeys) = {})
  <2>1. "claim_plan" \in Staged /\ "take_render" \in Staged
    BY DEF Staged
  <2>2. /\ Reached(l, [l EXCEPT !.pc = "claim_plan"]) /\ Reached(l, [l EXCEPT !.pc = "take_render"])
        /\ Reached(l, Home(l))
    BY <1>1, <2>1, PlaceReached
  <2>. QED BY <1>1, <1>2, <2>2, StageReached
<1>. QED BY <1>5, <1>6, <1>7

\* A run is planned by the winner alone, before it has groups.
LEMMA PlannedPaying ==
    ASSUME Paying, Typed, Calm, Live' => Live, NEW t \in Threads,
           ClaimPlanning(t) \/ Plan(t) \/ Replan(t)
    PROVE  Paying'
<1>0. /\ th[t].pc \notin Dedupe \cup Marks /\ ThreadsOK /\ RunOK /\ UNCHANGED <<rows, job>>
      /\ Plain(th[t]) /\ th[t].keys \cap SubKeys = {}
  BY DEF ClaimPlanning, Plan, Replan, At, Dedupe, Marks, Typed, ThreadsOK, LocalOK, Plain, Paying, HandsOK,
         HandOK
<1>1. CASE ClaimPlanning(t)
  <2>1. RunGentle
    BY <1>0, <1>1, SameGentle DEF ClaimPlanning, RunGentle, Touch, RunOK
  <2>2. "plan" \notin Special \cup Dedupe \cup {"build"} \cup Handing \cup Marks
    BY DEF Special, Dedupe, Handing, Marks
  <2>3. \E l : Plainly(t, l)
    BY <1>0, <1>1, <2>2, HomePlainly, PlacePlainly DEF ClaimPlanning, Paying
  <2>. QED BY <1>0, <2>1, <2>3, PlainPaying
<1>2. CASE Plan(t) /\ Local(t, Home(th[t]))
  <2>1. RunGentle
    BY <1>0, <1>2, CasGentle DEF Plan, Win
  <2>2. \E l : Plainly(t, l)
    BY <1>0, <1>2, HomePlainly
  <2>. QED BY <1>0, <2>1, <2>2, PlainPaying
<1>3. CASE /\ Win(t, {"splitting"}, "reading", [th[t] EXCEPT !.pc = "insert_subs"])
           /\ run.status = "splitting"
  <2>. DEFINE l == [th[t] EXCEPT !.pc = "insert_subs"]
  <2>1. Local(t, l)
    BY <1>3 DEF Win
  <2>2. HandOK(l) /\ l.pc = "insert_subs" /\ l.row = th[t].row /\ l.set = th[t].set
    BY <1>0, PlaceHas DEF Dedupe
  <2>. HIDE DEF l
  <2>3. th'[t] = l /\ \A u \in Threads \ {t} : th'[u] = th[u]
    BY <1>0, <2>1, Put DEF ThreadsOK
  <2>4. run'.status = "reading" /\ ~run'.old
    BY <1>0, <1>3 DEF Win, CasStatus, Touch, RunOK
  <2>5. SubOnce'
    <3>1. \A r \in Rows : ~SubRow(r) /\ ~SubRow(r)'
      BY <1>0, <1>3 DEF Paying, SubOnce, SubRow
    <3>2. \A u \in Threads : th'[u].pc = "insert_subs" => u = t
      BY <1>3, <2>3 DEF Paying, SubOnce
    <3>. QED BY <2>4, <3>1, <3>2 DEF SubOnce
  <2>. QED BY <1>0, <2>1, <2>2, <2>5, PlanPaying
<1>4. CASE Replan(t) /\ Local(t, Home(th[t])) /\ run' = run
  <2>1. \E l : Plainly(t, l)
    BY <1>0, <1>4, HomePlainly
  <2>. QED BY <1>0, <1>4, <2>1, SameGentle, PlainPaying
<1>5. CASE Replan(t) /\ run.status = "reading" /\ StillOld
  <2>. DEFINE l == Advance(th[t])
  <2>1. Local(t, l) /\ run' = [Touch(run) EXCEPT !.status = "splitting", !.plan = "none"]
    BY <1>5 DEF Replan
  <2>2. HandOK(l) /\ l.pc = "advance" /\ l.row = th[t].row /\ l.set = {}
    BY AdvanceHas
  <2>. HIDE DEF l
  <2>3. th'[t] = l /\ \A u \in Threads \ {t} : th'[u] = th[u]
    BY <1>0, <2>1, Put DEF ThreadsOK
  <2>4. run'.status = "splitting" /\ ~run'.old
    BY <1>0, <2>1 DEF Touch, RunOK
  <2>5. run.old /\ th[t].pc = "replan"
    BY <1>5 DEF StillOld, Replan, At
  <2>6. SubOnce'
    <3>1. \A r \in Rows : ~SubRow(r) /\ ~SubRow(r)'
      BY <1>0, <2>5 DEF Paying, SubOnce, SubRow
    <3>2. \A u \in Threads : th'[u].pc # "insert_subs"
      BY <2>2, <2>3, <2>5 DEF Paying, SubOnce
    <3>. QED BY <2>4, <3>1, <3>2 DEF SubOnce
  <2>. QED BY <1>0, <2>1, <2>2, <2>6, PlanPaying
<1>6. \/ Local(t, Home(th[t]))
      \/ Win(t, {"splitting"}, "reading", [th[t] EXCEPT !.pc = "insert_subs"]) /\ run.status = "splitting"
      \/ ~Plan(t)
  BY DEF Plan, Win
<1>7. Replan(t) => \/ Local(t, Home(th[t])) /\ run' = run
                   \/ run.status = "reading" /\ StillOld
  BY DEF Replan
<1>. QED BY <1>1, <1>2, <1>3, <1>4, <1>5, <1>6, <1>7

\* The winner inserts the groups of pass 1.
LEMMA InsertSubsPaying ==
    ASSUME Paying, Typed, Live' => Live, NEW t \in Threads, InsertSubs(t)
    PROVE  Paying'
<1>. DEFINE new == {<<k, Min(FreeSlots(k))>> : k \in SubKeys}
            l == [th[t] EXCEPT !.pc = "enqueue", !.set = new]
<1>0. /\ th[t].pc = "insert_subs" /\ th[t].pc \notin Dedupe \cup Marks /\ ThreadsOK /\ UNCHANGED <<run, job>>
      /\ Plain(th[t]) /\ th[t].keys \cap SubKeys = {}
  BY DEF InsertSubs, At, Dedupe, Marks, Typed, ThreadsOK, LocalOK, Plain, Paying, HandsOK, HandOK
<1>1. Local(t, l) /\ rows' = [r \in Rows |-> IF r \in new THEN "queued" ELSE rows[r]]
  BY DEF InsertSubs
<1>2. \A k \in SubKeys : <<k, Min(FreeSlots(k))>> \in Rows /\ rows[<<k, Min(FreeSlots(k))>>] = "none"
  <2>. SUFFICES ASSUME NEW k \in SubKeys
                PROVE  <<k, Min(FreeSlots(k))>> \in Rows /\ rows[<<k, Min(FreeSlots(k))>>] = "none"
    OBVIOUS
  <2>1. Min(FreeSlots(k)) \in FreeSlots(k)
    BY FirstFree DEF InsertSubs
  <2>2. Min(FreeSlots(k)) \in 1..Slots /\ k \in Keys
    BY <2>1 DEF FreeSlots, Keys
  <2>. QED BY <2>1, <2>2, Free DEF Rows
<1>3. /\ new \subseteq Rows /\ \A r \in new : rows[r] = "none" /\ r[1] \in SubKeys
      /\ \A r, s \in new : r[1] = s[1] => r = s
  BY <1>2
<1>. HIDE DEF new
<1>4. HandOK(l) /\ l.pc = "enqueue" /\ l.row = th[t].row /\ l.set = new
  <2>. SUFFICES ASSUME NEW m, m = l
                PROVE  HandOK(m) /\ m.pc = "enqueue" /\ m.row = th[t].row /\ m.set = new
    OBVIOUS
  <2>. QED BY <1>0 DEF Plain, Whole, HandOK
<1>. HIDE DEF l
<1>5. th'[t] = l /\ \A u \in Threads \ {t} : th'[u] = th[u]
  BY <1>0, <1>1, Put DEF ThreadsOK
<1>6. Held => Held'
  BY <1>0, <1>1, <1>3, <1>4, InsertHeld
<1>7. SubOnce'
  <2>1. \A r \in Rows : ~SubRow(r)
    BY <1>0 DEF Paying, SubOnce
  <2>2. \A r \in Rows : SubRow(r)' => r \in new
    BY <1>1, <2>1 DEF SubRow
  <2>3. \A u \in Threads : th'[u].pc # "insert_subs"
    BY <1>0, <1>4, <1>5 DEF Paying, SubOnce
  <2>4. run'.status # "splitting" /\ ~run'.old
    BY <1>0 DEF Paying, SubOnce
  <2>. QED BY <1>3, <2>2, <2>3, <2>4 DEF SubOnce
<1>8. Once'
  BY <1>1, <1>4, <1>5, OnceKept DEF Paying
<1>9. CancelPast'
  BY <1>4, <1>5, CancelKept DEF Paying, Canceling
<1>10. HandsOK'
  BY <1>4, <1>5 DEF Paying, HandsOK
<1>. QED BY <1>6, <1>7, <1>8, <1>9, <1>10 DEF Paying

\* The stages behind the plan.
LEMMA StagePaying ==
    ASSUME Paying, Typed, Live' => Live, NEW t \in Threads,
           \/ Consolidate(t) \/ FailRun(t) \/ TakeRender(t) \/ StartRendering(t) \/ Save(t)
           \/ CloseRun(t)
    PROVE  Paying'
<1>0. /\ th[t].pc \notin Dedupe \cup Marks /\ ThreadsOK /\ RunOK /\ UNCHANGED <<rows, job>>
      /\ Plain(th[t]) /\ th[t].keys \cap SubKeys = {}
  BY DEF Consolidate, FailRun, TakeRender, StartRendering, Save, CloseRun, At, Dedupe, Marks, Typed,
         ThreadsOK, LocalOK, Plain, Paying, HandsOK, HandOK
<1>1. ASSUME NEW m, Reached(th[t], m), Local(t, m), RunGentle
      PROVE  Paying'
  BY <1>0, <1>1, ReachedPlainly, PlainPaying
<1>2. Reached(th[t], Home(th[t])) /\ Reached(th[t], Advance(th[t]))
  BY <1>0, PlaceReached
<1>3. CASE Consolidate(t)
  <2>1. RunGentle
    BY <1>0, <1>3, CasGentle DEF Consolidate, Win
  <2>2. Reached(th[t], AfterOutputs(th[t]))
    BY <1>0, StageReached
  <2>3. Local(t, AfterOutputs(th[t])) \/ Local(t, Home(th[t]))
    BY <1>3 DEF Consolidate, Win
  <2>. QED BY <1>1, <1>2, <2>1, <2>2, <2>3
<1>4. CASE FailRun(t)
  <2>1. RunGentle
    BY <1>0, <1>4, CasGentle DEF FailRun
  <2>. QED BY <1>1, <1>2, <1>4, <2>1 DEF FailRun
<1>5. CASE TakeRender(t)
  <2>1. RunGentle
    BY <1>0, <1>5, CasGentle, SameGentle DEF TakeRender
  <2>. QED BY <1>1, <1>2, <1>5, <2>1 DEF TakeRender
<1>6. CASE StartRendering(t)
  <2>. DEFINE rest == {k \in Kinds : saved[k] = 0}  m == [th[t] EXCEPT !.pc = "save", !.todo = rest]
  <2>1. RunGentle
    BY <1>0, <1>6, CasGentle DEF StartRendering, Win
  <2>2. Local(t, m) \/ Local(t, Home(th[t]))
    BY <1>6 DEF StartRendering, Win
  <2>. HIDE DEF rest
  <2>3. Reached(th[t], m)
    BY <1>0, PlaceReached
  <2>. HIDE DEF m
  <2>. QED BY <1>1, <1>2, <2>1, <2>2, <2>3
<1>7. CASE Save(t)
  <2>1. RunGentle
    BY <1>0, <1>7, TouchGentle, SameGentle DEF Save
  <2>. DEFINE left == th[t].todo \ {Min(th[t].todo)}
  <2>2. PICK m : /\ m \in {[th[t] EXCEPT !.todo = left], [th[t] EXCEPT !.todo = left, !.bad = TRUE]}
                 /\ Local(t, m)
    BY <1>7 DEF Save
  <2>3. th[t].pc = "save"
    BY <1>7 DEF Save, At
  <2>. HIDE DEF left
  <2>4. Reached(th[t], m)
    BY <1>0, <2>2, <2>3 DEF Plain, Whole, Reached, HandOK, Staged
  <2>. QED BY <1>1, <2>1, <2>2, <2>4
<1>8. CASE CloseRun(t)
  <2>1. RunGentle
    BY <1>0, <1>8, CasGentle DEF CloseRun
  <2>. QED BY <1>1, <1>2, <1>8, <2>1 DEF CloseRun
<1>. QED BY <1>3, <1>4, <1>5, <1>6, <1>7, <1>8

-----------------------------------------------------------------------------
(* _insert_deduped and _enqueue_groups.                                    *)

LEMMA InsertPaying ==
    ASSUME Paying, Typed, Live' => Live, NEW t \in Threads, Insert(t)
    PROVE  Paying'
<1>0. /\ th[t].pc = "insert" /\ th[t].pc \notin Dedupe \cup Marks /\ ThreadsOK /\ UNCHANGED <<run, job>>
      /\ Plain(th[t]) /\ th[t].keys \cap SubKeys = {} /\ th[t].keys \subseteq Keys
  BY DEF Insert, At, Dedupe, Marks, Typed, ThreadsOK, LocalOK, Plain, Paying, HandsOK, HandOK
<1>1. PICK slot \in [th[t].keys -> 1..Slots] :
        /\ \A k \in th[t].keys : slot[k] \in FreeSlots(k)
        /\ LET new == {<<k, slot[k]>> : k \in th[t].keys} IN
           /\ rows' = [r \in Rows |-> IF r \in new THEN "queued" ELSE rows[r]]
           /\ Local(t, [th[t] EXCEPT !.pc = "read_dups", !.set = new])
  BY DEF Insert
<1>. DEFINE new == {<<k, slot[k]>> : k \in th[t].keys}
            l == [th[t] EXCEPT !.pc = "read_dups", !.set = new]
<1>2. Local(t, l) /\ rows' = [r \in Rows |-> IF r \in new THEN "queued" ELSE rows[r]]
  BY <1>1
<1>3. new \subseteq Rows /\ \A r \in new : rows[r] = "none" /\ r[1] \in th[t].keys
  BY <1>0, <1>1, Free DEF Rows
<1>. HIDE DEF new
<1>4. HandOK(l) /\ l.pc = "read_dups" /\ l.row = th[t].row /\ l.set = new
  <2>. SUFFICES ASSUME NEW m, m = l
                PROVE  HandOK(m) /\ m.pc = "read_dups" /\ m.row = th[t].row /\ m.set = new
    OBVIOUS
  <2>. QED BY <1>0, <1>3 DEF Plain, Whole, HandOK
<1>. HIDE DEF l
<1>5. Held => Held'
  BY <1>0, <1>2, <1>3, <1>4, InsertHeld
<1>6. RowsGentle
  BY <1>0, <1>2, <1>3 DEF RowsGentle
<1>7. l.pc \notin Special
  BY <1>4 DEF Special
<1>. QED BY <1>0, <1>2, <1>4, <1>5, <1>6, <1>7, SameGentle, StepPaying

LEMMA DedupesPaying ==
    ASSUME Paying, Typed, Live' => Live, NEW t \in Threads, Dedupes(t), UNCHANGED run,
           Held => Held'
    PROVE  Paying'
<1>0. ThreadsOK /\ RunGentle
  BY SameGentle DEF Typed
<1>1. ASSUME UNCHANGED <<rows, job>>, NEW l, Local(t, l), HandOK(l),
             l.pc \in {"dedupe", "delete_winner", "enqueue"} \cup Rested
      PROVE  Paying'
  <2>1. l.pc \notin Special
    BY <1>1 DEF Special, Rested
  <2>. QED BY <1>0, <1>1, <2>1, SameGentle, StepPaying
<1>2. ASSUME NEW w \in Rows, NEW l, DeleteRow(t, w, l), HandOK(l),
             l.pc \in {"dedupe", "enqueue"} \cup Rested
      PROVE  Paying'
  <2>1. RowsGentle
    BY <1>2 DEF DeleteRow, RowsGentle, Typed, RowsOK
  <2>2. /\ th'[t] = l
        /\ \A u \in Threads \ {t} : th'[u] = Without(th[u], w)
    BY <1>2 DEF DeleteRow
  <2>3. l.pc \notin Special
    BY <1>2 DEF Special, Rested
  <2>4. \A u \in Threads \ {t} :
          /\ th'[u].pc = th[u].pc /\ th'[u].row[1] = th[u].row[1]
          /\ HandOK(th[u]) => HandOK(th'[u])
    <3>1. \A u \in Threads : Whole(th[u])
      BY <1>0 DEF ThreadsOK, LocalOK
    <3>. QED BY <2>2, <3>1, WithoutHas, WithoutKeeps, RowFacts
  <2>5. HandsOK'
    BY <1>2, <2>2, <2>4 DEF Paying, HandsOK
  <2>6. SubOnce'
    <3>1. \A u \in Threads : th'[u].pc \in {"insert_subs", "replan"} => th[u].pc = th'[u].pc
      BY <2>2, <2>3, <2>4 DEF Special
    <3>. QED BY <1>0, <2>1, <3>1, SubKept DEF Paying, RowsGentle
  <2>7. Once'
    <3>1. \A u \in Threads : th'[u].pc = "call" => th[u].pc = "call" /\ th'[u].row[1] = th[u].row[1]
      BY <2>2, <2>3, <2>4 DEF Special
    <3>. QED BY <2>1, <3>1, OnceKept DEF Paying, RowsGentle
  <2>8. CancelPast'
    <3>1. \A u \in Threads : Canceling(th'[u]) => Canceling(th[u])
      BY <2>2, <2>3, <2>4 DEF Special, Canceling
    <3>. QED BY <3>1, CancelKept DEF Paying
  <2>. QED BY <2>5, <2>6, <2>7, <2>8 DEF Paying
<1>. QED BY <1>1, <1>2 DEF Dedupes

\* A group that goes to the queue is in nobody else's hands.
LEMMA EnqueuePaying ==
    ASSUME Paying, Typed, Live' => Live, NEW t \in Threads, Enqueue(t)
    PROVE  Paying'
<1>0. /\ th[t].pc = "enqueue" /\ th[t].pc \notin Dedupe /\ ThreadsOK /\ UNCHANGED <<run, rows>>
      /\ Plain(th[t]) /\ th[t].keys \cap SubKeys = {}
  BY DEF Enqueue, At, Dedupe, Typed, ThreadsOK, LocalOK, Plain, Paying, HandsOK, HandOK
<1>1. PICK m : /\ Local(t, Enqueuing(m)) /\ Plain(m) /\ m.keys \cap SubKeys = {}
               /\ m.row = th[t].row /\ m.set \subseteq th[t].set
               /\ \/ job' = job
                  \/ \E r \in th[t].set :
                        job' = WithJob(r, IF job[r] = "none" THEN "queued" ELSE job[r])
  <2>1. CASE th[t].set = {} /\ Local(t, Enqueuing(th[t])) /\ UNCHANGED job
    BY <1>0, <2>1
  <2>2. ASSUME NEW r \in th[t].set,
               job' = WithJob(r, IF job[r] = "none" THEN "queued" ELSE job[r]) \/ UNCHANGED job,
               Local(t, Enqueuing([th[t] EXCEPT !.set = @ \ {r}]))
        PROVE  \E m : /\ Local(t, Enqueuing(m)) /\ Plain(m) /\ m.keys \cap SubKeys = {}
                      /\ m.row = th[t].row /\ m.set \subseteq th[t].set
                      /\ \/ job' = job
                         \/ \E s \in th[t].set :
                               job' = WithJob(s, IF job[s] = "none" THEN "queued" ELSE job[s])
    <3>. DEFINE n == [th[t] EXCEPT !.set = @ \ {r}]
    <3>1. Plain(n) /\ n.keys = th[t].keys /\ n.row = th[t].row /\ n.set = th[t].set \ {r}
      <4>. SUFFICES ASSUME NEW m, m = n
                    PROVE  Plain(m) /\ m.keys = th[t].keys /\ m.row = th[t].row /\ m.set = th[t].set \ {r}
        OBVIOUS
      <4>. QED BY <1>0 DEF Plain, Whole
    <3>2. Local(t, Enqueuing(n))
      BY <2>2
    <3>. HIDE DEF n
    <3>. QED BY <1>0, <2>2, <3>1, <3>2
  <2>. QED BY <2>1, <2>2 DEF Enqueue
<1>. DEFINE l == Enqueuing(m)
<1>2. HandOK(l) /\ l.pc \in Rested \cup {"enqueue"} /\ l.row = th[t].row /\ l.set \subseteq th[t].set
  BY <1>1, EnqueuingHas
<1>3. Local(t, l)
  BY <1>1
<1>. HIDE DEF l
<1>4. l.pc \notin Special \cup Dedupe \cup {"build", "call"}
  BY <1>2 DEF Special, Dedupe, Rested
<1>5. ASSUME Held PROVE Held'
  <2>1. \A r \in Rows : job'[r] = job[r] \/ (r \in th[t].set /\ job[r] = "none" /\ job'[r] = "queued")
    BY <1>1 DEF WithJob, Typed, StoreOK, JobOK
  <2>2. \A r \in th[t].set : rows[r] # "none" /\ \A u \in Threads : ~InHand(th[u], r)
    <3>1. \A r \in th[t].set : rows[r] # "none" /\ r \in Rows
      BY <1>0, <1>5 DEF Held, Exist, Plain
    <3>2. ASSUME NEW r \in th[t].set, NEW u \in Threads, InHand(th[u], r) PROVE FALSE
      <4>1. u # t
        BY <1>0, <3>2 DEF InHand
      <4>. QED BY <1>0, <1>5, <3>1, <3>2, <4>1 DEF Held, Hands, Handing
    <3>. QED BY <3>1, <3>2
  <2>3. \A r \in Rows : rows'[r] = "none" => job'[r] = "none"
    BY <1>0, <1>5, <2>1, <2>2 DEF Held, Exist
  <2>4. \A u \in Threads, r \in Rows : InHand(th[u], r) => rows'[r] = rows[r] /\ job'[r] = job[r]
    BY <1>0, <2>1, <2>2
  <2>5. \A u \in Threads \ {t} : th[u].row \in Rows =>
               /\ th[u].row # l.row /\ (job'[th[u].row] = "running" <=> job[th[u].row] = "running")
               /\ th[u].pc \notin Marks /\ rows[th[u].row] = "running" => rows'[th[u].row] = "running"
    BY <1>0, <1>2, <1>5, <2>1 DEF Held, JobsHeld
  <2>6. /\ t \notin Workers => l.row = NoRow
        /\ l.row \in Rows => (job'[l.row] = "running" <=> l.pc \notin Marks) /\ rows[l.row] # "none"
        /\ \A u \in Threads, r \in Rows : InHand(th[u], r) => l.row # r
    <3>1. th[t].pc \notin Marks /\ l.pc \notin Marks
      BY <1>0, <1>2 DEF Rested, Marks
    <3>. QED BY <1>2, <1>5, <2>1, <3>1 DEF Held, JobsHeld, Exist, Hands
  <2>7. l.set \subseteq Rows /\ \A r \in l.set : rows[r] # "none" /\ \A u \in Threads : ~InHand(th[u], r)
    BY <1>0, <1>2, <2>2 DEF Plain
  <2>8. \A r \in Rows : rows'[r] = "none" <=> rows[r] = "none"
    BY <1>0
  <2>. QED BY <1>0, <1>3, <1>4, <1>5, <2>3, <2>4, <2>5, <2>6, <2>7, <2>8, QuietHeld
<1>. QED BY <1>0, <1>2, <1>3, <1>4, <1>5, SameGentle, StepPaying

LEMMA AdvancePaying ==
    ASSUME Paying, Typed, Calm, Live' => Live, NEW t \in Threads, AdvanceStep(t)
    PROVE  Paying'
<1>0. ThreadsOK /\ HandsOK /\ RowsOK /\ JobOK
  BY DEF Typed, Paying, StoreOK
<1>1. CASE ReadDups(t)
  <2>1. PICK l : /\ Local(t, l) /\ HandOK(l) /\ l.row = th[t].row
                 /\ l.pc \in {"dedupe", "enqueue"} \cup Rested
    BY <1>0, <1>1, ReadDupsKeeps
  <2>2. Held => Held'
    BY <1>0, <1>1, ReadDupsKeeps
  <2>3. Dedupes(t) /\ UNCHANGED run
    BY <1>1, <2>1 DEF ReadDups, Dedupes
  <2>. QED BY <2>2, <2>3, DedupesPaying
<1>2. CASE DeleteLoser(t)
  <2>1. Dedupes(t) /\ (Held => Held')
    BY <1>0, <1>2, DeleteLoserKeeps
  <2>. QED BY <1>2, <2>1, DedupesPaying DEF DeleteLoser
<1>3. CASE DeleteWinner(t)
  <2>1. Dedupes(t) /\ (Held => Held')
    BY <1>0, <1>3, DeleteWinnerKeeps
  <2>. QED BY <1>3, <2>1, DedupesPaying DEF DeleteWinner
<1>. QED BY <1>1, <1>2, <1>3, ReadRunPaying, PlannedPaying, InsertSubsPaying, StagePaying,
            InsertPaying, EnqueuePaying DEF AdvanceStep

-----------------------------------------------------------------------------
(* Requests.                                                               *)

\* A step of a run that has ended for good.
LEMMA DeadPaying ==
    ASSUME Paying, ThreadsOK, ~Live', NEW t \in Threads, NEW l, Local(t, l), HandOK(l),
           l.pc \notin {"insert_subs", "replan", "call"}, RunGentle, RowsGentle
    PROVE  Paying'
<1>1. th'[t] = l /\ \A u \in Threads \ {t} : th'[u] = th[u]
  BY Put DEF ThreadsOK
<1>2. HandsOK'
  BY <1>1 DEF Paying, HandsOK
<1>3. SubOnce'
  BY <1>1, SubKept DEF Paying, RowsGentle
<1>4. Once'
  BY <1>1, OnceKept DEF Paying, RowsGentle
<1>. QED BY <1>2, <1>3, <1>4 DEF Paying, CancelPast

\* A cancel.
LEMMA CancelPaying ==
    ASSUME Paying, Typed, Rendering, Live' => Live, NEW t \in Threads,
           CancelRun(t) \/ CancelGroups(t) \/ CancelJobs(t)
    PROVE  Paying'
<1>0. ThreadsOK /\ RunOK /\ RowsOK /\ Plain(th[t]) /\ th[t].keys \cap SubKeys = {}
  BY DEF Typed, ThreadsOK, LocalOK, Plain, Paying, HandsOK, HandOK
<1>1. CASE CancelRun(t)
  <2>. DEFINE l == [th[t] EXCEPT !.pc = "cancel_groups"]
  <2>1. Local(t, l)
    BY <1>0, <1>1 DEF CancelRun, Goto, Local, ThreadsOK
  <2>2. HandOK(l) /\ l.pc = "cancel_groups"
    BY <1>0, PlaceHas DEF Dedupe
  <2>. HIDE DEF l
  <2>3. th'[t] = l /\ \A u \in Threads \ {t} : th'[u] = th[u]
    BY <1>0, <2>1, Put DEF ThreadsOK
  <2>4. run'.status = "canceled" /\ run.status \notin {"canceled", "deleted"}
    BY <1>0, <1>1 DEF CancelRun, CasStatus, Touch, RunOK, TerminalRun
  <2>5. ~Live'
    <3>1. ASSUME NEW u \in Threads, th'[u].pc \in Holding, th'[u].was = "over_cap" PROVE FALSE
      <4>1. u # t
        BY <2>2, <2>3, <3>1 DEF Holding
      <4>2. Holder(u)
        BY <2>3, <3>1, <4>1 DEF Holder
      <4>. QED BY <2>4, <4>2 DEF Rendering
    <3>. QED BY <2>4, <3>1 DEF Live, TerminalRun
  <2>6. RunGentle /\ RowsGentle
    BY <1>0, <1>1, CasGentle, SameGentle DEF CancelRun
  <2>. QED BY <1>0, <2>1, <2>2, <2>5, <2>6, DeadPaying
<1>2. CASE CancelGroups(t) \/ CancelJobs(t)
  <2>1. ~Live'
    BY <1>2 DEF CancelGroups, CancelJobs, At, Paying, CancelPast, Canceling
  <2>2. RunGentle
    BY <1>2, SameGentle DEF CancelGroups, CancelJobs
  <2>3. RowsGentle
    BY <1>0, <1>2, SameGentle DEF CancelGroups, CancelJobs, RowsGentle, RowsOK, ActiveGroup
  <2>4. CASE CancelJobs(t)
    BY <1>0, <2>1, <2>2, <2>3, <2>4, IdleHas, DeadPaying DEF CancelJobs
  <2>5. CASE CancelGroups(t)
    <3>. DEFINE S == {r \in Rows : rows[r] \in ActiveGroup}
                l == [th[t] EXCEPT !.pc = "cancel_jobs", !.set = S]
    <3>1. Local(t, l)
      BY <2>5 DEF CancelGroups
    <3>. HIDE DEF S
    <3>2. HandOK(l) /\ l.pc = "cancel_jobs"
      <4>. SUFFICES ASSUME NEW m, m = l PROVE HandOK(m) /\ m.pc = "cancel_jobs"
        OBVIOUS
      <4>. QED BY <1>0 DEF Plain, Whole, HandOK
    <3>. HIDE DEF l
    <3>. QED BY <1>0, <2>1, <2>2, <2>3, <3>1, <3>2, DeadPaying
  <2>. QED BY <1>2, <2>4, <2>5
<1>. QED BY <1>1, <1>2

\* The deletion of a run that has ended.
LEMMA DeletePaying ==
    ASSUME Paying, Typed, Live' => Live, NEW t \in Threads,
           DeleteClaim(t) \/ DeleteCheck(t) \/ DeleteJobs(t) \/ DeleteRun(t) \/ UndoDelete(t)
    PROVE  Paying'
<1>0. /\ ThreadsOK /\ RunOK /\ RowsOK /\ JobOK /\ Plain(th[t]) /\ th[t].keys \cap SubKeys = {}
      /\ th[t].pc \notin Dedupe \cup Marks /\ HandsOK
      /\ th[t].pc \in Holding \cup {"delete_claim"}
      /\ th[t].was \in TerminalRun \cup {"over_cap"}
  BY DEF Typed, StoreOK, ThreadsOK, LocalOK, Plain, Paying, HandsOK, HandOK, DeleteClaim, DeleteCheck,
         DeleteJobs, DeleteRun, UndoDelete, At, Dedupe, Marks, Holding
<1>1. ASSUME NEW pc, pc \in Holding \cup {"undo_groups"}, Local(t, [th[t] EXCEPT !.pc = pc]) \/ Goto(t, pc)
      PROVE  \E l : Plainly(t, l)
  <2>1. pc \notin Special \cup Dedupe \cup {"build"} \cup Handing \cup Marks
    BY <1>1 DEF Holding, Special, Dedupe, Handing, Marks
  <2>. QED BY <1>0, <1>1, <2>1, PlacePlainly
<1>2. CASE DeleteClaim(t)
  <2>1. RunGentle
    BY <1>0, <1>2, CasGentle DEF DeleteClaim, Win
  <2>2. \E l : Plainly(t, l)
    BY <1>0, <1>1, <1>2, HomePlainly DEF DeleteClaim, Win, Holding
  <2>. QED BY <1>0, <1>2, <2>1, <2>2, PlainPaying DEF DeleteClaim
<1>3. CASE DeleteCheck(t)
  <2>1. \E l : Plainly(t, l)
    BY <1>1, <1>3 DEF DeleteCheck, Holding
  <2>. QED BY <1>0, <1>3, <2>1, SameGentle, PlainPaying DEF DeleteCheck
<1>4. CASE UndoDelete(t)
  <2>1. RunGentle
    BY <1>0, <1>4, CasGentle DEF UndoDelete, Win, TerminalRun
  <2>2. \E l : Plainly(t, l)
    BY <1>0, <1>1, <1>4, HomePlainly DEF UndoDelete, Win
  <2>. QED BY <1>0, <1>4, <2>1, <2>2, PlainPaying DEF UndoDelete
<1>5. CASE DeleteJobs(t)
  <2>. DEFINE l == [th[t] EXCEPT !.pc = "delete_run"]
  <2>1. Local(t, l)
    BY <1>0, <1>5 DEF DeleteJobs, Goto, Local, ThreadsOK
  <2>2. HandOK(l) /\ l.pc = "delete_run" /\ l.row = th[t].row /\ l.set = th[t].set
    BY <1>0, PlaceHas DEF Dedupe
  <2>. HIDE DEF l
  <2>3. \A r \in Rows : \/ rows'[r] = rows[r] /\ job'[r] = job[r]
                        \/ /\ rows[r] \in ActiveGroup /\ job[r] = "queued"
                           /\ rows'[r] = "failed" /\ job'[r] = "none"
    BY <1>5 DEF DeleteJobs
  <2>4. ASSUME Held PROVE Held'
    <3>1. \A r \in Rows : rows'[r] = "none" <=> rows[r] = "none"
      BY <2>3 DEF ActiveGroup
    <3>2. \A r \in Rows : rows'[r] = "none" => job'[r] = "none"
      BY <2>3, <2>4 DEF Held, Exist
    <3>3. \A u \in Threads, r \in Rows : InHand(th[u], r) => rows'[r] = rows[r] /\ job'[r] = job[r]
      BY <2>3, <2>4 DEF Held, Hands
    <3>4. \A u \in Threads : th[u].row \in Rows => (job[th[u].row] = "running" <=> th[u].pc \notin Marks)
      BY <2>4 DEF Held, JobsHeld
    <3>5. \A u \in Threads \ {t} : th[u].row \in Rows =>
               /\ th[u].row # l.row /\ (job'[th[u].row] = "running" <=> job[th[u].row] = "running")
               /\ th[u].pc \notin Marks /\ rows[th[u].row] = "running" => rows'[th[u].row] = "running"
      BY <2>2, <2>3, <2>4, <3>4 DEF Held, JobsHeld
    <3>6. /\ t \notin Workers => l.row = NoRow
          /\ l.row \in Rows => (job'[l.row] = "running" <=> l.pc \notin Marks) /\ rows[l.row] # "none"
          /\ \A u \in Threads, r \in Rows : InHand(th[u], r) => l.row # r
      <4>1. l.pc \notin Marks
        BY <2>2 DEF Marks
      <4>. QED BY <1>0, <2>2, <2>3, <2>4, <3>4, <4>1 DEF Held, JobsHeld, Exist, Hands
    <3>7. l.set \subseteq Rows /\ \A r \in l.set : rows[r] # "none"
      BY <1>0, <2>2, <2>4 DEF Plain, Held, Exist
    <3>8. l.pc \notin Dedupe \cup Handing \cup {"build", "call"}
      BY <2>2 DEF Dedupe, Handing
    <3>. QED BY <1>0, <2>1, <2>4, <3>1, <3>2, <3>3, <3>5, <3>6, <3>7, <3>8, QuietHeld
  <2>5. RowsGentle
    BY <2>3 DEF RowsGentle, ActiveGroup
  <2>6. l.pc \notin Special /\ RunGentle
    BY <1>5, <2>2, SameGentle DEF Special, DeleteJobs
  <2>. QED BY <1>0, <2>1, <2>2, <2>4, <2>5, <2>6, StepPaying
<1>6. CASE DeleteRun(t) /\ Goto(t, "undo") /\ UNCHANGED <<run, rows, job>>
  <2>1. \E l : Plainly(t, l)
    BY <1>1, <1>6 DEF Holding
  <2>. QED BY <1>0, <1>6, <2>1, SameGentle, PlainPaying
<1>7. CASE /\ run' = [status |-> "deleted", old |-> FALSE, plan |-> run.plan]
           /\ rows' = [r \in Rows |-> "none"]
           /\ th' = [u \in Threads |-> IF u = t \/ th[u].row = NoRow THEN Idle
                                       ELSE [th[u] EXCEPT !.row = Gone(@)]]
  <2>1. run'.status = "deleted" /\ ~run'.old
    BY <1>7
  <2>2. ~Live'
    BY <2>1 DEF Live
  <2>3. \A u \in Threads :
          /\ HandOK(th'[u])
          /\ th'[u].pc = "idle" \/ (th'[u].pc = th[u].pc /\ th'[u].row[1] = th[u].row[1])
    <3>. SUFFICES ASSUME NEW u \in Threads
                  PROVE  /\ HandOK(th'[u])
                         /\ \/ th'[u].pc = "idle"
                            \/ th'[u].pc = th[u].pc /\ th'[u].row[1] = th[u].row[1]
      OBVIOUS
    <3>1. CASE th'[u] = Idle
      BY <3>1, IdleHas
    <3>2. CASE th'[u] = [th[u] EXCEPT !.row = Gone(@)]
      <4>. DEFINE q == Gone(th[u].row)
      <4>1. Whole(th[u]) /\ HandOK(th[u])
        BY <1>0 DEF ThreadsOK, LocalOK, HandsOK
      <4>2. q[1] = th[u].row[1]
        BY RowFacts
      <4>. HIDE DEF q
      <4>3. ASSUME NEW m, m = [th[u] EXCEPT !.row = q]
            PROVE  HandOK(m) /\ m.pc = th[u].pc /\ m.row = q
        BY <4>1, <4>3 DEF Whole, HandOK
      <4>4. th'[u] = [th[u] EXCEPT !.row = q]
        BY <3>2 DEF q
      <4>. QED BY <4>2, <4>3, <4>4
    <3>. QED BY <1>7, <3>1, <3>2
  <2>4. SubOnce'
    <3>1. \A r \in Rows : ~SubRow(r)'
      BY <1>7 DEF SubRow
    <3>2. \A u, v \in Threads : th'[u].pc = "insert_subs" /\ th'[v].pc = "insert_subs" => u = v
      BY <2>3 DEF Paying, SubOnce
    <3>. QED BY <2>1, <3>1, <3>2 DEF SubOnce
  <2>5. Once'
    <3>1. \A r \in Rows : rows'[r] # "done"
      BY <1>7
    <3>2. \A u \in Threads : th'[u].pc = "call" => th[u].pc = "call" /\ th'[u].row[1] = th[u].row[1]
      BY <2>3
    <3>. QED BY <3>1, <3>2, OnceKept DEF Paying
  <2>. QED BY <2>2, <2>3, <2>4, <2>5 DEF Paying, HandsOK, CancelPast
<1>. QED BY <1>2, <1>3, <1>4, <1>5, <1>6, <1>7 DEF DeleteRun

\* A request that begins, and takes rows no thread has in hand.
LEMMA BeginPaying ==
    ASSUME Paying, ThreadsOK, Live' => Live, NEW t \in Requests, NEW l, Local(t, l), HandOK(l),
           th[t].pc = "idle", l.row = NoRow, l.pc \notin Special \cup Dedupe \cup {"build"},
           UNCHANGED <<run, rows, job>>, l.set \subseteq Rows, \A r \in l.set : rows[r] # "none",
           l.pc \in Handing => \A u \in Threads : \A r \in l.set : ~InHand(th[u], r)
    PROVE  Paying'
<1>0. t \in Threads /\ th[t].pc \notin Dedupe /\ NoRow \notin Rows
  BY RowFacts DEF Threads, Dedupe
<1>1. ASSUME Held PROVE Held'
  <2>1. \A u \in Threads \ {t} : th[u].row \in Rows =>
               /\ th[u].row # l.row /\ (job'[th[u].row] = "running" <=> job[th[u].row] = "running")
               /\ th[u].pc \notin Marks /\ rows[th[u].row] = "running" => rows'[th[u].row] = "running"
    BY <1>0, <1>1 DEF Held, JobsHeld
  <2>2. \A r \in Rows : rows'[r] = "none" => job'[r] = "none"
    BY <1>1 DEF Held, Exist
  <2>3. l.pc \notin Dedupe \cup {"build", "call"}
    BY DEF Special
  <2>. QED BY <1>0, <1>1, <2>1, <2>2, <2>3, QuietHeld
<1>2. l.pc \notin Special
  OBVIOUS
<1>. QED BY <1>0, <1>1, <1>2, SameGentle, StepPaying

LEMMA RequestPaying ==
    ASSUME Paying, Typed, Calm, Live' => Live, NEW t \in Requests,
           Poll(t) \/ Resume(t) \/ Delete(t)
    PROVE  Paying'
<1>0. ThreadsOK /\ RowsOK /\ th[t].pc = "idle" /\ t \in Threads /\ UNCHANGED <<run, rows, job>>
  BY DEF Typed, Poll, Resume, Delete, At, Threads
<1>1. CASE Poll(t) /\ Local(t, Advance(Idle))
  <2>. DEFINE l == Advance(Idle)
  <2>1. HandOK(l) /\ l.pc = "advance" /\ l.row = NoRow /\ l.set = {}
    BY IdleHas, AdvanceHas
  <2>. HIDE DEF l
  <2>2. l.pc \notin Special \cup Dedupe \cup {"build"} \cup Handing
    BY <2>1 DEF Special, Dedupe, Handing
  <2>. QED BY <1>0, <1>1, <2>1, <2>2, BeginPaying DEF l
<1>2. CASE Poll(t) /\ Local(t, [Idle EXCEPT !.pc = "enqueue", !.set = Orphans])
  <2>. DEFINE l == [Idle EXCEPT !.pc = "enqueue", !.set = Orphans]
  <2>1. HandOK(l) /\ l.pc = "enqueue" /\ l.row = NoRow /\ l.set = Orphans
    <3>. SUFFICES ASSUME NEW m, m = l
                  PROVE  HandOK(m) /\ m.pc = "enqueue" /\ m.row = NoRow /\ m.set = Orphans
      OBVIOUS
    <3>. QED BY DEF Idle, HandOK
  <2>. HIDE DEF l
  <2>2. /\ l.set \subseteq Rows /\ \A r \in l.set : rows[r] # "none"
        /\ \A u \in Threads : \A r \in l.set : ~InHand(th[u], r)
    BY <2>1 DEF Orphans, InHand
  <2>3. l.pc \notin Special \cup Dedupe \cup {"build"}
    BY <2>1 DEF Special, Dedupe
  <2>. QED BY <1>0, <1>2, <2>1, <2>2, <2>3, BeginPaying DEF l
<1>3. CASE Resume(t)
  <2>. DEFINE S == {r \in Rows : rows[r] = "queued"}
              was == IF RowsIn({Main(1), Main(2)}) # {} THEN "consolidating" ELSE "reading"
              l == [Idle EXCEPT !.pc = "resume", !.then = "advance", !.was = was, !.set = S]
  <2>1. Local(t, l)
    BY <1>3 DEF Resume
  <2>2. /\ S \subseteq Rows /\ \A r \in S : rows[r] # "none"
    OBVIOUS
  <2>. HIDE DEF S, was
  <2>3. HandOK(l) /\ l.pc = "resume" /\ l.row = NoRow /\ l.set = S
    <3>. SUFFICES ASSUME NEW m, m = l
                  PROVE  HandOK(m) /\ m.pc = "resume" /\ m.row = NoRow /\ m.set = S
      OBVIOUS
    <3>. QED BY DEF Idle, HandOK
  <2>. HIDE DEF l
  <2>4. \A u \in Threads : \A r \in l.set : ~InHand(th[u], r)
    BY <1>3 DEF Resume, Deduping, InHand, Dedupe
  <2>5. l.pc \notin Special \cup Dedupe \cup {"build"}
    BY <2>3 DEF Special, Dedupe
  <2>. QED BY <1>0, <2>1, <2>2, <2>3, <2>4, <2>5, BeginPaying
<1>4. CASE Delete(t)
  <2>. DEFINE S == {r \in Rows : rows[r] \in ActiveGroup}
              l == [Idle EXCEPT !.pc = "delete_claim", !.was = run.status, !.set = S]
  <2>1. Local(t, l)
    BY <1>4 DEF Delete
  <2>2. /\ S \subseteq Rows /\ \A r \in S : rows[r] # "none"
    BY DEF ActiveGroup
  <2>. HIDE DEF S
  <2>3. HandOK(l) /\ l.pc = "delete_claim" /\ l.row = NoRow /\ l.set = S
    <3>. SUFFICES ASSUME NEW m, m = l
                  PROVE  HandOK(m) /\ m.pc = "delete_claim" /\ m.row = NoRow /\ m.set = S
      OBVIOUS
    <3>. QED BY DEF Idle, HandOK
  <2>. HIDE DEF l
  <2>4. l.pc \notin Special \cup Dedupe \cup {"build"} \cup Handing
    BY <2>3 DEF Special, Dedupe, Handing
  <2>. QED BY <1>0, <2>1, <2>2, <2>3, <2>4, BeginPaying
<1>. QED BY <1>1, <1>2, <1>3, <1>4 DEF Poll

LEMMA ResumePaying ==
    ASSUME Paying, Typed, Live' => Live, NEW t \in Threads, ResumeRun(t) \/ UndoGroups(t)
    PROVE  Paying'
<1>0. /\ ThreadsOK /\ RunOK /\ RowsOK /\ Plain(th[t]) /\ th[t].keys \cap SubKeys = {}
      /\ th[t].pc \notin Dedupe \cup Marks
  BY DEF Typed, ThreadsOK, LocalOK, Plain, Paying, HandsOK, HandOK, ResumeRun, UndoGroups, At, Dedupe,
         Marks
<1>1. CASE ResumeRun(t)
  <2>. DEFINE n == [th[t] EXCEPT !.was = "none"]
  <2>1. th[t].pc = "resume" /\ th[t].was \in ActiveRun
    BY <1>0, <1>1 DEF ResumeRun, At, ThreadsOK, LocalOK
  <2>2. RunGentle
    BY <1>0, <1>1, <2>1, CasGentle DEF ResumeRun, Win, ActiveRun
  <2>3. Plain(n) /\ n.keys = th[t].keys /\ n.row = th[t].row /\ n.set = th[t].set
    <3>. SUFFICES ASSUME NEW m, m = n
                  PROVE  Plain(m) /\ m.keys = th[t].keys /\ m.row = th[t].row /\ m.set = th[t].set
      OBVIOUS
    <3>. QED BY <1>0 DEF Plain, Whole
  <2>4. Local(t, Enqueuing(n)) \/ Local(t, Home(th[t]))
    BY <1>1 DEF ResumeRun, Win
  <2>. HIDE DEF n
  <2>. DEFINE l == Enqueuing(n)
  <2>5. HandOK(l) /\ l.pc \in Rested \cup {"enqueue"} /\ l.row = th[t].row /\ l.set = th[t].set
    BY <1>0, <2>3, EnqueuingHas
  <2>. HIDE DEF l
  <2>6. l.pc \notin Special \cup Dedupe \cup {"build"} \cup Marks /\ th[t].pc \in Handing
    BY <2>1, <2>5 DEF Special, Dedupe, Handing, Marks, Rested
  <2>7. Local(t, l) => Plainly(t, l)
    BY <1>0, <2>5, <2>6 DEF Plainly
  <2>8. \E m : Plainly(t, m)
    BY <1>0, <2>4, <2>7, HomePlainly DEF l
  <2>. QED BY <1>0, <1>1, <2>2, <2>8, PlainPaying DEF ResumeRun
<1>2. CASE UndoGroups(t)
  <2>1. Local(t, Idle) /\ UNCHANGED <<run, job>>
    BY <1>2 DEF UndoGroups
  <2>2. \A r \in Rows : \/ rows'[r] = rows[r]
                        \/ rows[r] \in {"failed", "canceled"} /\ rows'[r] = "queued"
    BY <1>2 DEF UndoGroups
  <2>3. ASSUME Held PROVE Held'
    <3>1. \A r \in Rows : rows'[r] = "none" <=> rows[r] = "none"
      BY <2>2
    <3>2. \A r \in Rows : rows'[r] = "none" => job'[r] = "none"
      BY <2>1, <2>3, <3>1 DEF Held, Exist
    <3>3. \A u \in Threads, r \in Rows : InHand(th[u], r) => rows'[r] = rows[r] /\ job'[r] = job[r]
      BY <2>1, <2>2, <2>3 DEF Held, Hands
    <3>4. \A u \in Threads \ {t} : th[u].row \in Rows =>
               /\ th[u].row # Idle.row /\ (job'[th[u].row] = "running" <=> job[th[u].row] = "running")
               /\ th[u].pc \notin Marks /\ rows[th[u].row] = "running" => rows'[th[u].row] = "running"
      BY <2>1, <2>2, <2>3, IdleHas, RowFacts DEF Held, JobsHeld
    <3>5. Idle.row \notin Rows /\ Idle.pc \notin Dedupe \cup Handing \cup {"build", "call"}
      BY IdleHas, RowFacts DEF Dedupe, Handing
    <3>. QED BY <1>0, <2>1, <2>3, <3>1, <3>2, <3>3, <3>4, <3>5, IdleHas, QuietHeld
  <2>4. RowsGentle /\ RunGentle
    BY <2>1, <2>2, SameGentle DEF RowsGentle
  <2>5. Idle.pc \notin Special
    BY IdleHas DEF Special
  <2>. QED BY <1>0, <2>1, <2>3, <2>4, <2>5, IdleHas, StepPaying
<1>. QED BY <1>1, <1>2

-----------------------------------------------------------------------------
(* Errors, deaths and time.                                                *)

LEMMA TroublePaying ==
    ASSUME Paying, Typed, Calm, Live' => Live, NEW t \in Threads,
           Reap(t) \/ Fault(t) \/ Crash(t)
    PROVE  Paying'
<1>0. ThreadsOK /\ RunOK
  BY DEF Typed
<1>1. CASE Reap(t)
  <2>1. PICK r \in Rows : Sweep(t, r)
    BY <1>1 DEF Reap
  <2>2. ASSUME Held PROVE job[r] # "none" /\ \A u \in Threads \ {t} : th[u].row # r
    <3>1. ASSUME NEW u \in Threads, th[u].row = r PROVE FALSE
      <4>1. u \in Workers /\ th[u].pc \notin Marks
        BY <2>1, <2>2, <3>1, RowFacts DEF Sweep, Held, JobsHeld
      <4>. QED BY <2>1, <3>1, <4>1 DEF Sweep, Runs, Marking, Marks
    <3>. QED BY <2>1, <3>1 DEF Sweep
  <2>3. FailJob(t, r) /\ UNCHANGED rows /\ RunGentle /\ th[t].pc \notin Dedupe /\ t \in Workers
    BY <2>1, SameGentle DEF Sweep, At, Dedupe
  <2>. QED BY <2>2, <2>3, FailPaying
<1>2. CASE Fault(t)
  <2>1. th[t].pc \notin Dedupe
    BY <1>2 DEF Fault, Deduping, Dedupe
  <2>2. RunGentle
    BY <1>0, <1>2, SameGentle DEF Fault, RunGentle, Touch, RunOK
  <2>3. CASE Local(t, Idle) /\ UNCHANGED job
    BY <1>0, <1>2, <2>1, <2>2, <2>3, HomePlainly, PlainPaying DEF Fault
  <2>4. CASE FailJob(t, th[t].row)
    <3>. DEFINE q == th[t].row
    <3>1. /\ Held /\ q \in Rows => job[q] # "none" /\ \A u \in Threads \ {t} : th[u].row # q
          /\ Held => q = NoRow \/ t \in Workers
      BY <1>2 DEF Held, JobsHeld, Fault, AdvancePcs, Marks
    <3>2. FailJob(t, q) /\ UNCHANGED rows
      BY <1>2, <2>4 DEF Fault
    <3>. HIDE DEF q
    <3>. QED BY <2>1, <2>2, <3>1, <3>2, FailPaying
  <2>. QED BY <1>2, <2>3, <2>4 DEF Fault
<1>3. CASE Crash(t)
  <2>1. th[t].pc \notin Dedupe
    BY <1>3 DEF Crash, Deduping, Dedupe
  <2>. QED BY <1>0, <1>3, <2>1, HomePlainly, PlainPaying, SameGentle DEF Crash
<1>. QED BY <1>1, <1>2, <1>3

LEMMA StillPaying ==
    ASSUME Paying, Typed, Live' => Live, Age \/ ClaimExpires \/ UNCHANGED vars
    PROVE  Paying'
<1>1. UNCHANGED <<rows, job, th>>
  BY DEF Age, ClaimExpires, vars
<1>2. HandsOK'
  BY <1>1 DEF Paying, HandsOK
<1>3. SubOnce'
  <2>1. CASE RunGentle
    BY <1>1, <2>1, SubKept DEF Paying
  <2>2. CASE Age
    <3>1. run'.status \notin {"splitting"} /\ run'.status = run.status
      BY <2>2 DEF Age, Typed, RunOK
    <3>2. \A u \in Threads : th[u].pc \notin {"insert_subs", "replan"}
      BY <2>2 DEF Age, Advancing, AdvancePcs
    <3>3. \A r \in Rows : SubRow(r)' <=> SubRow(r)
      BY <1>1 DEF SubRow
    <3>4. \A u \in Threads : th'[u].pc \notin {"insert_subs", "replan"}
      BY <1>1, <3>2
    <3>. QED BY <3>1, <3>3, <3>4 DEF Paying, SubOnce
  <2>3. ClaimExpires \/ UNCHANGED vars => RunGentle
    BY SameGentle DEF ClaimExpires, vars, RunGentle, Typed, RunOK
  <2>. QED BY <2>1, <2>2, <2>3
<1>4. Once'
  BY <1>1, OnceKept DEF Paying
<1>5. CancelPast'
  BY <1>1, CancelKept DEF Paying
<1>6. Held => Held'
  <2>1. \A l, r : InHand(l, r)' <=> InHand(l, r)
    BY DEF InHand
  <2>2. Covered => Covered'
    BY <1>1 DEF Covered, Twins, Awaits, InHand
  <2>3. JobsHeld /\ Exist /\ Hands => JobsHeld' /\ Exist' /\ Hands'
    BY <1>1 DEF JobsHeld, Exist, Hands, InHand
  <2>. QED BY <2>2, <2>3 DEF Held
<1>. QED BY <1>2, <1>3, <1>4, <1>5, <1>6 DEF Paying

-----------------------------------------------------------------------------
LEMMA InitPaying == Init => Paying
<1>. SUFFICES ASSUME Init PROVE Paying
  OBVIOUS
<1>1. \A t \in Threads : th[t] = Idle
  BY DEF Init
<1>2. \A t \in Threads : HandOK(th[t]) /\ th[t].pc = "idle" /\ th[t].row = NoRow /\ th[t].set = {}
  BY <1>1, IdleHas
<1>3. \A r \in Rows : rows[r] = "none" /\ job[r] = "none"
  BY DEF Init
<1>4. run.status = "splitting" /\ ~run.old
  BY DEF Init
<1>5. HandsOK
  BY <1>2 DEF HandsOK
<1>6. SubOnce
  BY <1>2, <1>3, <1>4 DEF SubOnce, SubRow
<1>7. CancelPast /\ Once
  BY <1>2, <1>3 DEF CancelPast, Canceling, Once
<1>8. Held
  <2>1. JobsHeld /\ Exist
    BY <1>2, <1>3, RowFacts DEF JobsHeld, Exist
  <2>2. Hands /\ Covered
    BY <1>2, <1>3 DEF Hands, InHand, Covered, Twins
  <2>. QED BY <2>1, <2>2 DEF Held
<1>. QED BY <1>5, <1>6, <1>7, <1>8 DEF Paying

LEMMA NextPaying ==
    ASSUME Calm, IInv, Paying, [Next]_vars
    PROVE  Paying'
<1>0. Typed /\ Rendering /\ (Live' => Live)
  BY DeadStays DEF IInv
<1>1. ASSUME NEW t \in Threads, Step(t) PROVE Paying'
  BY <1>0, <1>1, GroupPaying, AdvancePaying, ResumePaying, CancelPaying, DeletePaying
     DEF Step, RequestStep
<1>2. ASSUME NEW t \in Threads, Take(t) PROVE Paying'
  BY <1>0, <1>2, StartPaying DEF Take
<1>3. ASSUME NEW t \in Threads, Reap(t) \/ Fault(t) \/ Crash(t) PROVE Paying'
  BY <1>0, <1>3, TroublePaying
<1>4. ASSUME NEW t \in Requests, Poll(t) \/ Resume(t) \/ CancelRun(t) \/ Delete(t) PROVE Paying'
  BY <1>0, <1>4, RequestPaying, CancelPaying DEF Threads
<1>5. CASE Age \/ ClaimExpires \/ UNCHANGED vars
  BY <1>0, <1>5, StillPaying
<1>. QED BY <1>1, <1>2, <1>3, <1>4, <1>5 DEF Next

\* At most one thread asks for an identity, and then no row of it has an answer.
LEMMA OncePaid == Once => PaidOnce
<1>. SUFFICES ASSUME Once, NEW k \in Keys
              PROVE  Cardinality(Asked(k)) + Cardinality({r \in RowsOf(k) : rows[r] = "done"}) <= 1
  BY DEF PaidOnce
<1>. DEFINE done == {r \in RowsOf(k) : rows[r] = "done"}
<1>1. Asked(k) = {} \/ \E t : Asked(k) = {t}
  BY DEF Asked, At, Once
<1>2. done = {} \/ \E r : done = {r}
  BY DEF RowsOf, Once
<1>3. Asked(k) = {} \/ done = {}
  BY DEF Asked, At, RowsOf, Once
<1>. HIDE DEF done
<1>4. Cardinality(Asked(k)) = 0 \/ Cardinality(Asked(k)) = 1
  BY <1>1, FS_EmptySet, FS_Singleton
<1>5. Cardinality(done) = 0 \/ Cardinality(done) = 1
  BY <1>2, FS_EmptySet, FS_Singleton
<1>6. Cardinality(Asked(k)) = 0 \/ Cardinality(done) = 0
  BY <1>3, FS_EmptySet
<1>. QED BY <1>4, <1>5, <1>6 DEF done

\* _insert_deduped, _enqueue_groups, run_group, and the repairs of _self_heal and
\* resume: however many rows one group has for a while, the model is asked for it
\* by one thread at a time, and never again once it has answered.
THEOREM PaidOnceHolds == ASSUME Calm PROVE Spec => []PaidOnce
<1>1. IInv /\ Paying /\ [Next]_vars => Paying'
  BY NextPaying
<1>2. Paying => PaidOnce
  BY OncePaid DEF Paying
<1>. QED BY Invariance, InitPaying, <1>1, <1>2, PTL DEF Spec

-----------------------------------------------------------------------------
(* What the run says when it is over.                                      *)

\* A person's delete, from its first read to its last write.
Deletes == {"delete_claim", "undo_groups"} \cup Holding

Deleting(t) == th[t].pc \in Deletes

\* Statuses in which advance has something to do.
Open == ActiveRun \cup {"splitting", "rendering"}

\* Somewhere between a decision of advance and its last write.
Deciding(t) == Advancing(t) /\ th[t].pc # "advance"

\* A group of the run exists, or a thread is about to add it.
Known(k) == RowsOf(k) # {} \/ \E t \in Threads : k \in th[t].keys

Full(k) == \E r \in RowsOf(k) : rows[r] = "done"

\* Failed, and no undo of a delete will queue it again.
Stuck(r) == rows[r] = "failed" /\ \A t \in Threads : Deleting(t) => r \notin th[t].set

Settles(k) == \E r \in RowsOf(k) : rows[r] = "done" \/ Stuck(r)

Several(c) == \E r, s \in Done(c) : r # s

\* The dedupe has nothing to do with the groups of pass 1.
Sparing(dups) == \A d \in dups : d.win[1] \notin SubKeys /\ \A r \in d.lose : r[1] \notin SubKeys

Spare(l) == l.pc \in {"dedupe", "delete_winner"} => Sparing(l.dups)

Spared == \A t \in Threads : Spare(th[t])

\* One person at a time resumes or deletes, and a delete has the run for
\* itself: it knows every group that is not settled.
Turn ==
    /\ \A t \in Threads : th[t].was # "none" <=> (Deleting(t) \/ th[t].pc = "resume")
    /\ \A t, u \in Threads : th[t].was # "none" /\ th[u].was # "none" => t = u
    /\ \A t \in Threads : Deleting(t) =>
          /\ run.status \notin Open
          /\ \A u \in Threads : ~Deciding(u)
          /\ \A r \in Rows : rows[r] \in ActiveGroup => r \in th[t].set
    /\ \A t \in Threads : th[t].pc \in Holding => run.status = "canceled"

AllSubs == SubKeys # {} /\ \A k \in SubKeys : RowsOf(k) # {}

\* The groups of pass 1 come first.
Rooted == \A k \in Keys : Known(k) => AllSubs

\* A group that was added is needed.
Why ==
    /\ \A c \in Categories : Known(RollUp(c)) => Several(c)
    /\ \A c \in Flagged : Known(Escalation(c)) => Done(c) # {}

Undoes(t, r) == th[t].pc \in Holding \cup {"undo_groups"} /\ th[t].was = "over_cap" /\ r \in th[t].set

\* A canceled group is queued again by the undo of the delete.
Stray == \A r \in Rows : rows[r] = "canceled" => \E t \in Threads : Undoes(t, r)

\* Every category is settled, and so is what was added for it.
Told ==
    /\ SubKeys # {}
    /\ \A k \in SubKeys : Settles(k)
    /\ \A c \in Categories : Several(c) => Settles(RollUp(c))
    /\ \A c \in Flagged : Done(c) # {} => Settles(Escalation(c))

\* Reading is over.
Past ==
    \/ run.status \in {"consolidating", "rendering"}
    \/ Known(Main(1)) \/ Known(Main(2))
    \/ \E t \in Threads : \/ th[t].pc = "consolidate"
                          \/ th[t].pc = "resume" /\ th[t].was = "consolidating"

Retried == Known(Main(2)) => \E r \in RowsOf(Main(1)) : Stuck(r)

Renders == {"render", "save"}

Answer ==
    (run.status = "rendering" \/ \E t \in Threads : th[t].pc \in Renders) => Full(Main(1)) \/ Full(Main(2))

\* DoneIsComplete but for the deliverables, also of what is about to be added.
Answered ==
    /\ \A k \in SubKeys : Full(k)
    /\ \A k \in Keys \ {Main(1)} : Known(k) => Full(k)
    /\ Full(Main(1)) \/ Full(Main(2))

Sure == \A t \in Threads : th[t].pc \in Renders /\ ~th[t].bad => Answered

Stored ==
    \A t \in Threads : th[t].pc = "save" /\ ~th[t].bad => \A k \in Kinds : k \in th[t].todo \/ saved[k] >= 1

Growing == Rooted /\ Why /\ Stray /\ (Past => Told) /\ Retried /\ Answer /\ Sure /\ Stored

\* The run says done, or a delete that is undone will make it say so.
SaysDone == run.status = "done" \/ \E t \in Threads : th[t].pc \in Holding /\ th[t].was = "done"

DoneSafe == SaysDone => Answered /\ \A k \in Kinds : saved[k] >= 1

Finishing == Spared /\ Turn /\ DoneSafe /\ (Live => Growing)

-----------------------------------------------------------------------------
(* Identities and rows.                                                    *)

LEMMA KeyCases ==
    /\ \A k \in Keys : \/ k \in SubKeys \/ k = Main(1) \/ k = Main(2)
                       \/ \E c \in Categories : k = RollUp(c)
                       \/ \E c \in Flagged : k = Escalation(c)
    /\ \A c : RollUp(c) \notin SubKeys /\ Escalation(c) \notin SubKeys
    /\ Main(1) \notin SubKeys /\ Main(2) \notin SubKeys /\ Main(1) # Main(2)
    /\ \A c, d : RollUp(c) # Escalation(d)
    /\ \A c, d : RollUp(c) = RollUp(d) \/ Escalation(c) = Escalation(d) => c = d
    /\ \A c, p : Main(p) # RollUp(c) /\ Main(p) # Escalation(c)
    /\ Main(1) \in Keys /\ Main(2) \in Keys /\ SubKeys \subseteq Keys
    /\ \A c \in Categories : RollUp(c) \in Keys
    /\ \A c \in Flagged : Escalation(c) \in Keys /\ c \in Categories
<1>1. \A c, i, d, j : Sub(c, i) # RollUp(d) /\ Sub(c, i) # Escalation(d) /\ Sub(c, i) # Main(j)
  BY DEF Sub, RollUp, Escalation, Main
<1>2. \A k \in SubKeys : \E c, i : k = Sub(c, i)
  BY DEF SubKeys
<1>3. /\ \A c : RollUp(c) \notin SubKeys /\ Escalation(c) \notin SubKeys
      /\ Main(1) \notin SubKeys /\ Main(2) \notin SubKeys
  BY <1>1, <1>2
<1>4. /\ Main(1) # Main(2) /\ \A c, d : RollUp(c) # Escalation(d)
      /\ \A c, d : RollUp(c) = RollUp(d) \/ Escalation(c) = Escalation(d) => c = d
      /\ \A c, p : Main(p) # RollUp(c) /\ Main(p) # Escalation(c)
  BY DEF Main, RollUp, Escalation
<1>5. /\ Main(1) \in Keys /\ Main(2) \in Keys /\ SubKeys \subseteq Keys
      /\ \A c \in Categories : RollUp(c) \in Keys
      /\ \A c \in Flagged : Escalation(c) \in Keys /\ c \in Categories
      /\ \A k \in Keys : \/ k \in SubKeys \/ k = Main(1) \/ k = Main(2)
                         \/ \E c \in Categories : k = RollUp(c)
                         \/ \E c \in Flagged : k = Escalation(c)
  BY PlansAssumption DEF Keys
<1>. QED BY <1>3, <1>4, <1>5

\* Of two rows of one identity, one has not started.
LEMMA OneStarted ==
    ASSUME Held, NEW r \in Rows, NEW s \in Rows, r[1] = s[1], r[1] \notin SubKeys,
           rows[r] \notin {"none", "queued"}, rows[s] \notin {"none", "queued"}
    PROVE  r = s
<1>. SUFFICES ASSUME r # s PROVE FALSE
  OBVIOUS
<1>1. PICK t \in Threads : Awaits(th[t], r, s) \/ Awaits(th[t], s, r)
  BY DEF Held, Covered, Twins
<1>2. InHand(th[t], r) \/ InHand(th[t], s)
  BY <1>1 DEF Awaits
<1>. QED BY <1>2 DEF Held, Hands

LEMMA OneSub ==
    ASSUME SubOnce, NEW r \in Rows, NEW s \in Rows, r[1] = s[1], r[1] \in SubKeys,
           rows[r] # "none", rows[s] # "none"
    PROVE  r = s
BY DEF SubOnce, SubRow

LEMMA DoneRows ==
    ASSUME NEW c \in Categories, NEW r
    PROVE  r \in Done(c) <=> /\ r \in Rows /\ rows[r] = "done"
                             /\ \E i \in 1..Subs : r[1] = Sub(c, i)
BY DEF Done, RowsIn, RowsOf

LEMMA DoneSub ==
    ASSUME NEW c \in Categories, NEW r \in Done(c)
    PROVE  r \in Rows /\ rows[r] = "done" /\ r[1] \in SubKeys
BY DoneRows DEF SubKeys

\* More than one.
LEMMA SeveralIs ==
    ASSUME NEW c \in Categories
    PROVE  Cardinality(Done(c)) > 1 <=> Several(c)
<1>1. IsFiniteSet(Done(c))
  <2>. DEFINE K == {Sub(c, i) : i \in 1..Subs}
  <2>1. IsFiniteSet(1..Subs) /\ IsFiniteSet(1..Slots)
    BY PlansAssumption, FS_Interval
  <2>2. IsFiniteSet(K)
    <3>. DEFINE f == [i \in 1..Subs |-> Sub(c, i)]
    <3>1. f \in Surjection(1..Subs, K)
      BY DEF Surjection
    <3>. QED BY <2>1, <3>1, FS_Surjection
  <2>3. IsFiniteSet(K \X (1..Slots))
    BY <2>1, <2>2, FS_Product
  <2>4. Done(c) \subseteq K \X (1..Slots)
    <3>. SUFFICES ASSUME NEW r \in Done(c) PROVE r \in K \X (1..Slots)
      OBVIOUS
    <3>1. r \in Rows /\ \E i \in 1..Subs : r[1] = Sub(c, i)
      BY DoneRows
    <3>. QED BY <3>1 DEF Rows
  <2>. QED BY <2>3, <2>4, FS_Subset
<1>2. CASE ~Several(c)
  <2>1. Done(c) = {} \/ \E r : Done(c) = {r}
    BY <1>2 DEF Several
  <2>2. Cardinality(Done(c)) = 0 \/ Cardinality(Done(c)) = 1
    BY <2>1, FS_EmptySet, FS_Singleton
  <2>. QED BY <1>2, <2>2
<1>3. CASE Several(c)
  <2>1. PICK r \in Done(c), s \in Done(c) : r # s
    BY <1>3 DEF Several
  <2>2. {r, s} \subseteq Done(c)
    BY <2>1
  <2>3. IsFiniteSet({r}) /\ Cardinality({r}) = 1
    BY FS_Singleton
  <2>4. Cardinality({r} \cup {s}) = Cardinality({r}) + 1
    <3>1. s \notin {r}
      BY <2>1
    <3>. QED BY <2>3, <3>1, FS_AddElement
  <2>5. {r} \cup {s} \subseteq Done(c)
    BY <2>2
  <2>6. Cardinality({r} \cup {s}) =< Cardinality(Done(c)) /\ Cardinality(Done(c)) \in Nat
    BY <1>1, <2>5, FS_Subset, FS_CardinalityType
  <2>. QED BY <1>3, <2>3, <2>4, <2>6
<1>. QED BY <1>2, <1>3

-----------------------------------------------------------------------------
(* What answers and failures say stays said.                               *)

RowsTame == \A r \in Rows :
    /\ rows[r] = "done" => rows'[r] = "done"
    /\ Stuck(r) => Stuck(r)'
    /\ SubRow(r) => SubRow(r)'
    /\ rows'[r] = "done" => rows[r] \in {"done"} \cup ActiveGroup

LEMMA TameKeeps ==
    ASSUME RowsTame
    PROVE  /\ \A k : (Full(k) => Full(k)') /\ (Settles(k) => Settles(k)')
           /\ AllSubs => AllSubs'
           /\ \A c \in Categories : (Several(c) => Several(c)') /\ (Done(c) # {} => Done(c)' # {})
<1>1. \A k, r : r \in RowsOf(k) /\ rows[r] = "done" => r \in RowsOf(k)' /\ rows'[r] = "done"
  BY DEF RowsTame, RowsOf
<1>2. \A k, r : r \in RowsOf(k) /\ Stuck(r) => r \in RowsOf(k)' /\ Stuck(r)'
  BY DEF RowsTame, RowsOf, Stuck
<1>3. ASSUME AllSubs PROVE AllSubs'
  <2>1. ASSUME NEW k \in SubKeys PROVE RowsOf(k)' # {}
    BY <1>3, <2>1 DEF AllSubs, RowsOf, RowsTame, SubRow
  <2>. QED BY <1>3, <2>1 DEF AllSubs
<1>4. \A c \in Categories : \A r : r \in Done(c) => r \in Done(c)'
  BY DEF RowsTame, Done, RowsIn, RowsOf
<1>5. \A k : Full(k) => Full(k)'
  BY <1>1 DEF Full
<1>6. \A k : Settles(k) => Settles(k)'
  BY <1>1, <1>2 DEF Settles
<1>7. \A c \in Categories : (Several(c) => Several(c)') /\ (Done(c) # {} => Done(c)' # {})
  BY <1>4 DEF Several
<1>. QED BY <1>3, <1>5, <1>6, <1>7

\* Once every category has settled, none of its groups can still be answered.
LEMMA ToldKept ==
    ASSUME RowsTame, SubOnce, Told
    PROVE  Told'
<1>1. ASSUME NEW c \in Categories, NEW r, r \in Done(c)'
      PROVE  r \in Done(c)
  <2>1. r \in Rows /\ rows'[r] = "done" /\ \E i \in 1..Subs : r[1] = Sub(c, i)
    BY <1>1 DEF Done, RowsIn, RowsOf
  <2>2. r[1] \in SubKeys
    BY <2>1 DEF SubKeys
  <2>3. PICK s \in RowsOf(r[1]) : rows[s] = "done" \/ Stuck(s)
    BY <2>2 DEF Told, Settles
  <2>4. s \in Rows /\ s[1] = r[1] /\ rows[s] \in {"done", "failed"}
    BY <2>3 DEF RowsOf, Stuck
  <2>5. rows[r] \in {"done"} \cup ActiveGroup
    BY <2>1 DEF RowsTame
  <2>6. rows[r] = "done"
    BY <2>1, <2>2, <2>4, <2>5, OneSub DEF ActiveGroup
  <2>. QED BY <2>1, <2>6, DoneRows
<1>2. \A k \in SubKeys : Settles(k)'
  BY TameKeeps DEF Told
<1>3. \A c \in Categories : Several(c)' => Settles(RollUp(c))'
  BY <1>1, TameKeeps DEF Told, Several
<1>4. \A c \in Flagged : Done(c)' # {} => Settles(Escalation(c))'
  BY <1>1, TameKeeps, PlansAssumption DEF Told
<1>. QED BY <1>2, <1>3, <1>4 DEF Told

-----------------------------------------------------------------------------
(* What a step leaves alone.                                               *)

\* Every other thread is where it was, but for a row that was deleted.
Others(t) == \A u \in Threads \ {t} :
    /\ th'[u].pc = th[u].pc /\ th'[u].was = th[u].was /\ th'[u].keys = th[u].keys
    /\ th'[u].bad = th[u].bad /\ th'[u].todo = th[u].todo
    /\ th'[u].set \subseteq th[u].set
    /\ \A r \in th[u].set \ th'[u].set : rows'[r] = "none"
    /\ Spare(th[u]) => Spare(th'[u])

LEMMA OthersLocal ==
    ASSUME ThreadsOK, NEW t \in Threads, NEW l, Local(t, l)
    PROVE  Others(t) /\ th'[t] = l
<1>1. th'[t] = l /\ \A u \in Threads \ {t} : th'[u] = th[u]
  BY Put DEF ThreadsOK
<1>. QED BY <1>1 DEF Others

LEMMA WithoutSparing ==
    ASSUME NEW l, Whole(l), NEW w, Sparing(l.dups)
    PROVE  Sparing(Without(l, w).dups)
<1>. DEFINE Rec(d) == [win |-> IF d.win = w THEN Gone(w) ELSE d.win, fresh |-> d.fresh,
                       lose |-> {IF s = w THEN Gone(w) ELSE s : s \in d.lose}]
<1>1. Without(l, w).dups = {Rec(d) : d \in l.dups}
  BY WithoutHas
<1>2. \A d : Rec(d).win[1] = d.win[1]
  BY RowFacts
<1>3. \A d : \A s \in Rec(d).lose : \E q \in d.lose : s[1] = q[1]
  BY RowFacts
<1>. HIDE DEF Rec
<1>. QED BY <1>1, <1>2, <1>3 DEF Sparing

LEMMA OthersDelete ==
    ASSUME ThreadsOK, RowsOK, NEW t \in Threads, NEW w \in Rows, NEW l, DeleteRow(t, w, l)
    PROVE  Others(t) /\ th'[t] = l /\ \A r \in Rows : rows'[r] = IF r = w THEN "none" ELSE rows[r]
<1>1. th'[t] = l /\ \A u \in Threads \ {t} : th'[u] = Without(th[u], w)
  BY DEF DeleteRow
<1>2. rows' = [rows EXCEPT ![w] = "none"]
  BY DEF DeleteRow
<1>3. \A r \in Rows : rows'[r] = IF r = w THEN "none" ELSE rows[r]
  BY <1>2 DEF RowsOK
<1>4. ASSUME NEW u \in Threads \ {t}
      PROVE  /\ th'[u].pc = th[u].pc /\ th'[u].was = th[u].was /\ th'[u].keys = th[u].keys
             /\ th'[u].bad = th[u].bad /\ th'[u].todo = th[u].todo
             /\ th'[u].set = th[u].set \ {w}
             /\ Spare(th[u]) => Spare(th'[u])
  <2>. DEFINE m == Without(th[u], w)
  <2>1. Whole(th[u])
    BY DEF ThreadsOK, LocalOK
  <2>2. /\ m.pc = th[u].pc /\ m.set = th[u].set \ {w} /\ m.keys = th[u].keys
        /\ m.todo = th[u].todo /\ m.was = th[u].was /\ m.bad = th[u].bad
    BY <2>1, WithoutHas
  <2>3. Spare(th[u]) => Spare(m)
    BY <2>1, <2>2, WithoutSparing DEF Spare
  <2>4. th'[u] = m
    BY <1>1
  <2>. HIDE DEF m
  <2>. QED BY <2>2, <2>3, <2>4
<1>5. Others(t)
  BY <1>3, <1>4 DEF Others
<1>. QED BY <1>1, <1>3, <1>5

LEMMA SparedKept ==
    ASSUME Spared, NEW t \in Threads, Others(t), Spare(th'[t])
    PROVE  Spared'
<1>1. \A u \in Threads : Spare(th'[u])
  BY DEF Spared, Others
<1>2. \A u \in Threads : Spare(th[u])' <=> Spare(th'[u])
  BY DEF Spare, Sparing
<1>. QED BY <1>1, <1>2 DEF Spared

\* No group is new but those somebody was about to add.
LEMMA KnownKept ==
    ASSUME NEW t \in Threads, Others(t), th'[t].keys \subseteq th[t].keys,
           \A r \in Rows : rows'[r] # "none" => rows[r] # "none" \/ Known(r[1])
    PROVE  \A k : Known(k)' => Known(k)
<1>. SUFFICES ASSUME NEW k, Known(k)' PROVE Known(k)
  OBVIOUS
<1>1. CASE RowsOf(k)' # {}
  <2>1. PICK r \in Rows : r[1] = k /\ rows'[r] # "none"
    BY <1>1 DEF RowsOf
  <2>2. rows[r] # "none" => RowsOf(k) # {}
    BY <2>1 DEF RowsOf
  <2>. QED BY <2>1, <2>2 DEF Known
<1>2. CASE \E u \in Threads : k \in th'[u].keys
  <2>1. PICK u \in Threads : k \in th'[u].keys
    BY <1>2
  <2>2. k \in th[u].keys
    BY <2>1 DEF Others
  <2>. QED BY <2>2 DEF Known
<1>. QED BY <1>1, <1>2 DEF Known

\* Nobody begins a delete or has more to undo, and a failure stays.
LEMMA StuckKept ==
    ASSUME NEW t \in Threads, Others(t),
           th'[t].pc \in Deletes => th[t].pc \in Deletes /\ th'[t].set \subseteq th[t].set
    PROVE  \A r : Stuck(r) /\ rows'[r] = "failed" => Stuck(r)'
BY DEF Stuck, Deleting, Others

LEMMA GrowKept ==
    ASSUME Growing, SubOnce, RowsTame, \A k : Known(k)' => Known(k), Past' => Past, Stray', Stored',
           (run'.status = "rendering" \/ \E u \in Threads : th'[u].pc \in Renders)
               => (run.status = "rendering" \/ \E u \in Threads : th[u].pc \in Renders),
           \A u \in Threads : th'[u].pc \in Renders /\ ~th'[u].bad => th[u].pc \in Renders /\ ~th[u].bad
    PROVE  Growing'
<1>1. Rooted'
  BY TameKeeps DEF Growing, Rooted
<1>2. Why'
  BY TameKeeps, PlansAssumption DEF Growing, Why
<1>3. Past' => Told'
  BY ToldKept DEF Growing
<1>4. Retried'
  <2>. SUFFICES ASSUME Known(Main(2))' PROVE \E r \in RowsOf(Main(1))' : Stuck(r)'
    BY DEF Retried
  <2>1. PICK r \in RowsOf(Main(1)) : Stuck(r)
    BY DEF Growing, Retried
  <2>2. r \in Rows /\ Stuck(r)' /\ rows'[r] = "failed" /\ r[1] = Main(1)
    BY <2>1 DEF RowsTame, RowsOf, Stuck
  <2>. QED BY <2>2 DEF RowsOf
<1>5. Answer'
  BY TameKeeps DEF Growing, Answer
<1>6. Sure'
  BY TameKeeps DEF Growing, Sure, Answered
<1>. QED BY <1>1, <1>2, <1>3, <1>4, <1>5, <1>6 DEF Growing

LEMMA SafeKept ==
    ASSUME DoneSafe, \A r \in Rows : rows[r] = "done" => rows'[r] = "done",
           \A k : Known(k)' => Known(k), SaysDone' => SaysDone,
           \A k \in Kinds : saved[k] >= 1 => saved'[k] >= 1
    PROVE  DoneSafe'
<1>1. \A k : Full(k) => Full(k)'
  BY DEF Full, RowsOf
<1>. QED BY <1>1 DEF DoneSafe, Answered

-----------------------------------------------------------------------------
(* Steps that add no group, save nothing and say nothing of the end.       *)

\* A thread that does not come to the stages behind reading.
Modest(l, m) ==
    /\ m.was = "none" /\ m.pc \notin Deletes \cup Renders \cup {"resume", "consolidate"}
    /\ m.keys \subseteq l.keys /\ Spare(m)

StatusQuiet ==
    \/ run'.status = run.status
    \/ /\ run.status \notin {"canceled", "deleted"} /\ run'.status # "done"
       /\ run'.status \in Open => run.status \in Open
       /\ run'.status \in {"consolidating", "rendering"} => run.status \in {"consolidating", "rendering"}
       /\ run'.status = "rendering" => run.status = "rendering"

RowsQuiet(t) == \A r \in Rows :
    \/ rows'[r] = rows[r]
    \/ rows[r] \in ActiveGroup /\ rows'[r] \in {"queued", "running", "failed", "done"}
    \/ /\ rows[r] \in ActiveGroup /\ rows'[r] = "canceled"
       /\ Live' => \E u \in Threads \ {t} : Undoes(u, r)
    \/ rows[r] = "none" /\ rows'[r] = "queued" /\ r[1] \in th[t].keys /\ th[t].pc = "insert"
    \/ rows[r] = "queued" /\ rows'[r] = "none" /\ r[1] \notin SubKeys

Quiet(t) ==
    /\ Others(t) /\ th[t].was = "none" /\ Modest(th[t], th'[t])
    /\ Deciding(t)' => Deciding(t) \/ run.status \in Open
    /\ StatusQuiet /\ RowsQuiet(t) /\ saved' = saved

\* What lies behind reading stays there.
LEMMA PastKept ==
    ASSUME NEW t \in Threads, Others(t), \A k : Known(k)' => Known(k),
           run'.status \in {"consolidating", "rendering"} => run.status \in {"consolidating", "rendering"},
           th'[t].pc \notin {"resume", "consolidate"}
    PROVE  Past' => Past
<1>1. \A u \in Threads : u # t => th'[u].pc = th[u].pc /\ th'[u].was = th[u].was
  BY DEF Others
<1>. QED BY <1>1 DEF Past

LEMMA TurnQuiet ==
    ASSUME Turn, NEW t \in Threads, Quiet(t)
    PROVE  Turn'
<1>1. \A u \in Threads : th[u].was # "none" => u # t
  BY DEF Quiet
<1>2. ~Deleting(t) /\ th[t].pc # "resume" /\ ~Deleting(t)' /\ th'[t].pc # "resume" /\ th'[t].was = "none"
  BY DEF Quiet, Turn, Modest, Deleting
<1>3. \A u \in Threads : u # t => th'[u].pc = th[u].pc /\ th'[u].was = th[u].was
  BY DEF Quiet, Others
<1>4. \A u \in Threads : Deleting(u)' => Deleting(u) /\ u # t
  BY <1>2, <1>3 DEF Deleting
<1>5. \A u \in Threads : th'[u].was # "none" <=> (Deleting(u)' \/ th'[u].pc = "resume")
  BY <1>2, <1>3 DEF Turn, Deleting
<1>6. \A u, v \in Threads : th'[u].was # "none" /\ th'[v].was # "none" => u = v
  BY <1>2, <1>3 DEF Turn
<1>7. ASSUME NEW u \in Threads, Deleting(u)'
      PROVE  /\ run'.status \notin Open
             /\ \A v \in Threads : ~Deciding(v)'
             /\ \A r \in Rows : rows'[r] \in ActiveGroup => r \in th'[u].set
  <2>1. Deleting(u) /\ u # t
    BY <1>4, <1>7
  <2>2. run.status \notin Open /\ \A v \in Threads : ~Deciding(v)
    BY <2>1 DEF Turn
  <2>3. run'.status \notin Open
    BY <2>2 DEF Quiet, StatusQuiet
  <2>4. \A v \in Threads : ~Deciding(v)'
    BY <1>3, <2>2 DEF Quiet, Deciding, Advancing
  <2>5. ASSUME NEW r \in Rows, rows'[r] \in ActiveGroup PROVE r \in th'[u].set
    <3>1. th[t].pc # "insert"
      BY <2>2 DEF Deciding, Advancing, AdvancePcs
    <3>2. rows[r] \in ActiveGroup
      BY <2>5, <3>1 DEF Quiet, RowsQuiet, ActiveGroup
    <3>3. r \in th[u].set
      BY <2>1, <3>2 DEF Turn
    <3>. QED BY <2>1, <2>5, <3>3 DEF Quiet, Others, ActiveGroup
  <2>. QED BY <2>3, <2>4, <2>5
<1>8. \A u \in Threads : th'[u].pc \in Holding => run'.status = "canceled"
  <2>1. \A u \in Threads : th'[u].pc \in Holding => th[u].pc \in Holding
    BY <1>2, <1>3 DEF Deleting, Deletes
  <2>. QED BY <2>1 DEF Turn, Quiet, StatusQuiet
<1>. QED BY <1>5, <1>6, <1>7, <1>8 DEF Turn

LEMMA TameQuiet ==
    ASSUME NEW t \in Threads, Quiet(t)
    PROVE  RowsTame /\ \A k : Known(k)' => Known(k)
<1>1. \A r : Stuck(r) /\ rows'[r] = "failed" => Stuck(r)'
  BY StuckKept DEF Quiet, Modest
<1>2. ASSUME NEW r \in Rows
      PROVE  /\ rows[r] = "done" => rows'[r] = "done"
             /\ rows[r] = "failed" => rows'[r] = "failed"
             /\ SubRow(r) => SubRow(r)'
             /\ rows'[r] = "done" => rows[r] \in {"done"} \cup ActiveGroup
             /\ rows'[r] # "none" => rows[r] # "none" \/ r[1] \in th[t].keys
  BY DEF Quiet, RowsQuiet, SubRow, ActiveGroup
<1>3. RowsTame
  BY <1>1, <1>2 DEF RowsTame, Stuck
<1>4. \A r \in Rows : rows'[r] # "none" => rows[r] # "none" \/ Known(r[1])
  BY <1>2 DEF Known
<1>5. Others(t) /\ th'[t].keys \subseteq th[t].keys
  BY DEF Quiet, Modest
<1>. QED BY <1>3, <1>4, <1>5, KnownKept

LEMMA QuietKeeps ==
    ASSUME Finishing, SubOnce, Live' => Live, NEW t \in Threads, Quiet(t)
    PROVE  Finishing'
<1>1. Turn' /\ RowsTame /\ (\A k : Known(k)' => Known(k))
  BY TurnQuiet, TameQuiet DEF Finishing
<1>2. Others(t) /\ Modest(th[t], th'[t]) /\ StatusQuiet /\ saved' = saved
  BY DEF Quiet
<1>3. Spared'
  BY <1>2, SparedKept DEF Finishing, Modest
<1>4. /\ \A u \in Threads : th'[u].pc \in Holding => th[u].pc \in Holding /\ th'[u].was = th[u].was
      /\ \A u \in Threads : th'[u].pc \in Renders =>
            th[u].pc = th'[u].pc /\ th[u].bad = th'[u].bad /\ th[u].todo = th'[u].todo
  BY <1>2 DEF Others, Modest, Deletes
<1>5. DoneSafe'
  <2>1. SaysDone' => SaysDone
    BY <1>2, <1>4 DEF SaysDone, StatusQuiet
  <2>. QED BY <1>1, <1>2, <2>1, SafeKept DEF Finishing, RowsTame
<1>6. ASSUME Live' PROVE Growing'
  <2>1. Growing
    BY <1>6 DEF Finishing
  <2>2. Past' => Past
    BY <1>1, <1>2, PastKept DEF Modest, StatusQuiet
  <2>3. Stray'
    <3>. SUFFICES ASSUME NEW r \in Rows, rows'[r] = "canceled"
                  PROVE  \E u \in Threads : Undoes(u, r)'
      BY DEF Stray
    <3>1. ASSUME NEW u \in Threads \ {t}, Undoes(u, r) PROVE Undoes(u, r)'
      BY <1>2, <3>1 DEF Others, Undoes
    <3>2. \A u \in Threads : Undoes(u, r) => u # t
      BY DEF Undoes, Quiet
    <3>3. \E u \in Threads \ {t} : Undoes(u, r)
      BY <1>6, <2>1, <3>2 DEF Quiet, RowsQuiet, Growing, Stray
    <3>. QED BY <3>1, <3>3
  <2>4. Stored'
    BY <1>2, <1>4, <2>1 DEF Growing, Stored, Renders
  <2>5. run'.status = "rendering" => run.status = "rendering"
    BY <1>2 DEF StatusQuiet
  <2>6. SubOnce /\ RowsTame /\ \A k : Known(k)' => Known(k)
    BY <1>1
  <2>7. /\ (run'.status = "rendering" \/ \E u \in Threads : th'[u].pc \in Renders)
               => (run.status = "rendering" \/ \E u \in Threads : th[u].pc \in Renders)
        /\ \A u \in Threads : th'[u].pc \in Renders /\ ~th'[u].bad => th[u].pc \in Renders /\ ~th[u].bad
    BY <1>4, <2>5
  <2>. QED BY <2>1, <2>2, <2>3, <2>4, <2>6, <2>7, GrowKept
<1>. QED BY <1>1, <1>3, <1>5, <1>6 DEF Finishing

-----------------------------------------------------------------------------
(* Quiet steps, one kind after the other.                                  *)

LEMMA RestModest ==
    /\ \A l, x : Modest(x, Home(l)) /\ Modest(x, Advance(l)) /\ Modest(x, Idle)
    /\ \A l : Home(l).pc \in Rested /\ Advance(l).pc \in Rested /\ Idle.pc \in Rested
<1>1. ASSUME NEW x, NEW m, m.pc \in Rested, m.was = "none", m.keys = {}
      PROVE  Modest(x, m)
  BY <1>1 DEF Modest, Rested, Deletes, Holding, Renders, Spare
<1>2. Idle.pc \in Rested /\ Idle.was = "none" /\ Idle.keys = {}
  BY DEF Idle, Rested
<1>3. ASSUME NEW l, NEW m, m = Home(l)
      PROVE  m.pc \in Rested /\ m.was = "none" /\ m.keys = {}
  BY <1>3 DEF Idle, Home, Rested
<1>4. ASSUME NEW l, NEW m, m = Advance(l)
      PROVE  m.pc \in Rested /\ m.was = "none" /\ m.keys = {}
  BY <1>4 DEF Idle, Advance, Rested
<1>5. \A l : /\ Home(l).pc \in Rested /\ Home(l).was = "none" /\ Home(l).keys = {}
             /\ Advance(l).pc \in Rested /\ Advance(l).was = "none" /\ Advance(l).keys = {}
  BY <1>3, <1>4
<1>. QED BY <1>1, <1>2, <1>5

LEMMA PlaceModest ==
    ASSUME NEW l, Plain(l), l.was = "none", l.keys \cap SubKeys = {}, NEW x, l.keys \subseteq x.keys,
           NEW pc, pc \notin Deletes \cup Renders \cup Dedupe \cup {"resume", "consolidate"}
    PROVE  Modest(x, [l EXCEPT !.pc = pc]) /\ [l EXCEPT !.pc = pc].pc = pc
<1>. SUFFICES ASSUME NEW m, m = [l EXCEPT !.pc = pc] PROVE Modest(x, m) /\ m.pc = pc
  OBVIOUS
<1>1. m.pc = pc /\ m.keys = l.keys /\ m.was = l.was
  BY PlaceHas
<1>. QED BY <1>1 DEF Modest, Spare, Dedupe

\* Whoever neither resumes nor deletes, and what a place holds.
LEMMA Unheld ==
    ASSUME Finishing, Paying, Typed, NEW t \in Threads, th[t].pc \notin Deletes \cup {"resume"}
    PROVE  th[t].was = "none" /\ Plain(th[t]) /\ th[t].keys \cap SubKeys = {} /\ Whole(th[t])
BY DEF Finishing, Turn, Deleting, Typed, ThreadsOK, LocalOK, Plain, Paying, HandsOK, HandOK

LEMMA QuietLocal ==
    ASSUME ThreadsOK, NEW t \in Threads, NEW m, Local(t, m), th[t].was = "none", Modest(th[t], m),
           m.pc \in Rested \/ Deciding(t) \/ run.status \in Open \/ m.pc \notin AdvancePcs \cup {"enqueue"},
           StatusQuiet, RowsQuiet(t), saved' = saved
    PROVE  Quiet(t)
<1>1. Others(t) /\ th'[t] = m
  BY OthersLocal
<1>2. m.pc \in Rested => ~Deciding(t)'
  BY <1>1 DEF Deciding, Advancing, AdvancePcs, Rested
<1>3. m.pc \notin AdvancePcs \cup {"enqueue"} => ~Deciding(t)'
  BY <1>1 DEF Deciding, Advancing
<1>. QED BY <1>1, <1>2, <1>3 DEF Quiet

LEMMA SameQuiet ==
    /\ run' = run => StatusQuiet
    /\ run' = Touch(run) /\ RunOK => StatusQuiet
    /\ \A t : rows' = rows => RowsQuiet(t)
BY DEF StatusQuiet, RowsQuiet, Touch, RunOK

LEMMA CasQuiet ==
    ASSUME RunOK, NEW from, NEW to, CasStatus(from, to), from \cap {"canceled", "deleted"} = {}, to # "done",
           to \in Open => from \subseteq Open,
           to \in {"consolidating", "rendering"} => from \subseteq {"consolidating", "rendering"},
           to = "rendering" => from = {"rendering"}
    PROVE  StatusQuiet
<1>1. CASE run.status \in from
  <2>1. run'.status = to
    BY <1>1 DEF CasStatus, Touch, RunOK
  <2>. QED BY <1>1, <2>1 DEF StatusQuiet
<1>2. CASE run.status \notin from
  BY <1>2, SameQuiet DEF CasStatus
<1>. QED BY <1>1, <1>2

LEMMA WriteQuiet ==
    ASSUME RowsOK, NEW t, NEW q, NEW status \in {"queued", "running", "failed", "done"},
           rows' = Write(q, status)
    PROVE  RowsQuiet(t)
BY DEF RowsQuiet, RowsOK, Write, StatusOf, ActiveGroup

LEMMA FailQuiet ==
    ASSUME Typed, NEW t \in Threads, NEW q, FailJob(t, q), UNCHANGED rows,
           th[t].was = "none", StatusQuiet, saved' = saved
    PROVE  Quiet(t)
<1>1. PICK pc \in Marks : Local(t, [Idle EXCEPT !.pc = pc, !.row = q])
  BY DEF FailJob, Marks
<1>. DEFINE m == [Idle EXCEPT !.pc = pc, !.row = q]
<1>2. Modest(th[t], m) /\ m.pc \notin AdvancePcs \cup {"enqueue"}
  <2>. SUFFICES ASSUME NEW n, n = m PROVE Modest(th[t], n) /\ n.pc \notin AdvancePcs \cup {"enqueue"}
    OBVIOUS
  <2>1. n.pc = pc /\ n.was = "none" /\ n.keys = {}
    BY DEF Idle
  <2>. QED BY <1>1, <2>1 DEF Marks, Modest, Deletes, Holding, Renders, Spare, AdvancePcs
<1>3. RowsQuiet(t)
  BY SameQuiet
<1>4. Local(t, m)
  BY <1>1
<1>. HIDE DEF m
<1>. QED BY <1>2, <1>3, <1>4, QuietLocal DEF Typed

\* Under a status that has ended, or was never reached, a group is still to be
\* asked for only while a delete holds it.
LEMMA StrayWrite ==
    ASSUME Finishing, Paying, Typed, Live, NEW t \in Threads, th[t].was = "none",
           NEW r \in Rows, rows[r] \in ActiveGroup, run.status \in TerminalRun
    PROVE  \E u \in Threads \ {t} : Undoes(u, r)
<1>1. PICK u \in Threads : th[u].pc \in Holding /\ th[u].was = "over_cap"
  BY DEF Live
<1>2. r \in th[u].set
  BY <1>1 DEF Finishing, Turn, Deleting, Deletes
<1>. QED BY <1>1, <1>2 DEF Undoes

\* A group that runs while the run is planned or rendered.
LEMMA NoneRuns ==
    ASSUME Finishing, Paying, Typed, Live, NEW r \in Rows, rows[r] = "running"
    PROVE  run.status \notin {"splitting", "rendering"}
<1>0. Growing /\ Held /\ SubOnce
  BY DEF Finishing, Paying
<1>1. Known(r[1]) /\ r[1] \in Keys
  BY DEF Known, RowsOf, Rows
<1>2. CASE run.status = "splitting"
  <2>1. AllSubs
    BY <1>0, <1>1 DEF Growing, Rooted
  <2>2. PICK k \in SubKeys : RowsOf(k) # {}
    BY <2>1 DEF AllSubs
  <2>3. \E s \in Rows : SubRow(s)
    BY <2>2 DEF RowsOf, SubRow
  <2>. QED BY <1>0, <1>2, <2>3 DEF SubOnce
<1>3. CASE run.status = "rendering"
  <2>1. Told
    BY <1>0, <1>3 DEF Growing, Past
  <2>2. ASSUME NEW s \in RowsOf(r[1]), rows[s] \in {"done", "failed"} PROVE FALSE
    <3>1. s \in Rows /\ s[1] = r[1] /\ rows[s] \notin {"none", "queued"} /\ r # s
      BY <2>2 DEF RowsOf
    <3>2. CASE r[1] \in SubKeys
      BY <1>0, <3>1, <3>2, OneSub
    <3>3. CASE r[1] \notin SubKeys
      BY <1>0, <3>1, <3>3, OneStarted
    <3>. QED BY <3>2, <3>3
  <2>3. ~Settles(r[1])
    BY <2>2 DEF Settles, Stuck
  <2>4. r[1] \notin SubKeys
    BY <2>1, <2>3 DEF Told
  <2>5. \A c \in Categories : r[1] # RollUp(c)
    BY <1>0, <1>1, <2>1, <2>3 DEF Told, Growing, Why
  <2>6. \A c \in Flagged : r[1] # Escalation(c)
    BY <1>0, <1>1, <2>1, <2>3 DEF Told, Growing, Why
  <2>7. Full(Main(1)) \/ Full(Main(2))
    BY <1>0, <1>3 DEF Growing, Answer
  <2>8. Known(Main(2)) => \E s \in RowsOf(Main(1)) : rows[s] = "failed"
    BY <1>0 DEF Growing, Retried, Stuck
  <2>9. r[1] # Main(1)
    <3>1. Full(Main(2)) => Known(Main(2))
      BY DEF Full, Known
    <3>. QED BY <2>2, <2>7, <2>8, <3>1 DEF Full
  <2>10. r[1] # Main(2)
    <3>. SUFFICES ASSUME r[1] = Main(2) PROVE FALSE
      OBVIOUS
    <3>1. PICK s \in RowsOf(Main(1)) : rows[s] = "failed"
      BY <1>1, <2>8
    <3>2. PICK q \in RowsOf(Main(1)) : rows[q] = "done"
      BY <2>2, <2>7 DEF Full
    <3>3. s \in Rows /\ q \in Rows /\ s[1] = Main(1) /\ q[1] = Main(1) /\ s # q
      BY <3>1, <3>2 DEF RowsOf
    <3>4. s[1] = q[1] /\ s[1] \notin SubKeys
      BY <3>3, KeyCases
    <3>. QED BY <1>0, <3>1, <3>2, <3>3, <3>4, OneStarted
  <2>. QED BY <1>1, <2>4, <2>5, <2>6, <2>9, <2>10, KeyCases
<1>. QED BY <1>2, <1>3

\* A worker's group job.
LEMMA GroupQuiet ==
    ASSUME Finishing, Paying, Typed, Live' => Live, NEW t \in Threads, GroupStep(t)
    PROVE  Quiet(t)
<1>0. ThreadsOK /\ RunOK /\ RowsOK
  BY DEF Typed
<1>u. /\ th[t].was = "none" /\ Plain(th[t]) /\ th[t].keys \cap SubKeys = {}
      /\ th[t].pc \in {"pause", "claim", "build", "call", "finish"} \cup Marks
  <2>1. th[t].pc \in {"pause", "claim", "build", "call", "finish"} \cup Marks
    BY DEF GroupStep, PauseRun, ClaimGroup, Recheck, CallModel, MarkRow, FinishJob, Marking, Marks, At
  <2>. QED BY <2>1, Unheld DEF Deletes, Holding, Marks
<1>h. /\ Modest(th[t], Home(th[t])) /\ Modest(th[t], Advance(th[t])) /\ Modest(th[t], Idle)
      /\ Home(th[t]).pc \in Rested /\ Advance(th[t]).pc \in Rested /\ Idle.pc \in Rested
  BY RestModest
<1>p. ASSUME NEW pc \in {"build", "call"}
      PROVE  /\ Modest(th[t], [th[t] EXCEPT !.pc = pc])
             /\ [th[t] EXCEPT !.pc = pc].pc \notin AdvancePcs \cup {"enqueue"}
  <2>1. /\ pc \notin Deletes \cup Renders \cup Dedupe \cup {"resume", "consolidate"}
        /\ pc \notin AdvancePcs \cup {"enqueue"}
    BY DEF Deletes, Holding, Renders, Dedupe, AdvancePcs
  <2>. QED BY <1>u, <2>1, PlaceModest
<1>1. CASE PauseRun(t)
  <2>1. StatusQuiet
    BY <1>0, <1>1, CasQuiet DEF PauseRun, ActiveRun, Open
  <2>. QED BY <1>0, <1>1, <1>u, <1>h, <2>1, SameQuiet, QuietLocal DEF PauseRun
<1>2. CASE ClaimGroup(t)
  <2>1. RowsQuiet(t) /\ StatusQuiet /\ saved' = saved
    BY <1>0, <1>2, WriteQuiet, SameQuiet DEF ClaimGroup
  <2>2. CASE Local(t, Home(th[t]))
    BY <1>0, <1>u, <1>h, <2>1, <2>2, QuietLocal
  <2>3. CASE Local(t, [th[t] EXCEPT !.pc = "build"])
    BY <1>0, <1>u, <1>p, <2>1, <2>3, QuietLocal
  <2>. QED BY <1>2, <2>2, <2>3 DEF ClaimGroup
<1>3. CASE Recheck(t)
  <2>0. StatusQuiet /\ saved' = saved
    BY <1>3, SameQuiet DEF Recheck
  <2>1. CASE Goto(t, "call") /\ UNCHANGED rows
    <3>1. Local(t, [th[t] EXCEPT !.pc = "call"])
      BY <1>0, <2>1 DEF Goto, Local, ThreadsOK
    <3>. QED BY <1>0, <1>u, <1>p, <2>0, <2>1, <3>1, SameQuiet, QuietLocal
  <2>2. CASE /\ Local(t, Home(th[t])) /\ run.status \notin ActiveRun
             /\ rows' = IF run.status # "over_cap" THEN Write(th[t].row, "canceled")
                        ELSE IF StatusOf(th[t].row) = "running" THEN Write(th[t].row, "queued") ELSE rows
    <3>1. CASE run.status = "over_cap"
      <4>1. RowsQuiet(t)
        BY <1>0, <2>2, <3>1, WriteQuiet, SameQuiet
      <4>. QED BY <1>0, <1>u, <1>h, <2>0, <2>2, <4>1, QuietLocal
    <3>2. CASE run.status # "over_cap"
      <4>. DEFINE r == th[t].row
      <4>1. rows' = Write(r, "canceled")
        BY <2>2, <3>2
      <4>2. \A s \in Rows : rows'[s] = rows[s] \/ (s = r /\ rows[s] \in ActiveGroup /\ rows'[s] = "canceled")
        BY <1>0, <4>1 DEF Write, StatusOf, RowsOK
      <4>3. ASSUME Live', r \in Rows, rows[r] \in ActiveGroup
            PROVE  \E u \in Threads \ {t} : Undoes(u, r)
        <5>1. Live /\ Held
          BY <4>3 DEF Paying
        <5>2. rows[r] = "running"
          BY <1>3, <5>1 DEF Recheck, At, Held, Exist
        <5>3. run.status \notin {"splitting", "rendering", "reading", "consolidating", "over_cap", "deleted"}
          BY <2>2, <3>2, <4>3, <5>1, <5>2, NoneRuns DEF ActiveRun, Live, TerminalRun
        <5>4. run.status \in TerminalRun
          BY <1>0, <5>3 DEF RunOK, RunStatuses, ActiveRun
        <5>. QED BY <1>u, <4>3, <5>1, <5>4, StrayWrite
      <4>4. RowsQuiet(t)
        <5>. HIDE DEF r
        <5>. QED BY <4>2, <4>3 DEF RowsQuiet
      <4>. QED BY <1>0, <1>u, <1>h, <2>0, <2>2, <4>4, QuietLocal
    <3>. QED BY <3>1, <3>2
  <2>. QED BY <1>3, <2>1, <2>2 DEF Recheck
<1>4. CASE CallModel(t)
  <2>1. CASE rows' = Write(th[t].row, "done") /\ Local(t, Advance(th[t])) /\ run' = Touch(run)
    <3>1. RowsQuiet(t) /\ StatusQuiet /\ saved' = saved
      BY <1>0, <1>4, <2>1, WriteQuiet, SameQuiet DEF CallModel
    <3>. QED BY <1>0, <1>u, <1>h, <2>1, <3>1, QuietLocal
  <2>2. CASE FailJob(t, th[t].row) /\ UNCHANGED <<run, rows>>
    <3>1. StatusQuiet /\ saved' = saved
      BY <1>4, <2>2, SameQuiet DEF CallModel
    <3>. QED BY <1>u, <2>2, <3>1, FailQuiet
  <2>. QED BY <1>4, <2>1, <2>2 DEF CallModel
<1>5. CASE FinishJob(t)
  BY <1>0, <1>5, <1>u, <1>h, SameQuiet, QuietLocal DEF FinishJob
<1>6. CASE MarkRow(t)
  <2>1. PICK m : m \in {Idle, Advance(Idle)} /\ Local(t, m)
    BY <1>6 DEF MarkRow
  <2>2. Modest(th[t], m) /\ m.pc \in Rested
    BY <2>1, RestModest
  <2>3. StatusQuiet /\ saved' = saved
    BY <1>6, SameQuiet DEF MarkRow
  <2>4. RowsQuiet(t)
    <3>1. CASE rows' = rows
      BY <3>1, SameQuiet
    <3>2. CASE \E status \in {"queued", "failed"} : rows' = Write(th[t].row, status)
      BY <1>0, <3>2, WriteQuiet
    <3>. QED BY <1>6, <3>1, <3>2 DEF MarkRow
  <2>. QED BY <1>0, <1>u, <2>1, <2>2, <2>3, <2>4, QuietLocal
<1>. QED BY <1>1, <1>2, <1>3, <1>4, <1>5, <1>6 DEF GroupStep

LEMMA TakeQuiet ==
    ASSUME Finishing, Paying, Typed, Live' => Live, NEW t \in Threads, Take(t)
    PROVE  Quiet(t)
<1>0. ThreadsOK /\ RunOK /\ RowsOK
  BY DEF Typed
<1>1. PICK r \in Rows : StartJob(t, r)
  BY DEF Take
<1>. DEFINE l == [Idle EXCEPT !.row = r]
<1>2. th[t].was = "none" /\ StatusQuiet /\ saved' = saved
  <2>1. th[t].pc = "idle"
    BY <1>1 DEF StartJob, At
  <2>. QED BY <1>1, <2>1, Unheld, SameQuiet DEF Deletes, Holding, StartJob
<1>3. ASSUME NEW pc \in {"claim", "pause"}
      PROVE  LET m == [l EXCEPT !.pc = pc] IN Modest(th[t], m) /\ m.pc \notin AdvancePcs \cup {"enqueue"}
  <2>. SUFFICES ASSUME NEW m, m = [l EXCEPT !.pc = pc]
                PROVE  Modest(th[t], m) /\ m.pc \notin AdvancePcs \cup {"enqueue"}
    OBVIOUS
  <2>1. m.pc = pc /\ m.was = "none" /\ m.keys = {}
    BY DEF Idle
  <2>. QED BY <2>1 DEF Modest, Deletes, Holding, Renders, Spare, AdvancePcs
<1>4. PICK m : /\ m \in {[l EXCEPT !.pc = "claim"], [l EXCEPT !.pc = "pause"], Home(l), Advance(l)}
               /\ Local(t, m)
  BY <1>1 DEF StartJob
<1>5. Modest(th[t], m) /\ (m.pc \in Rested \/ m.pc \notin AdvancePcs \cup {"enqueue"})
  <2>. HIDE DEF l
  <2>. QED BY <1>3, <1>4, RestModest
<1>. HIDE DEF l
<1>6. RowsQuiet(t)
  <2>1. CASE rows' = rows \/ rows' = Write(r, "queued")
    BY <1>0, <2>1, WriteQuiet, SameQuiet
  <2>2. CASE rows' = Write(r, "canceled") /\ run.status \in TerminalRun
    <3>1. \A s \in Rows : rows'[s] = rows[s] \/ (s = r /\ rows[s] \in ActiveGroup /\ rows'[s] = "canceled")
      BY <1>0, <2>2 DEF Write, StatusOf, RowsOK
    <3>2. Live' /\ rows[r] \in ActiveGroup => \E u \in Threads \ {t} : Undoes(u, r)
      BY <1>2, <2>2, StrayWrite
    <3>. QED BY <3>1, <3>2 DEF RowsQuiet
  <2>. QED BY <1>1, <2>1, <2>2 DEF StartJob
<1>. QED BY <1>0, <1>2, <1>4, <1>5, <1>6, QuietLocal

\* Another worker's sweep, and a stage that raises.
LEMMA TroubleQuiet ==
    ASSUME Finishing, Paying, Typed, NEW t \in Threads,
           Reap(t) \/ Fault(t) \/ (Crash(t) /\ th[t].was = "none")
    PROVE  Quiet(t)
<1>0. ThreadsOK /\ RunOK
  BY DEF Typed
<1>1. CASE Reap(t)
  <2>1. PICK r \in Rows : Sweep(t, r)
    BY <1>1 DEF Reap
  <2>2. th[t].was = "none"
    BY <2>1, Unheld DEF Sweep, At, Deletes, Holding
  <2>. QED BY <2>1, <2>2, FailQuiet, SameQuiet DEF Sweep
<1>2. CASE Fault(t)
  <2>1. th[t].was = "none"
    BY <1>2, Unheld DEF Fault, AdvancePcs, Deletes, Holding
  <2>2. StatusQuiet /\ saved' = saved
    BY <1>0, <1>2 DEF Fault, StatusQuiet, Touch, RunOK
  <2>3. CASE Local(t, Idle) /\ UNCHANGED job
    BY <1>0, <1>2, <2>1, <2>2, <2>3, RestModest, SameQuiet, QuietLocal DEF Fault
  <2>4. CASE FailJob(t, th[t].row)
    BY <1>2, <2>1, <2>2, <2>4, FailQuiet DEF Fault
  <2>. QED BY <1>2, <2>3, <2>4 DEF Fault
<1>3. CASE Crash(t) /\ th[t].was = "none"
  BY <1>0, <1>3, RestModest, SameQuiet, QuietLocal DEF Crash
<1>. QED BY <1>1, <1>2, <1>3

\* The stages that add no group.
LEMMA StageQuiet ==
    ASSUME Finishing, Paying, Typed, NEW t \in Threads,
           \/ ClaimPlanning(t) \/ Plan(t) \/ Replan(t) \/ FailRun(t) \/ TakeRender(t)
           \/ Consolidate(t) /\ run.status # "reading"
           \/ StartRendering(t) /\ run.status # "consolidating"
           \/ CloseRun(t) /\ (th[t].bad \/ run.status # "rendering")
    PROVE  Quiet(t)
<1>0. ThreadsOK /\ RunOK
  BY DEF Typed
<1>1. th[t].pc \in {"claim_plan", "plan", "replan", "fail_run", "take_render", "consolidate", "render", "save"}
  BY DEF ClaimPlanning, Plan, Replan, FailRun, TakeRender, Consolidate, StartRendering, CloseRun, At
<1>2. th[t].was = "none" /\ Plain(th[t]) /\ th[t].keys \cap SubKeys = {} /\ Deciding(t)
  BY <1>1, Unheld DEF Deletes, Holding, Deciding, Advancing, AdvancePcs
<1>3. /\ Modest(th[t], Home(th[t])) /\ Modest(th[t], Advance(th[t]))
      /\ Modest(th[t], [th[t] EXCEPT !.pc = "plan"]) /\ Modest(th[t], [th[t] EXCEPT !.pc = "insert_subs"])
  <2>1. /\ "plan" \notin Deletes \cup Renders \cup Dedupe \cup {"resume", "consolidate"}
        /\ "insert_subs" \notin Deletes \cup Renders \cup Dedupe \cup {"resume", "consolidate"}
    BY DEF Deletes, Holding, Renders, Dedupe
  <2>. QED BY <1>2, <2>1, RestModest, PlaceModest
<1>4. UNCHANGED <<rows, saved>>
  BY DEF ClaimPlanning, Plan, Replan, FailRun, TakeRender, Consolidate, StartRendering, CloseRun
<1>5. RowsQuiet(t)
  BY <1>4, SameQuiet
<1>6. ASSUME StatusQuiet, NEW m, m \in {Home(th[t]), Advance(th[t]), [th[t] EXCEPT !.pc = "plan"],
                                       [th[t] EXCEPT !.pc = "insert_subs"]}, Local(t, m)
      PROVE  Quiet(t)
  BY <1>0, <1>2, <1>3, <1>4, <1>5, <1>6, QuietLocal
<1>7. CASE ClaimPlanning(t)
  <2>1. StatusQuiet
    BY <1>0, <1>7 DEF ClaimPlanning, StatusQuiet, Touch, RunOK
  <2>2. Goto(t, "plan") => Local(t, [th[t] EXCEPT !.pc = "plan"])
    BY <1>0 DEF Goto, Local, ThreadsOK
  <2>. QED BY <1>6, <1>7, <2>1, <2>2 DEF ClaimPlanning
<1>8. CASE Plan(t)
  <2>1. StatusQuiet
    BY <1>0, <1>8, CasQuiet DEF Plan, Win, Open, ActiveRun
  <2>. QED BY <1>6, <1>8, <2>1 DEF Plan, Win
<1>9. CASE Replan(t)
  <2>1. StatusQuiet
    BY <1>0, <1>9 DEF Replan, StatusQuiet, Touch, RunOK, Open, ActiveRun
  <2>. QED BY <1>6, <1>9, <2>1 DEF Replan
<1>10. CASE FailRun(t)
  <2>1. StatusQuiet
    BY <1>0, <1>10, CasQuiet DEF FailRun, Open, ActiveRun
  <2>. QED BY <1>6, <1>10, <2>1 DEF FailRun
<1>11. CASE TakeRender(t)
  <2>1. StatusQuiet
    BY <1>0, <1>11, CasQuiet, SameQuiet DEF TakeRender, Open, ActiveRun
  <2>. QED BY <1>6, <1>11, <2>1 DEF TakeRender
<1>12. CASE Consolidate(t) /\ run.status # "reading"
  <2>1. StatusQuiet /\ Local(t, Home(th[t]))
    BY <1>12, SameQuiet DEF Consolidate, Win, CasStatus
  <2>. QED BY <1>6, <2>1
<1>13. CASE StartRendering(t) /\ run.status # "consolidating"
  <2>1. StatusQuiet /\ Local(t, Home(th[t]))
    BY <1>13, SameQuiet DEF StartRendering, Win, CasStatus
  <2>. QED BY <1>6, <2>1
<1>14. CASE CloseRun(t) /\ (th[t].bad \/ run.status # "rendering")
  <2>1. CASE run.status # "rendering"
    BY <1>6, <1>14, <2>1, SameQuiet DEF CloseRun, CasStatus
  <2>2. CASE th[t].bad
    <3>1. StatusQuiet
      BY <1>0, <1>14, <2>2, CasQuiet DEF CloseRun, Open, ActiveRun
    <3>. QED BY <1>6, <1>14, <3>1 DEF CloseRun
  <2>. QED BY <1>14, <2>1, <2>2
<1>. QED BY <1>7, <1>8, <1>9, <1>10, <1>11, <1>12, <1>13, <1>14

LEMMA EnqueuingModest ==
    ASSUME NEW l, Plain(l), l.was = "none", l.keys \cap SubKeys = {}, NEW x, l.keys \subseteq x.keys
    PROVE  Modest(x, Enqueuing(l))
<1>1. "enqueue" \notin Deletes \cup Renders \cup Dedupe \cup {"resume", "consolidate"}
  BY DEF Deletes, Holding, Renders, Dedupe
<1>2. Modest(x, [l EXCEPT !.pc = "enqueue"])
  BY <1>1, PlaceModest
<1>. QED BY <1>2, RestModest DEF Enqueuing

LEMMA DedupedModest ==
    ASSUME NEW l, Plain(l), l.was = "none", l.keys \cap SubKeys = {}, NEW x, l.keys \subseteq x.keys,
           Sparing(l.dups)
    PROVE  Modest(x, Deduped(l))
<1>1. CASE \E d \in l.dups : d.lose # {}
  <2>. SUFFICES ASSUME NEW m, m = [l EXCEPT !.pc = "dedupe"] PROVE Modest(x, m)
    BY <1>1 DEF Deduped
  <2>1. m.pc = "dedupe" /\ m.was = l.was /\ m.keys = l.keys /\ m.dups = l.dups
    BY DEF Plain, Whole
  <2>. QED BY <2>1 DEF Modest, Spare, Deletes, Holding, Renders
<1>2. CASE ~ \E d \in l.dups : d.lose # {}
  <2>. DEFINE won == {d.win : d \in {d \in l.dups : d.fresh /\ d.win \in l.set}}
              n == [l EXCEPT !.keys = {}, !.dups = {}, !.set = won]
  <2>1. Deduped(l) = Enqueuing(n)
    BY <1>2 DEF Deduped
  <2>2. won \subseteq l.set
    OBVIOUS
  <2>3. Plain(n) /\ n.keys = {} /\ n.was = l.was
    <3>. SUFFICES ASSUME NEW m, m = n PROVE Plain(m) /\ m.keys = {} /\ m.was = l.was
      OBVIOUS
    <3>. HIDE DEF won
    <3>. QED BY <2>2 DEF Plain, Whole
  <2>. HIDE DEF n, won
  <2>4. n.keys \cap SubKeys = {} /\ n.keys \subseteq x.keys
    BY <2>3
  <2>. QED BY <2>1, <2>3, <2>4, EnqueuingModest
<1>. QED BY <1>1, <1>2

LEMMA QuietDelete ==
    ASSUME Typed, NEW t \in Threads, NEW w \in Rows, NEW m, DeleteRow(t, w, m), rows[w] = "queued",
           w[1] \notin SubKeys, th[t].was = "none", Modest(th[t], m), Deciding(t), UNCHANGED <<run, saved>>
    PROVE  Quiet(t)
<1>1. Others(t) /\ th'[t] = m /\ \A r \in Rows : rows'[r] = IF r = w THEN "none" ELSE rows[r]
  BY OthersDelete DEF Typed
<1>2. RowsQuiet(t)
  BY <1>1 DEF RowsQuiet
<1>. QED BY <1>1, <1>2, SameQuiet DEF Quiet

\* _insert_deduped and _enqueue_groups.
LEMMA InsertQuiet ==
    ASSUME Finishing, Paying, Typed, NEW t \in Threads, Insert(t)
    PROVE  Quiet(t)
<1>0. ThreadsOK /\ th[t].pc = "insert" /\ UNCHANGED <<run, saved>>
  BY DEF Insert, At, Typed
<1>1. /\ th[t].was = "none" /\ Plain(th[t]) /\ th[t].keys \cap SubKeys = {} /\ Deciding(t)
      /\ th[t].keys \subseteq Keys
  BY <1>0, Unheld DEF Plain, Deletes, Holding, Deciding, Advancing, AdvancePcs
<1>2. PICK slot \in [th[t].keys -> 1..Slots] :
        /\ \A k \in th[t].keys : slot[k] \in FreeSlots(k)
        /\ LET new == {<<k, slot[k]>> : k \in th[t].keys} IN
           /\ rows' = [r \in Rows |-> IF r \in new THEN "queued" ELSE rows[r]]
           /\ Local(t, [th[t] EXCEPT !.pc = "read_dups", !.set = new])
  BY DEF Insert
<1>. DEFINE new == {<<k, slot[k]>> : k \in th[t].keys}
            m == [th[t] EXCEPT !.pc = "read_dups", !.set = new]
<1>3. new \subseteq Rows /\ \A r \in new : rows[r] = "none" /\ r[1] \in th[t].keys
  BY <1>1, <1>2, Free DEF Rows
<1>4. rows' = [r \in Rows |-> IF r \in new THEN "queued" ELSE rows[r]] /\ Local(t, m)
  BY <1>2
<1>. HIDE DEF new
<1>5. RowsQuiet(t)
  BY <1>0, <1>3, <1>4 DEF RowsQuiet
<1>6. Modest(th[t], m)
  <2>. SUFFICES ASSUME NEW n, n = m PROVE Modest(th[t], n)
    OBVIOUS
  <2>1. n.pc = "read_dups" /\ n.was = "none" /\ n.keys = th[t].keys
    BY <1>1 DEF Plain, Whole
  <2>. QED BY <2>1 DEF Modest, Spare, Deletes, Holding, Renders
<1>. HIDE DEF m
<1>. QED BY <1>0, <1>1, <1>4, <1>5, <1>6, SameQuiet, QuietLocal

LEMMA ReadDupsQuiet ==
    ASSUME Finishing, Paying, Typed, NEW t \in Threads, ReadDups(t)
    PROVE  Quiet(t)
<1>0. ThreadsOK /\ th[t].pc = "read_dups" /\ UNCHANGED <<run, rows, saved>>
  BY DEF ReadDups, At, Typed
<1>1. th[t].was = "none" /\ Plain(th[t]) /\ th[t].keys \cap SubKeys = {} /\ Deciding(t)
  BY <1>0, Unheld DEF Deletes, Holding, Deciding, Advancing, AdvancePcs
<1>. DEFINE dups == {[win |-> Winner(k), fresh |-> rows[Winner(k)] = "queued",
                      lose |-> {r \in RowsOf(k) \ {Winner(k)} : rows[r] = "queued"}]
                      : k \in {k \in th[t].keys : RowsOf(k) # {}}}
            l == [th[t] EXCEPT !.dups = dups]
            m == Deduped(l)
<1>2. Local(t, m)
  BY DEF ReadDups
<1>3. Sparing(dups)
  <2>1. \A k : RowsOf(k) # {} => Winner(k) \in RowsOf(k)
    BY WinnerIn
  <2>2. \A k : \A r \in RowsOf(k) : r[1] = k
    BY DEF RowsOf
  <2>. QED BY <1>1, <2>1, <2>2 DEF Sparing
<1>. HIDE DEF dups
<1>4. Plain(l) /\ l.was = "none" /\ l.keys = th[t].keys /\ l.dups = dups
  <2>. SUFFICES ASSUME NEW n, n = l
                PROVE  Plain(n) /\ n.was = "none" /\ n.keys = th[t].keys /\ n.dups = dups
    OBVIOUS
  <2>. QED BY <1>1 DEF Plain, Whole
<1>. HIDE DEF l
<1>5. Modest(th[t], m)
  BY <1>1, <1>3, <1>4, DedupedModest
<1>. HIDE DEF m
<1>. QED BY <1>0, <1>1, <1>2, <1>5, SameQuiet, QuietLocal

\* The record of a dedupe, after a row it does not hold has been deleted.
LEMMA GoneModest ==
    ASSUME NEW l, Plain(l), l.was = "none", l.keys \cap SubKeys = {}, NEW x, l.keys \subseteq x.keys,
           Sparing(l.dups), NEW w
    PROVE  Modest(x, Deduped(Without(l, w)))
<1>. DEFINE n == Without(l, w)
<1>1. Whole(l)
  BY DEF Plain
<1>2. Plain(n) /\ n.was = l.was /\ n.keys = l.keys /\ Sparing(n.dups)
  BY <1>1, WithoutOK, WithoutHas, WithoutSparing
<1>. HIDE DEF n
<1>3. Modest(x, Deduped(n))
  BY <1>2, DedupedModest
<1>. QED BY <1>3 DEF n

LEMMA DeleteLoserQuiet ==
    ASSUME Finishing, Paying, Typed, NEW t \in Threads, DeleteLoser(t)
    PROVE  Quiet(t)
<1>0. ThreadsOK /\ th[t].pc = "dedupe" /\ UNCHANGED <<run, saved>>
  BY DEF DeleteLoser, At, Typed
<1>1. th[t].was = "none" /\ Plain(th[t]) /\ th[t].keys \cap SubKeys = {} /\ Deciding(t)
  BY <1>0, Unheld DEF Deletes, Holding, Deciding, Advancing, AdvancePcs
<1>2. Sparing(th[t].dups) /\ \A d \in th[t].dups : d = [win |-> d.win, fresh |-> d.fresh, lose |-> d.lose]
  BY <1>0 DEF Finishing, Spared, Spare, Paying, HandsOK, HandOK
<1>3. PICK d \in th[t].dups : \E r \in d.lose :
        LET l == [th[t] EXCEPT !.dups = (@ \ {d}) \cup {[d EXCEPT !.lose = @ \ {r}]}]
        IN  IF StatusOf(r) = "queued"
            THEN DeleteRow(t, r, Deduped(Without(l, r)))
            ELSE /\ Local(t, IF d.fresh THEN [l EXCEPT !.pc = "delete_winner", !.todo = {r}] ELSE Deduped(l))
                 /\ UNCHANGED <<rows, job>>
  BY DEF DeleteLoser
<1>4. PICK r \in d.lose :
        LET l == [th[t] EXCEPT !.dups = (@ \ {d}) \cup {[d EXCEPT !.lose = @ \ {r}]}]
        IN  IF StatusOf(r) = "queued"
            THEN DeleteRow(t, r, Deduped(Without(l, r)))
            ELSE /\ Local(t, IF d.fresh THEN [l EXCEPT !.pc = "delete_winner", !.todo = {r}] ELSE Deduped(l))
                 /\ UNCHANGED <<rows, job>>
  BY <1>3
<1>. DEFINE e == [d EXCEPT !.lose = @ \ {r}]
            dups == (th[t].dups \ {d}) \cup {e}
            l == [th[t] EXCEPT !.dups = dups]
            w == [l EXCEPT !.pc = "delete_winner", !.todo = {r}]
<1>5. /\ StatusOf(r) = "queued" => DeleteRow(t, r, Deduped(Without(l, r)))
      /\ StatusOf(r) # "queued" => /\ Local(t, w) \/ Local(t, Deduped(l))
                                   /\ UNCHANGED rows
  BY <1>4
<1>6. Sparing(dups)
  <2>1. d = [win |-> d.win, fresh |-> d.fresh, lose |-> d.lose]
    BY <1>2
  <2>2. e.win = d.win /\ e.lose = d.lose \ {r}
    BY <2>1
  <2>. HIDE DEF e
  <2>. QED BY <1>2, <2>2 DEF Sparing
<1>. HIDE DEF dups
<1>7. Plain(l) /\ l.was = "none" /\ l.keys = th[t].keys /\ l.dups = dups
  <2>. SUFFICES ASSUME NEW n, n = l
                PROVE  Plain(n) /\ n.was = "none" /\ n.keys = th[t].keys /\ n.dups = dups
    OBVIOUS
  <2>. QED BY <1>1 DEF Plain, Whole
<1>8. Modest(th[t], w)
  <2>. SUFFICES ASSUME NEW n, n = w PROVE Modest(th[t], n)
    OBVIOUS
  <2>1. n.pc = "delete_winner" /\ n.was = "none" /\ n.keys = th[t].keys /\ n.dups = dups
    BY <1>1 DEF Plain, Whole
  <2>. QED BY <1>6, <2>1 DEF Modest, Spare, Deletes, Holding, Renders
<1>. HIDE DEF w, l
<1>9. CASE StatusOf(r) = "queued"
  <2>. DEFINE m == Deduped(Without(l, r))
  <2>1. r \in Rows /\ rows[r] = "queued" /\ r[1] \notin SubKeys
    BY <1>2, <1>9 DEF StatusOf, Sparing
  <2>2. DeleteRow(t, r, m) /\ Modest(th[t], m)
    BY <1>1, <1>5, <1>6, <1>7, <1>9, GoneModest
  <2>. HIDE DEF m
  <2>. QED BY <1>0, <1>1, <2>1, <2>2, QuietDelete
<1>10. CASE StatusOf(r) # "queued"
  <2>1. Modest(th[t], Deduped(l))
    BY <1>1, <1>6, <1>7, DedupedModest
  <2>. QED BY <1>0, <1>1, <1>5, <1>8, <1>10, <2>1, SameQuiet, QuietLocal
<1>. QED BY <1>9, <1>10

LEMMA DeleteWinnerQuiet ==
    ASSUME Finishing, Paying, Typed, NEW t \in Threads, DeleteWinner(t)
    PROVE  Quiet(t)
<1>0. ThreadsOK /\ th[t].pc = "delete_winner" /\ UNCHANGED <<run, saved>>
  BY DEF DeleteWinner, At, Typed
<1>1. th[t].was = "none" /\ Plain(th[t]) /\ th[t].keys \cap SubKeys = {} /\ Deciding(t)
  BY <1>0, Unheld DEF Deletes, Holding, Deciding, Advancing, AdvancePcs
<1>2. Sparing(th[t].dups) /\ \A d \in th[t].dups : d = [win |-> d.win, fresh |-> d.fresh, lose |-> d.lose]
  BY <1>0 DEF Finishing, Spared, Spare, Paying, HandsOK, HandOK
<1>3. PICK r \in th[t].todo : \E d \in {d \in th[t].dups : d.win[1] = r[1]} :
        LET l == [th[t] EXCEPT !.todo = {}]
            kept == [l EXCEPT !.dups = (@ \ {d}) \cup {[d EXCEPT !.win = r, !.fresh = FALSE]}]
        IN  IF StatusOf(d.win) = "queued"
            THEN DeleteRow(t, d.win, Deduped(Without(kept, d.win)))
            ELSE Local(t, Deduped(l)) /\ UNCHANGED <<rows, job>>
  BY DEF DeleteWinner
<1>4. PICK d \in {d \in th[t].dups : d.win[1] = r[1]} :
        LET l == [th[t] EXCEPT !.todo = {}]
            kept == [l EXCEPT !.dups = (@ \ {d}) \cup {[d EXCEPT !.win = r, !.fresh = FALSE]}]
        IN  IF StatusOf(d.win) = "queued"
            THEN DeleteRow(t, d.win, Deduped(Without(kept, d.win)))
            ELSE Local(t, Deduped(l)) /\ UNCHANGED <<rows, job>>
  BY <1>3
<1>. DEFINE l == [th[t] EXCEPT !.todo = {}]
            e == [d EXCEPT !.win = r, !.fresh = FALSE]
            dups == (l.dups \ {d}) \cup {e}
            kept == [l EXCEPT !.dups = dups]
            w == d.win
<1>5. /\ StatusOf(w) = "queued" => DeleteRow(t, w, Deduped(Without(kept, w)))
      /\ StatusOf(w) # "queued" => Local(t, Deduped(l)) /\ UNCHANGED rows
  BY <1>4
<1>6. d \in th[t].dups /\ w[1] = r[1] /\ w[1] \notin SubKeys
  BY <1>2 DEF Sparing
<1>7. Plain(l) /\ l.was = "none" /\ l.keys = th[t].keys /\ l.dups = th[t].dups
  <2>. SUFFICES ASSUME NEW n, n = l
                PROVE  Plain(n) /\ n.was = "none" /\ n.keys = th[t].keys /\ n.dups = th[t].dups
    OBVIOUS
  <2>. QED BY <1>1 DEF Plain, Whole
<1>. HIDE DEF l
<1>8. Sparing(dups)
  <2>1. d = [win |-> d.win, fresh |-> d.fresh, lose |-> d.lose]
    BY <1>2, <1>6
  <2>2. e.win = r /\ e.lose = d.lose
    BY <2>1
  <2>. HIDE DEF e
  <2>. QED BY <1>2, <1>6, <1>7, <2>2 DEF Sparing
<1>. HIDE DEF dups
<1>9. Plain(kept) /\ kept.was = "none" /\ kept.keys = th[t].keys /\ kept.dups = dups
  <2>. SUFFICES ASSUME NEW n, n = kept
                PROVE  Plain(n) /\ n.was = "none" /\ n.keys = th[t].keys /\ n.dups = dups
    OBVIOUS
  <2>. QED BY <1>7 DEF Plain, Whole
<1>. HIDE DEF kept, w
<1>10. CASE StatusOf(w) = "queued"
  <2>. DEFINE m == Deduped(Without(kept, w))
  <2>1. w \in Rows /\ rows[w] = "queued"
    BY <1>10 DEF StatusOf
  <2>2. DeleteRow(t, w, m) /\ Modest(th[t], m)
    BY <1>1, <1>5, <1>8, <1>9, <1>10, GoneModest
  <2>. HIDE DEF m
  <2>. QED BY <1>0, <1>1, <1>6, <2>1, <2>2, QuietDelete
<1>11. CASE StatusOf(w) # "queued"
  <2>1. Modest(th[t], Deduped(l))
    BY <1>1, <1>2, <1>7, DedupedModest
  <2>. QED BY <1>0, <1>1, <1>5, <1>11, <2>1, SameQuiet, QuietLocal
<1>. QED BY <1>10, <1>11

LEMMA EnqueueQuiet ==
    ASSUME Finishing, Paying, Typed, NEW t \in Threads, Enqueue(t)
    PROVE  Quiet(t)
<1>0. ThreadsOK /\ th[t].pc = "enqueue" /\ UNCHANGED <<run, rows, saved>>
  BY DEF Enqueue, At, Typed
<1>1. th[t].was = "none" /\ Plain(th[t]) /\ th[t].keys \cap SubKeys = {} /\ Deciding(t)
  BY <1>0, Unheld DEF Deletes, Holding, Deciding, Advancing
<1>2. CASE Local(t, Enqueuing(th[t]))
  BY <1>0, <1>1, <1>2, EnqueuingModest, SameQuiet, QuietLocal
<1>3. ASSUME NEW r, Local(t, Enqueuing([th[t] EXCEPT !.set = @ \ {r}])) PROVE Quiet(t)
  <2>. DEFINE n == [th[t] EXCEPT !.set = @ \ {r}]
  <2>1. Plain(n) /\ n.was = "none" /\ n.keys = th[t].keys
    <3>. SUFFICES ASSUME NEW m, m = n PROVE Plain(m) /\ m.was = "none" /\ m.keys = th[t].keys
      OBVIOUS
    <3>. QED BY <1>1 DEF Plain, Whole
  <2>2. Local(t, Enqueuing(n))
    BY <1>3
  <2>. HIDE DEF n
  <2>. QED BY <1>0, <1>1, <2>1, <2>2, EnqueuingModest, SameQuiet, QuietLocal
<1>. QED BY <1>2, <1>3 DEF Enqueue

\* A poll, and a cancel.
LEMMA PollQuiet ==
    ASSUME Finishing, Paying, Typed, NEW t \in Threads, Poll(t)
    PROVE  Quiet(t)
<1>0. ThreadsOK /\ th[t].pc = "idle" /\ UNCHANGED <<run, rows, saved>>
  BY DEF Poll, At, Typed
<1>1. th[t].was = "none"
  BY <1>0, Unheld DEF Deletes, Holding
<1>2. CASE Local(t, Advance(Idle))
  BY <1>0, <1>1, <1>2, RestModest, SameQuiet, QuietLocal
<1>3. CASE Local(t, [Idle EXCEPT !.pc = "enqueue", !.set = Orphans]) /\ run.status \in ActiveRun
  <2>. DEFINE m == [Idle EXCEPT !.pc = "enqueue", !.set = Orphans]
  <2>1. Modest(th[t], m)
    <3>. SUFFICES ASSUME NEW n, n = m PROVE Modest(th[t], n)
      OBVIOUS
    <3>1. n.pc = "enqueue" /\ n.was = "none" /\ n.keys = {}
      BY DEF Idle
    <3>. QED BY <3>1 DEF Modest, Spare, Deletes, Holding, Renders
  <2>2. run.status \in Open /\ Local(t, m)
    BY <1>3 DEF Open
  <2>. HIDE DEF m
  <2>. QED BY <1>0, <1>1, <2>1, <2>2, SameQuiet, QuietLocal
<1>. QED BY <1>2, <1>3 DEF Poll

LEMMA CancelQuiet ==
    ASSUME Finishing, Paying, Typed, Live' => Live, NEW t \in Threads,
           CancelRun(t) \/ CancelGroups(t) \/ CancelJobs(t)
    PROVE  Quiet(t)
<1>0. ThreadsOK /\ RunOK /\ th[t].pc \in {"idle", "cancel_groups", "cancel_jobs"} /\ saved' = saved
  BY DEF CancelRun, CancelGroups, CancelJobs, At, Typed
<1>1. th[t].was = "none" /\ Plain(th[t]) /\ th[t].keys \cap SubKeys = {}
  BY <1>0, Unheld DEF Deletes, Holding
<1>2. CASE CancelRun(t)
  <2>. DEFINE m == [th[t] EXCEPT !.pc = "cancel_groups"]
  <2>1. Local(t, m)
    BY <1>0, <1>2 DEF CancelRun, Goto, Local, ThreadsOK
  <2>2. /\ "cancel_groups" \notin Deletes \cup Renders \cup Dedupe \cup {"resume", "consolidate"}
        /\ "cancel_groups" \notin AdvancePcs \cup {"enqueue"}
    BY DEF Deletes, Holding, Renders, Dedupe, AdvancePcs
  <2>3. Modest(th[t], m) /\ m.pc \notin AdvancePcs \cup {"enqueue"}
    BY <1>1, <2>2, PlaceModest
  <2>. HIDE DEF m
  <2>4. StatusQuiet
    BY <1>0, <1>2, CasQuiet DEF CancelRun, TerminalRun, Open, ActiveRun
  <2>. QED BY <1>0, <1>1, <1>2, <2>1, <2>3, <2>4, SameQuiet, QuietLocal DEF CancelRun
<1>3. CASE CancelGroups(t)
  <2>. DEFINE S == {r \in Rows : rows[r] \in ActiveGroup}
              m == [th[t] EXCEPT !.pc = "cancel_jobs", !.set = S]
  <2>1. Local(t, m)
    BY <1>3 DEF CancelGroups
  <2>. HIDE DEF S
  <2>2. Modest(th[t], m) /\ m.pc \notin AdvancePcs \cup {"enqueue"}
    <3>. SUFFICES ASSUME NEW n, n = m PROVE Modest(th[t], n) /\ n.pc \notin AdvancePcs \cup {"enqueue"}
      OBVIOUS
    <3>1. n.pc = "cancel_jobs" /\ n.was = "none" /\ n.keys = th[t].keys
      BY <1>1 DEF Plain, Whole
    <3>. QED BY <3>1 DEF Modest, Spare, Deletes, Holding, Renders, AdvancePcs
  <2>. HIDE DEF m
  <2>3. ~Live'
    BY <1>3 DEF Paying, CancelPast, Canceling, CancelGroups, At
  <2>4. RowsQuiet(t)
    BY <1>3, <2>3 DEF CancelGroups, RowsQuiet
  <2>. QED BY <1>0, <1>1, <1>3, <2>1, <2>2, <2>4, SameQuiet, QuietLocal DEF CancelGroups
<1>4. CASE CancelJobs(t)
  BY <1>0, <1>1, <1>4, RestModest, SameQuiet, QuietLocal DEF CancelJobs
<1>. QED BY <1>2, <1>3, <1>4

-----------------------------------------------------------------------------
(* A stage decided while the run is open: nobody deletes.                  *)

LEMMA FirstIn ==
    ASSUME NEW k, RowsOf(k) # {}
    PROVE  FirstOf(k) \in RowsOf(k)
<1>1. RowsOf(k) \in SUBSET RowsOf(k)
  OBVIOUS
<1>2. \E r \in RowsOf(k) : \A s \in RowsOf(k) \ {r} : Earlier(r, s)
  BY <1>1, EarliestIn
<1>. QED BY <1>2 DEF FirstOf

\* What an open run tells of its rows.
LEMMA OpenIs ==
    ASSUME Finishing, run.status \in Open
    PROVE  /\ Live /\ Growing /\ ~SaysDone /\ \A u \in Threads : ~Deleting(u)
           /\ \A r \in Rows : rows[r] # "canceled" /\ (rows[r] = "failed" => Stuck(r))
<1>1. \A u \in Threads : ~Deleting(u)
  BY DEF Finishing, Turn
<1>2. Live /\ Growing
  BY DEF Live, Open, ActiveRun, TerminalRun, Finishing
<1>3. ~SaysDone
  BY <1>1 DEF SaysDone, Deleting, Deletes, Open, ActiveRun
<1>4. \A r \in Rows : rows[r] # "canceled"
  BY <1>1, <1>2 DEF Growing, Stray, Undoes, Deleting, Deletes
<1>. QED BY <1>1, <1>2, <1>3, <1>4 DEF Stuck

LEMMA OpenKeeps ==
    ASSUME Finishing, NEW t \in Threads, Others(t), th[t].was = "none", th'[t].was = "none",
           th'[t].pc \notin Deletes \cup {"resume"}, Spare(th'[t]), UNCHANGED rows,
           run.status \in Open, run'.status \in Open
    PROVE  Spared' /\ Turn' /\ DoneSafe' /\ RowsTame /\ Stray'
<1>1. /\ \A u \in Threads : ~Deleting(u)
      /\ \A r \in Rows : rows[r] # "canceled" /\ (rows[r] = "failed" => Stuck(r))
  BY OpenIs
<1>2. \A u \in Threads \ {t} : th'[u].pc = th[u].pc /\ th'[u].was = th[u].was
  BY DEF Others
<1>3. \A u \in Threads : ~Deleting(u)'
  BY <1>1, <1>2 DEF Deleting
<1>4. Turn'
  <2>1. \A u \in Threads : th'[u].was # "none" <=> (Deleting(u)' \/ th'[u].pc = "resume")
    BY <1>1, <1>2, <1>3 DEF Finishing, Turn
  <2>2. \A u, v \in Threads : th'[u].was # "none" /\ th'[v].was # "none" => u = v
    BY <1>2 DEF Finishing, Turn
  <2>. QED BY <1>3, <2>1, <2>2 DEF Turn, Deleting, Deletes
<1>5. ~SaysDone'
  BY <1>3 DEF SaysDone, Deleting, Deletes, Open, ActiveRun
<1>6. RowsTame
  <2>1. \A r : Stuck(r) => Stuck(r)'
    BY <1>3 DEF Stuck
  <2>. QED BY <2>1 DEF RowsTame, SubRow
<1>7. Spared'
  BY SparedKept DEF Finishing
<1>8. Stray'
  BY <1>1 DEF Stray
<1>. QED BY <1>4, <1>5, <1>6, <1>7, <1>8 DEF DoneSafe

LEMMA KnownMore ==
    ASSUME NEW t \in Threads, Others(t), UNCHANGED rows
    PROVE  \A k : Known(k)' => Known(k) \/ k \in th'[t].keys
BY DEF Known, RowsOf, Others

\* Groups that are needed are about to be added.
LEMMA AddKept ==
    ASSUME Growing, RowsTame, NEW N, \A k \in Keys : Known(k)' => Known(k) \/ k \in N,
           N # {} => AllSubs,
           \A c \in Categories : RollUp(c) \in N => Several(c),
           \A c \in Flagged : Escalation(c) \in N => Done(c) # {},
           Main(2) \in N => \E r \in RowsOf(Main(1)) : Stuck(r)
    PROVE  Rooted' /\ Why' /\ Retried'
<1>1. Rooted'
  BY TameKeeps DEF Growing, Rooted
<1>2. Why'
  BY TameKeeps, KeyCases DEF Growing, Why
<1>3. Retried'
  <2>. SUFFICES ASSUME Known(Main(2))' PROVE \E r \in RowsOf(Main(1))' : Stuck(r)'
    BY DEF Retried
  <2>1. PICK r \in RowsOf(Main(1)) : Stuck(r)
    BY KeyCases DEF Growing, Retried
  <2>2. r \in Rows /\ Stuck(r)' /\ rows'[r] = "failed" /\ r[1] = Main(1)
    BY <2>1 DEF RowsTame, RowsOf, Stuck
  <2>. QED BY <2>2 DEF RowsOf
<1>. QED BY <1>1, <1>2, <1>3

\* advance reads the run and goes one of these ways.
LEMMA ReadRunIs ==
    ASSUME NEW t, ReadRun(t)
    PROVE  LET l == [th[t] EXCEPT !.then = "return"] IN \E m :
           /\ Local(t, m)
           /\ \/ m = Home(l)
              \/ /\ run.status \in Open
                 /\ \E pc \in {"claim_plan", "replan", "take_render", "fail_run"} : m = [l EXCEPT !.pc = pc]
              \/ /\ run.status = "reading" /\ RowsIn(SubKeys) # {}
                 /\ \/ Missing # {} /\ m = [l EXCEPT !.pc = "insert", !.keys = Missing]
                    \/ /\ Missing = {} /\ \A r \in Rows : rows[r] \notin ActiveGroup
                       /\ m = [l EXCEPT !.pc = "consolidate"]
              \/ /\ run.status = "consolidating" /\ RowsOf(Main(1)) = {}
                 /\ m = [l EXCEPT !.pc = "insert", !.keys = {Main(1)}]
              \/ /\ run.status = "consolidating" /\ RowsOf(Main(1)) # {}
                 /\ \/ rows[FirstOf(Main(1))] = "done" /\ m = UseMain(l)
                    \/ /\ RowsOf(Main(2)) = {} \/ rows[FirstOf(Main(2))] = "none"
                       /\ rows[FirstOf(Main(1))] \notin ActiveGroup \cup {"done"}
                       /\ m = [l EXCEPT !.pc = "insert", !.keys = {Main(2)}]
                    \/ /\ RowsOf(Main(2)) # {} /\ rows[FirstOf(Main(2))] = "done"
                       /\ m = UseMain(l)
<1>. DEFINE l == [th[t] EXCEPT !.then = "return"]
            first == rows[FirstOf(Main(1))]
            other == rows[FirstOf(Main(2))]
            retry == IF RowsOf(Main(2)) = {} THEN "none" ELSE other
            second == CASE retry = "none" /\ HasLower ->
                              [l EXCEPT !.pc = "insert", !.keys = {Main(2)}]
                       [] retry \in ActiveGroup -> Home(l)
                       [] retry = "done" -> UseMain(l)
                       [] OTHER -> [l EXCEPT !.pc = "fail_run"]
            later == CASE first \in ActiveGroup -> Home(l)
                       [] first = "done" -> UseMain(l)
                       [] OTHER -> second
<1>1. \/ second = Home(l) \/ second = [l EXCEPT !.pc = "fail_run"]
      \/ retry = "none" /\ second = [l EXCEPT !.pc = "insert", !.keys = {Main(2)}]
      \/ retry = "done" /\ second = UseMain(l)
  <2>. HIDE DEF retry
  <2>. QED BY Zenon DEF ActiveGroup
<1>2. ConsolidatingStage(l) =
        IF RowsOf(Main(1)) = {} THEN IF run.old THEN AfterOutputs(l) ELSE Home(l) ELSE later
  BY DEF ConsolidatingStage
<1>3. /\ retry = "none" => RowsOf(Main(2)) = {} \/ other = "none"
      /\ retry = "done" => RowsOf(Main(2)) # {} /\ other = "done"
  OBVIOUS
<1>4. \/ later = Home(l)
      \/ first = "done" /\ later = UseMain(l)
      \/ first \notin ActiveGroup \cup {"done"} /\ later = second
  <2>. HIDE DEF second, first
  <2>. QED BY Zenon DEF ActiveGroup
<1>5. PICK m :
        /\ Local(t, m)
        /\ \/ run.status = "splitting" /\ m = [l EXCEPT !.pc = "claim_plan"]
           \/ run.status = "reading" /\ m = ReadingStage(l)
           \/ run.status = "consolidating" /\ m = ConsolidatingStage(l)
           \/ run.status = "rendering" /\ m = [l EXCEPT !.pc = "take_render"]
           \/ m = Home(l)
  <2>1. Local(t, CASE run.status = "splitting"     -> [l EXCEPT !.pc = "claim_plan"]
                   [] run.status = "reading"       -> ReadingStage(l)
                   [] run.status = "consolidating" -> ConsolidatingStage(l)
                   [] run.status = "rendering" /\ run.old -> [l EXCEPT !.pc = "take_render"]
                   [] OTHER -> Home(l))
    BY DEF ReadRun
  <2>. HIDE DEF l
  <2>. QED BY <2>1, Zenon
<1>6. \/ AfterOutputs(l) = [l EXCEPT !.pc = "insert", !.keys = {Main(1)}]
      \/ AfterOutputs(l) = [l EXCEPT !.pc = "fail_run"]
  BY DEF AfterOutputs
<1>7. \/ ReadingStage(l) = Home(l) \/ ReadingStage(l) = [l EXCEPT !.pc = "replan"]
      \/ /\ RowsIn(SubKeys) # {}
         /\ \/ Missing # {} /\ ReadingStage(l) = [l EXCEPT !.pc = "insert", !.keys = Missing]
            \/ /\ Missing = {} /\ \A r \in Rows : rows[r] \notin ActiveGroup
               /\ ReadingStage(l) = [l EXCEPT !.pc = "consolidate"]
  BY DEF ReadingStage
<1>8. {"splitting", "reading", "consolidating", "rendering"} \subseteq Open
  BY DEF Open, ActiveRun
<1>. HIDE DEF l, first, other, retry, second, later
<1>9. \/ m = Home(l)
      \/ /\ run.status \in Open
         /\ \E pc \in {"claim_plan", "replan", "take_render", "fail_run"} : m = [l EXCEPT !.pc = pc]
      \/ /\ run.status = "reading" /\ RowsIn(SubKeys) # {}
         /\ \/ Missing # {} /\ m = [l EXCEPT !.pc = "insert", !.keys = Missing]
            \/ /\ Missing = {} /\ \A r \in Rows : rows[r] \notin ActiveGroup
               /\ m = [l EXCEPT !.pc = "consolidate"]
      \/ /\ run.status = "consolidating" /\ RowsOf(Main(1)) = {}
         /\ m = [l EXCEPT !.pc = "insert", !.keys = {Main(1)}]
      \/ /\ run.status = "consolidating" /\ RowsOf(Main(1)) # {}
         /\ \/ first = "done" /\ m = UseMain(l)
            \/ /\ RowsOf(Main(2)) = {} \/ other = "none"
               /\ first \notin ActiveGroup \cup {"done"}
               /\ m = [l EXCEPT !.pc = "insert", !.keys = {Main(2)}]
            \/ /\ RowsOf(Main(2)) # {} /\ other = "done"
               /\ m = UseMain(l)
  <2>1. CASE run.status = "splitting" /\ m = [l EXCEPT !.pc = "claim_plan"]
    BY <1>8, <2>1
  <2>2. CASE run.status = "rendering" /\ m = [l EXCEPT !.pc = "take_render"]
    BY <1>8, <2>2
  <2>3. CASE run.status = "reading" /\ m = ReadingStage(l)
    BY <1>7, <1>8, <2>3
  <2>4. CASE run.status = "consolidating" /\ m = ConsolidatingStage(l)
    <3>1. CASE RowsOf(Main(1)) = {}
      BY <1>2, <1>6, <1>8, <2>4, <3>1
    <3>2. CASE RowsOf(Main(1)) # {}
      <4>1. m = later
        BY <1>2, <2>4, <3>2
      <4>. QED BY <1>1, <1>3, <1>4, <1>8, <2>4, <3>2, <4>1
    <3>. QED BY <3>1, <3>2
  <2>. QED BY <1>5, <2>1, <2>2, <2>3, <2>4
<1>. QED BY <1>5, <1>9 DEF l, first, other

\* A thread of an open run goes on with a stage, and adds the groups of N.
LEMMA OpenFinish ==
    ASSUME Finishing, SubOnce, NEW t \in Threads, Others(t), th[t].was = "none", th'[t].was = "none",
           th'[t].pc \notin Deletes \cup {"resume"}, Spare(th'[t]), UNCHANGED rows,
           run.status \in Open, run'.status \in Open,
           NEW N, th'[t].keys \subseteq th[t].keys \cup N,
           N # {} => AllSubs,
           \A c \in Categories : RollUp(c) \in N => Several(c),
           \A c \in Flagged : Escalation(c) \in N => Done(c) # {},
           Main(2) \in N => \E r \in RowsOf(Main(1)) : Stuck(r),
           Past' => Told, Answer', Sure', Stored'
    PROVE  Finishing'
<1>1. Spared' /\ Turn' /\ DoneSafe' /\ RowsTame /\ Stray'
  BY OpenKeeps
<1>2. Growing
  BY OpenIs
<1>3. \A k : Known(k)' => Known(k) \/ k \in N
  <2>1. \A k : k \in th[t].keys => Known(k)
    BY DEF Known
  <2>. QED BY <2>1, KnownMore
<1>4. Rooted' /\ Why' /\ Retried'
  BY <1>1, <1>2, <1>3, AddKept
<1>5. Past' => Told'
  BY <1>1, ToldKept
<1>. QED BY <1>1, <1>4, <1>5 DEF Finishing, Growing

\* The same, by a thread that does not render, while nobody renders or but for
\* the main group.
LEMMA OpenAdds ==
    ASSUME Finishing, SubOnce, NEW t \in Threads, Others(t), th[t].was = "none", th'[t].was = "none",
           th'[t].pc \notin Deletes \cup {"resume"} \cup Renders, Spare(th'[t]), UNCHANGED <<rows, saved>>,
           run.status \in Open, run'.status \in Open \ {"rendering"},
           NEW N, th'[t].keys \subseteq th[t].keys \cup N,
           N # {} => AllSubs,
           \A c \in Categories : RollUp(c) \in N => Several(c),
           \A c \in Flagged : Escalation(c) \in N => Done(c) # {},
           Main(2) \in N => \E r \in RowsOf(Main(1)) : Stuck(r),
           Past' => Told,
           N \subseteq {Main(1)} \/ \A u \in Threads : th[u].pc \notin Renders
    PROVE  Finishing'
<1>1. RowsTame /\ Growing
  BY OpenKeeps, OpenIs
<1>2. \A k : Full(k) => Full(k)'
  BY <1>1, TameKeeps
<1>3. \A u \in Threads : th'[u].pc \in Renders =>
        /\ u # t /\ th[u].pc = th'[u].pc /\ th[u].bad = th'[u].bad /\ th[u].todo = th'[u].todo
  BY DEF Others
<1>4. Answer'
  BY <1>1, <1>2, <1>3 DEF Growing, Answer
<1>5. Sure'
  <2>1. \A k : Known(k)' => Known(k) \/ k \in N
    <3>1. \A k : k \in th[t].keys => Known(k)
      BY DEF Known
    <3>. QED BY <3>1, KnownMore
  <2>2. ASSUME NEW u \in Threads, th'[u].pc \in Renders, ~th'[u].bad PROVE Answered'
    <3>1. Answered
      BY <1>1, <1>3, <2>2 DEF Growing, Sure
    <3>2. N \subseteq {Main(1)}
      BY <1>3, <2>2
    <3>. QED BY <1>2, <2>1, <3>1, <3>2 DEF Answered
  <2>. QED BY <2>2 DEF Sure
<1>6. Stored'
  BY <1>1, <1>3 DEF Growing, Stored, Renders
<1>. QED BY <1>4, <1>5, <1>6, OpenFinish

\* reading and consolidating: a decision that adds groups, or leads on.
LEMMA SubsStand ==
    ASSUME Growing, Told \/ RowsIn(SubKeys) # {}
    PROVE  AllSubs
<1>1. CASE Told
  BY <1>1 DEF Told, AllSubs, Settles
<1>2. CASE RowsIn(SubKeys) # {}
  <2>1. PICK k \in SubKeys : RowsOf(k) # {}
    BY <1>2 DEF RowsIn
  <2>. QED BY <2>1, KeyCases DEF Growing, Rooted, Known
<1>. QED BY <1>1, <1>2

LEMMA MissingIs ==
    ASSUME Growing
    PROVE  /\ \A c \in Categories : RollUp(c) \in Missing => Several(c)
           /\ \A c \in Flagged : Escalation(c) \in Missing => Done(c) # {}
           /\ Main(1) \notin Missing /\ Main(2) \notin Missing
           /\ Told => Missing = {}
<1>1. \A k \in Missing : \/ \E c \in Categories : k = RollUp(c) /\ Cardinality(Done(c)) > 1 /\ RowsOf(k) = {}
                         \/ \E c \in Flagged : k = Escalation(c) /\ Done(c) # {} /\ RowsOf(k) = {}
  BY PlansAssumption DEF Missing
<1>2. \A k \in Missing : \/ \E c \in Categories : k = RollUp(c) /\ Several(c) /\ RowsOf(k) = {}
                         \/ \E c \in Flagged : k = Escalation(c) /\ Done(c) # {} /\ RowsOf(k) = {}
  BY <1>1, SeveralIs
<1>3. Told => Missing = {}
  BY <1>2 DEF Told, Settles
<1>4. /\ \A c \in Categories : RollUp(c) \in Missing => Several(c)
      /\ \A c \in Flagged : Escalation(c) \in Missing => Done(c) # {}
      /\ Main(1) \notin Missing /\ Main(2) \notin Missing
  BY <1>2, KeyCases
<1>. QED BY <1>3, <1>4

\* Nothing is active and nothing is missing: reading is over.
LEMMA ReadingOver ==
    ASSUME Finishing, run.status \in Open, RowsIn(SubKeys) # {}, Missing = {},
           \A r \in Rows : rows[r] \notin ActiveGroup, RowsOK
    PROVE  Told
<1>1. Growing /\ \A r \in Rows : rows[r] # "canceled" /\ (rows[r] = "failed" => Stuck(r))
  BY OpenIs
<1>2. AllSubs
  BY <1>1, SubsStand
<1>3. ASSUME NEW k, RowsOf(k) # {} PROVE Settles(k)
  <2>1. PICK r \in Rows : r \in RowsOf(k) /\ rows[r] # "none"
    BY <1>3 DEF RowsOf
  <2>2. rows[r] \in {"done", "failed"}
    BY <1>1, <2>1 DEF RowsOK, RowStatuses, GroupTerminal, ActiveGroup
  <2>. QED BY <1>1, <2>1, <2>2 DEF Settles
<1>4. \A c \in Categories : Settled(c)
  BY DEF Settled, RowsIn, RowsOf
<1>5. ASSUME NEW c \in Categories, Several(c) PROVE Settles(RollUp(c))
  <2>1. Cardinality(Done(c)) > 1
    BY <1>5, SeveralIs
  <2>2. RowsOf(RollUp(c)) # {}
    BY <1>4, <2>1 DEF Missing
  <2>. QED BY <1>3, <2>2
<1>6. ASSUME NEW c \in Flagged, Done(c) # {} PROVE Settles(Escalation(c))
  <2>1. RowsOf(Escalation(c)) # {}
    BY <1>4, <1>6, PlansAssumption DEF Missing
  <2>. QED BY <1>3, <2>1
<1>. QED BY <1>2, <1>3, <1>5, <1>6 DEF Told, AllSubs

\* A step that reads, and goes home or on to a stage that adds nothing.
LEMMA ReadQuiet ==
    ASSUME Finishing, Paying, Typed, NEW t \in Threads, NEW l, Plain(l), l.was = "none",
           l.keys \cap SubKeys = {}, l.keys \subseteq th[t].keys, NEW m, Local(t, m), th[t].was = "none",
           \/ m = Home(l)
           \/ /\ run.status \in Open
              /\ \E pc \in {"claim_plan", "replan", "take_render", "fail_run"} : m = [l EXCEPT !.pc = pc],
           UNCHANGED <<rows, saved>>, StatusQuiet
    PROVE  Quiet(t)
<1>0. ThreadsOK /\ RowsQuiet(t)
  BY SameQuiet DEF Typed
<1>1. CASE m = Home(l)
  BY <1>0, <1>1, RestModest, QuietLocal
<1>2. CASE run.status \in Open /\ \E pc \in {"claim_plan", "replan", "take_render", "fail_run"} : m = [l EXCEPT !.pc = pc]
  <2>1. PICK pc \in {"claim_plan", "replan", "take_render", "fail_run"} : m = [l EXCEPT !.pc = pc]
    BY <1>2
  <2>2. pc \notin Deletes \cup Renders \cup Dedupe \cup {"resume", "consolidate"}
    BY DEF Deletes, Holding, Renders, Dedupe
  <2>3. Modest(th[t], m)
    BY <2>1, <2>2, PlaceModest
  <2>. QED BY <1>0, <1>2, <2>3, QuietLocal
<1>. QED BY <1>1, <1>2

\* The answer of the main group that is used, and nothing failed but the other.
LEMMA Used ==
    ASSUME Growing, Held, Told, NEW k \in {Main(1), Main(2)}, Full(k),
           \A r \in Rows : rows[r] = "failed" => r[1] \in {Main(1), Main(2)}
    PROVE  Answered
<1>1. ASSUME NEW j, Settles(j), j # Main(1), j # Main(2) PROVE Full(j)
  <2>1. PICK r \in RowsOf(j) : rows[r] = "done" \/ Stuck(r)
    BY <1>1 DEF Settles
  <2>2. r \in Rows /\ r[1] = j
    BY <2>1 DEF RowsOf
  <2>3. rows[r] # "failed"
    BY <1>1, <2>2
  <2>. QED BY <2>1, <2>3 DEF Full, Stuck
<1>2. \A j \in SubKeys : Full(j)
  BY <1>1, KeyCases DEF Told
<1>3. Known(Main(2)) => k = Main(2)
  <2>. SUFFICES ASSUME Known(Main(2)), k = Main(1) PROVE FALSE
    OBVIOUS
  <2>1. PICK r \in RowsOf(Main(1)) : Stuck(r)
    BY DEF Growing, Retried
  <2>2. r \in Rows /\ r[1] = Main(1) /\ rows[r] = "failed"
    BY <2>1 DEF RowsOf, Stuck
  <2>3. PICK s \in Rows : s[1] = Main(1) /\ rows[s] = "done"
    BY DEF Full, RowsOf
  <2>4. r # s /\ r[1] = s[1] /\ r[1] \notin SubKeys
    BY <2>2, <2>3, KeyCases
  <2>. QED BY <2>2, <2>3, <2>4, OneStarted
<1>4. \A c \in Categories : Known(RollUp(c)) => Full(RollUp(c))
  BY <1>1, KeyCases DEF Growing, Why, Told
<1>5. \A c \in Flagged : Known(Escalation(c)) => Full(Escalation(c))
  BY <1>1, KeyCases DEF Growing, Why, Told
<1>6. \A j \in Keys \ {Main(1)} : Known(j) => Full(j)
  BY <1>2, <1>3, <1>4, <1>5, KeyCases
<1>. QED BY <1>2, <1>6 DEF Answered

\* Rendering can begin from the answer of one of the main groups.
LEMMA UseMainKeeps ==
    ASSUME Finishing, Paying, Typed, NEW t \in Threads, NEW l, Plain(l), l.was = "none",
           l.keys \cap SubKeys = {}, l.keys \subseteq th[t].keys, th[t].was = "none",
           run.status = "consolidating", run'.status = run.status, UNCHANGED <<rows, saved>>,
           NEW k \in {Main(1), Main(2)}, Full(k), Local(t, UseMain(l))
    PROVE  Finishing'
<1>. DEFINE bad == \E r \in Rows : rows[r] = "failed" /\ r[1] \notin {Main(1), Main(2)}
            m == [l EXCEPT !.pc = "render", !.bad = bad]
<1>1. Local(t, m)
  BY DEF UseMain
<1>2. bad \in BOOLEAN /\ (~bad => \A r \in Rows : rows[r] = "failed" => r[1] \in {Main(1), Main(2)})
  OBVIOUS
<1>. HIDE DEF bad
<1>3. m.pc = "render" /\ m.was = "none" /\ m.keys = l.keys /\ m.bad = bad
  <2>. SUFFICES ASSUME NEW n, n = m
                PROVE  n.pc = "render" /\ n.was = "none" /\ n.keys = l.keys /\ n.bad = bad
    OBVIOUS
  <2>. QED BY DEF Plain, Whole
<1>. HIDE DEF m
<1>4. Others(t) /\ th'[t] = m
  BY <1>1, OthersLocal DEF Typed
<1>5. run.status \in Open /\ run'.status \in Open
  BY DEF Open, ActiveRun
<1>6. Growing /\ Held /\ Told /\ SubOnce
  <2>1. Live
    BY DEF Live, TerminalRun
  <2>. QED BY <1>5, <2>1, OpenIs DEF Growing, Past, Paying
<1>7. Full(k)'
  BY DEF Full, RowsOf
<1>8. ~bad => Answered
  BY <1>2, <1>6, Used
<1>9. Answered => Answered'
  <2>1. \A j : Full(j) => Full(j)'
    BY DEF Full, RowsOf
  <2>2. \A j : Known(j)' => Known(j)
    BY <1>3, <1>4, KnownMore DEF Known
  <2>. QED BY <2>1, <2>2 DEF Answered
<1>10. \A u \in Threads \ {t} : th'[u].pc = th[u].pc /\ th'[u].bad = th[u].bad /\ th'[u].todo = th[u].todo
  BY <1>4 DEF Others
<1>11. Answer'
  BY <1>7 DEF Answer
<1>12. Sure'
  BY <1>3, <1>4, <1>6, <1>8, <1>9, <1>10 DEF Growing, Sure
<1>13. Stored'
  BY <1>3, <1>4, <1>6, <1>10 DEF Growing, Stored
<1>14. Spare(m) /\ m.pc \notin Deletes \cup {"resume"}
  BY <1>3 DEF Spare, Deletes, Holding
<1>. QED BY <1>3, <1>4, <1>5, <1>6, <1>11, <1>12, <1>13, <1>14, OpenFinish

\* A thread goes on to a stage that does not render, and adds the groups of N.
LEMMA GoesOn ==
    ASSUME Finishing, Paying, Typed, NEW t \in Threads, th[t].was = "none", NEW m, Local(t, m),
           m.was = "none", m.pc \in {"insert", "consolidate", "fail_run"},
           run.status \in Open, run'.status \in Open \ {"rendering"}, UNCHANGED <<rows, saved>>,
           NEW N, m.keys \subseteq th[t].keys \cup N,
           N # {} => AllSubs,
           \A c \in Categories : RollUp(c) \in N => Several(c),
           \A c \in Flagged : Escalation(c) \in N => Done(c) # {},
           Main(2) \in N => \E r \in RowsOf(Main(1)) : Stuck(r),
           Past' => Told,
           N \subseteq {Main(1)} \/ \A u \in Threads : th[u].pc \notin Renders
    PROVE  Finishing'
<1>1. Others(t) /\ th'[t] = m
  BY OthersLocal DEF Typed
<1>2. Spare(m) /\ m.pc \notin Deletes \cup {"resume"} \cup Renders
  BY DEF Spare, Deletes, Holding, Renders
<1>3. SubOnce
  BY DEF Paying
<1>. QED BY <1>1, <1>2, <1>3, OpenAdds

\* An insert that is decided on.
LEMMA ToInsert ==
    ASSUME NEW l, Plain(l), NEW N
    PROVE  LET m == [l EXCEPT !.pc = "insert", !.keys = N] IN
           m.pc = "insert" /\ m.keys = N /\ m.was = l.was
<1>. SUFFICES ASSUME NEW m, m = [l EXCEPT !.pc = "insert", !.keys = N]
              PROVE  m.pc = "insert" /\ m.keys = N /\ m.was = l.was
  OBVIOUS
<1>. QED BY DEF Plain, Whole

\* The groups a settled category lacks: nobody renders yet.
LEMMA MissingKeeps ==
    ASSUME Finishing, Paying, Typed, NEW t \in Threads, th[t].was = "none", th[t].pc = "advance",
           NEW m, Local(t, m),
           m.was = "none", m.pc = "insert", m.keys = Missing, Missing # {}, RowsIn(SubKeys) # {},
           run.status = "reading", run'.status = "reading", UNCHANGED <<rows, saved>>
    PROVE  Finishing'
<1>1. "reading" \in Open \ {"rendering"}
  BY DEF Open, ActiveRun
<1>2. Growing
  BY <1>1, OpenIs
<1>3. /\ \A c \in Categories : RollUp(c) \in Missing => Several(c)
      /\ \A c \in Flagged : Escalation(c) \in Missing => Done(c) # {}
      /\ Main(1) \notin Missing /\ Main(2) \notin Missing
  BY <1>2, MissingIs
<1>4. ~Past
  BY <1>2, MissingIs DEF Growing
<1>5. Others(t) /\ th'[t] = m
  BY OthersLocal DEF Typed
<1>6. ~Past'
  <2>1. \A k : Known(k)' => Known(k) \/ k \in Missing
    BY <1>5, KnownMore
  <2>2. ~Known(Main(1))' /\ ~Known(Main(2))'
    BY <1>3, <1>4, <2>1 DEF Past
  <2>3. \A u \in Threads : ~ \/ th'[u].pc = "consolidate"
                             \/ th'[u].pc = "resume" /\ th'[u].was = "consolidating"
    BY <1>4, <1>5 DEF Past, Others
  <2>. QED BY <2>2, <2>3 DEF Past
<1>7. \A u \in Threads : th[u].pc \notin Renders
  <2>1. ~Full(Main(1)) /\ ~Full(Main(2))
    BY <1>4 DEF Past, Known, Full
  <2>. QED BY <1>2, <2>1 DEF Growing, Answer
<1>8. AllSubs
  BY <1>2, SubsStand
<1>. QED BY <1>1, <1>3, <1>6, <1>7, <1>8, GoesOn

\* The main group failed: its retry.
LEMMA RetryKeeps ==
    ASSUME Finishing, Paying, Typed, NEW t \in Threads, th[t].was = "none",
           NEW m, Local(t, m), m.was = "none", m.pc = "insert", m.keys = {Main(2)},
           run.status = "consolidating", run'.status = "consolidating", UNCHANGED <<rows, saved>>,
           RowsOf(Main(1)) # {}, RowsOf(Main(2)) = {} \/ rows[FirstOf(Main(2))] = "none",
           rows[FirstOf(Main(1))] \notin ActiveGroup \cup {"done"}
    PROVE  Finishing'
<1>1. "consolidating" \in Open \ {"rendering"}
  BY DEF Open, ActiveRun
<1>2. Growing /\ Live /\ \A r \in Rows : rows[r] # "canceled" /\ (rows[r] = "failed" => Stuck(r))
  BY <1>1, OpenIs
<1>3. Held /\ Told
  BY <1>2 DEF Paying, Growing, Past
<1>. DEFINE r == FirstOf(Main(1))
<1>4. r \in RowsOf(Main(1)) /\ r \in Rows /\ r[1] = Main(1) /\ rows[r] # "none"
  BY FirstIn DEF RowsOf
<1>5. rows[r] = "failed" /\ Stuck(r)
  BY <1>2, <1>4 DEF Typed, RowsOK, RowStatuses, GroupTerminal, ActiveGroup
<1>6. RowsOf(Main(2)) = {}
  BY FirstIn DEF RowsOf
<1>. HIDE DEF r
<1>7. ~Full(Main(1)) /\ ~Full(Main(2))
  <2>1. ASSUME NEW q \in RowsOf(Main(1)), rows[q] = "done" PROVE FALSE
    <3>1. q \in Rows /\ q[1] = r[1] /\ q # r /\ r[1] \notin SubKeys
      BY <1>4, <1>5, <2>1, KeyCases DEF RowsOf
    <3>. QED BY <1>3, <1>4, <1>5, <2>1, <3>1, OneStarted
  <2>. QED BY <1>6, <2>1 DEF Full
<1>8. \A u \in Threads : th[u].pc \notin Renders
  BY <1>2, <1>7 DEF Growing, Answer
<1>9. AllSubs
  BY <1>2, <1>3, SubsStand
<1>10. /\ \A c \in Categories : RollUp(c) # Main(2)
       /\ \A c \in Flagged : Escalation(c) # Main(2)
  BY KeyCases
<1>. QED BY <1>1, <1>3, <1>4, <1>5, <1>8, <1>9, <1>10, GoesOn

LEMMA ReadRunKeeps ==
    ASSUME Finishing, Paying, Typed, Live' => Live, NEW t \in Threads, ReadRun(t)
    PROVE  Finishing'
<1>. DEFINE l == [th[t] EXCEPT !.then = "return"]
<1>0. /\ ThreadsOK /\ th[t].pc = "advance" /\ UNCHANGED <<rows, saved>> /\ SubOnce
      /\ run'.status = run.status /\ StatusQuiet
  <2>1. run'.status = run.status
    BY DEF ReadRun, Touch, Typed, RunOK
  <2>. QED BY <2>1 DEF ReadRun, At, Typed, Paying, StatusQuiet
<1>1. th[t].was = "none" /\ Plain(th[t]) /\ th[t].keys \cap SubKeys = {}
  BY <1>0, Unheld DEF Deletes, Holding
<1>2. Plain(l) /\ l.was = "none" /\ l.keys = th[t].keys
  <2>. SUFFICES ASSUME NEW n, n = l PROVE Plain(n) /\ n.was = "none" /\ n.keys = th[t].keys
    OBVIOUS
  <2>. QED BY <1>1 DEF Plain, Whole
<1>3. \E m :
           /\ Local(t, m)
           /\ \/ m = Home(l)
              \/ /\ run.status \in Open
                 /\ \E pc \in {"claim_plan", "replan", "take_render", "fail_run"} : m = [l EXCEPT !.pc = pc]
              \/ /\ run.status = "reading" /\ RowsIn(SubKeys) # {}
                 /\ \/ Missing # {} /\ m = [l EXCEPT !.pc = "insert", !.keys = Missing]
                    \/ /\ Missing = {} /\ \A r \in Rows : rows[r] \notin ActiveGroup
                       /\ m = [l EXCEPT !.pc = "consolidate"]
              \/ /\ run.status = "consolidating" /\ RowsOf(Main(1)) = {}
                 /\ m = [l EXCEPT !.pc = "insert", !.keys = {Main(1)}]
              \/ /\ run.status = "consolidating" /\ RowsOf(Main(1)) # {}
                 /\ \/ rows[FirstOf(Main(1))] = "done" /\ m = UseMain(l)
                    \/ /\ RowsOf(Main(2)) = {} \/ rows[FirstOf(Main(2))] = "none"
                       /\ rows[FirstOf(Main(1))] \notin ActiveGroup \cup {"done"}
                       /\ m = [l EXCEPT !.pc = "insert", !.keys = {Main(2)}]
                    \/ /\ RowsOf(Main(2)) # {} /\ rows[FirstOf(Main(2))] = "done"
                       /\ m = UseMain(l)
  BY ReadRunIs
<1>. HIDE DEF l
<1>4. PICK m :
           /\ Local(t, m)
           /\ \/ m = Home(l)
              \/ /\ run.status \in Open
                 /\ \E pc \in {"claim_plan", "replan", "take_render", "fail_run"} : m = [l EXCEPT !.pc = pc]
              \/ /\ run.status = "reading" /\ RowsIn(SubKeys) # {}
                 /\ \/ Missing # {} /\ m = [l EXCEPT !.pc = "insert", !.keys = Missing]
                    \/ /\ Missing = {} /\ \A r \in Rows : rows[r] \notin ActiveGroup
                       /\ m = [l EXCEPT !.pc = "consolidate"]
              \/ /\ run.status = "consolidating" /\ RowsOf(Main(1)) = {}
                 /\ m = [l EXCEPT !.pc = "insert", !.keys = {Main(1)}]
              \/ /\ run.status = "consolidating" /\ RowsOf(Main(1)) # {}
                 /\ \/ rows[FirstOf(Main(1))] = "done" /\ m = UseMain(l)
                    \/ /\ RowsOf(Main(2)) = {} \/ rows[FirstOf(Main(2))] = "none"
                       /\ rows[FirstOf(Main(1))] \notin ActiveGroup \cup {"done"}
                       /\ m = [l EXCEPT !.pc = "insert", !.keys = {Main(2)}]
                    \/ /\ RowsOf(Main(2)) # {} /\ rows[FirstOf(Main(2))] = "done"
                       /\ m = UseMain(l)
  BY <1>3
<1>a. {"reading", "consolidating"} \subseteq Open \ {"rendering"}
  BY DEF Open, ActiveRun
<1>b. Local(t, m)
  BY <1>4
<1>5. CASE \/ m = Home(l)
           \/ /\ run.status \in Open
              /\ \E pc \in {"claim_plan", "replan", "take_render", "fail_run"} : m = [l EXCEPT !.pc = pc]
  <2>1. Quiet(t)
    BY <1>0, <1>1, <1>2, <1>b, <1>5, ReadQuiet
  <2>. QED BY <1>0, <2>1, QuietKeeps
<1>6. CASE /\ run.status = "reading" /\ RowsIn(SubKeys) # {}
           /\ Missing # {} /\ m = [l EXCEPT !.pc = "insert", !.keys = Missing]
  <2>1. m.pc = "insert" /\ m.keys = Missing /\ m.was = "none"
    BY <1>2, <1>6, ToInsert
  <2>. QED BY <1>0, <1>1, <1>b, <1>6, <2>1, MissingKeeps
<1>7. CASE /\ run.status = "reading" /\ RowsIn(SubKeys) # {} /\ Missing = {}
           /\ m = [l EXCEPT !.pc = "consolidate"]
           /\ \A r \in Rows : rows[r] \notin ActiveGroup
  <2>1. m.pc = "consolidate" /\ m.keys = l.keys /\ m.was = "none"
    <3>1. "consolidate" \notin Dedupe /\ l.keys \cap SubKeys = {}
      BY <1>1, <1>2 DEF Dedupe
    <3>. QED BY <1>2, <1>7, <3>1, PlaceHas
  <2>2. Told
    BY <1>7, <1>a, ReadingOver DEF Typed
  <2>3. run.status \in Open /\ run'.status \in Open \ {"rendering"}
    BY <1>0, <1>a, <1>7
  <2>4. PICK N : N = {}
    OBVIOUS
  <2>5. /\ m.pc \in {"insert", "consolidate", "fail_run"} /\ m.was = "none"
        /\ m.keys \subseteq th[t].keys \cup N
    BY <1>2, <2>1
  <2>6. /\ N # {} => AllSubs
        /\ \A c \in Categories : RollUp(c) \in N => Several(c)
        /\ \A c \in Flagged : Escalation(c) \in N => Done(c) # {}
        /\ Main(2) \in N => \E r \in RowsOf(Main(1)) : Stuck(r)
        /\ N \subseteq {Main(1)}
    BY <2>4
  <2>. QED BY <1>0, <1>1, <1>b, <2>2, <2>3, <2>5, <2>6, GoesOn
<1>8. ASSUME run.status = "consolidating"
      PROVE  Told /\ AllSubs
  BY <1>a, <1>8, OpenIs, SubsStand DEF Growing, Past
<1>9. CASE /\ run.status = "consolidating" /\ RowsOf(Main(1)) = {}
           /\ m = [l EXCEPT !.pc = "insert", !.keys = {Main(1)}]
  <2>1. m.pc = "insert" /\ m.keys = {Main(1)} /\ m.was = "none"
    BY <1>2, <1>9, ToInsert
  <2>2. /\ Main(1) # Main(2)
        /\ \A c \in Categories : RollUp(c) # Main(1)
        /\ \A c \in Flagged : Escalation(c) # Main(1)
    BY KeyCases
  <2>. QED BY <1>0, <1>1, <1>a, <1>b, <1>8, <1>9, <2>1, <2>2, GoesOn
<1>10. ASSUME run.status = "consolidating", NEW k \in {Main(1), Main(2)}, RowsOf(k) # {},
              rows[FirstOf(k)] = "done", m = UseMain(l)
       PROVE  Finishing'
  <2>1. Full(k)
    BY <1>10, FirstIn DEF Full
  <2>. QED BY <1>0, <1>1, <1>2, <1>b, <1>10, <2>1, UseMainKeeps
<1>11. CASE /\ run.status = "consolidating" /\ RowsOf(Main(1)) # {}
            /\ RowsOf(Main(2)) = {} \/ rows[FirstOf(Main(2))] = "none"
            /\ rows[FirstOf(Main(1))] \notin ActiveGroup \cup {"done"}
            /\ m = [l EXCEPT !.pc = "insert", !.keys = {Main(2)}]
  <2>1. m.pc = "insert" /\ m.keys = {Main(2)} /\ m.was = "none"
    BY <1>2, <1>11, ToInsert
  <2>. QED BY <1>0, <1>1, <1>b, <1>11, <2>1, RetryKeeps
<1>. QED BY <1>4, <1>5, <1>6, <1>7, <1>9, <1>10, <1>11

-----------------------------------------------------------------------------
(* The steps from the end of reading to the end of the run.                *)

LEMMA ConsolidateKeeps ==
    ASSUME Finishing, Paying, Typed, Live' => Live, NEW t \in Threads, Consolidate(t)
    PROVE  Finishing'
<1>0. ThreadsOK /\ RunOK /\ SubOnce /\ th[t].pc = "consolidate" /\ UNCHANGED <<rows, saved>>
  BY DEF Consolidate, At, Typed, Paying
<1>1. th[t].was = "none" /\ Plain(th[t]) /\ th[t].keys \cap SubKeys = {}
  BY <1>0, Unheld DEF Deletes, Holding
<1>2. CASE run.status # "reading"
  <2>1. Quiet(t)
    BY <1>2, StageQuiet
  <2>. QED BY <1>0, <2>1, QuietKeeps
<1>3. CASE run.status = "reading"
  <2>1. run'.status = "consolidating" /\ Local(t, AfterOutputs(th[t]))
    BY <1>0, <1>3 DEF Consolidate, Win, CasStatus, Touch, RunOK
  <2>2. {"reading", "consolidating"} \subseteq Open \ {"rendering"}
    BY DEF Open, ActiveRun
  <2>3. Told /\ AllSubs
    BY <1>0, <1>3, <2>2, OpenIs, SubsStand DEF Growing, Past
  <2>4. CASE Local(t, [th[t] EXCEPT !.pc = "insert", !.keys = {Main(1)}])
    <3>. DEFINE m == [th[t] EXCEPT !.pc = "insert", !.keys = {Main(1)}]
    <3>1. m.pc = "insert" /\ m.keys = {Main(1)} /\ m.was = "none" /\ Local(t, m)
      BY <1>1, <2>4, ToInsert
    <3>2. /\ Main(1) # Main(2)
          /\ \A c \in Categories : RollUp(c) # Main(1)
          /\ \A c \in Flagged : Escalation(c) # Main(1)
      BY KeyCases
    <3>. HIDE DEF m
    <3>. QED BY <1>0, <1>1, <1>3, <2>1, <2>2, <2>3, <3>1, <3>2, GoesOn
  <2>5. CASE Local(t, [th[t] EXCEPT !.pc = "fail_run"])
    <3>. DEFINE m == [th[t] EXCEPT !.pc = "fail_run"]
    <3>1. m.pc = "fail_run" /\ m.keys = th[t].keys /\ m.was = "none" /\ Local(t, m)
      <4>1. "fail_run" \notin Dedupe
        BY DEF Dedupe
      <4>. QED BY <1>1, <2>5, <4>1, PlaceHas
    <3>. HIDE DEF m
    <3>. QED BY <1>0, <1>1, <1>3, <2>1, <2>2, <2>3, <3>1, GoesOn
  <2>. QED BY <2>1, <2>4, <2>5 DEF AfterOutputs
<1>. QED BY <1>2, <1>3

LEMMA StartRenderingKeeps ==
    ASSUME Finishing, Paying, Typed, Live' => Live, NEW t \in Threads, StartRendering(t)
    PROVE  Finishing'
<1>0. ThreadsOK /\ RunOK /\ SubOnce /\ th[t].pc = "render" /\ UNCHANGED <<rows, saved>>
  BY DEF StartRendering, At, Typed, Paying
<1>1. th[t].was = "none" /\ Plain(th[t]) /\ th[t].keys \cap SubKeys = {}
  BY <1>0, Unheld DEF Deletes, Holding
<1>2. CASE run.status # "consolidating"
  <2>1. Quiet(t)
    BY <1>2, StageQuiet
  <2>. QED BY <1>0, <2>1, QuietKeeps
<1>3. CASE run.status = "consolidating"
  <2>. DEFINE todo == {k \in Kinds : saved[k] = 0}
              m == [th[t] EXCEPT !.pc = "save", !.todo = todo]
  <2>1. run'.status = "rendering" /\ Local(t, m)
    BY <1>0, <1>3 DEF StartRendering, Win, CasStatus, Touch, RunOK
  <2>2. \A k \in Kinds : k \in todo \/ saved[k] >= 1
    BY DEF Typed, StoreOK
  <2>. HIDE DEF todo
  <2>3. /\ m.pc = "save" /\ m.todo = todo /\ m.was = "none" /\ m.keys = th[t].keys
        /\ m.bad = th[t].bad
    <3>. SUFFICES ASSUME NEW n, n = m
                  PROVE  /\ n.pc = "save" /\ n.todo = todo /\ n.was = "none" /\ n.keys = th[t].keys
                         /\ n.bad = th[t].bad
      OBVIOUS
    <3>. QED BY <1>1 DEF Plain, Whole
  <2>. HIDE DEF m
  <2>4. Others(t) /\ th'[t] = m
    BY <1>0, <2>1, OthersLocal
  <2>5. run.status \in Open /\ run'.status \in Open
    BY <1>3, <2>1 DEF Open, ActiveRun
  <2>6. Growing /\ Told
    BY <1>3, <2>5, OpenIs DEF Growing, Past
  <2>7. \A u \in Threads \ {t} : th'[u].pc = th[u].pc /\ th'[u].bad = th[u].bad /\ th'[u].todo = th[u].todo
    BY <2>4 DEF Others
  <2>8. \A k : Full(k) => Full(k)'
    BY <1>0 DEF Full, RowsOf
  <2>9. Answered => Answered'
    <3>1. \A j : Known(j)' => Known(j)
      BY <1>0, <2>3, <2>4, KnownMore DEF Known
    <3>. QED BY <2>8, <3>1 DEF Answered
  <2>10. Answer'
    BY <1>0, <2>6, <2>8 DEF Growing, Answer, Renders
  <2>11. Sure'
    BY <1>0, <2>3, <2>4, <2>6, <2>7, <2>9 DEF Growing, Sure, Renders
  <2>12. Stored'
    BY <1>0, <2>2, <2>3, <2>4, <2>6, <2>7 DEF Growing, Stored
  <2>13. Spare(m) /\ m.pc \notin Deletes \cup {"resume"}
    BY <2>3 DEF Spare, Deletes, Holding
  <2>. QED BY <1>0, <1>1, <2>3, <2>4, <2>5, <2>6, <2>10, <2>11, <2>12, <2>13, OpenFinish
<1>. QED BY <1>2, <1>3

\* Nobody moves, no row and no status changes.
LEMMA SameKeeps ==
    ASSUME Finishing, SubOnce,
           \A u \in Threads : /\ th'[u].pc = th[u].pc /\ th'[u].was = th[u].was /\ th'[u].set = th[u].set
                              /\ th'[u].keys = th[u].keys /\ th'[u].dups = th[u].dups
                              /\ ~th'[u].bad => ~th[u].bad,
           rows' = rows, run'.status = run.status,
           \A k \in Kinds : saved[k] >= 1 => saved'[k] >= 1,
           Growing => Stored'
    PROVE  Finishing'
<1>1. \A u \in Threads : Deleting(u)' <=> Deleting(u)
  BY DEF Deleting
<1>2. \A k : Known(k)' => Known(k)
  BY DEF Known, RowsOf
<1>3. Spared'
  BY DEF Finishing, Spared, Spare, Sparing
<1>4. Turn'
  BY <1>1 DEF Finishing, Turn, Deciding, Advancing
<1>5. DoneSafe'
  <2>1. SaysDone' => SaysDone
    BY DEF SaysDone
  <2>. QED BY <1>2, <2>1, SafeKept DEF Finishing
<1>6. ASSUME Live' PROVE Growing'
  <2>1. Growing
    BY <1>6 DEF Finishing, Live
  <2>2. RowsTame
    <3>1. \A r : Stuck(r) => Stuck(r)'
      BY <1>1 DEF Stuck
    <3>. QED BY <3>1 DEF RowsTame, SubRow
  <2>3. Past' => Past
    BY <1>2 DEF Past
  <2>4. Stray'
    BY <2>1 DEF Growing, Stray, Undoes
  <2>5. /\ (run'.status = "rendering" \/ \E u \in Threads : th'[u].pc \in Renders)
               => (run.status = "rendering" \/ \E u \in Threads : th[u].pc \in Renders)
        /\ \A u \in Threads : th'[u].pc \in Renders /\ ~th'[u].bad => th[u].pc \in Renders /\ ~th[u].bad
    OBVIOUS
  <2>. QED BY <1>2, <2>1, <2>2, <2>3, <2>4, <2>5, GrowKept
<1>. QED BY <1>3, <1>4, <1>5, <1>6 DEF Finishing

LEMMA SaveDone ==
    ASSUME Finishing, Paying, Typed, NEW t \in Threads, Save(t)
    PROVE  Finishing'
<1>. DEFINE k == Min(th[t].todo)
            left == th[t].todo \ {k}
            good == [th[t] EXCEPT !.todo = left]
            poor == [th[t] EXCEPT !.todo = left, !.bad = TRUE]
<1>0. /\ ThreadsOK /\ RunOK /\ SubOnce /\ th[t].pc = "save" /\ rows' = rows /\ Whole(th[t])
      /\ th[t].todo # {} /\ th[t].todo \subseteq Kinds /\ saved \in [Kinds -> Nat]
      /\ run'.status = run.status
  BY DEF Save, At, Typed, Paying, ThreadsOK, LocalOK, StoreOK, Touch, RunOK
<1>1. k \in th[t].todo
  <2>1. th[t].todo \subseteq Nat
    BY <1>0, PlansAssumption
  <2>. QED BY <1>0, <2>1, MinIn
<1>2. \/ saved' = [saved EXCEPT ![k] = @ + 1] /\ Local(t, good)
      \/ saved' = saved /\ Local(t, poor)
  BY DEF Save
<1>. HIDE DEF k
<1>3. \A j \in Kinds : saved[j] >= 1 => saved'[j] >= 1
  BY <1>0, <1>1, <1>2
<1>4. PICK m : /\ Local(t, m)
               /\ \/ saved' = [saved EXCEPT ![k] = @ + 1] /\ m = good
                  \/ m = poor
  BY <1>2
<1>5. /\ m.pc = "save" /\ m.was = th[t].was /\ m.set = th[t].set /\ m.keys = th[t].keys
      /\ m.dups = th[t].dups /\ m.todo = left
      /\ ~m.bad => ~th[t].bad /\ saved' = [saved EXCEPT ![k] = @ + 1]
  <2>. HIDE DEF left
  <2>1. CASE saved' = [saved EXCEPT ![k] = @ + 1] /\ m = good
    BY <1>0, <2>1 DEF Whole
  <2>2. CASE m = poor
    BY <1>0, <2>2 DEF Whole
  <2>. QED BY <1>4, <2>1, <2>2
<1>. HIDE DEF good, poor
<1>6. th'[t] = m /\ \A u \in Threads \ {t} : th'[u] = th[u]
  BY <1>0, <1>4, Put DEF ThreadsOK
<1>7. ASSUME Growing PROVE Stored'
  <2>. SUFFICES ASSUME NEW u \in Threads, th'[u].pc = "save", ~th'[u].bad, NEW j \in Kinds
                PROVE  j \in th'[u].todo \/ saved'[j] >= 1
    BY DEF Stored
  <2>1. CASE u # t
    BY <1>3, <1>6, <1>7, <2>1 DEF Growing, Stored
  <2>2. CASE u = t
    <3>1. ~th[t].bad /\ saved' = [saved EXCEPT ![k] = @ + 1]
      BY <1>5, <1>6, <2>2
    <3>2. j \in th[t].todo \/ saved[j] >= 1
      BY <1>0, <1>7, <3>1 DEF Growing, Stored
    <3>3. j = k => saved'[j] >= 1
      BY <1>0, <3>1
    <3>. QED BY <1>3, <1>5, <1>6, <2>2, <3>2, <3>3
  <2>. QED BY <2>1, <2>2
<1>8. \A u \in Threads : /\ th'[u].pc = th[u].pc /\ th'[u].was = th[u].was /\ th'[u].set = th[u].set
                         /\ th'[u].keys = th[u].keys /\ th'[u].dups = th[u].dups
                         /\ ~th'[u].bad => ~th[u].bad
  BY <1>0, <1>5, <1>6
<1>. QED BY <1>0, <1>3, <1>7, <1>8, SameKeeps

\* The run says done: every group has been answered, and every deliverable saved.
LEMMA CloseRunKeeps ==
    ASSUME Finishing, Paying, Typed, Live' => Live, NEW t \in Threads, CloseRun(t)
    PROVE  Finishing'
<1>0. /\ ThreadsOK /\ RunOK /\ SubOnce /\ th[t].pc = "save" /\ th[t].todo = {}
      /\ UNCHANGED <<rows, saved>> /\ Local(t, Home(th[t]))
  BY DEF CloseRun, At, Typed, Paying
<1>1. CASE th[t].bad \/ run.status # "rendering"
  <2>1. Quiet(t)
    BY <1>1, StageQuiet
  <2>. QED BY <1>0, <2>1, QuietKeeps
<1>2. CASE ~th[t].bad /\ run.status = "rendering"
  <2>1. run'.status = "done"
    BY <1>0, <1>2 DEF CloseRun, CasStatus, Touch, RunOK
  <2>2. run.status \in Open
    BY <1>2 DEF Open
  <2>3. Growing /\ \A u \in Threads : ~Deleting(u)
    BY <2>2, OpenIs
  <2>4. Others(t) /\ th'[t] = Home(th[t])
    BY <1>0, OthersLocal
  <2>5. Modest(th[t], th'[t])
    BY <2>4, RestModest
  <2>6. \A u \in Threads \ {t} : th'[u].pc = th[u].pc /\ th'[u].was = th[u].was
    BY <2>4 DEF Others
  <2>7. \A u \in Threads : ~Deleting(u)'
    BY <2>3, <2>5, <2>6 DEF Deleting, Modest
  <2>8. Spared'
    BY <2>4, <2>5, SparedKept DEF Finishing, Modest
  <2>9. Turn'
    <3>1. \A u \in Threads : th'[u].was # "none" <=> (Deleting(u)' \/ th'[u].pc = "resume")
      BY <2>3, <2>5, <2>6, <2>7 DEF Finishing, Turn, Modest
    <3>2. \A u, v \in Threads : th'[u].was # "none" /\ th'[v].was # "none" => u = v
      BY <2>5, <2>6 DEF Finishing, Turn, Modest
    <3>. QED BY <2>7, <3>1, <3>2 DEF Turn, Deleting, Deletes
  <2>10. Answered'
    <3>1. Answered
      BY <1>0, <1>2, <2>3 DEF Growing, Sure, Renders
    <3>2. \A k : Full(k) => Full(k)'
      BY <1>0 DEF Full, RowsOf
    <3>3. \A k : Known(k)' => Known(k)
      BY <1>0, <2>4, <2>5, KnownMore DEF Known, Modest
    <3>. QED BY <3>1, <3>2, <3>3 DEF Answered
  <2>11. \A k \in Kinds : saved'[k] >= 1
    BY <1>0, <1>2, <2>3 DEF Growing, Stored
  <2>12. ~Live'
    BY <2>1 DEF Live, TerminalRun
  <2>. QED BY <2>8, <2>9, <2>10, <2>11, <2>12 DEF Finishing, DoneSafe
<1>. QED BY <1>1, <1>2

\* The plan's groups are the first.
LEMMA InsertSubsKeeps ==
    ASSUME Finishing, Paying, Typed, Live' => Live, NEW t \in Threads, InsertSubs(t)
    PROVE  Finishing'
<1>. DEFINE row(k) == <<k, Min(FreeSlots(k))>>
            new == {row(k) : k \in SubKeys}
            m == [th[t] EXCEPT !.pc = "enqueue", !.set = new]
<1>0. ThreadsOK /\ th[t].pc = "insert_subs" /\ UNCHANGED <<run, saved>>
  BY DEF InsertSubs, At, Typed
<1>1. th[t].was = "none" /\ Plain(th[t]) /\ Deciding(t)
  BY <1>0, Unheld DEF Deletes, Holding, Deciding, Advancing, AdvancePcs
<1>2. Local(t, m) /\ rows' = [r \in Rows |-> IF r \in new THEN "queued" ELSE rows[r]]
  BY DEF InsertSubs
<1>3. /\ \A r \in new : r[1] \in SubKeys
      /\ \A k \in SubKeys : \E r \in new : r[1] = k /\ r \in Rows
  <2>1. ASSUME NEW k \in SubKeys PROVE row(k) \in Rows
    <3>1. Min(FreeSlots(k)) \in FreeSlots(k)
      BY FirstFree DEF InsertSubs
    <3>2. Min(FreeSlots(k)) \in 1..Slots /\ k \in Keys
      BY <3>1 DEF FreeSlots, Keys
    <3>. QED BY <3>2 DEF Rows
  <2>2. \A k : row(k)[1] = k
    OBVIOUS
  <2>. HIDE DEF row
  <2>. QED BY <2>1, <2>2
<1>. HIDE DEF new
<1>4. m.pc = "enqueue" /\ m.was = "none" /\ m.keys = th[t].keys
  <2>. SUFFICES ASSUME NEW n, n = m PROVE n.pc = "enqueue" /\ n.was = "none" /\ n.keys = th[t].keys
    OBVIOUS
  <2>. QED BY <1>1 DEF Plain, Whole
<1>. HIDE DEF m
<1>5. Others(t) /\ th'[t] = m
  BY <1>0, <1>2, OthersLocal
<1>6. \A r \in Rows : ~SubRow(r)
  BY <1>0 DEF Paying, SubOnce
<1>7. \A k \in SubKeys : RowsOf(k) = {}
  BY <1>6 DEF RowsOf, SubRow
<1>8. \A u \in Threads \ {t} : /\ th'[u].pc = th[u].pc /\ th'[u].was = th[u].was /\ th'[u].keys = th[u].keys
                               /\ th'[u].bad = th[u].bad /\ th'[u].todo = th[u].todo
  BY <1>5 DEF Others
<1>9. \A u \in Threads : ~Deleting(u) /\ ~Deleting(u)'
  BY <1>1, <1>4, <1>5, <1>8 DEF Finishing, Turn, Deleting, Deletes, Holding
<1>10. Spared'
  <2>1. Spare(m)
    BY <1>4 DEF Spare
  <2>. QED BY <1>5, <2>1, SparedKept DEF Finishing
<1>11. Turn'
  <2>1. \A u \in Threads : th'[u].was # "none" <=> (Deleting(u)' \/ th'[u].pc = "resume")
    BY <1>4, <1>5, <1>8, <1>9 DEF Finishing, Turn
  <2>2. \A u, v \in Threads : th'[u].was # "none" /\ th'[v].was # "none" => u = v
    BY <1>4, <1>5, <1>8 DEF Finishing, Turn
  <2>. QED BY <1>9, <2>1, <2>2 DEF Turn, Deleting, Deletes
<1>12. \A k : Known(k)' => Known(k) \/ k \in SubKeys
  <2>1. \A k : (\E u \in Threads : k \in th'[u].keys) => Known(k)
    BY <1>4, <1>5, <1>8 DEF Known
  <2>2. ASSUME NEW k, RowsOf(k)' # {} PROVE Known(k) \/ k \in SubKeys
    <3>1. PICK r \in Rows : r[1] = k /\ rows'[r] # "none"
      BY <2>2 DEF RowsOf
    <3>2. CASE r \in new
      BY <1>3, <3>1, <3>2
    <3>3. CASE r \notin new
      BY <1>2, <3>1, <3>3 DEF Known, RowsOf
    <3>. QED BY <3>2, <3>3
  <2>. QED BY <2>1, <2>2 DEF Known
<1>13. \A r \in Rows : rows[r] = "done" => rows'[r] = "done"
  <2>1. \A r \in new : r \in Rows => rows[r] = "none"
    BY <1>3, <1>6 DEF SubRow
  <2>. QED BY <1>2, <2>1
<1>14. DoneSafe'
  <2>1. SaysDone' => SaysDone
    BY <1>0, <1>9 DEF SaysDone, Deleting, Deletes
  <2>2. SaysDone => SubKeys = {}
    BY <1>7 DEF Finishing, DoneSafe, Answered, Full
  <2>. QED BY <1>0, <1>12, <1>13, <2>1, <2>2, SafeKept DEF Finishing, DoneSafe
<1>15. ASSUME Live' PROVE Growing'
  <2>1. Growing
    BY <1>15 DEF Finishing
  <2>2. \A k \in Keys : ~Known(k)
    BY <1>7, <2>1 DEF Growing, Rooted, AllSubs
  <2>3. ~Told
    BY <1>7 DEF Told, Settles
  <2>4. ~Full(Main(1)) /\ ~Full(Main(2)) /\ ~Known(Main(1)) /\ ~Known(Main(2))
    BY <2>2, KeyCases DEF Full, Known
  <2>5. \A k \in SubKeys : RowsOf(k)' # {}
    BY <1>2, <1>3 DEF RowsOf
  <2>6. \A k \in Keys : Known(k)' => k \in SubKeys
    BY <1>12, <2>2
  <2>7. Rooted'
    BY <2>5, <2>6 DEF Rooted, AllSubs
  <2>8. ~Known(Main(1))' /\ ~Known(Main(2))'
    BY <2>6, KeyCases
  <2>9. Why'
    BY <2>6, KeyCases DEF Why
  <2>10. Stray'
    <3>1. \A r \in Rows : rows[r] # "none" => Known(r[1]) /\ r[1] \in Keys
      BY DEF Known, RowsOf, Rows
    <3>. QED BY <1>2, <2>2, <3>1 DEF Stray
  <2>11. ~Past'
    <3>1. ~Past
      BY <2>1, <2>3 DEF Growing
    <3>. QED BY <1>0, <1>4, <1>5, <1>8, <2>8, <3>1 DEF Past
  <2>12. run'.status # "rendering" /\ \A u \in Threads : th'[u].pc \notin Renders
    BY <1>0, <1>4, <1>5, <1>8, <2>1, <2>4 DEF Growing, Answer, Renders
  <2>. QED BY <2>7, <2>8, <2>9, <2>10, <2>11, <2>12 DEF Growing, Retried, Answer, Sure, Stored, Renders
<1>. QED BY <1>10, <1>11, <1>14, <1>15 DEF Finishing

-----------------------------------------------------------------------------
(* Resume and delete: one person at a time.                                *)

\* Whoever resumes or deletes is the only one.
LEMMA Alone ==
    ASSUME Finishing, NEW t \in Threads, th[t].was # "none"
    PROVE  /\ \A u \in Threads \ {t} : ~Deleting(u) /\ th[u].was = "none" /\ th[u].pc # "resume"
           /\ \A r : \A u \in Threads : Undoes(u, r) => u = t /\ Deleting(t)
<1>1. \A u \in Threads \ {t} : ~Deleting(u) /\ th[u].was = "none" /\ th[u].pc # "resume"
  BY DEF Finishing, Turn
<1>2. \A r : \A u \in Threads : Undoes(u, r) => Deleting(u)
  BY DEF Undoes, Deleting, Deletes
<1>. QED BY <1>1, <1>2

\* It is over, and the run is as it was, or in the stage it was resumed in.
LEMMA OverKeeps ==
    ASSUME Finishing, SubOnce, Live' => Live, NEW t \in Threads, th[t].was # "none",
           Others(t), Modest(th[t], th'[t]), UNCHANGED <<rows, saved>>,
           \/ run'.status = run.status
           \/ th[t].pc = "resume" /\ th[t].was \in ActiveRun /\ run'.status = th[t].was,
           Live' => \A r \in Rows : rows[r] # "canceled"
    PROVE  Finishing'
<1>1. \A u \in Threads \ {t} : ~Deleting(u) /\ th[u].was = "none" /\ th[u].pc # "resume"
  BY Alone
<1>2. \A u \in Threads \ {t} : th'[u].pc = th[u].pc /\ th'[u].was = th[u].was
  BY DEF Others
<1>3. \A u \in Threads : ~Deleting(u)' /\ th'[u].was = "none" /\ th'[u].pc # "resume"
  BY <1>1, <1>2 DEF Deleting, Modest
<1>4. Turn'
  BY <1>3 DEF Turn, Deleting, Deletes
<1>5. Spared'
  BY SparedKept DEF Finishing, Modest
<1>6. \A k : Known(k)' => Known(k)
  BY KnownMore DEF Known, Modest
<1>7. DoneSafe'
  <2>1. SaysDone' => SaysDone
    BY <1>3 DEF SaysDone, Deleting, Deletes, ActiveRun
  <2>. QED BY <1>6, <2>1, SafeKept DEF Finishing
<1>8. ASSUME Live' PROVE Growing'
  <2>1. Growing
    BY <1>8 DEF Finishing
  <2>2. RowsTame
    <3>1. \A r : Stuck(r) => Stuck(r)'
      BY <1>3 DEF Stuck
    <3>. QED BY <3>1 DEF RowsTame, SubRow
  <2>3. Past' => Past
    BY <1>2, <1>6 DEF Past, Modest, ActiveRun
  <2>4. Stray'
    BY <1>8 DEF Stray
  <2>5. \A u \in Threads : th'[u].pc \in Renders => u # t /\ th'[u].pc = th[u].pc
                                                    /\ th'[u].bad = th[u].bad /\ th'[u].todo = th[u].todo
    BY DEF Others, Modest
  <2>6. Stored'
    BY <2>1, <2>5 DEF Growing, Stored, Renders
  <2>7. run'.status = "rendering" => run.status = "rendering"
    BY DEF ActiveRun
  <2>8. /\ (run'.status = "rendering" \/ \E u \in Threads : th'[u].pc \in Renders)
               => (run.status = "rendering" \/ \E u \in Threads : th[u].pc \in Renders)
        /\ \A u \in Threads : th'[u].pc \in Renders /\ ~th'[u].bad => th[u].pc \in Renders /\ ~th[u].bad
    BY <2>5, <2>7
  <2>. QED BY <1>6, <2>1, <2>2, <2>3, <2>4, <2>6, <2>8, GrowKept
<1>. QED BY <1>4, <1>5, <1>7, <1>8 DEF Finishing

\* A delete goes on with what it has read.
LEMMA DeleteGoes ==
    ASSUME Finishing, SubOnce, Live' => Live, NEW t \in Threads, Deleting(t), Others(t),
           th'[t].pc \in Holding \cup {"undo_groups"}, th'[t].was = th[t].was, th'[t].set = th[t].set,
           th'[t].keys = th[t].keys, saved' = saved,
           \A r \in Rows : rows'[r] = rows[r] \/ (rows[r] \in ActiveGroup /\ rows'[r] = "failed"),
           run'.status \notin Open, th'[t].pc \in Holding => run'.status = "canceled",
           run'.status = "done" => SaysDone,
           th'[t].pc \in Holding /\ th[t].was = "done" => SaysDone
    PROVE  Finishing'
<1>0. th[t].was # "none"
  BY DEF Finishing, Turn
<1>1. \A u \in Threads \ {t} : ~Deleting(u) /\ th[u].was = "none" /\ th[u].pc # "resume"
  BY <1>0, Alone
<1>2. \A u \in Threads \ {t} : th'[u].pc = th[u].pc /\ th'[u].was = th[u].was
  BY DEF Others
<1>3. /\ \A u \in Threads \ {t} : ~Deleting(u)' /\ th'[u].was = "none" /\ th'[u].pc # "resume"
      /\ Deleting(t)' /\ th'[t].pc \notin Renders \cup {"resume", "consolidate", "dedupe", "delete_winner"}
      /\ ~Deciding(t)'
  BY <1>1, <1>2 DEF Deleting, Deletes, Holding, Renders, Deciding, Advancing, AdvancePcs
<1>4. Turn'
  <2>1. \A u \in Threads : th'[u].was # "none" <=> (Deleting(u)' \/ th'[u].pc = "resume")
    BY <1>0, <1>3
  <2>2. \A u, v \in Threads : th'[u].was # "none" /\ th'[v].was # "none" => u = v
    BY <1>3
  <2>3. \A u \in Threads : ~Deciding(u)'
    BY <1>2, <1>3 DEF Finishing, Turn, Deciding, Advancing
  <2>4. \A r \in Rows : rows'[r] \in ActiveGroup => r \in th'[t].set
    BY DEF Finishing, Turn, ActiveGroup
  <2>5. \A u \in Threads : th'[u].pc \in Holding => run'.status = "canceled"
    BY <1>3 DEF Deleting, Deletes
  <2>. QED BY <1>3, <2>1, <2>2, <2>3, <2>4, <2>5 DEF Turn
<1>5. Spared'
  <2>1. Spare(th'[t])
    BY <1>3 DEF Spare
  <2>. QED BY <2>1, SparedKept DEF Finishing
<1>6. \A k : Known(k)' => Known(k)
  <2>1. \A r \in Rows : rows'[r] # "none" => rows[r] # "none"
    BY DEF ActiveGroup
  <2>. QED BY <2>1, KnownKept
<1>7. DoneSafe'
  <2>1. SaysDone' => SaysDone
    BY <1>3 DEF SaysDone, Deleting, Deletes
  <2>. QED BY <1>6, <2>1, SafeKept DEF Finishing, ActiveGroup
<1>8. ASSUME Live' PROVE Growing'
  <2>1. Growing
    BY <1>8 DEF Finishing
  <2>2. RowsTame
    <3>1. \A r : Stuck(r) /\ rows'[r] = "failed" => Stuck(r)'
      BY <1>3 DEF Stuck
    <3>2. \A r \in Rows : rows[r] = "failed" => rows'[r] = "failed"
      BY DEF ActiveGroup
    <3>3. \A r \in Rows : SubRow(r) => SubRow(r)'
      BY DEF SubRow
    <3>. QED BY <3>1, <3>2, <3>3 DEF RowsTame, Stuck, ActiveGroup
  <2>3. Past' => Past
    BY <1>2, <1>3, <1>6 DEF Past, Open, ActiveRun
  <2>4. Stray'
    <3>. SUFFICES ASSUME NEW r \in Rows, rows'[r] = "canceled" PROVE Undoes(t, r)'
      BY DEF Stray
    <3>1. Undoes(t, r)
      BY <1>0, <2>1, Alone DEF Growing, Stray
    <3>. QED BY <3>1 DEF Undoes
  <2>5. \A u \in Threads : th'[u].pc \in Renders => u # t /\ th'[u].pc = th[u].pc
                                                    /\ th'[u].bad = th[u].bad /\ th'[u].todo = th[u].todo
    BY <1>3 DEF Others
  <2>6. Stored'
    BY <2>1, <2>5 DEF Growing, Stored, Renders
  <2>7. run'.status # "rendering"
    BY DEF Open
  <2>8. /\ (run'.status = "rendering" \/ \E u \in Threads : th'[u].pc \in Renders)
               => (run.status = "rendering" \/ \E u \in Threads : th[u].pc \in Renders)
        /\ \A u \in Threads : th'[u].pc \in Renders /\ ~th'[u].bad => th[u].pc \in Renders /\ ~th[u].bad
    BY <2>5, <2>7
  <2>. QED BY <1>6, <2>1, <2>2, <2>3, <2>4, <2>6, <2>8, GrowKept
<1>. QED BY <1>4, <1>5, <1>7, <1>8 DEF Finishing

\* Only the undo of a delete that has begun to write queues a group again.
LEMMA NoStray ==
    ASSUME Finishing, Live' => Live, NEW t \in Threads, th[t].was # "none",
           th[t].pc \notin Holding \cup {"undo_groups"}
    PROVE  Live' => \A r \in Rows : rows[r] # "canceled"
BY Alone DEF Finishing, Growing, Stray, Undoes

LEMMA ResumeRunKeeps ==
    ASSUME Finishing, Paying, Typed, Live' => Live, NEW t \in Threads, ResumeRun(t)
    PROVE  Finishing'
<1>. DEFINE n == [th[t] EXCEPT !.was = "none"]
<1>0. /\ ThreadsOK /\ RunOK /\ SubOnce /\ UNCHANGED <<rows, saved>> /\ th[t].pc = "resume"
      /\ th[t].was \in ActiveRun /\ Plain(th[t]) /\ th[t].keys \cap SubKeys = {}
  BY DEF ResumeRun, At, Typed, Paying, ThreadsOK, LocalOK, HandsOK, HandOK, Plain
<1>1. Plain(n) /\ n.was = "none" /\ n.keys = th[t].keys
  <2>. SUFFICES ASSUME NEW m, m = n PROVE Plain(m) /\ m.was = "none" /\ m.keys = th[t].keys
    OBVIOUS
  <2>. QED BY <1>0 DEF Plain, Whole
<1>2. /\ \/ run' = run
         \/ run'.status = th[t].was
      /\ Local(t, Enqueuing(n)) \/ Local(t, Home(th[t]))
  BY <1>0 DEF ResumeRun, Win, CasStatus, Touch, RunOK
<1>. HIDE DEF n
<1>3. Modest(th[t], Enqueuing(n)) /\ Modest(th[t], Home(th[t]))
  BY <1>0, <1>1, EnqueuingModest, RestModest
<1>4. Others(t) /\ Modest(th[t], th'[t])
  BY <1>0, <1>2, <1>3, OthersLocal
<1>5. th[t].was # "none" /\ th[t].pc \notin Holding \cup {"undo_groups"}
  BY <1>0 DEF ActiveRun, Holding
<1>. QED BY <1>0, <1>2, <1>4, <1>5, NoStray, OverKeeps

\* The delete that lost, and a death.
LEMMA DeathKeeps ==
    ASSUME Finishing, Paying, Typed, Live' => Live, NEW t \in Threads, th[t].was # "none",
           th[t].pc # "undo_groups", Local(t, Idle) \/ Local(t, Home(th[t])), UNCHANGED <<run, rows, saved>>
    PROVE  Finishing'
<1>0. ThreadsOK /\ SubOnce
  BY DEF Typed, Paying
<1>1. Others(t) /\ Modest(th[t], th'[t])
  BY <1>0, OthersLocal, RestModest
<1>2. Live' => \A r \in Rows : rows[r] # "canceled"
  <2>1. CASE th[t].pc \in Holding
    <3>1. run.status = "canceled"
      BY <2>1 DEF Finishing, Turn
    <3>2. \A u \in Threads : th'[u].pc \notin Holding
      BY <1>1, Alone DEF Others, Modest, Deletes, Deleting
    <3>3. ~Live'
      BY <3>1, <3>2 DEF Live, TerminalRun
    <3>. QED BY <3>3
  <2>2. CASE th[t].pc \notin Holding
    BY <2>2, NoStray
  <2>. QED BY <2>1, <2>2
<1>. QED BY <1>0, <1>1, <1>2, OverKeeps

\* A resume or a delete begins, and nobody else is about to.
LEMMA BeginKeeps ==
    ASSUME Finishing, SubOnce, Live' => Live, ThreadsOK, NEW t \in Threads, th[t].pc = "idle",
           \A u \in Threads : th[u].was = "none",
           NEW m, Local(t, m), m.was # "none", m.pc \in {"resume", "delete_claim"}, m.keys = {},
           UNCHANGED <<run, rows, saved>>, run.status \notin Open,
           m.pc = "delete_claim" => /\ \A u \in Threads : ~Deciding(u)
                                    /\ m.set = {r \in Rows : rows[r] \in ActiveGroup},
           m.pc = "resume" /\ m.was = "consolidating" => Known(Main(1)) \/ Known(Main(2))
    PROVE  Finishing'
<1>1. Others(t) /\ th'[t] = m
  BY OthersLocal
<1>2. \A u \in Threads \ {t} : th'[u].pc = th[u].pc /\ th'[u].was = th[u].was
  BY <1>1 DEF Others
<1>3. \A u \in Threads : ~Deleting(u) /\ th[u].pc # "resume"
  BY DEF Finishing, Turn
<1>4. /\ \A u \in Threads \ {t} : ~Deleting(u)' /\ th'[u].was = "none" /\ th'[u].pc # "resume"
      /\ Deleting(t)' <=> m.pc = "delete_claim"
  BY <1>1, <1>2, <1>3 DEF Deleting, Deletes, Holding
<1>5. \A u \in Threads : th'[u].pc \notin Holding
  BY <1>1, <1>4 DEF Deleting, Deletes, Holding
<1>6. Turn'
  <2>1. \A u \in Threads : th'[u].was # "none" <=> (Deleting(u)' \/ th'[u].pc = "resume")
    BY <1>1, <1>4
  <2>2. \A u, v \in Threads : th'[u].was # "none" /\ th'[v].was # "none" => u = v
    BY <1>4
  <2>3. ASSUME NEW u \in Threads, Deleting(u)'
        PROVE  /\ run'.status \notin Open /\ \A v \in Threads : ~Deciding(v)'
               /\ \A r \in Rows : rows'[r] \in ActiveGroup => r \in th'[u].set
    <3>1. u = t /\ m.pc = "delete_claim"
      BY <1>4, <2>3
    <3>2. \A v \in Threads : ~Deciding(v)'
      BY <1>1, <1>2, <3>1 DEF Deciding, Advancing, AdvancePcs
    <3>. QED BY <1>1, <3>1, <3>2
  <2>. QED BY <1>5, <2>1, <2>2, <2>3 DEF Turn
<1>7. Spared'
  <2>1. Spare(m)
    BY DEF Spare
  <2>. QED BY <1>1, <2>1, SparedKept DEF Finishing
<1>8. \A k : Known(k)' => Known(k)
  BY <1>1, KnownMore DEF Known
<1>9. DoneSafe'
  <2>1. SaysDone' => SaysDone
    BY <1>5 DEF SaysDone
  <2>. QED BY <1>8, <2>1, SafeKept DEF Finishing
<1>10. ASSUME Live' PROVE Growing'
  <2>1. Growing
    BY <1>10 DEF Finishing
  <2>2. RowsTame
    <3>1. ASSUME NEW r, Stuck(r) PROVE Stuck(r)'
      BY <1>1, <1>4, <3>1 DEF Stuck, ActiveGroup
    <3>. QED BY <3>1 DEF RowsTame, SubRow
  <2>3. Past' => Past
    BY <1>1, <1>2, <1>8 DEF Past
  <2>4. Stray'
    BY <1>3, <2>1 DEF Growing, Stray, Undoes, Deleting, Deletes
  <2>5. \A u \in Threads : th'[u].pc \in Renders => u # t /\ th'[u].pc = th[u].pc
                                                    /\ th'[u].bad = th[u].bad /\ th'[u].todo = th[u].todo
    BY <1>1 DEF Others, Renders
  <2>6. Stored'
    BY <2>1, <2>5 DEF Growing, Stored, Renders
  <2>7. /\ (run'.status = "rendering" \/ \E u \in Threads : th'[u].pc \in Renders)
               => (run.status = "rendering" \/ \E u \in Threads : th[u].pc \in Renders)
        /\ \A u \in Threads : th'[u].pc \in Renders /\ ~th'[u].bad => th[u].pc \in Renders /\ ~th[u].bad
    BY <2>5
  <2>. QED BY <1>8, <2>1, <2>2, <2>3, <2>4, <2>6, <2>7, GrowKept
<1>. QED BY <1>6, <1>7, <1>9, <1>10 DEF Finishing

LEMMA BeginsKeeps ==
    ASSUME Finishing, Paying, Typed, Calm, Live' => Live, NEW t \in Requests, Resume(t) \/ Delete(t)
    PROVE  Finishing'
<1>0. /\ ThreadsOK /\ SubOnce /\ t \in Threads /\ th[t].pc = "idle" /\ UNCHANGED <<run, rows, saved>>
      /\ \A u \in Threads : th[u].was = "none"
      /\ run.status \in TerminalRun \cup {"over_cap"}
  BY DEF Typed, Paying, Threads, Resume, Delete, At
<1>1. run.status \notin Open /\ run.status # "none"
  BY <1>0 DEF TerminalRun, Open, ActiveRun
<1>2. CASE Resume(t)
  <2>. DEFINE main == RowsIn({Main(1), Main(2)}) # {}
              S == {r \in Rows : rows[r] = "queued"}
              was == IF main THEN "consolidating" ELSE "reading"
              m == [Idle EXCEPT !.pc = "resume", !.then = "advance", !.was = was, !.set = S]
  <2>1. Local(t, m)
    BY <1>2 DEF Resume
  <2>2. was # "none" /\ (was = "consolidating" => Known(Main(1)) \/ Known(Main(2)))
    BY DEF RowsIn, Known
  <2>. HIDE DEF was, S
  <2>3. m.pc = "resume" /\ m.was = was /\ m.keys = {}
    <3>. SUFFICES ASSUME NEW n, n = m PROVE n.pc = "resume" /\ n.was = was /\ n.keys = {}
      OBVIOUS
    <3>. QED BY DEF Idle
  <2>. HIDE DEF m
  <2>. QED BY <1>0, <1>1, <2>1, <2>2, <2>3, BeginKeeps
<1>3. CASE Delete(t)
  <2>. DEFINE S == {r \in Rows : rows[r] \in ActiveGroup}
              m == [Idle EXCEPT !.pc = "delete_claim", !.was = run.status, !.set = S]
  <2>1. Local(t, m) /\ \A u \in Threads : ~Deciding(u)
    BY <1>3 DEF Delete, Deciding
  <2>2. m.pc = "delete_claim" /\ m.was = run.status /\ m.keys = {} /\ m.set = S
    <3>. HIDE DEF S
    <3>. SUFFICES ASSUME NEW n, n = m
                  PROVE  n.pc = "delete_claim" /\ n.was = run.status /\ n.keys = {} /\ n.set = S
      OBVIOUS
    <3>. QED BY DEF Idle
  <2>. HIDE DEF m
  <2>. QED BY <1>0, <1>1, <2>1, <2>2, BeginKeeps
<1>. QED BY <1>2, <1>3

\* A place of a delete keeps what the delete has read.
LEMMA DeletePlace ==
    ASSUME Typed, Paying, NEW t \in Threads, NEW pc \in Holding \cup {"undo_groups"},
           Local(t, [th[t] EXCEPT !.pc = pc])
    PROVE  /\ Others(t) /\ th'[t].pc = pc /\ th'[t].was = th[t].was
           /\ th'[t].set = th[t].set /\ th'[t].keys = th[t].keys
<1>. DEFINE m == [th[t] EXCEPT !.pc = pc]
<1>1. Plain(th[t]) /\ th[t].keys \cap SubKeys = {} /\ ThreadsOK
  BY DEF Typed, Paying, ThreadsOK, LocalOK, HandsOK, HandOK, Plain
<1>2. pc \notin Dedupe
  BY DEF Holding, Dedupe
<1>3. m.pc = pc /\ m.was = th[t].was /\ m.set = th[t].set /\ m.keys = th[t].keys
  BY <1>1, <1>2, PlaceHas
<1>. HIDE DEF m
<1>4. Local(t, m)
  BY DEF m
<1>. QED BY <1>1, <1>3, <1>4, OthersLocal

LEMMA DeletesKeeps ==
    ASSUME Finishing, Paying, Typed, Live' => Live, NEW t \in Threads,
           DeleteClaim(t) \/ DeleteCheck(t) \/ DeleteJobs(t) \/ DeleteRun(t) \/ UndoDelete(t)
    PROVE  Finishing'
<1>0. /\ ThreadsOK /\ RunOK /\ SubOnce /\ Deleting(t)
      /\ th[t].was # "none" /\ th[t].was \in TerminalRun \cup {"over_cap"}
      /\ th[t].pc # "undo_groups"
  <2>1. th[t].pc \in Holding \cup {"delete_claim"}
    BY DEF DeleteClaim, DeleteCheck, DeleteJobs, DeleteRun, UndoDelete, At, Holding
  <2>. QED BY <2>1 DEF Typed, Paying, Finishing, Turn, Deleting, Deletes, ThreadsOK, LocalOK, Holding
<1>1. th[t].pc \in Holding => run.status = "canceled"
  BY DEF Finishing, Turn
<1>2. run.status \notin Open /\ "canceled" \notin Open /\ th[t].was \notin Open
  BY <1>0 DEF Finishing, Turn, Open, ActiveRun, TerminalRun
<1>3. \A pc : Goto(t, pc) => Local(t, [th[t] EXCEPT !.pc = pc])
  BY <1>0 DEF Goto, Local, ThreadsOK
<1>4. ASSUME NEW pc \in Holding \cup {"undo_groups"}, Local(t, [th[t] EXCEPT !.pc = pc]), saved' = saved,
             \A r \in Rows : rows'[r] = rows[r] \/ (rows[r] \in ActiveGroup /\ rows'[r] = "failed"),
             run'.status \notin Open, pc \in Holding => run'.status = "canceled",
             run'.status = "done" => SaysDone,
             pc \in Holding /\ th[t].was = "done" => SaysDone
      PROVE  Finishing'
  BY <1>0, <1>4, DeletePlace, DeleteGoes
<1>5. CASE DeleteClaim(t)
  <2>1. CASE run.status # th[t].was
    <3>1. run' = run /\ Local(t, Home(th[t])) /\ UNCHANGED <<rows, saved>>
      BY <1>5, <2>1 DEF DeleteClaim, Win, CasStatus
    <3>. QED BY <1>0, <3>1, DeathKeeps
  <2>2. CASE run.status = th[t].was
    <3>1. /\ run'.status = "canceled" /\ Local(t, [th[t] EXCEPT !.pc = "delete_check"])
          /\ UNCHANGED <<rows, saved>>
      BY <1>0, <1>5, <2>2 DEF DeleteClaim, Win, CasStatus, Touch, RunOK
    <3>2. "delete_check" \in Holding /\ (th[t].was = "done" => SaysDone)
      BY <2>2 DEF Holding, SaysDone
    <3>. QED BY <1>2, <1>4, <3>1, <3>2
  <2>. QED BY <2>1, <2>2
<1>6. ASSUME th[t].pc \in Holding
      PROVE  run.status = "canceled" /\ (th[t].was = "done" => SaysDone)
  BY <1>1, <1>6 DEF SaysDone
<1>7. CASE DeleteCheck(t)
  <2>1. th[t].pc \in Holding /\ UNCHANGED <<run, rows, saved>>
    BY <1>7 DEF DeleteCheck, At, Holding
  <2>2. PICK pc \in Holding : Local(t, [th[t] EXCEPT !.pc = pc])
    BY <1>3, <1>7 DEF DeleteCheck, Holding
  <2>. QED BY <1>2, <1>4, <1>6, <2>1, <2>2
<1>8. CASE DeleteJobs(t)
  <2>1. th[t].pc \in Holding /\ UNCHANGED <<run, saved>> /\ "delete_run" \in Holding
    BY <1>8 DEF DeleteJobs, At, Holding
  <2>2. Local(t, [th[t] EXCEPT !.pc = "delete_run"])
    BY <1>3, <1>8 DEF DeleteJobs
  <2>3. \A r \in Rows : rows'[r] = rows[r] \/ (rows[r] \in ActiveGroup /\ rows'[r] = "failed")
    BY <1>8 DEF DeleteJobs
  <2>. QED BY <1>2, <1>4, <1>6, <2>1, <2>2, <2>3
<1>9. CASE DeleteRun(t) /\ Goto(t, "undo") /\ UNCHANGED <<run, rows, saved>>
  <2>1. th[t].pc \in Holding /\ "undo" \in Holding
    BY <1>9 DEF DeleteRun, At, Holding
  <2>2. Local(t, [th[t] EXCEPT !.pc = "undo"])
    BY <1>3, <1>9
  <2>. QED BY <1>2, <1>4, <1>6, <1>9, <2>1, <2>2
<1>10. CASE UndoDelete(t)
  <2>1. th[t].pc \in Holding
    BY <1>10 DEF UndoDelete, At, Holding
  <2>2. /\ run'.status = th[t].was /\ Local(t, [th[t] EXCEPT !.pc = "undo_groups"])
        /\ UNCHANGED <<rows, saved>>
    BY <1>0, <1>6, <1>10, <2>1 DEF UndoDelete, Win, CasStatus, Touch, RunOK
  <2>3. "undo_groups" \notin Holding
    BY DEF Holding
  <2>. QED BY <1>2, <1>4, <1>6, <2>1, <2>2, <2>3
<1>11. CASE /\ run' = [status |-> "deleted", old |-> FALSE, plan |-> run.plan]
            /\ th' = [u \in Threads |-> IF u = t \/ th[u].row = NoRow THEN Idle
                                        ELSE [th[u] EXCEPT !.row = Gone(@)]]
  <2>1. \A u \in Threads \ {t} : th[u].was = "none" /\ ~Deleting(u) /\ th[u].pc # "resume"
    BY <1>0, Alone
  <2>2. Idle.pc = "idle" /\ Idle.was = "none"
    BY DEF Idle
  <2>3. \A u \in Threads : th'[u].pc \notin Deletes \cup {"resume"} /\ th'[u].was = "none" /\ Spare(th'[u])
    <3>. SUFFICES ASSUME NEW u \in Threads
                  PROVE  th'[u].pc \notin Deletes \cup {"resume"} /\ th'[u].was = "none" /\ Spare(th'[u])
      OBVIOUS
    <3>1. CASE th'[u] = Idle
      BY <2>2, <3>1 DEF Deletes, Holding, Spare
    <3>2. CASE u # t /\ th'[u] = [th[u] EXCEPT !.row = Gone(@)]
      <4>1. ASSUME NEW m, m = [th[u] EXCEPT !.row = Gone(th[u].row)]
            PROVE  m.pc = th[u].pc /\ m.was = th[u].was /\ m.dups = th[u].dups
        BY <1>0, <4>1 DEF ThreadsOK, LocalOK, Whole
      <4>2. th'[u].pc = th[u].pc /\ th'[u].was = th[u].was /\ th'[u].dups = th[u].dups
        BY <3>2, <4>1
      <4>. QED BY <2>1, <3>2, <4>2 DEF Deleting, Finishing, Spared, Spare
    <3>. QED BY <1>11, <3>1, <3>2
  <2>4. Spared'
    <3>1. \A u \in Threads : Spare(th[u])' <=> Spare(th'[u])
      BY DEF Spare, Sparing
    <3>. QED BY <2>3, <3>1 DEF Spared
  <2>5. Turn'
    BY <2>3 DEF Turn, Deleting, Deletes
  <2>6. run'.status = "deleted"
    BY <1>11
  <2>7. DoneSafe' /\ ~Live'
    BY <2>3, <2>6 DEF DoneSafe, SaysDone, Live, Deletes
  <2>. QED BY <2>4, <2>5, <2>7 DEF Finishing
<1>. QED BY <1>5, <1>7, <1>8, <1>9, <1>10, <1>11 DEF DeleteRun

\* The undo queues again what the delete had found waiting.
LEMMA UndoGroupsKeeps ==
    ASSUME Finishing, Paying, Typed, Live' => Live, NEW t \in Threads, UndoGroups(t)
    PROVE  Finishing'
<1>0. /\ ThreadsOK /\ SubOnce /\ UNCHANGED <<run, saved>> /\ th[t].pc = "undo_groups" /\ Local(t, Idle)
      /\ Deleting(t) /\ th[t].was # "none"
      /\ \A r \in Rows : rows'[r] = IF r \in th[t].set /\ rows[r] \in {"failed", "canceled"}
                                    THEN "queued" ELSE rows[r]
  BY DEF UndoGroups, At, Typed, Paying, Finishing, Turn, Deleting, Deletes
<1>1. Others(t) /\ Modest(th[t], th'[t])
  BY <1>0, OthersLocal, RestModest
<1>2. \A u \in Threads \ {t} : ~Deleting(u) /\ th[u].was = "none" /\ th[u].pc # "resume"
  BY <1>0, Alone
<1>3. \A u \in Threads \ {t} : th'[u].pc = th[u].pc /\ th'[u].was = th[u].was
  BY <1>1 DEF Others
<1>4. \A u \in Threads : ~Deleting(u)' /\ th'[u].was = "none" /\ th'[u].pc # "resume"
  BY <1>1, <1>2, <1>3 DEF Deleting, Modest
<1>5. Turn'
  BY <1>4 DEF Turn, Deleting, Deletes
<1>6. Spared'
  BY <1>1, SparedKept DEF Finishing, Modest
<1>7. \A k : Known(k)' => Known(k)
  <2>1. \A r \in Rows : rows'[r] # "none" => rows[r] # "none"
    BY <1>0
  <2>. QED BY <1>1, <2>1, KnownKept DEF Modest
<1>8. DoneSafe'
  <2>1. SaysDone' => SaysDone
    BY <1>0, <1>4 DEF SaysDone, Deleting, Deletes
  <2>. QED BY <1>0, <1>7, <2>1, SafeKept DEF Finishing
<1>9. ASSUME Live' PROVE Growing'
  <2>1. Growing
    BY <1>9 DEF Finishing
  <2>2. RowsTame
    <3>1. ASSUME NEW r, Stuck(r), r \in Rows PROVE Stuck(r)'
      BY <1>0, <1>4, <3>1 DEF Stuck
    <3>2. \A r \in Rows : SubRow(r) => SubRow(r)'
      BY <1>0 DEF SubRow
    <3>3. \A r \in Rows : rows'[r] = "done" <=> rows[r] = "done"
      BY <1>0
    <3>. QED BY <3>1, <3>2, <3>3 DEF RowsTame
  <2>3. Past' => Past
    BY <1>0, <1>1, <1>3, <1>7 DEF Past, Modest
  <2>4. Stray'
    <3>. SUFFICES ASSUME NEW r \in Rows, rows'[r] = "canceled" PROVE FALSE
      BY DEF Stray
    <3>1. rows[r] = "canceled" /\ r \notin th[t].set
      BY <1>0
    <3>2. Undoes(t, r)
      BY <1>0, <2>1, <3>1, Alone DEF Growing, Stray
    <3>. QED BY <3>1, <3>2 DEF Undoes
  <2>5. \A u \in Threads : th'[u].pc \in Renders => u # t /\ th'[u].pc = th[u].pc
                                                    /\ th'[u].bad = th[u].bad /\ th'[u].todo = th[u].todo
    BY <1>1 DEF Others, Modest
  <2>6. Stored'
    BY <1>0, <2>1, <2>5 DEF Growing, Stored, Renders
  <2>7. /\ (run'.status = "rendering" \/ \E u \in Threads : th'[u].pc \in Renders)
               => (run.status = "rendering" \/ \E u \in Threads : th[u].pc \in Renders)
        /\ \A u \in Threads : th'[u].pc \in Renders /\ ~th'[u].bad => th[u].pc \in Renders /\ ~th[u].bad
    BY <1>0, <2>5
  <2>. QED BY <1>0, <1>7, <2>1, <2>2, <2>3, <2>4, <2>6, <2>7, GrowKept
<1>. QED BY <1>5, <1>6, <1>8, <1>9 DEF Finishing

-----------------------------------------------------------------------------
LEMMA InitFinishing == Init => Finishing
<1>. SUFFICES ASSUME Init PROVE Finishing
  OBVIOUS
<1>1. \A t \in Threads : th[t].pc = "idle" /\ th[t].was = "none" /\ th[t].keys = {}
  BY DEF Init, Idle
<1>2. (\A r \in Rows : rows[r] = "none") /\ run.status = "splitting"
  BY DEF Init
<1>3. \A t \in Threads : ~Deleting(t)
  BY <1>1 DEF Deleting, Deletes, Holding
<1>4. Spared /\ Turn
  BY <1>1, <1>3 DEF Spared, Spare, Turn, Deleting, Deletes
<1>5. DoneSafe
  BY <1>2, <1>3 DEF DoneSafe, SaysDone, Deleting, Deletes
<1>6. \A k : ~Known(k)
  BY <1>1, <1>2 DEF Known, RowsOf
<1>7. Growing
  BY <1>1, <1>2, <1>6 DEF Growing, Rooted, Why, Stray, Past, Retried, Answer, Sure, Stored, Renders
<1>. QED BY <1>4, <1>5, <1>7 DEF Finishing

LEMMA NextFinishing ==
    ASSUME Calm, IInv, Paying, Finishing, [Next]_vars
    PROVE  Finishing'
<1>0. Typed /\ Rendering /\ (Live' => Live) /\ SubOnce
  BY DeadStays DEF IInv, Paying
<1>q. ASSUME NEW t \in Threads, Quiet(t) PROVE Finishing'
  BY <1>0, <1>q, QuietKeeps
<1>1. ASSUME NEW t \in Threads, GroupStep(t) \/ Take(t) PROVE Finishing'
  BY <1>0, <1>1, <1>q, GroupQuiet, TakeQuiet
<1>2. ASSUME NEW t \in Threads, AdvanceStep(t) PROVE Finishing'
  <2>1. CASE ReadRun(t) \/ Consolidate(t) \/ StartRendering(t) \/ Save(t) \/ CloseRun(t) \/ InsertSubs(t)
    BY <1>0, <2>1, ReadRunKeeps, ConsolidateKeeps, StartRenderingKeeps, SaveDone, CloseRunKeeps,
       InsertSubsKeeps
  <2>2. CASE ClaimPlanning(t) \/ Plan(t) \/ Replan(t) \/ FailRun(t) \/ TakeRender(t)
    BY <1>0, <1>q, <2>2, StageQuiet
  <2>3. CASE Insert(t) \/ ReadDups(t) \/ DeleteLoser(t) \/ DeleteWinner(t) \/ Enqueue(t)
    BY <1>0, <1>q, <2>3, InsertQuiet, ReadDupsQuiet, DeleteLoserQuiet, DeleteWinnerQuiet, EnqueueQuiet
  <2>. QED BY <1>2, <2>1, <2>2, <2>3 DEF AdvanceStep
<1>3. ASSUME NEW t \in Threads, RequestStep(t) PROVE Finishing'
  BY <1>0, <1>q, <1>3, ResumeRunKeeps, CancelQuiet, DeletesKeeps, UndoGroupsKeeps DEF RequestStep
<1>4. ASSUME NEW t \in Threads, Reap(t) \/ Fault(t) \/ Crash(t) PROVE Finishing'
  <2>1. CASE Reap(t) \/ Fault(t) \/ (Crash(t) /\ th[t].was = "none")
    BY <1>0, <1>q, <2>1, TroubleQuiet
  <2>2. CASE Crash(t) /\ th[t].was # "none"
    BY <1>0, <2>2, DeathKeeps DEF Crash, At
  <2>. QED BY <1>4, <2>1, <2>2
<1>5. ASSUME NEW t \in Requests, Poll(t) \/ Resume(t) \/ CancelRun(t) \/ Delete(t) PROVE Finishing'
  <2>1. t \in Threads
    BY DEF Threads
  <2>. QED BY <1>0, <1>q, <1>5, <2>1, PollQuiet, CancelQuiet, BeginsKeeps
<1>6. CASE Age \/ ClaimExpires \/ UNCHANGED vars
  <2>1. run'.status = run.status /\ UNCHANGED <<rows, saved, th>>
    BY <1>0, <1>6 DEF Age, ClaimExpires, vars, Typed, RunOK
  <2>2. Growing => Stored'
    BY <2>1 DEF Growing, Stored
  <2>. QED BY <1>0, <2>1, <2>2, SameKeeps
<1>. QED BY <1>1, <1>2, <1>3, <1>4, <1>5, <1>6 DEF Next, Step

\* _advance_reading to _advance_rendering, with resume, cancel, delete and the
\* repairs of other workers between their steps: a run that says done has an
\* answer for every group that was planned or added and every deliverable.
THEOREM DoneCompleteHolds == ASSUME Calm PROVE Spec => []DoneIsComplete
<1>1. IInv /\ Paying /\ [Next]_vars => Paying'
  BY NextPaying
<1>2. IInv /\ Paying /\ Finishing /\ [Next]_vars => Finishing'
  BY NextFinishing
<1>3. Finishing => DoneIsComplete
  <2>. SUFFICES ASSUME Finishing, run.status = "done" PROVE DoneIsComplete
    BY DEF DoneIsComplete
  <2>1. Answered /\ \A k \in Kinds : saved[k] >= 1
    BY DEF Finishing, DoneSafe, SaysDone
  <2>2. \A k : RowsOf(k) # {} => Known(k)
    BY DEF Known
  <2>3. \E r \in RowsIn({Main(1), Main(2)}) : rows[r] = "done"
    BY <2>1 DEF Answered, Full, RowsIn
  <2>. QED BY <2>1, <2>2, <2>3 DEF DoneIsComplete, Answered, Full
<1>. QED BY Invariance, InitPaying, InitFinishing, <1>1, <1>2, <1>3, PTL DEF Spec
=============================================================================
