--------------------------- MODULE AutoSendProofs ---------------------------
(***************************************************************************)
(* What every behaviour of AutoSend keeps, for any senders, GCs, dates and *)
(* bounds.                                                                 *)
(*                                                                         *)
(* The invariant has two layers.  Typed holds whatever the timing.         *)
(* Orderly needs Timely and Calm: one pass at a time is in progress, on    *)
(* the latest date that has a run (Dated, Alone), it knows the rows of its *)
(* run (Tracks), nobody else's write can have made them different, and so  *)
(* the numbers and statuses it writes tell the truth (Bid, Truth, Hushed). *)
(* Budget is the account of each GC: the emails that went out, but for     *)
(* those that counted as failed, against the confirmations.                *)
(***************************************************************************)
EXTENDS AutoSend, FiniteSetTheorems, TLAPS

-----------------------------------------------------------------------------
(* The invariant.                                                          *)

PassStates == {"idle", "due", "checked", "asked", "reclaim", "mend"} \cup InPass

Passes ==
    [pc : PassStates, date : Dates, manual : BOOLEAN, force : BOOLEAN, amount : Nat,
     todo : SUBSET Gcs, ready : SUBSET Gcs, gc : Gcs \cup {NoGc}, stop : BOOLEAN,
     outcome : RunStatuses \cup RowStatuses, view : [Gcs -> RowStatuses]]

\* Where a pass has one GC in hand, and what it may then write to its row.
InHand == {"prepare", "check", "claim", "convert", "mail", "record"}
Mailing == {"convert", "mail", "record"}

Early   == {"due", "checked", "asked", "claimed", "open", "insert"}
Late    == {"send", "check", "claim", "convert", "mail", "record"}

PassOK(p) ==
    /\ p \in Passes
    /\ p.pc \in Early => p.ready = {}
    /\ p.pc \in Late => p.todo = {}
    /\ p.pc \in InHand => p.gc \in Gcs
    /\ p.pc = "prepare" => p.gc \in p.todo
    /\ p.pc \in InHand \ {"prepare"} => p.gc \in p.ready
    /\ p.pc = "record" => p.outcome \in {"sent", "failed", "unknown", "skipped"}
    /\ p.pc \in {"close", "rescued"}
       => p.outcome \in {"sent", "partial", "failed", "skipped"}

Typed ==
    /\ TypeOK
    /\ DOMAIN snd = Senders /\ \A s \in Senders : PassOK(snd[s])
    /\ estimate # 0
    /\ faults \in Nat

\* The calendar: runs exist for days that have come and that the bid date has
\* reached, and whoever is about to claim a run looks at the day it is for.
Dated ==
    /\ \A d \in Dates : run[d].status # "none" => bidDate >= d /\ now >= SendAt(d)
    /\ \A s \in Senders : snd[s].pc \in Reading => snd[s].date = bidDate
    /\ \A s \in Senders : snd[s].pc \in {"due", "checked"} => now >= SendAt(snd[s].date)
    /\ \A s \in Senders : snd[s].pc = "asked" => run[snd[s].date].status # "none"

\* A run at sending shuts out every other; a pass owns its run, which shows
\* signs of life, and is the only one.
Alone ==
    /\ \A d, e \in Dates : run[d].status = "sending" /\ run[e].status = "sending" => d = e
    /\ \A s \in Senders : snd[s].pc \in {"checked", "asked"}
          => \A e \in Dates \ {snd[s].date} : run[e].status # "sending"
    /\ \A s \in Senders : snd[s].pc \in InPass
          => LET r == run[snd[s].date] IN r.status = "sending" /\ ~ r.quiet /\ ~ r.still
    /\ \A s, t \in Senders : snd[s].pc \in InPass /\ snd[t].pc \in InPass => s = t
    /\ \A d \in Dates : run[d].quiet \/ run[d].still => run[d].status = "sending"

\* A reclaim whose compare-and-set will win has read the rows as they are, and
\* so has one between its two writes.
Reclaiming ==
    /\ \A s \in Senders : LET p == snd[s] IN
          p.pc = "reclaim" /\ run[p.date].status = "sending" /\ run[p.date].quiet
          => p.view = Statuses(p.date)
    /\ \A s \in Senders : LET p == snd[s] IN
          p.pc = "mend" => /\ run[p.date].status \notin {"sending", "none"}
                           /\ p.view = Statuses(p.date)
    /\ \A s, t \in Senders :
          snd[s].pc = "mend" /\ snd[t].pc = "mend" /\ snd[s].date = snd[t].date => s = t

\* After the rows are there, and with a GC not yet claimed.
Listed   == {"prep", "prepare", "send", "check", "claim", "convert", "mail", "record"}
Untaken  == {"open", "insert", "prep", "prepare", "send", "check", "claim"}
Carrying == Listed \cup {"open", "insert"}

\* What a pass holds of the rows is what they say, but for the GC in hand; what
\* it has still to do is what it may send.
KnowsRows(p, view) ==
    /\ p.pc \in Untaken => p.view = view
    /\ p.pc \in Mailing => /\ \A g \in Gcs \ {p.gc} : p.view[g] = view[g]
                           /\ view[p.gc] \notin {"absent", "sent"}
    /\ p.pc \in {"convert", "mail"} => view[p.gc] = "sending"
    /\ p.pc \in Listed => /\ \A g \in Gcs : p.view[g] # "absent"
                          /\ \A g \in p.todo \cup p.ready :
                                p.view[g] \in ClaimableGcs(p.force)
                          /\ p.todo \cap p.ready = {}

Tracks == \A s \in Senders : KnowsRows(snd[s], Statuses(snd[s].date))

\* Rows exist for runs only, and for no date after that of a pass.
Rooted ==
    /\ \A d \in Dates : run[d].status = "none" => \A g \in Gcs : row[d][g].status = "absent"
    /\ \A s \in Senders : snd[s].pc \in InPass
          => \A e \in Dates : e > snd[s].date => \A g \in Gcs : row[e][g].status = "absent"

\* The run status tells of the rows' statuses.
Tells(st, view) ==
    LET out  == {g \in Gcs : view[g] = "sent"}
        kept == {g \in Gcs : view[g] # "absent"}
    IN  /\ st = "sent" => out = kept /\ out # {}
        /\ st = "partial" => out # {} /\ out # kept
        /\ st \in {"failed", "skipped", "missed"} => out = {}

Truth ==
    /\ \A d \in Dates : Tells(run[d].status, Statuses(d))
    /\ \A s \in Senders : snd[s].pc \in {"close", "rescued"}
          => Tells(snd[s].outcome, Statuses(snd[s].date))

\* The numbers of a run and of the rows it sent are the same ones.
Bid ==
    /\ OneBid
    /\ \A d \in Dates : Partly(Statuses(d)) => run[d].amount # 0
    /\ \A s \in Senders : LET p == snd[s] IN
          /\ p.pc \in Carrying => p.amount # 0
          /\ p.pc = "open" => (Partly(Statuses(p.date)) => p.amount = run[p.date].amount)
          /\ p.pc \in Carrying \ {"open"} => p.amount = run[p.date].amount
          /\ p.pc \in Listed => \A g \in p.ready : row[p.date][g].amount = p.amount

\* Nothing went out before a pass that sends, and a Send Out that began leaves
\* at most the one email past its check.
Hushed ==
    /\ \A s \in Senders : snd[s].pc \in Carrying
          => \A d \in Dates : run[d].status \notin WentOut
    /\ \A d \in Dates : run[d].accepted => run[d].status \in WentOut
    /\ afterHuman <= 1
    /\ human # "none" /\ afterHuman = 1 => \A s \in Senders : snd[s].pc # "mail"

\* A pass has taken a GC and is not done with it, or has found that it gets no
\* email.
Spending(p, g) ==
    /\ p.gc = g
    /\ \/ p.pc \in {"convert", "mail"}
       \/ p.pc = "record" /\ p.outcome \in {"failed", "skipped"}

\* A pass has the GC's row of that date in hand, before its email or after none.
Hand(sn, d, g) == \E s \in Senders : sn[s].date = d /\ Spending(sn[s], g)

Latest(rw, d, g) == \A e \in Dates : e > d => rw[e][g].status = "absent"

\* The latest row of the GC may be claimed without being confirmed.
Free(rw, sn, g) == \A d \in Dates :
    Latest(rw, d, g) => rw[d][g].status \in GcRetry \cup {"absent"} \/ Hand(sn, d, g)

\* A confirmed pass that has not taken the GC yet.
Holds(p, g) ==
    /\ p.force
    /\ \/ p.pc \in Early
       \/ /\ p.pc \in Listed /\ g \in p.todo \cup p.ready
          /\ ~ (p.pc \in Mailing /\ p.gc = g)

Confirmed(sn, g) == {s \in Senders : Holds(sn[s], g)}

\* The confirmations pay for every email but the first.
Fits(rw, sn, m, c, g) ==
    /\ m[g] + Cardinality(Confirmed(sn, g)) <= 1 + c
    /\ Free(rw, sn, g) => m[g] + Cardinality(Confirmed(sn, g)) <= c

Within(rw, sn, m, c) == \A g \in Gcs : Fits(rw, sn, m, c, g)

\* The emails of each GC, but for those that counted as failed.
Known == [g \in Gcs |-> mailed[g] - hidden[g]]

Budget == Within(row, snd, Known, confirmed)

Orderly ==
    /\ Dated /\ Alone /\ Reclaiming /\ Tracks /\ Rooted /\ Truth /\ Bid /\ Hushed
    /\ Budget

IInv == Typed /\ (Timely /\ Calm => Orderly)

-----------------------------------------------------------------------------
(* What the operators and the steps of the model come to.                  *)

\* send_now() and its helpers, and so the numbers of a run, stay within their
\* types.
LEMMA StatusesTyped == TypeOK => \A d \in Dates : Statuses(d) \in [Gcs -> RowStatuses]
BY DEF TypeOK, Statuses

\* final_status() answers one of three statuses.
LEMMA FinalStatusTyped == \A view : FinalStatus(view) \in {"sent", "partial", "failed"}
BY DEF FinalStatus

\* final_status() tells of the rows it is given.
LEMMA FinalStatusTells == \A view : Tells(FinalStatus(view), view)
BY DEF FinalStatus, Tells

\* A step of one sender leaves the passes of the others.
LEMMA GoFacts ==
    ASSUME DOMAIN snd = Senders, NEW s \in Senders, NEW q, Go(s, q)
    PROVE  /\ DOMAIN snd' = Senders /\ snd'[s] = q
           /\ \A t \in Senders : t # s => snd'[t] = snd[t]
BY DEF Go

\* The idle pass.
LEMMA IdleOK == /\ PassOK(Idle) /\ Idle.pc = "idle" /\ ~ Idle.force
<1>1. 1 \in Dates  BY AutoSendAssumption DEF Dates
<1>2. Idle \in Passes  BY <1>1 DEF Idle, Passes, PassStates, RunStatuses, RowStatuses
<1>3. QED  BY <1>2 DEF Idle, PassOK, InHand, Early, Late

\* The dates are numbers, and so are the bounds.
LEMMA Bounds == MaxDate \in Nat /\ Dates \subseteq Nat /\ NoGc \notin Gcs
BY AutoSendAssumption DEF Dates

-----------------------------------------------------------------------------
(* Types.                                                                  *)

LEMMA TypedInit == Init => Typed
<1> SUFFICES ASSUME Init PROVE Typed
    OBVIOUS
<1>1. TypeOK
  BY Bounds, SMTT(30) DEF Init, TypeOK, NoRun, NoRows, RunStatuses, RowStatuses, Dates
<1>2. DOMAIN snd = Senders /\ \A s \in Senders : PassOK(snd[s])
  BY IdleOK DEF Init
<1>3. QED  BY <1>1, <1>2 DEF Typed, Init

RunRow == [status : RunStatuses, amount : Nat, accepted : BOOLEAN, quiet : BOOLEAN,
           still : BOOLEAN]
GcRow  == [status : RowStatuses, amount : Nat]

\* The writes of a run and of its rows keep their types.
LEMMA WriteRunTyped ==
    ASSUME TypeOK, NEW d \in Dates, NEW r \in RunRow, WriteRun(d, r)
    PROVE  run' \in [Dates -> RunRow]
<1>1. [r EXCEPT !.quiet = FALSE, !.still = FALSE] \in RunRow
  BY DEF RunRow
<1>2. QED  BY <1>1 DEF WriteRun, TypeOK, RunRow

LEMMA AliveTyped ==
    ASSUME TypeOK, NEW d \in Dates, Alive(d)
    PROVE  run' \in [Dates -> RunRow]
BY DEF Alive, TypeOK, RunRow

LEMMA SetRowTyped ==
    ASSUME TypeOK, NEW d \in Dates, NEW g \in Gcs, NEW st \in RowStatuses, SetRow(d, g, st)
    PROVE  row' \in [Dates -> [Gcs -> GcRow]]
<1>1. row \in [Dates -> [Gcs -> GcRow]]
  BY DEF TypeOK, GcRow
<1>2. [row[d][g] EXCEPT !.status = st] \in GcRow
  BY <1>1 DEF GcRow
<1>3. [row[d] EXCEPT ![g] = [row[d][g] EXCEPT !.status = st]] \in [Gcs -> GcRow]
  BY <1>1, <1>2
<1>4. row' = [row EXCEPT ![d] = [row[d] EXCEPT ![g] = [row[d][g] EXCEPT !.status = st]]]
  BY Zenon DEF SetRow
<1>5. QED  BY <1>1, <1>3, <1>4

\* A pass moves within its type.
LEMMA TypedPass ==
    ASSUME Typed, NEW s \in Senders, NEW q, PassOK(q), Go(s, q), UNCHANGED world,
           run' \in [Dates -> RunRow], row' \in [Dates -> [Gcs -> GcRow]],
           mailed' \in [Gcs -> Nat], hidden' \in [Gcs -> Nat], confirmed' \in Nat, afterHuman' \in Nat, faults' \in Nat
    PROVE  Typed'
<1>1. TypeOK'
  BY SMTT(30) DEF Typed, TypeOK, world, RunRow, GcRow
<1>2. DOMAIN snd' = Senders /\ \A t \in Senders : PassOK(snd'[t])
  BY GoFacts DEF Typed
<1>3. estimate' # 0  BY DEF Typed, world
<1>4. QED  BY <1>1, <1>2, <1>3 DEF Typed

\* What TypeOK says of the two tables and of the log.
LEMMA Tables ==
    ASSUME TypeOK
    PROVE  /\ run \in [Dates -> RunRow] /\ row \in [Dates -> [Gcs -> GcRow]]
           /\ mailed \in [Gcs -> Nat] /\ hidden \in [Gcs -> Nat]
           /\ confirmed \in Nat /\ afterHuman \in Nat
BY DEF TypeOK, RunRow, GcRow

LEMMA TypedStep == Typed /\ [Next]_vars => Typed'
<1> SUFFICES ASSUME Typed, [Next]_vars PROVE Typed'
    OBVIOUS
<1> USE DEF Typed
<1>a. /\ \A s \in Senders : snd[s] \in Passes
      /\ \A d \in Dates : Statuses(d) \in [Gcs -> RowStatuses]
      /\ \A d \in Dates : FinalStatus(Statuses(d)) \in {"sent", "partial", "failed"}
  BY StatusesTyped, FinalStatusTyped DEF PassOK
<1>b. \A p \in Passes : FinalStatus(p.view) \in {"sent", "partial", "failed"}
  BY FinalStatusTyped
<1>1. CASE UNCHANGED vars
  BY <1>1 DEF vars, world, db, log, TypeOK, PassOK, Passes
<1>2. CASE Tick
  <2>1. UNCHANGED <<run, row, snd, mailed, hidden, confirmed, afterHuman, faults, estimate>>
    BY <1>2 DEF Tick, db, log, Quiet
  <2>2. TypeOK'
    BY <1>2, <2>1, Bounds DEF Tick, TypeOK
  <2>3. QED  BY <2>1, <2>2 DEF PassOK
<1>3. ASSUME NEW d \in Dates, MoveDate(d) PROVE Typed'
  <2>1. UNCHANGED <<run, row, snd, mailed, hidden, confirmed, afterHuman, faults, estimate>>
    BY <1>3 DEF MoveDate, db, log
  <2>2. TypeOK'
    BY <1>3, <2>1, Bounds DEF MoveDate, TypeOK
  <2>3. QED  BY <2>1, <2>2 DEF PassOK
<1>4. CASE Reprice
  <2>1. UNCHANGED <<run, row, snd, mailed, hidden, confirmed, afterHuman, faults>>
    BY <1>4 DEF Reprice, db, log
  <2>2. TypeOK' /\ estimate' # 0
    BY <1>4, <2>1, Bounds DEF Reprice, TypeOK
  <2>3. QED  BY <2>1, <2>2 DEF PassOK
<1>5. CASE Switch
  <2>1. UNCHANGED <<run, row, snd, mailed, hidden, confirmed, afterHuman, faults, estimate>>
    BY <1>5 DEF Switch, db, log
  <2>2. TypeOK'
    BY <1>5, <2>1, Bounds DEF Switch, TypeOK
  <2>3. QED  BY <2>1, <2>2 DEF PassOK
<1>6. CASE HumanSend
  <2>1. UNCHANGED <<run, row, snd, mailed, hidden, confirmed, faults, estimate>>
    BY <1>6 DEF HumanSend, db
  <2>2. TypeOK'
    BY <1>6, <2>1, Bounds DEF HumanSend, TypeOK
  <2>3. QED  BY <2>1, <2>2 DEF PassOK
<1>7. CASE HumanDone
  <2>1. UNCHANGED <<run, row, snd, mailed, hidden, confirmed, afterHuman, faults, estimate>>
    BY <1>7 DEF HumanDone, db, log, Quiet
  <2>2. TypeOK'
    BY <1>7, <2>1, Bounds DEF HumanDone, TypeOK
  <2>3. QED  BY <2>1, <2>2 DEF PassOK
<1>8. ASSUME NEW d \in Dates, Accept(d) PROVE Typed'
  <2>1. UNCHANGED <<row, snd, mailed, hidden, confirmed, afterHuman, faults, estimate>>
    BY <1>8 DEF Accept, log
  <2>2. TypeOK'
    BY <1>8, <2>1, Bounds DEF Accept, TypeOK, WriteRun
  <2>3. QED  BY <2>1, <2>2 DEF PassOK
<1>t. /\ run \in [Dates -> RunRow] /\ row \in [Dates -> [Gcs -> GcRow]]
      /\ mailed \in [Gcs -> Nat] /\ hidden \in [Gcs -> Nat]
      /\ confirmed \in Nat /\ afterHuman \in Nat /\ faults \in Nat
  BY Tables
<1>9. ASSUME NEW s \in Senders, NEW d \in Dates, NEW force \in BOOLEAN, SendNow(s, d, force)
      PROVE Typed'
  <2>1. UNCHANGED <<world, run, row, mailed, hidden, afterHuman, faults>> /\ confirmed' \in Nat
    BY <1>9, <1>t DEF SendNow, db
  <2> DEFINE q == [Idle EXCEPT !.pc = "asked", !.date = d, !.manual = TRUE, !.force = force]
  <2>2. PassOK(q)
    BY ZenonT(60) DEF PassOK, Passes, PassStates, Idle, InHand, RunStatuses, RowStatuses, Early, Late
  <2>3. Go(s, q)  BY <1>9 DEF SendNow
  <2> HIDE DEF q
  <2>4. QED  BY <1>t, <2>1, <2>2, <2>3, TypedPass
<1>10. ASSUME NEW s \in Senders, NEW d \in Dates, Due(s, d) PROVE Typed'
  <2>1. UNCHANGED <<world, run, row, mailed, hidden, confirmed, afterHuman, faults>>
    BY <1>10 DEF Due, db, log, Quiet
  <2> DEFINE q == [Idle EXCEPT !.pc = "due", !.date = d]
  <2>2. PassOK(q)
    BY DEF PassOK, Passes, PassStates, Idle, InHand, RunStatuses, RowStatuses, Early, Late
  <2>3. Go(s, q)  BY <1>10 DEF Due
  <2> HIDE DEF q
  <2>4. QED  BY <1>t, <2>1, <2>2, <2>3, TypedPass
<1>11. ASSUME NEW s \in Senders, Check(s) PROVE Typed'
  <2>1. UNCHANGED <<world, run, row, mailed, hidden, confirmed, afterHuman, faults>>
    BY <1>11 DEF Check, db, log, Quiet
  <2> DEFINE q == IF MaySend(snd[s].date) THEN [snd[s] EXCEPT !.pc = "checked"] ELSE Idle
  <2>2. PassOK(q)
    <3>1. snd[s] \in Passes /\ snd[s].ready = {}
      BY <1>a, <1>11 DEF Check, PassOK, Early, Late
    <3>2. PassOK([snd[s] EXCEPT !.pc = "checked"])
      BY <3>1 DEF PassOK, Passes, PassStates, InHand, Early, Late
    <3>3. QED  BY <3>2, IdleOK
  <2>3. Go(s, q)  BY <1>11 DEF Check
  <2> HIDE DEF q
  <2>4. QED  BY <1>t, <2>1, <2>2, <2>3, TypedPass
<1>12. ASSUME NEW s \in Senders, ClaimRun(s) PROVE Typed'
  <2> DEFINE p == snd[s]  r == [run[p.date] EXCEPT !.status = "sending"]
             q == [p EXCEPT !.pc = "claimed"]
  <2>1. UNCHANGED <<world, row, mailed, hidden, confirmed, afterHuman, faults>>
    BY <1>12 DEF ClaimRun, log, Quiet
  <2>2. PassOK(q) /\ p.date \in Dates
    <3>1. p \in Passes /\ p.ready = {}
      BY <1>a, <1>12 DEF ClaimRun, PassOK, Early, Late
    <3>2. QED  BY <3>1 DEF PassOK, Passes, PassStates, InPass, InHand, Early, Late
  <2>3. r \in RunRow
    BY <1>t, <2>2 DEF RunRow, RunStatuses
  <2>4. \/ WriteRun(p.date, r) /\ Go(s, q)
        \/ UNCHANGED run /\ Go(s, Idle)
    <3>1. CASE Claimable(p)
      BY <1>12, <3>1 DEF ClaimRun
    <3>2. CASE ~ Claimable(p)
      BY <1>12, <3>2 DEF ClaimRun
    <3>3. QED  BY <3>1, <3>2
  <2> HIDE DEF p, q, r
  <2>5. run' \in [Dates -> RunRow]
    BY <1>t, <2>2, <2>3, <2>4, WriteRunTyped
  <2>6. QED  BY <1>t, <2>1, <2>2, <2>4, <2>5, TypedPass, IdleOK
<1>13. ASSUME NEW s \in Senders, NEW d \in Dates, Missed(s, d) PROVE Typed'
  <2> DEFINE r == [run[d] EXCEPT !.status = "missed"]
  <2>1. UNCHANGED <<world, row, snd, mailed, hidden, confirmed, afterHuman, faults>>
    BY <1>13 DEF Missed, log, Quiet
  <2>2. r \in RunRow
    BY <1>t DEF RunRow, RunStatuses
  <2>3. WriteRun(d, r) \/ UNCHANGED run
    BY <1>13 DEF Missed
  <2> HIDE DEF r
  <2>4. run' \in [Dates -> RunRow]
    BY <1>t, <2>2, <2>3, WriteRunTyped
  <2>5. TypeOK'
    BY <2>1, <2>4, SMTT(30) DEF TypeOK, world, RunRow
  <2>6. QED  BY <2>1, <2>5 DEF PassOK, world
<1>14. ASSUME NEW s \in Senders, Evaluate(s) PROVE Typed'
  <2> DEFINE p == snd[s]  view == Statuses(p.date)
             c(st) == [p EXCEPT !.pc = "close",
                                !.outcome = IF Partly(view) THEN FinalStatus(view) ELSE st]
             o == [p EXCEPT !.pc = "open", !.view = view, !.amount = Numbers(p.date, view)]
  <2>1. UNCHANGED <<world, run, row, mailed, hidden, confirmed, afterHuman, faults>>
    BY <1>14 DEF Evaluate, db, log, Quiet
  <2>2. /\ p \in Passes /\ p.date \in Dates /\ view \in [Gcs -> RowStatuses]
        /\ FinalStatus(view) \in {"sent", "partial", "failed"}
    BY <1>a DEF Passes
  <2>3. Numbers(p.date, view) \in Nat
    BY <1>t, <2>2 DEF Numbers, TypeOK, RunRow
  <2>4. PassOK(c("skipped")) /\ PassOK(c("failed"))
    <3> HIDE DEF p, view
    <3>1. \A st \in {"skipped", "failed"} :
             LET x == IF Partly(view) THEN FinalStatus(view) ELSE st
             IN  x \in {"sent", "partial", "failed", "skipped"}
      BY <2>2
    <3>2. \A st \in {"skipped", "failed"} :
             /\ c(st) \in Passes /\ c(st).pc = "close"
             /\ c(st).outcome \in {"sent", "partial", "failed", "skipped"}
      BY ZenonT(60), <2>2, <3>1 DEF Passes, PassStates, InPass, RunStatuses, RowStatuses
    <3>3. QED  BY <3>2 DEF PassOK, InHand, Early, Late
  <2>5. PassOK(o)
    <3>1. p.ready = {}
      BY <1>a, <1>14 DEF Evaluate, PassOK, Early, Late
    <3>2. QED  BY ZenonT(60), <2>2, <2>3, <3>1 DEF PassOK, Passes, PassStates, InPass, InHand, Early, Late
  <2>6. Go(s, c("skipped")) \/ Go(s, c("failed")) \/ Go(s, o)
    BY <1>14 DEF Evaluate
  <2> HIDE DEF p, c, o
  <2>7. QED  BY <1>t, <2>1, <2>4, <2>5, <2>6, TypedPass
<1>15. ASSUME NEW s \in Senders, Open(s) PROVE Typed'
  <2> DEFINE p == snd[s]  r == [run[p.date] EXCEPT !.amount = p.amount]
             q == [p EXCEPT !.pc = "insert"]
  <2>1. UNCHANGED <<world, row, mailed, hidden, confirmed, afterHuman, faults>>
    BY <1>15 DEF Open, log, Quiet
  <2>2. PassOK(q) /\ p.date \in Dates /\ p.amount \in Nat
    <3>1. p \in Passes /\ p.ready = {}
      BY <1>a, <1>15 DEF Open, PassOK, Early, Late
    <3>2. QED  BY <3>1 DEF PassOK, Passes, PassStates, InPass, InHand, Early, Late
  <2>3. r \in RunRow
    BY <1>t, <2>2 DEF RunRow
  <2>4. WriteRun(p.date, r) /\ Go(s, q)
    BY <1>15 DEF Open
  <2> HIDE DEF p, q, r
  <2>5. run' \in [Dates -> RunRow]
    BY <1>t, <2>2, <2>3, <2>4, WriteRunTyped
  <2>6. QED  BY <1>t, <2>1, <2>2, <2>4, <2>5, TypedPass
<1>16. ASSUME NEW s \in Senders, Insert(s) PROVE Typed'
  <2> DEFINE p == snd[s]  new == {g \in Gcs : p.view[g] = "absent"}
             view == [g \in Gcs |-> IF g \notin new THEN p.view[g]
                               ELSE IF g \in Carried(p.date) THEN "unknown" ELSE "pending"]
             todo == SendableGcs(view, p.force)
             q == [p EXCEPT !.pc = IF todo = {} THEN "send" ELSE "prep",
                            !.todo = todo, !.view = view]
             x == [p EXCEPT !.pc = "rescue"]
  <2>1. UNCHANGED <<world, mailed, hidden, confirmed, afterHuman, faults>>
    BY <1>16 DEF Insert, log, Quiet
  <2>2. p \in Passes /\ p.date \in Dates /\ todo \in SUBSET Gcs /\ view \in [Gcs -> RowStatuses]
    BY <1>a DEF Passes, SendableGcs, RowStatuses
  <2>3. PassOK(q) /\ PassOK(x)
    <3> HIDE DEF p, todo, view
    <3>1. q \in Passes /\ q.pc = (IF todo = {} THEN "send" ELSE "prep") /\ q.todo = todo
      BY <2>2 DEF Passes, PassStates, InPass
    <3>2. x \in Passes /\ x.pc = "rescue"
      BY <2>2 DEF Passes, PassStates, InPass
    <3>3. QED  BY <3>1, <3>2 DEF PassOK, InHand, Early, Late
  <2>4. \/ /\ row' = [row EXCEPT ![p.date] = [g \in Gcs |->
                           IF g \in new THEN [@[g] EXCEPT !.status = view[g]] ELSE @[g]]]
           /\ Go(s, q) /\ (Alive(p.date) \/ UNCHANGED run)
        \/ UNCHANGED <<run, row>> /\ Go(s, x)
    BY <1>16 DEF Insert, db
  <2> HIDE DEF q, x
  <2>5. row' \in [Dates -> [Gcs -> GcRow]]
    <3> HIDE DEF p, new, view
    <3> DEFINE f(old) == [g \in Gcs |-> IF g \in new THEN [old[g] EXCEPT !.status = view[g]]
                                        ELSE old[g]]
    <3>1. \A r \in GcRow, st \in RowStatuses : [r EXCEPT !.status = st] \in GcRow
      BY DEF GcRow
    <3>2. \A old \in [Gcs -> GcRow] : f(old) \in [Gcs -> GcRow]
      BY <2>2, <3>1
    <3>3. row' = [row EXCEPT ![p.date] = f(row[p.date])] \/ row' = row
      BY <2>4, Zenon
    <3> HIDE DEF f
    <3>4. QED  BY <1>t, <2>2, <3>2, <3>3
  <2> HIDE DEF p
  <2>6. run' \in [Dates -> RunRow]
    BY <1>t, <2>2, <2>4, AliveTyped
  <2>7. QED  BY <1>t, <2>1, <2>3, <2>4, <2>5, <2>6, TypedPass
<1>17. ASSUME NEW s \in Senders, Beat(s) PROVE Typed'
  <2> DEFINE p == snd[s]
             q(g) == [p EXCEPT !.gc = g, !.pc = IF p.pc = "prep" THEN "prepare" ELSE "check"]
  <2>1. UNCHANGED <<world, row, mailed, hidden, confirmed, afterHuman, faults>>
    BY <1>17 DEF Beat, log, Quiet
  <2>2. p \in Passes /\ p.date \in Dates /\ run[p.date] \in RunRow
        /\ (p.pc = "prep" \/ p.pc = "send")
    BY <1>a, <1>t, <1>17 DEF Passes, Beat
  <2>3. \A g \in IF p.pc = "prep" THEN p.todo ELSE p.ready : PassOK(q(g))
    <3>1. \A g \in Gcs : q(g) \in Passes
      BY <2>2 DEF Passes, PassStates, InPass
    <3>2. \A g \in Gcs : /\ q(g).gc = g /\ q(g).todo = p.todo /\ q(g).ready = p.ready
                         /\ q(g).pc = IF p.pc = "prep" THEN "prepare" ELSE "check"
      BY <2>2 DEF Passes
    <3>3. p.todo \subseteq Gcs /\ p.ready \subseteq Gcs /\ (p.pc = "send" => p.todo = {})
      BY <1>a, <2>2 DEF Passes, PassOK, Late
    <3> HIDE DEF p, q
    <3>4. CASE p.pc = "prep"
      BY <3>1, <3>2, <3>3, <3>4 DEF PassOK, InHand, Early, Late
    <3>5. CASE p.pc = "send"
      BY <3>1, <3>2, <3>3, <3>5 DEF PassOK, InHand, Early, Late
    <3>6. QED  BY <2>2, <3>4, <3>5
  <2>4. \/ /\ WriteRun(p.date, run[p.date])
           /\ \E g \in IF p.pc = "prep" THEN p.todo ELSE p.ready : Go(s, q(g))
        \/ UNCHANGED run /\ Go(s, Idle)
    BY <1>17 DEF Beat
  <2> HIDE DEF p, q
  <2>5. run' \in [Dates -> RunRow]
    BY <1>t, <2>2, <2>4, WriteRunTyped
  <2>6. QED  BY <1>t, <2>1, <2>3, <2>4, <2>5, TypedPass, IdleOK
<1>18. ASSUME NEW s \in Senders, Prepare(s) PROVE Typed'
  <2> DEFINE p == snd[s]  left == p.todo \ {p.gc}
             next == [p EXCEPT !.todo = left, !.gc = NoGc,
                               !.pc = IF left = {} THEN "send" ELSE "prep"]
             q == [next EXCEPT !.ready = @ \cup {p.gc}]
             x == [next EXCEPT !.view[p.gc] = "failed"]
  <2>1. UNCHANGED <<world, mailed, hidden, confirmed, afterHuman, faults>>
    BY <1>18 DEF Prepare, log, Quiet
  <2>2. p \in Passes /\ p.date \in Dates /\ p.gc \in Gcs /\ p.amount \in Nat
    BY <1>a, <1>18 DEF Passes, Prepare, PassOK, InHand, Early, Late
  <2>3. /\ next \in Passes /\ next.pc = (IF left = {} THEN "send" ELSE "prep")
        /\ next.todo = left
    BY <2>2 DEF Passes, PassStates, InPass
  <2>4. PassOK(q) /\ PassOK(x)
    <3> HIDE DEF next, p
    <3>1. q \in Passes /\ q.pc = next.pc /\ q.todo = next.todo
      BY <2>2, <2>3 DEF Passes
    <3>2. x \in Passes /\ x.pc = next.pc /\ x.todo = next.todo
      BY <2>2, <2>3 DEF Passes, RowStatuses
    <3>3. QED  BY <2>3, <3>1, <3>2 DEF PassOK, InHand, Early, Late
  <2>5. /\ Go(s, q) \/ Go(s, x)
        /\ \/ row' = [row EXCEPT ![p.date][p.gc].amount = p.amount]
           \/ row' = [row EXCEPT ![p.date][p.gc] = [status |-> "failed", amount |-> p.amount]]
        /\ Alive(p.date)
    BY <1>18 DEF Prepare
  <2> HIDE DEF p, q, x
  <2>6. row' \in [Dates -> [Gcs -> GcRow]]
    <3>1. \A r \in GcRow : /\ [r EXCEPT !.amount = p.amount] \in GcRow
                           /\ [status |-> "failed", amount |-> p.amount] \in GcRow
      BY <2>2 DEF GcRow, RowStatuses
    <3>2. \A r \in GcRow : [row[p.date] EXCEPT ![p.gc] = r] \in [Gcs -> GcRow]
      BY <1>t, <2>2
    <3>3. \E r \in GcRow : row' = [row EXCEPT ![p.date] = [row[p.date] EXCEPT ![p.gc] = r]]
      <4>1. row[p.date][p.gc] \in GcRow  BY <1>t, <2>2
      <4>2. CASE row' = [row EXCEPT ![p.date][p.gc].amount = p.amount]
        <5> DEFINE r == [row[p.date][p.gc] EXCEPT !.amount = p.amount]
        <5>1. row' = [row EXCEPT ![p.date] = [row[p.date] EXCEPT ![p.gc] = r]]
          BY <4>2, Zenon
        <5>2. r \in GcRow  BY <3>1, <4>1
        <5>3. QED  BY <5>1, <5>2
      <4>3. CASE row' = [row EXCEPT ![p.date][p.gc]
                           = [status |-> "failed", amount |-> p.amount]]
        <5>1. row' = [row EXCEPT ![p.date] = [row[p.date] EXCEPT
                         ![p.gc] = [status |-> "failed", amount |-> p.amount]]]
          BY <4>3, Zenon
        <5>2. QED  BY <3>1, <4>1, <5>1
      <4>4. QED  BY <2>5, <4>2, <4>3
    <3>4. QED  BY <1>t, <2>2, <3>2, <3>3
  <2>7. run' \in [Dates -> RunRow]
    BY <1>t, <2>2, <2>5, AliveTyped
  <2>8. QED  BY <1>t, <2>1, <2>4, <2>5, <2>6, <2>7, TypedPass
<1>19. ASSUME NEW s \in Senders, StopCheck(s) PROVE Typed'
  <2> DEFINE p == snd[s]
             q == IF p.stop \/ StopReason THEN Skip(p) ELSE [p EXCEPT !.pc = "claim"]
  <2>1. UNCHANGED <<world, run, row, mailed, hidden, confirmed, afterHuman, faults>>
    BY <1>19 DEF StopCheck, db, log, Quiet
  <2>2. PassOK(q)
    <3>1. /\ p \in Passes /\ p.gc \in Gcs /\ p.gc \in p.ready /\ p.todo = {}
      BY <1>a, <1>19 DEF PassOK, InHand, StopCheck, Early, Late
    <3>2. /\ Skip(p) \in Passes /\ [p EXCEPT !.pc = "claim"] \in Passes
      BY <3>1 DEF Passes, PassStates, InPass, Skip, RowStatuses
    <3> DEFINE c == [p EXCEPT !.pc = "claim"]
    <3>s. /\ Skip(p).gc = p.gc /\ Skip(p).ready = p.ready /\ Skip(p).pc = "record" /\ Skip(p).todo = p.todo
          /\ Skip(p).outcome = "skipped"
      BY <3>1 DEF Passes, Skip
    <3>c. c.gc = p.gc /\ c.ready = p.ready /\ c.todo = p.todo /\ c.pc = "claim"
      BY <3>1 DEF Passes
    <3>q. q = Skip(p) \/ q = c
      OBVIOUS
    <3>m. Skip(p) \in Passes /\ c \in Passes
      BY <3>2
    <3> HIDE DEF p, q, c
    <3>3. /\ q \in Passes /\ q.gc = p.gc /\ q.ready = p.ready /\ q.todo = {}
          /\ \/ q.pc = "claim"
             \/ q.pc = "record" /\ q.outcome = "skipped"
      BY <3>1, <3>m, <3>s, <3>c, <3>q
    <3> HIDE DEF p, q
    <3>4. QED  BY <3>1, <3>3 DEF PassOK, InHand, Early, Late
  <2>3. Go(s, q)  BY <1>19 DEF StopCheck
  <2> HIDE DEF q
  <2>4. QED  BY <1>t, <2>1, <2>2, <2>3, TypedPass
<1>20. ASSUME NEW s \in Senders, ClaimGc(s) PROVE Typed'
  <2> DEFINE p == snd[s]  q == [p EXCEPT !.pc = "convert"]
             x == [p EXCEPT !.pc = "send", !.ready = @ \ {p.gc}, !.gc = NoGc]
  <2>1. UNCHANGED <<world, mailed, hidden, confirmed, afterHuman, faults>>
    BY <1>20 DEF ClaimGc, log, Quiet
  <2>2. PassOK(q) /\ PassOK(x) /\ p.date \in Dates /\ p.gc \in Gcs
    <3>1. /\ p \in Passes /\ p.gc \in Gcs /\ p.gc \in p.ready /\ p.todo = {}
      BY <1>a, <1>20 DEF PassOK, InHand, ClaimGc, Early, Late
    <3>2. q \in Passes /\ q.pc = "convert" /\ q.gc = p.gc /\ q.ready = p.ready /\ q.todo = {}
      BY <3>1 DEF Passes, PassStates, InPass
    <3>3. x \in Passes /\ x.pc = "send" /\ x.todo = {}
      BY <3>1 DEF Passes, PassStates, InPass
    <3> HIDE DEF q, x
    <3>4. QED  BY <3>1, <3>2, <3>3 DEF PassOK, InHand, Passes, Early, Late
  <2>3. \/ SetRow(p.date, p.gc, "sending") /\ Alive(p.date) /\ Go(s, q)
        \/ UNCHANGED <<run, row>> /\ Go(s, x)
    BY <1>20 DEF ClaimGc, db
  <2>4. "sending" \in RowStatuses  BY DEF RowStatuses
  <2> HIDE DEF p, q, x
  <2>5. row' \in [Dates -> [Gcs -> GcRow]]
    BY <1>t, <2>2, <2>3, <2>4, SetRowTyped
  <2>6. run' \in [Dates -> RunRow]
    BY <1>t, <2>2, <2>3, AliveTyped
  <2>7. QED  BY <1>t, <2>1, <2>2, <2>3, <2>5, <2>6, TypedPass
<1>21. ASSUME NEW s \in Senders, Convert(s) PROVE Typed'
  <2> DEFINE p == snd[s]  q == IF StopReason THEN Skip(p) ELSE [p EXCEPT !.pc = "mail"]
             x == [p EXCEPT !.pc = "record", !.outcome = "failed"]
  <2>1. UNCHANGED <<world, run, row, mailed, hidden, confirmed, afterHuman, faults>>
    BY <1>21 DEF Convert, db, log, Quiet
  <2>2. PassOK(q) /\ PassOK(x)
    <3>1. /\ p \in Passes /\ p.gc \in Gcs /\ p.gc \in p.ready /\ p.todo = {}
      BY <1>a, <1>21 DEF PassOK, InHand, Convert, Early, Late
    <3>2. /\ Skip(p) \in Passes /\ [p EXCEPT !.pc = "mail"] \in Passes /\ x \in Passes
      BY <3>1 DEF Passes, PassStates, InPass, Skip, RowStatuses
    <3> DEFINE c == [p EXCEPT !.pc = "mail"]
    <3>s. /\ Skip(p).gc = p.gc /\ Skip(p).ready = p.ready /\ Skip(p).pc = "record" /\ Skip(p).todo = p.todo
          /\ Skip(p).outcome = "skipped"
      BY <3>1 DEF Passes, Skip
    <3>c. c.gc = p.gc /\ c.ready = p.ready /\ c.todo = p.todo /\ c.pc = "mail"
      BY <3>1 DEF Passes
    <3>q. q = Skip(p) \/ q = c
      OBVIOUS
    <3>m. Skip(p) \in Passes /\ c \in Passes
      BY <3>2
    <3> HIDE DEF p, q, c
    <3>3. /\ q \in Passes /\ q.gc = p.gc /\ q.ready = p.ready /\ q.todo = {}
          /\ \/ q.pc = "mail"
             \/ q.pc = "record" /\ q.outcome = "skipped"
      BY <3>1, <3>m, <3>s, <3>c, <3>q
    <3>4. /\ x.gc = p.gc /\ x.ready = p.ready /\ x.todo = {} /\ x.pc = "record" /\ x.outcome = "failed"
      BY <3>1 DEF Passes
    <3> HIDE DEF p, q, x
    <3>5. QED  BY <3>1, <3>2, <3>3, <3>4 DEF PassOK, InHand, Early, Late
  <2>3. Go(s, q) \/ Go(s, x)  BY <1>21 DEF Convert
  <2> HIDE DEF q, x
  <2>4. QED  BY <1>t, <2>1, <2>2, <2>3, TypedPass
<1>22. ASSUME NEW s \in Senders, Mail(s) PROVE Typed'
  <2> DEFINE p == snd[s]  q(st) == [p EXCEPT !.pc = "record", !.outcome = st]
  <2>1. UNCHANGED <<world, run, row, confirmed>>
    BY <1>22 DEF Mail, db
  <2>2. p.gc \in Gcs
    BY <1>a, <1>22 DEF PassOK, InHand, Mail, Early, Late
  <2>3. /\ mailed' \in [Gcs -> Nat] /\ hidden' \in [Gcs -> Nat]
        /\ afterHuman' \in Nat /\ faults' \in Nat
    <3>1. \A n \in Nat : n + 1 \in Nat  OBVIOUS
    <3>2. /\ mailed' = [mailed EXCEPT ![p.gc] = @ + 1] \/ mailed' = mailed
          /\ hidden' = [hidden EXCEPT ![p.gc] = @ + 1] \/ hidden' = hidden
      BY <1>22 DEF Mail
    <3>3. mailed' \in [Gcs -> Nat] /\ hidden' \in [Gcs -> Nat]
      BY <1>t, <2>2, <3>1, <3>2
    <3>4. afterHuman' = afterHuman + 1 \/ afterHuman' = afterHuman
      BY <1>22 DEF Mail
    <3>5. faults' = faults + 1 \/ faults' = faults
      BY <1>22 DEF Mail
    <3>6. QED  BY <1>t, <3>1, <3>3, <3>4, <3>5
  <2>4. \A st \in {"sent", "failed", "unknown"} : PassOK(q(st))
    <3>1. /\ p \in Passes /\ p.gc \in Gcs /\ p.gc \in p.ready /\ p.todo = {}
      BY <1>a, <1>22 DEF PassOK, InHand, Mail, Early, Late
    <3>2. \A st \in {"sent", "failed", "unknown"} : q(st) \in Passes
      BY <3>1 DEF Passes, PassStates, InPass, RowStatuses
    <3>3. \A st : /\ q(st).gc = p.gc /\ q(st).ready = p.ready /\ q(st).todo = p.todo /\ q(st).pc = "record"
                 /\ q(st).outcome = st
      BY <3>1 DEF Passes
    <3> HIDE DEF p, q
    <3>4. QED  BY <3>1, <3>2, <3>3 DEF PassOK, InHand, Early, Late
  <2>5. \E st \in {"sent", "failed", "unknown"} : Go(s, q(st))
    BY <1>22 DEF Mail, Answer
  <2> HIDE DEF q
  <2>6. QED  BY <1>t, <2>1, <2>3, <2>4, <2>5, TypedPass
<1>23. ASSUME NEW s \in Senders, Record(s) PROVE Typed'
  <2> DEFINE p == snd[s]
             q == [p EXCEPT !.pc = "send", !.ready = @ \ {p.gc}, !.gc = NoGc,
                            !.view[p.gc] = p.outcome]
  <2>1. UNCHANGED <<world, mailed, hidden, confirmed, afterHuman, faults>>
    BY <1>23 DEF Record, log, Quiet
  <2>2. /\ p \in Passes /\ p.date \in Dates /\ p.gc \in Gcs /\ p.outcome \in RowStatuses
        /\ p.todo = {}
    BY <1>a, <1>23 DEF PassOK, Passes, InHand, Record, RowStatuses, Early, Late
  <2>3. PassOK(q)
    BY ZenonT(60), <2>2 DEF PassOK, Passes, PassStates, InPass, InHand, Early, Late
  <2>4. SetRow(p.date, p.gc, p.outcome) /\ Alive(p.date) /\ Go(s, q)
    BY <1>23 DEF Record
  <2> HIDE DEF p, q
  <2>5. row' \in [Dates -> [Gcs -> GcRow]]
    BY <1>t, <2>2, <2>4, SetRowTyped
  <2>6. run' \in [Dates -> RunRow]
    BY <1>t, <2>2, <2>4, AliveTyped
  <2>7. QED  BY <1>t, <2>1, <2>3, <2>4, <2>5, <2>6, TypedPass
<1>24. ASSUME NEW s \in Senders, Finish(s) PROVE Typed'
  <2> DEFINE p == snd[s]
             st == IF p.pc = "send" THEN FinalStatus(p.view) ELSE p.outcome
             r == [run[p.date] EXCEPT !.status = st]
  <2>1. UNCHANGED <<world, row, mailed, hidden, confirmed, afterHuman, faults>>
    BY <1>24 DEF Finish, log, Quiet
  <2>2. p.date \in Dates /\ st \in RunStatuses
    BY <1>a, <1>b, <1>24 DEF PassOK, Passes, Finish, RunStatuses
  <2>3. WriteRun(p.date, r) /\ Go(s, Idle)
    BY <1>24 DEF Finish
  <2>4. r \in RunRow
    <3> HIDE DEF p, st
    <3>1. QED  BY <1>t, <2>2 DEF RunRow
  <2> HIDE DEF p, r
  <2>5. run' \in [Dates -> RunRow]
    BY <1>t, <2>2, <2>3, <2>4, WriteRunTyped
  <2>6. QED  BY <1>t, <2>1, <2>3, <2>5, TypedPass, IdleOK
<1>25. ASSUME NEW s \in Senders, Raise(s) PROVE Typed'
  <2> DEFINE p == snd[s]
             q == IF p.pc \in {"rescue", "rescued"} THEN Idle ELSE [p EXCEPT !.pc = "rescue"]
  <2>1. UNCHANGED <<world, run, row, mailed, hidden, confirmed, afterHuman>> /\ faults' \in Nat
    BY <1>25, <1>t DEF Raise, db, log
  <2>2. PassOK(q)
    BY <1>a, IdleOK DEF PassOK, Passes, PassStates, InPass, InHand, Early, Late
  <2>3. Go(s, q)  BY <1>25 DEF Raise
  <2> HIDE DEF q
  <2>4. QED  BY <1>t, <2>1, <2>2, <2>3, TypedPass
<1>26. ASSUME NEW s \in Senders, Rescue(s) PROVE Typed'
  <2> DEFINE p == snd[s]  rows == Mended(row[p.date])
             st == FinalStatus([g \in Gcs |-> rows[g].status])
             q == [p EXCEPT !.pc = "rescued", !.outcome = st]
  <2>1. UNCHANGED <<world, mailed, hidden, confirmed, afterHuman, faults>>
    BY <1>26 DEF Rescue, log, Quiet
  <2>2. p \in Passes /\ p.date \in Dates
    BY <1>a DEF Passes
  <2>3. st \in {"sent", "partial", "failed"}
    BY FinalStatusTyped
  <2>4. rows \in [Gcs -> GcRow]
    <3>1. \A r \in GcRow : [r EXCEPT !.status = "unknown"] \in GcRow
      BY DEF GcRow, RowStatuses
    <3>2. row[p.date] \in [Gcs -> GcRow]
      BY <1>t, <2>2
    <3>3. QED  BY <3>1, <3>2 DEF Mended
  <2>5. row' = [row EXCEPT ![p.date] = rows] /\ Alive(p.date) /\ Go(s, q)
    BY <1>26 DEF Rescue
  <2> HIDE DEF p, rows, st
  <2>6. PassOK(q)
    BY ZenonT(60), <2>2, <2>3 DEF PassOK, Passes, PassStates, InPass, InHand, RunStatuses, Early, Late
  <2> HIDE DEF q
  <2>7. row' \in [Dates -> [Gcs -> GcRow]]
    BY <1>t, <2>2, <2>4, <2>5
  <2>8. run' \in [Dates -> RunRow]
    BY <1>t, <2>2, <2>5, AliveTyped
  <2>9. QED  BY <1>t, <2>1, <2>5, <2>6, <2>7, <2>8, TypedPass
<1>27. ASSUME NEW d \in Dates, Stall(d) PROVE Typed'
  <2>1. UNCHANGED <<world, row, snd, mailed, hidden, confirmed, afterHuman, faults>>
        /\ run' = [run EXCEPT ![d].quiet = TRUE, ![d].still = TRUE]
    BY <1>27 DEF Stall, log, Quiet
  <2>2. run' \in [Dates -> RunRow]
    BY <1>t, <2>1 DEF RunRow
  <2>3. TypeOK'
    BY <2>1, <2>2, SMTT(30) DEF TypeOK, world, RunRow
  <2>4. QED  BY <2>1, <2>3 DEF PassOK, world
<1>28. ASSUME NEW s \in Senders, NEW d \in Dates, ReclaimRead(s, d) PROVE Typed'
  <2> DEFINE q == [Idle EXCEPT !.pc = "reclaim", !.date = d, !.view = Statuses(d)]
  <2>1. UNCHANGED <<world, run, row, mailed, hidden, confirmed, afterHuman, faults>>
    BY <1>28 DEF ReclaimRead, db, log, Quiet
  <2>2. PassOK(q)
    BY ZenonT(60), <1>a DEF PassOK, Passes, PassStates, Idle, InHand, RunStatuses, RowStatuses, Early, Late
  <2>3. Go(s, q)  BY <1>28 DEF ReclaimRead
  <2> HIDE DEF q
  <2>4. QED  BY <1>t, <2>1, <2>2, <2>3, TypedPass
<1>29. ASSUME NEW s \in Senders, ReclaimRun(s) PROVE Typed'
  <2> DEFINE p == snd[s]  st == FinalStatus(p.view)
             r == [run[p.date] EXCEPT !.status = st]
             q == [p EXCEPT !.pc = "mend"]
  <2>1. UNCHANGED <<world, row, mailed, hidden, confirmed, afterHuman, faults>>
    BY <1>29 DEF ReclaimRun, log, Quiet
  <2>2. PassOK(q) /\ p.date \in Dates /\ st \in RunStatuses
    BY <1>a, <1>b DEF PassOK, Passes, PassStates, InHand, RunStatuses, Early, Late
  <2>3. r \in RunRow
    <3> HIDE DEF p, st
    <3>1. QED  BY <1>t, <2>2 DEF RunRow
  <2>4. \/ WriteRun(p.date, r) /\ Go(s, q)
        \/ UNCHANGED run /\ Go(s, Idle)
    <3> DEFINE same == run[p.date].status = "sending" /\ run[p.date].quiet
    <3>1. CASE same
      BY <1>29, <3>1 DEF ReclaimRun
    <3>2. CASE ~ same
      BY <1>29, <3>2 DEF ReclaimRun
    <3>3. QED  BY <3>1, <3>2
  <2> HIDE DEF p, q, r
  <2>5. run' \in [Dates -> RunRow]
    BY <1>t, <2>2, <2>3, <2>4, WriteRunTyped
  <2>6. QED  BY <1>t, <2>1, <2>2, <2>4, <2>5, TypedPass, IdleOK
<1>30. ASSUME NEW s \in Senders, ReclaimRows(s) PROVE Typed'
  <2> DEFINE p == snd[s]
             rows == [g \in Gcs |-> IF p.view[g] = "sending"
                                    THEN [row[p.date][g] EXCEPT !.status = "unknown"]
                                    ELSE row[p.date][g]]
  <2>1. UNCHANGED <<world, mailed, hidden, confirmed, afterHuman>> /\ faults' \in Nat
    BY <1>30, <1>t DEF ReclaimRows, log
  <2>2. p.date \in Dates
    BY <1>a DEF Passes
  <2>3. rows \in [Gcs -> GcRow]
    BY SMTT(60), <1>t, <2>2 DEF GcRow, RowStatuses
  <2>4. Go(s, Idle)
    BY <1>30 DEF ReclaimRows
  <2>5. \/ row' = [row EXCEPT ![p.date] = rows] /\ Alive(p.date)
        \/ UNCHANGED <<run, row>>
    BY <1>30 DEF ReclaimRows, db
  <2> HIDE DEF p, rows
  <2>6. row' \in [Dates -> [Gcs -> GcRow]]
    BY <1>t, <2>2, <2>3, <2>5
  <2>7. run' \in [Dates -> RunRow]
    BY <1>t, <2>2, <2>5, AliveTyped
  <2>8. QED  BY <1>t, <2>1, <2>4, <2>6, <2>7, TypedPass, IdleOK
<1>31. ASSUME NEW s \in Senders, Crash(s) PROVE Typed'
  <2>1. UNCHANGED <<world, run, row, mailed, hidden, confirmed, afterHuman, faults>> /\ Go(s, Idle)
    BY <1>31 DEF Crash, db, log, Go
  <2>2. QED  BY <1>t, <2>1, TypedPass, IdleOK
<1>32. QED
  BY <1>1, <1>2, <1>3, <1>4, <1>5, <1>6, <1>7, <1>8, <1>9, <1>10, <1>11, <1>12, <1>13,
     <1>14, <1>15, <1>16, <1>17, <1>18, <1>19, <1>20, <1>21, <1>22, <1>23, <1>24, <1>25,
     <1>26, <1>27, <1>28, <1>29, <1>30, <1>31
  DEF Next, People, Pass, Poll

-----------------------------------------------------------------------------
(* What the steps write.                                                   *)

\* A run as it stays when a step gives it no new status: a write is a sign of
\* life at most.
SameRun(d) ==
    /\ run'[d].status = run[d].status /\ run'[d].accepted = run[d].accepted
    /\ run'[d].quiet => run[d].quiet
    /\ run'[d].still => run[d].still

LEMMA WriteRunFacts ==
    ASSUME TypeOK, NEW d \in Dates, NEW r \in RunRow, WriteRun(d, r)
    PROVE  /\ run'[d].status = r.status /\ run'[d].amount = r.amount
           /\ run'[d].accepted = r.accepted /\ ~ run'[d].quiet /\ ~ run'[d].still
           /\ \A e \in Dates : e # d => run'[e] = run[e]
<1> DEFINE w == [r EXCEPT !.quiet = FALSE, !.still = FALSE]
<1>1. /\ w.status = r.status /\ w.amount = r.amount /\ w.accepted = r.accepted
      /\ ~ w.quiet /\ ~ w.still
  BY DEF RunRow
<1>2. run' = [run EXCEPT ![d] = w] /\ run \in [Dates -> RunRow]
  BY Tables DEF WriteRun
<1> HIDE DEF w
<1>3. QED  BY <1>1, <1>2

LEMMA AliveFacts ==
    ASSUME TypeOK, NEW d \in Dates, Alive(d)
    PROVE  /\ \A e \in Dates : SameRun(e) /\ run'[e].amount = run[e].amount
           /\ \A e \in Dates : e # d => run'[e] = run[e]
BY Tables DEF Alive, SameRun, RunRow

LEMMA SetRowFacts ==
    ASSUME TypeOK, NEW d \in Dates, NEW g \in Gcs, NEW st, SetRow(d, g, st)
    PROVE  /\ row'[d][g].status = st /\ row'[d][g].amount = row[d][g].amount
           /\ \A h \in Gcs : h # g => row'[d][h] = row[d][h]
           /\ \A e \in Dates : e # d => row'[e] = row[e]
<1>1. row \in [Dates -> [Gcs -> GcRow]]
  BY Tables
<1> DEFINE r == [row[d][g] EXCEPT !.status = st]
<1>2. row' = [row EXCEPT ![d] = [row[d] EXCEPT ![g] = r]]
  BY Zenon DEF SetRow
<1>3. r.status = st /\ r.amount = row[d][g].amount
  BY <1>1 DEF GcRow
<1> HIDE DEF r
<1>4. row'[d] = [row[d] EXCEPT ![g] = r]
  BY <1>1, <1>2
<1>5. QED  BY <1>1, <1>2, <1>3, <1>4

-----------------------------------------------------------------------------
(* The steps of a pass on its run, but for the claim and the end.          *)

Work(s) ==
    \/ Evaluate(s) \/ Open(s) \/ Insert(s) \/ Beat(s) \/ Prepare(s) \/ StopCheck(s)
    \/ ClaimGc(s) \/ Convert(s) \/ Mail(s) \/ Record(s) \/ Raise(s) \/ Rescue(s)

\* They move one pass, on the date it is on, and give no run a new status.
Inside(s) ==
    /\ snd[s].pc \in InPass
    /\ snd'[s].pc \in InPass \cup {"idle"}
    /\ snd'[s].pc # "idle" => snd'[s].date = snd[s].date
    /\ \A t \in Senders : t # s => snd'[t] = snd[t]
    /\ \A d \in Dates : SameRun(d)
    /\ \A d \in Dates : d # snd[s].date => row'[d] = row[d] /\ run'[d] = run[d]
    /\ UNCHANGED <<now, bidDate>>

\* The others stay where they are.
Moves(s) == \A t \in Senders : t # s => snd'[t] = snd[t]

LEMMA InsideFrom ==
    ASSUME NEW s \in Senders, Moves(s), UNCHANGED world,
           snd[s].pc \in InPass, snd'[s].pc \in InPass \cup {"idle"},
           snd'[s].pc # "idle" => snd'[s].date = snd[s].date,
           \A d \in Dates : SameRun(d),
           \A d \in Dates : d # snd[s].date => row'[d] = row[d] /\ run'[d] = run[d]
    PROVE  Inside(s)
BY DEF Moves, Inside, world

LEMMA RunsSame == ASSUME UNCHANGED run PROVE \A d \in Dates : SameRun(d)
BY DEF SameRun

LEMMA WorkInside == ASSUME Typed, NEW s \in Senders, Work(s) PROVE Inside(s)
<1> DEFINE p == snd[s]
<1>1. /\ p \in Passes /\ p.date \in Dates /\ TypeOK
      /\ run \in [Dates -> RunRow] /\ row \in [Dates -> [Gcs -> GcRow]]
  BY Tables DEF Typed, PassOK, Passes
<1>g. DOMAIN snd = Senders
  BY DEF Typed
<1>2. CASE Evaluate(s)
  <2>1. /\ UNCHANGED world /\ UNCHANGED run /\ UNCHANGED row /\ p.pc = "claimed"
        /\ \/ \E st : Go(s, [p EXCEPT !.pc = "close", !.outcome = st])
           \/ \E view, n : Go(s, [p EXCEPT !.pc = "open", !.view = view, !.amount = n])
    BY <1>2 DEF Evaluate, db
  <2>m. Moves(s) /\ snd'[s].pc \in {"close", "open"} /\ snd'[s].date = p.date
    BY ZenonT(60), <1>1, <1>g, <2>1 DEF Passes, Go, Moves
  <2>2. QED  BY <2>1, <2>m, InsideFrom, RunsSame DEF InPass
<1>3. CASE Open(s)
  <2>1. /\ UNCHANGED world /\ UNCHANGED row /\ p.pc = "open"
        /\ Go(s, [p EXCEPT !.pc = "insert"])
    BY <1>3 DEF Open
  <2>m. Moves(s) /\ snd'[s].pc = "insert" /\ snd'[s].date = p.date
    BY <1>1, <1>g, <2>1 DEF Passes, Go, Moves
  <2> DEFINE r == [run[p.date] EXCEPT !.amount = p.amount]
  <2>2. r \in RunRow /\ r.status = run[p.date].status /\ r.accepted = run[p.date].accepted
    BY <1>1 DEF RunRow, Passes
  <2>3. WriteRun(p.date, r)  BY <1>3 DEF Open
  <2> HIDE DEF r
  <2>4. /\ \A d \in Dates : SameRun(d)
        /\ \A d \in Dates : d # p.date => run'[d] = run[d]
    BY <1>1, <2>2, <2>3, WriteRunFacts DEF SameRun
  <2>5. QED  BY <2>1, <2>m, <2>4, InsideFrom DEF InPass
<1>4. CASE Insert(s)
  <2>1. /\ UNCHANGED world /\ p.pc = "insert"
        /\ Alive(p.date) \/ UNCHANGED run
        /\ \A d \in Dates : d # p.date => row'[d] = row[d]
    BY <1>1, <1>4 DEF Insert, db
  <2>2. Moves(s) /\ snd'[s].pc \in {"send", "prep", "rescue"} /\ snd'[s].date = p.date
    <3>1. CASE \E g \in {h \in Gcs : p.view[h] = "absent"} : row[p.date][g].status # "absent"
      <4>1. \/ Go(s, [p EXCEPT !.pc = "rescue"])
            \/ \E todo, view : Go(s, [p EXCEPT !.pc = IF todo = {} THEN "send" ELSE "prep",
                                         !.todo = todo, !.view = view])
        BY <1>4 DEF Insert
      <4>2. QED  BY ZenonT(60), <1>1, <1>g, <4>1 DEF Passes, Go, Moves
    <3>2. CASE ~ \E g \in {h \in Gcs : p.view[h] = "absent"} : row[p.date][g].status # "absent"
      <4>1. \E todo, view : Go(s, [p EXCEPT !.pc = IF todo = {} THEN "send" ELSE "prep",
                                      !.todo = todo, !.view = view])
        BY <1>4, <3>2 DEF Insert
      <4>2. QED  BY <1>1, <1>g, <4>1 DEF Passes, Go, Moves
    <3>3. QED  BY <3>1, <3>2
  <2>3. /\ \A d \in Dates : SameRun(d)
        /\ \A d \in Dates : d # p.date => run'[d] = run[d]
    BY <1>1, <2>1, AliveFacts, RunsSame
  <2>4. QED  BY <2>1, <2>2, <2>3, InsideFrom DEF InPass
<1>5. CASE Beat(s)
  <2>1. /\ UNCHANGED world /\ UNCHANGED row /\ p.pc \in {"prep", "send"}
        /\ WriteRun(p.date, run[p.date]) \/ UNCHANGED run
    BY <1>5 DEF Beat
  <2>2. /\ Moves(s) /\ snd'[s].pc \in {"prepare", "check", "idle"}
        /\ snd'[s].pc # "idle" => snd'[s].date = p.date
    <3>1. \/ Go(s, Idle)
          \/ \E g : Go(s, [p EXCEPT !.gc = g,
                                    !.pc = IF p.pc = "prep" THEN "prepare" ELSE "check"])
      BY <1>5 DEF Beat
    <3>2. QED  BY ZenonT(60), <1>1, <1>g, <3>1, IdleOK DEF Passes, Go, Moves
  <2>3. /\ \A d \in Dates : SameRun(d)
        /\ \A d \in Dates : d # p.date => run'[d] = run[d]
    BY <1>1, <2>1, WriteRunFacts, RunsSame DEF SameRun
  <2>4. QED  BY <2>1, <2>2, <2>3, InsideFrom DEF InPass
<1>6. CASE Prepare(s)
  <2>1. /\ UNCHANGED world /\ p.pc = "prepare" /\ Alive(p.date)
        /\ \A d \in Dates : d # p.date => row'[d] = row[d]
    BY <1>1, <1>6 DEF Prepare
  <2>2. Moves(s) /\ snd'[s].pc \in {"send", "prep"} /\ snd'[s].date = p.date
    <3> DEFINE left == p.todo \ {p.gc}
               next == [p EXCEPT !.todo = left, !.gc = NoGc,
                                 !.pc = IF left = {} THEN "send" ELSE "prep"]
    <3>1. next.date = p.date /\ next.pc \in {"send", "prep"} /\ DOMAIN next = DOMAIN p
      BY <1>1 DEF Passes
    <3>2. \/ Go(s, [next EXCEPT !.ready = @ \cup {p.gc}])
          \/ Go(s, [next EXCEPT !.view[p.gc] = "failed"])
      BY <1>6 DEF Prepare
    <3> HIDE DEF next
    <3>3. QED  BY <1>1, <1>g, <3>1, <3>2 DEF Passes, Go, Moves
  <2>3. QED  BY <1>1, <2>1, <2>2, AliveFacts, InsideFrom DEF InPass
<1>7. CASE StopCheck(s)
  <2>1. /\ UNCHANGED world /\ UNCHANGED run /\ UNCHANGED row /\ p.pc = "check"
        /\ \/ Go(s, Skip(p))
           \/ Go(s, [p EXCEPT !.pc = "claim"])
    BY <1>7 DEF StopCheck, db
  <2>2. Moves(s) /\ snd'[s].pc \in {"record", "claim"} /\ snd'[s].date = p.date
    BY ZenonT(60), <1>1, <1>g, <2>1 DEF Skip, Passes, Go, Moves
  <2>3. QED  BY <2>1, <2>2, InsideFrom, RunsSame DEF InPass
<1>8. CASE ClaimGc(s)
  <2>1. /\ UNCHANGED world /\ p.pc = "claim" /\ p.gc \in Gcs
        /\ \/ SetRow(p.date, p.gc, "sending") /\ Alive(p.date)
           \/ UNCHANGED row /\ UNCHANGED run
        /\ \/ Go(s, [p EXCEPT !.pc = "convert"])
           \/ Go(s, [p EXCEPT !.pc = "send", !.ready = @ \ {p.gc}, !.gc = NoGc])
    BY <1>8 DEF ClaimGc, db, Typed, PassOK, InHand, Early, Late
  <2>2. Moves(s) /\ snd'[s].pc \in {"send", "convert"} /\ snd'[s].date = p.date
    BY <1>1, <1>g, <2>1 DEF Passes, Go, Moves
  <2>3. /\ \A d \in Dates : SameRun(d)
        /\ \A d \in Dates : d # p.date => run'[d] = run[d] /\ row'[d] = row[d]
    BY <1>1, <2>1, AliveFacts, RunsSame, SetRowFacts
  <2>4. QED  BY <2>1, <2>2, <2>3, InsideFrom DEF InPass
<1>9. CASE Convert(s)
  <2>1. /\ UNCHANGED world /\ UNCHANGED run /\ UNCHANGED row /\ p.pc = "convert"
        /\ \/ Go(s, Skip(p))
           \/ Go(s, [p EXCEPT !.pc = "mail"])
           \/ Go(s, [p EXCEPT !.pc = "record", !.outcome = "failed"])
    BY <1>9 DEF Convert, db
  <2>2. Moves(s) /\ snd'[s].pc \in {"record", "mail"} /\ snd'[s].date = p.date
    BY ZenonT(60), <1>1, <1>g, <2>1 DEF Skip, Passes, Go, Moves
  <2>3. QED  BY <2>1, <2>2, InsideFrom, RunsSame DEF InPass
<1>10. CASE Mail(s)
  <2>1. /\ UNCHANGED world /\ UNCHANGED run /\ UNCHANGED row /\ p.pc = "mail"
        /\ \E st : Go(s, [p EXCEPT !.pc = "record", !.outcome = st])
    BY <1>10 DEF Mail, db
  <2>2. Moves(s) /\ snd'[s].pc = "record" /\ snd'[s].date = p.date
    BY <1>1, <1>g, <2>1 DEF Passes, Go, Moves
  <2>3. QED  BY <2>1, <2>2, InsideFrom, RunsSame DEF InPass
<1>11. CASE Record(s)
  <2>1. /\ UNCHANGED world /\ p.pc = "record" /\ p.gc \in Gcs
        /\ SetRow(p.date, p.gc, p.outcome) /\ Alive(p.date)
        /\ Go(s, [p EXCEPT !.pc = "send", !.ready = @ \ {p.gc}, !.gc = NoGc,
                           !.view[p.gc] = p.outcome])
    BY <1>11 DEF Record, Typed, PassOK, InHand, Early, Late
  <2>2. Moves(s) /\ snd'[s].pc = "send" /\ snd'[s].date = p.date
    BY <1>1, <1>g, <2>1 DEF Passes, Go, Moves
  <2>3. QED  BY <1>1, <2>1, <2>2, AliveFacts, SetRowFacts, InsideFrom DEF InPass
<1>12. CASE Raise(s)
  <2>1. /\ UNCHANGED world /\ UNCHANGED run /\ UNCHANGED row /\ p.pc \in InPass
        /\ \/ Go(s, Idle)
           \/ Go(s, [p EXCEPT !.pc = "rescue"])
    BY <1>12 DEF Raise, db
  <2>2. /\ Moves(s) /\ snd'[s].pc \in {"rescue", "idle"}
        /\ snd'[s].pc # "idle" => snd'[s].date = p.date
    BY <1>1, <1>g, <2>1, IdleOK DEF Passes, Go, Moves
  <2>3. QED  BY <2>1, <2>2, InsideFrom, RunsSame DEF InPass
<1>13. CASE Rescue(s)
  <2>1. /\ UNCHANGED world /\ p.pc = "rescue" /\ Alive(p.date)
        /\ \A d \in Dates : d # p.date => row'[d] = row[d]
        /\ \E st : Go(s, [p EXCEPT !.pc = "rescued", !.outcome = st])
    BY <1>1, <1>13 DEF Rescue
  <2>2. Moves(s) /\ snd'[s].pc = "rescued" /\ snd'[s].date = p.date
    BY <1>1, <1>g, <2>1 DEF Passes, Go, Moves
  <2>3. QED  BY <1>1, <2>1, <2>2, AliveFacts, InsideFrom DEF InPass
<1>14. QED
  BY <1>2, <1>3, <1>4, <1>5, <1>6, <1>7, <1>8, <1>9, <1>10, <1>11, <1>12, <1>13 DEF Work

-----------------------------------------------------------------------------
(* What the other steps do.                                                *)

\* The fields a claim, an end or a reclaim of run d leaves alone, and the
\* other runs.
Rewrites(d) ==
    /\ run'[d].amount = run[d].amount /\ run'[d].accepted = run[d].accepted
    /\ ~ run'[d].quiet /\ ~ run'[d].still
    /\ \A e \in Dates : e # d => run'[e] = run[e]

\* A person's step on something else than runs.
Aside == Reprice \/ Switch \/ HumanSend \/ HumanDone

LEMMA AsideFacts ==
    ASSUME Aside
    PROVE  UNCHANGED <<now, bidDate, run, row, snd, mailed, hidden, confirmed, faults>>
BY DEF Aside, Reprice, Switch, HumanSend, HumanDone, db, log, Quiet

LEMMA AcceptFacts ==
    ASSUME Typed, NEW d \in Dates, Accept(d)
    PROVE  /\ UNCHANGED <<now, bidDate, row, snd, mailed, hidden, confirmed, afterHuman, faults>>
           /\ run'[d].status = run[d].status /\ run'[d].amount = run[d].amount
           /\ run'[d].accepted /\ ~ run'[d].quiet /\ ~ run'[d].still
           /\ \A e \in Dates : e # d => run'[e] = run[e]
           /\ run[d].status \in WentOut /\ human' = "sent" /\ human \notin {"sent", "sending"}
<1> DEFINE r == [run[d] EXCEPT !.accepted = TRUE]
<1>1. /\ UNCHANGED <<now, bidDate, row, snd, mailed, hidden, confirmed, afterHuman, faults>>
      /\ run[d].status \in WentOut /\ human' = "sent" /\ human \notin {"sent", "sending"}
  BY DEF Accept, log, Acceptable
<1>2. r \in RunRow /\ r.status = run[d].status /\ r.amount = run[d].amount /\ r.accepted
  BY Tables DEF RunRow, Typed
<1>3. WriteRun(d, r)  BY DEF Accept
<1> HIDE DEF r
<1>4. QED  BY <1>1, <1>2, <1>3, WriteRunFacts DEF Typed

LEMMA SendNowFacts ==
    ASSUME Typed, NEW s \in Senders, NEW d \in Dates, NEW force \in BOOLEAN,
           SendNow(s, d, force)
    PROVE  /\ UNCHANGED <<now, bidDate, human, run, row, mailed, hidden, afterHuman, faults>>
           /\ Moves(s) /\ snd[s].pc = "idle"
           /\ snd'[s].pc = "asked" /\ snd'[s].date = d /\ snd'[s].force = force
           /\ run[d].status # "none" /\ bidDate <= d
           /\ \A e \in Dates : run[e].status # "sending"
           /\ confirmed' = IF force THEN confirmed + 1 ELSE confirmed
BY DEF SendNow, Typed, Moves, Go, Idle, world, db

LEMMA DueFacts ==
    ASSUME Typed, NEW s \in Senders, NEW d \in Dates, Due(s, d)
    PROVE  /\ UNCHANGED <<now, bidDate, human, run, row, mailed, hidden, confirmed, afterHuman, faults>>
           /\ Moves(s) /\ snd[s].pc = "idle"
           /\ snd'[s].pc = "due" /\ snd'[s].date = d /\ ~ snd'[s].force
           /\ bidDate = d /\ now = SendAt(d)
BY DEF Due, Typed, Moves, Go, Idle, world, db, log, Quiet, InWindow

LEMMA CheckFacts ==
    ASSUME Typed, NEW s \in Senders, Check(s)
    PROVE  /\ UNCHANGED <<now, bidDate, human, run, row, mailed, hidden, confirmed, afterHuman, faults>>
           /\ Moves(s) /\ snd[s].pc = "due"
           /\ \/ /\ snd'[s].pc = "checked" /\ snd'[s].date = snd[s].date
                 /\ snd'[s].force = snd[s].force
                 /\ \A e \in Dates : e # snd[s].date => run[e].status # "sending"
              \/ snd'[s] = Idle
<1>1. snd[s] \in Passes /\ DOMAIN snd = Senders
  BY DEF Typed, PassOK
<1>2. CASE MaySend(snd[s].date)
  BY <1>1, <1>2 DEF Check, Moves, Go, world, db, log, Quiet, MaySend, Passes
<1>3. CASE ~ MaySend(snd[s].date)
  BY <1>1, <1>3 DEF Check, Moves, Go, world, db, log, Quiet, Passes
<1>4. QED  BY <1>2, <1>3

LEMMA ClaimRunFacts ==
    ASSUME Typed, NEW s \in Senders, ClaimRun(s)
    PROVE  LET p == snd[s]  q == snd'[s] IN
           /\ UNCHANGED <<now, bidDate, human, row, mailed, hidden, confirmed, afterHuman, faults>>
           /\ p.pc \in {"checked", "asked"} /\ p.date \in Dates /\ Moves(s)
           /\ Calm => ~ Mending(p.date)
           /\ \/ /\ Claimable(p)
                 /\ run'[p.date].status = "sending" /\ Rewrites(p.date)
                 /\ q.pc = "claimed" /\ q.date = p.date /\ q.force = p.force
              \/ run' = run /\ q = Idle
<1> DEFINE p == snd[s]  r == [run[p.date] EXCEPT !.status = "sending"]
<1>1. /\ p \in Passes /\ DOMAIN snd = Senders /\ p.date \in Dates
      /\ run \in [Dates -> RunRow]
  BY Tables DEF Typed, PassOK, Passes
<1>2. /\ UNCHANGED <<now, bidDate, human, row, mailed, hidden, confirmed, afterHuman, faults>>
      /\ p.pc \in {"checked", "asked"}
      /\ Calm => ~ Mending(p.date)
  BY DEF ClaimRun, world, log, Quiet
<1>3. CASE Claimable(p)
  <2>1. Moves(s) /\ snd'[s].pc = "claimed" /\ snd'[s].date = p.date /\ snd'[s].force = p.force
    BY <1>1, <1>3 DEF ClaimRun, Go, Moves, Passes
  <2>2. /\ r \in RunRow /\ r.status = "sending" /\ r.amount = run[p.date].amount
        /\ r.accepted = run[p.date].accepted
    BY <1>1 DEF RunRow, RunStatuses
  <2>3. WriteRun(p.date, r)
    BY <1>3 DEF ClaimRun
  <2> HIDE DEF r
  <2>4. run'[p.date].status = "sending" /\ Rewrites(p.date)
    BY <1>1, <2>2, <2>3, WriteRunFacts DEF Rewrites, Typed
  <2>5. QED  BY <1>1, <1>2, <1>3, <2>1, <2>4
<1>4. CASE ~ Claimable(p)
  BY <1>1, <1>2, <1>4 DEF ClaimRun, Go, Moves
<1>5. QED  BY <1>3, <1>4

LEMMA MissedFacts ==
    ASSUME Typed, NEW s \in Senders, NEW d \in Dates, Missed(s, d)
    PROVE  /\ UNCHANGED <<now, bidDate, human, row, snd, mailed, hidden, confirmed, afterHuman, faults>>
           /\ \/ /\ run[d].status = "none" /\ bidDate = d /\ now > SendAt(d)
                 /\ run'[d].status = "missed" /\ Rewrites(d)
              \/ run' = run
<1> DEFINE r == [run[d] EXCEPT !.status = "missed"]
<1>1. UNCHANGED <<now, bidDate, human, row, snd, mailed, hidden, confirmed, afterHuman, faults>>
  BY DEF Missed, world, log, Quiet
<1>2. CASE Forgotten(d)
  <2>1. /\ r \in RunRow /\ r.status = "missed" /\ r.amount = run[d].amount
        /\ r.accepted = run[d].accepted
    BY Tables DEF RunRow, RunStatuses, Typed
  <2>2. WriteRun(d, r)  BY <1>2 DEF Missed
  <2> HIDE DEF r
  <2>3. run'[d].status = "missed" /\ Rewrites(d)
    BY <2>1, <2>2, WriteRunFacts DEF Rewrites, Typed
  <2>4. QED  BY <1>1, <1>2, <2>3 DEF Forgotten, WindowOver
<1>3. CASE ~ Forgotten(d)
  BY <1>1, <1>3 DEF Missed
<1>4. QED  BY <1>2, <1>3

LEMMA FinishFacts ==
    ASSUME Typed, NEW s \in Senders, Finish(s)
    PROVE  LET p == snd[s] IN
           /\ UNCHANGED <<now, bidDate, human, row, mailed, hidden, confirmed, afterHuman, faults>>
           /\ Moves(s) /\ snd'[s] = Idle /\ p.pc \in InPass /\ p.date \in Dates
           /\ run'[p.date].status \in {"sent", "partial", "failed", "skipped"}
           /\ Rewrites(p.date)
           /\ \/ p.pc = "send" /\ run'[p.date].status = FinalStatus(p.view)
              \/ p.pc \in {"close", "rescued"} /\ run'[p.date].status = p.outcome
<1> DEFINE p == snd[s]
           st == IF p.pc = "send" THEN FinalStatus(p.view) ELSE p.outcome
           r == [run[p.date] EXCEPT !.status = st]
<1>1. /\ p \in Passes /\ DOMAIN snd = Senders /\ p.date \in Dates /\ PassOK(p)
      /\ run \in [Dates -> RunRow]
  BY Tables DEF Typed, PassOK, Passes
<1>2. /\ UNCHANGED <<now, bidDate, human, row, mailed, hidden, confirmed, afterHuman, faults>>
      /\ p.pc \in {"send", "close", "rescued"} /\ Moves(s) /\ snd'[s] = Idle
  BY <1>1 DEF Finish, world, log, Quiet, Go, Moves
<1>3. WriteRun(p.date, r)
  BY DEF Finish
<1>4. st \in {"sent", "partial", "failed", "skipped"}
  BY <1>1, <1>2, FinalStatusTyped DEF PassOK
<1>5. \/ p.pc = "send" /\ st = FinalStatus(p.view)
      \/ p.pc \in {"close", "rescued"} /\ st = p.outcome
  BY <1>2
<1> HIDE DEF st
<1>6. /\ r \in RunRow /\ r.status = st /\ r.amount = run[p.date].amount
      /\ r.accepted = run[p.date].accepted
  BY <1>1, <1>4 DEF RunRow, RunStatuses
<1> HIDE DEF r
<1>7. run'[p.date].status = st /\ Rewrites(p.date)
  BY <1>1, <1>3, <1>6, WriteRunFacts DEF Rewrites, Typed
<1>8. QED  BY <1>1, <1>2, <1>4, <1>5, <1>7 DEF InPass

LEMMA StallFacts ==
    ASSUME Typed, NEW d \in Dates, Stall(d)
    PROVE  /\ UNCHANGED <<now, bidDate, human, row, snd, mailed, hidden, confirmed, afterHuman, faults>>
           /\ run[d].status = "sending"
           /\ ~ \E s \in Senders : snd[s].date = d /\ snd[s].pc = "reclaim"
           /\ Timely => ~ \E s \in Senders : snd[s].date = d /\ snd[s].pc \in InPass
           /\ run'[d].status = run[d].status /\ run'[d].accepted = run[d].accepted
           /\ run'[d].amount = run[d].amount
           /\ \A e \in Dates : e # d => run'[e] = run[e]
BY Tables DEF Stall, Typed, world, log, Quiet, RunRow

LEMMA ReclaimReadFacts ==
    ASSUME Typed, NEW s \in Senders, NEW d \in Dates, ReclaimRead(s, d)
    PROVE  /\ UNCHANGED <<now, bidDate, human, run, row, mailed, hidden, confirmed, afterHuman, faults>>
           /\ Moves(s) /\ snd[s].pc = "idle"
           /\ snd'[s].pc = "reclaim" /\ snd'[s].date = d /\ ~ snd'[s].force
           /\ snd'[s].view = Statuses(d)
BY DEF ReclaimRead, Typed, Moves, Go, Idle, world, db, log, Quiet

LEMMA ReclaimRunFacts ==
    ASSUME Typed, NEW s \in Senders, ReclaimRun(s)
    PROVE  LET p == snd[s]  q == snd'[s] IN
           /\ UNCHANGED <<now, bidDate, human, row, mailed, hidden, confirmed, afterHuman, faults>>
           /\ p.pc = "reclaim" /\ p.date \in Dates /\ Moves(s)
           /\ \/ /\ run[p.date].status = "sending" /\ run[p.date].quiet
                 /\ run'[p.date].status = FinalStatus(p.view) /\ Rewrites(p.date)
                 /\ run'[p.date].status \in {"sent", "partial", "failed"}
                 /\ q.pc = "mend" /\ q.date = p.date /\ q.force = p.force /\ q.view = p.view
              \/ run' = run /\ q = Idle
<1> DEFINE p == snd[s]  st == FinalStatus(p.view)
           r == [run[p.date] EXCEPT !.status = st]
           same == run[p.date].status = "sending" /\ run[p.date].quiet
<1>1. /\ p \in Passes /\ DOMAIN snd = Senders /\ p.date \in Dates
      /\ run \in [Dates -> RunRow]
  BY Tables DEF Typed, PassOK, Passes
<1>2. /\ UNCHANGED <<now, bidDate, human, row, mailed, hidden, confirmed, afterHuman, faults>>
      /\ p.pc = "reclaim"
  BY DEF ReclaimRun, world, log, Quiet
<1>3. CASE same
  <2>1. /\ Moves(s) /\ snd'[s].pc = "mend" /\ snd'[s].date = p.date
        /\ snd'[s].force = p.force /\ snd'[s].view = p.view
    BY <1>1, <1>3 DEF ReclaimRun, Go, Moves, Passes
  <2>2. WriteRun(p.date, r)
    BY <1>3 DEF ReclaimRun
  <2>3. st \in {"sent", "partial", "failed"}
    BY FinalStatusTyped
  <2> HIDE DEF st
  <2>4. /\ r \in RunRow /\ r.status = st /\ r.amount = run[p.date].amount
        /\ r.accepted = run[p.date].accepted
    BY <1>1, <2>3 DEF RunRow, RunStatuses
  <2> HIDE DEF r
  <2>5. run'[p.date].status = st /\ Rewrites(p.date)
    BY <1>1, <2>2, <2>4, WriteRunFacts DEF Rewrites, Typed
  <2>6. QED  BY <1>1, <1>2, <1>3, <2>1, <2>3, <2>5 DEF st
<1>4. CASE ~ same
  BY <1>1, <1>2, <1>4 DEF ReclaimRun, Go, Moves
<1>5. QED  BY <1>3, <1>4

LEMMA ReclaimRowsFacts ==
    ASSUME Typed, NEW s \in Senders, ReclaimRows(s)
    PROVE  LET p == snd[s] IN
           /\ UNCHANGED <<now, bidDate, human, mailed, hidden, confirmed, afterHuman>>
           /\ p.pc = "mend" /\ p.date \in Dates /\ Moves(s) /\ snd'[s] = Idle
           /\ faults' = faults \/ faults' = faults + 1
           /\ \A d \in Dates : SameRun(d) /\ run'[d].amount = run[d].amount
           /\ \A d \in Dates : d # p.date => row'[d] = row[d] /\ run'[d] = run[d]
           /\ \/ row' = row
              \/ \A g \in Gcs : /\ row'[p.date][g].amount = row[p.date][g].amount
                                /\ row'[p.date][g].status = IF p.view[g] = "sending"
                                                            THEN "unknown"
                                                            ELSE row[p.date][g].status
<1> DEFINE p == snd[s]
           f(old) == [g \in Gcs |-> IF p.view[g] = "sending"
                                    THEN [old[g] EXCEPT !.status = "unknown"] ELSE old[g]]
<1>1. /\ p \in Passes /\ DOMAIN snd = Senders /\ p.date \in Dates /\ TypeOK
      /\ run \in [Dates -> RunRow] /\ row \in [Dates -> [Gcs -> GcRow]]
  BY Tables DEF Typed, PassOK, Passes
<1>2. /\ UNCHANGED <<now, bidDate, human, mailed, hidden, confirmed, afterHuman>>
      /\ p.pc = "mend" /\ Moves(s) /\ snd'[s] = Idle
      /\ faults' = faults \/ faults' = faults + 1
  BY <1>1 DEF ReclaimRows, world, log, Quiet, Go, Moves
<1>3. \/ row' = [row EXCEPT ![p.date] = f(row[p.date])] /\ Alive(p.date)
      \/ row' = row /\ run' = run
  BY DEF ReclaimRows, db
<1>4. /\ \A d \in Dates : SameRun(d) /\ run'[d].amount = run[d].amount
      /\ \A d \in Dates : d # p.date => run'[d] = run[d]
  BY <1>1, <1>3, AliveFacts, RunsSame
<1>5. \A old \in [Gcs -> GcRow], g \in Gcs :
         /\ f(old)[g].amount = old[g].amount
         /\ f(old)[g].status = IF p.view[g] = "sending" THEN "unknown" ELSE old[g].status
  BY DEF GcRow
<1> HIDE DEF f
<1>6. /\ \A d \in Dates : d # p.date => row'[d] = row[d]
      /\ row' = row \/ row'[p.date] = f(row[p.date])
  BY <1>1, <1>3
<1>7. QED  BY <1>1, <1>2, <1>4, <1>5, <1>6

LEMMA CrashFacts ==
    ASSUME Typed, NEW s \in Senders, Crash(s)
    PROVE  /\ UNCHANGED <<now, bidDate, human, run, row, mailed, hidden, confirmed, afterHuman, faults>>
           /\ Moves(s) /\ snd'[s] = Idle
BY DEF Crash, Typed, Moves, world, db, log

\* The steps, class by class.
LEMMA StepCases ==
    ASSUME Next
    PROVE  \/ Tick
           \/ \E d \in Dates : MoveDate(d)
           \/ Aside
           \/ \E d \in Dates : Accept(d)
           \/ \E s \in Senders, d \in Dates, force \in BOOLEAN : SendNow(s, d, force)
           \/ \E s \in Senders, d \in Dates : Due(s, d)
           \/ \E s \in Senders : Check(s)
           \/ \E s \in Senders : ClaimRun(s)
           \/ \E s \in Senders, d \in Dates : Missed(s, d)
           \/ \E s \in Senders : Work(s)
           \/ \E s \in Senders : Finish(s)
           \/ \E d \in Dates : Stall(d)
           \/ \E s \in Senders, d \in Dates : ReclaimRead(s, d)
           \/ \E s \in Senders : ReclaimRun(s)
           \/ \E s \in Senders : ReclaimRows(s)
           \/ \E s \in Senders : Crash(s)
BY DEF Next, People, Pass, Poll, Aside, Work

-----------------------------------------------------------------------------
(* The calendar, and one run and one pass at a time.                       *)

LEMMA TickFacts ==
    ASSUME Tick
    PROVE  /\ UNCHANGED <<bidDate, human, run, row, snd, mailed, hidden, confirmed, afterHuman, faults>>
           /\ now' = now + 1
BY DEF Tick, db, log, Quiet

\* The bid date moves when nobody is about to claim a run, to a day that is not
\* over.
LEMMA MoveDateFacts ==
    ASSUME Calm, NEW d \in Dates, MoveDate(d)
    PROVE  /\ UNCHANGED <<now, human, run, row, snd, mailed, hidden, confirmed, afterHuman, faults>>
           /\ bidDate' = d /\ ~ Past(d)
           /\ \A s \in Senders : snd[s].pc \notin Reading
BY DEF MoveDate, db, log

LEMMA DatedStep ==
    ASSUME Typed, Calm, Dated, Alone, Next
    PROVE  Dated'
<1> USE DEF Dated
<1>1. /\ \A s \in Senders : snd[s].date \in Dates
      /\ bidDate \in Dates /\ now \in Nat /\ Dates \subseteq Nat
      /\ \A d \in Dates : SendAt(d) \in Nat
  <2>1. \A s \in Senders : snd[s].date \in Dates
    BY DEF Typed, PassOK, Passes
  <2>2. bidDate \in Dates /\ now \in Nat
    BY Bounds DEF Typed, TypeOK
  <2>3. \A d \in Dates : SendAt(d) \in Nat
    BY Bounds DEF SendAt, Dates
  <2>4. Dates \subseteq Nat
    BY Bounds
  <2>5. QED  BY <2>1, <2>2, <2>3, <2>4
<1>2. CASE Tick
  <2>1. \A n, k \in Nat : n >= k => n + 1 >= k
    OBVIOUS
  <2>2. \A d \in Dates : now >= SendAt(d) => now' >= SendAt(d)
    BY <1>1, <1>2, <2>1, TickFacts
  <2>3. UNCHANGED <<bidDate, run, snd>>
    BY <1>2, TickFacts
  <2>4. QED  BY <1>1, <2>2, <2>3
<1>3. ASSUME NEW d \in Dates, MoveDate(d) PROVE Dated'
  <2>1. \A e \in Dates : now >= SendAt(e) => e <= d
    <3>1. \A n, i, j \in Nat : n >= 3 * (i - 1) + 1 /\ ~ (n > 3 * (j - 1) + 1 + 1) => i <= j
      OBVIOUS
    <3>2. ~ (now > 3 * (d - 1) + 1 + 1)
      BY <1>3, MoveDateFacts DEF Past, SendAt
    <3>3. QED  BY <1>1, <3>1, <3>2 DEF SendAt
  <2>2. QED  BY <1>1, <1>3, <2>1, MoveDateFacts DEF Reading
<1>4. CASE Aside
  BY <1>4, AsideFacts
<1>5. ASSUME NEW d \in Dates, Accept(d) PROVE Dated'
  <2>1. \A e \in Dates : run'[e].status = run[e].status
    BY <1>5, AcceptFacts
  <2>2. QED  BY <1>1, <1>5, <2>1, AcceptFacts
<1>6. ASSUME NEW s \in Senders, NEW d \in Dates, NEW force \in BOOLEAN, SendNow(s, d, force)
      PROVE Dated'
  BY <1>1, <1>6, SendNowFacts DEF Moves, Reading
<1>7. ASSUME NEW s \in Senders, NEW d \in Dates, Due(s, d) PROVE Dated'
  <2>1. now >= SendAt(d) /\ UNCHANGED <<now, bidDate, run>> /\ bidDate = d
    BY <1>1, <1>7, DueFacts
  <2>2. Moves(s) /\ snd'[s].pc = "due" /\ snd'[s].date = d
    BY <1>7, DueFacts
  <2>3. QED  BY <1>1, <2>1, <2>2 DEF Moves, Reading
<1>8. ASSUME NEW s \in Senders, Check(s) PROVE Dated'
  BY <1>1, <1>8, CheckFacts, IdleOK DEF Moves, Reading
<1>9. ASSUME NEW s \in Senders, ClaimRun(s) PROVE Dated'
  <2>1. \A d \in Dates : run'[d].status # "none" => run[d].status # "none" \/ d = snd[s].date
    BY <1>9, ClaimRunFacts DEF Rewrites
  <2>2. \A d \in Dates : run[d].status # "none" => run'[d].status # "none"
    BY <1>9, ClaimRunFacts DEF Rewrites
  <2>3. bidDate >= snd[s].date /\ now >= SendAt(snd[s].date)
    BY <1>1, <1>9, ClaimRunFacts DEF Reading
  <2>4. Moves(s) /\ snd'[s].pc \notin Reading
    BY <1>9, ClaimRunFacts, IdleOK DEF Reading
  <2>5. UNCHANGED <<now, bidDate>>
    BY <1>9, ClaimRunFacts
  <2>6. QED  BY <1>1, <2>1, <2>2, <2>3, <2>4, <2>5 DEF Moves, Reading
<1>10. ASSUME NEW s \in Senders, NEW d \in Dates, Missed(s, d) PROVE Dated'
  <2>1. CASE run' = run
    BY <1>10, <2>1, MissedFacts
  <2>2. CASE run' # run
    <3>1. bidDate = d /\ now >= SendAt(d) /\ UNCHANGED <<now, bidDate, snd>>
      BY <1>1, <1>10, <2>2, MissedFacts
    <3>2. /\ \A e \in Dates : e # d => run'[e] = run[e]
          /\ run'[d].status # "none"
      BY <1>10, <2>2, MissedFacts DEF Rewrites
    <3>3. QED  BY <1>1, <3>1, <3>2
  <2>3. QED  BY <2>1, <2>2
<1>11. ASSUME NEW s \in Senders, Work(s) PROVE Dated'
  <2>1. Inside(s)
    BY <1>11, WorkInside
  <2>2. /\ \A d \in Dates : run'[d].status = run[d].status
        /\ now' = now /\ bidDate' = bidDate
    BY <2>1 DEF Inside, SameRun
  <2>3. \A t \in Senders : snd'[t].pc \in Reading => snd'[t] = snd[t]
    BY <2>1 DEF Inside, Reading, InPass
  <2>4. QED  BY <1>1, <2>2, <2>3 DEF Reading
<1>12. ASSUME NEW s \in Senders, Finish(s) PROVE Dated'
  <2>1. \A d \in Dates : run'[d].status # "none" <=> run[d].status # "none"
    BY <1>12, FinishFacts DEF Rewrites, Alone
  <2>2. QED  BY <1>1, <1>12, <2>1, FinishFacts, IdleOK DEF Moves, Reading
<1>13. ASSUME NEW d \in Dates, Stall(d) PROVE Dated'
  <2>1. \A e \in Dates : run'[e].status = run[e].status
    BY <1>13, StallFacts DEF SameRun
  <2>2. UNCHANGED <<now, bidDate, snd>>
    BY <1>13, StallFacts
  <2>3. QED  BY <1>1, <2>1, <2>2
<1>14. ASSUME NEW s \in Senders, NEW d \in Dates, ReclaimRead(s, d) PROVE Dated'
  BY <1>1, <1>14, ReclaimReadFacts DEF Moves, Reading
<1>15. ASSUME NEW s \in Senders, ReclaimRun(s) PROVE Dated'
  <2>1. \A d \in Dates : run'[d].status # "none" <=> run[d].status # "none"
    BY <1>15, ReclaimRunFacts DEF Rewrites
  <2>2. QED  BY <1>1, <1>15, <2>1, ReclaimRunFacts, IdleOK DEF Moves, Reading
<1>16. ASSUME NEW s \in Senders, ReclaimRows(s) PROVE Dated'
  BY <1>1, <1>16, ReclaimRowsFacts, IdleOK DEF Moves, Reading, SameRun
<1>17. ASSUME NEW s \in Senders, Crash(s) PROVE Dated'
  BY <1>1, <1>17, CrashFacts, IdleOK DEF Moves, Reading
<1>18. QED
  BY <1>2, <1>3, <1>4, <1>5, <1>6, <1>7, <1>8, <1>9, <1>10, <1>11, <1>12, <1>13, <1>14,
     <1>15, <1>16, <1>17, StepCases

LEMMA AloneStep ==
    ASSUME Typed, Timely, Calm, Dated, Alone, Next
    PROVE  Alone'
<1> USE DEF Alone
<1>1. \A s \in Senders : snd[s].date \in Dates
  BY DEF Typed, PassOK, Passes
<1>2. CASE Tick
  BY <1>2, TickFacts
<1>3. ASSUME NEW d \in Dates, MoveDate(d) PROVE Alone'
  BY <1>3, MoveDateFacts
<1>4. CASE Aside
  BY <1>4, AsideFacts
<1>5. ASSUME NEW d \in Dates, Accept(d) PROVE Alone'
  BY <1>1, <1>5, AcceptFacts DEF WentOut
<1>6. ASSUME NEW s \in Senders, NEW d \in Dates, NEW force \in BOOLEAN, SendNow(s, d, force)
      PROVE Alone'
  BY <1>1, <1>6, SendNowFacts DEF Moves, InPass
<1>7. ASSUME NEW s \in Senders, NEW d \in Dates, Due(s, d) PROVE Alone'
  BY <1>1, <1>7, DueFacts DEF Moves, InPass
<1>8. ASSUME NEW s \in Senders, Check(s) PROVE Alone'
  BY <1>1, <1>8, CheckFacts, IdleOK DEF Moves, InPass
<1>9. ASSUME NEW s \in Senders, ClaimRun(s) PROVE Alone'
  <2> DEFINE p == snd[s]
  <2>1. CASE run' = run /\ snd'[s] = Idle
    BY <1>1, <1>9, <2>1, ClaimRunFacts, IdleOK DEF Moves, InPass
  <2>2. CASE ~ (run' = run /\ snd'[s] = Idle)
    <3>1. /\ p.pc \in {"checked", "asked"} /\ p.date \in Dates /\ Moves(s) /\ Claimable(p)
          /\ run'[p.date].status = "sending" /\ Rewrites(p.date)
          /\ snd'[s].pc = "claimed" /\ snd'[s].date = p.date
      BY <1>9, <2>2, ClaimRunFacts
    <3>2. run[p.date].status # "sending" /\ \A e \in Dates \ {p.date} : run[e].status # "sending"
      BY <3>1 DEF Claimable, Sendable
    <3>3. \A t \in Senders : snd[t].pc \notin InPass
      BY <1>1, <3>2
    <3>4. \A d, e \in Dates : run'[d].status = "sending" /\ run'[e].status = "sending" => d = e
      BY <3>1, <3>2 DEF Rewrites
    <3>5. \A t \in Senders : snd'[t].pc \in {"checked", "asked"} => snd'[t].date = p.date
      BY <1>1, <3>1 DEF Dated, Moves, Reading
    <3>6. \A t \in Senders : snd'[t].pc \in InPass => t = s
      BY <3>1, <3>3 DEF Moves
    <3>7. \A d \in Dates : d # p.date => run'[d] = run[d]
      BY <3>1 DEF Rewrites
    <3>8. ~ run'[p.date].quiet /\ ~ run'[p.date].still
      BY <3>1 DEF Rewrites
    <3>9. QED  BY <3>1, <3>2, <3>4, <3>5, <3>6, <3>7, <3>8
  <2>3. QED  BY <2>1, <2>2
<1>10. ASSUME NEW s \in Senders, NEW d \in Dates, Missed(s, d) PROVE Alone'
  BY <1>1, <1>10, MissedFacts DEF Rewrites
<1>11. ASSUME NEW s \in Senders, Work(s) PROVE Alone'
  <2>1. Inside(s)  BY <1>11, WorkInside
  <2>2. \A t \in Senders : snd'[t].pc \in InPass => snd[t].pc \in InPass /\ snd'[t].date = snd[t].date
    BY <2>1 DEF Inside, InPass
  <2>3. \A t \in Senders : snd'[t].pc \in {"checked", "asked"} => snd'[t] = snd[t]
    BY <2>1 DEF Inside, InPass
  <2>4. QED  BY <1>1, <2>1, <2>2, <2>3 DEF Inside, SameRun
<1>12. ASSUME NEW s \in Senders, Finish(s) PROVE Alone'
  <2>1. \A d \in Dates : /\ run'[d].status = "sending" => run[d].status = "sending" /\ d # snd[s].date
                         /\ d # snd[s].date => run'[d] = run[d]
    BY <1>12, FinishFacts DEF Rewrites
  <2>2. ~ run'[snd[s].date].quiet /\ ~ run'[snd[s].date].still
    BY <1>12, FinishFacts DEF Rewrites
  <2>3. \A t \in Senders : snd'[t].pc \in InPass \cup {"checked", "asked"} => t # s /\ snd'[t] = snd[t]
    BY <1>12, FinishFacts, IdleOK DEF Moves, InPass
  <2>4. snd[s].pc \in InPass
    BY <1>12, FinishFacts
  <2>5. \A t \in Senders : snd'[t].pc \notin InPass
    BY <2>3, <2>4
  <2>6. QED  BY <1>1, <2>1, <2>2, <2>3, <2>5
<1>13. ASSUME NEW d \in Dates, Stall(d) PROVE Alone'
  BY <1>1, <1>13, StallFacts
<1>14. ASSUME NEW s \in Senders, NEW d \in Dates, ReclaimRead(s, d) PROVE Alone'
  BY <1>1, <1>14, ReclaimReadFacts DEF Moves, InPass
<1>15. ASSUME NEW s \in Senders, ReclaimRun(s) PROVE Alone'
  <2> DEFINE p == snd[s]
  <2>1. CASE run' = run /\ snd'[s] = Idle
    BY <1>1, <1>15, <2>1, ReclaimRunFacts, IdleOK DEF Moves, InPass
  <2>2. CASE ~ (run' = run /\ snd'[s] = Idle)
    <3>1. /\ p.pc = "reclaim" /\ p.date \in Dates /\ Moves(s)
          /\ run[p.date].status = "sending" /\ run[p.date].quiet
          /\ run'[p.date].status # "sending" /\ Rewrites(p.date) /\ snd'[s].pc = "mend"
      BY <1>15, <2>2, ReclaimRunFacts
    <3>2. \A t \in Senders : snd'[t].pc \in InPass \cup {"checked", "asked"}
                              => t # s /\ snd'[t] = snd[t]
      BY <3>1 DEF Moves, InPass
    <3>3. \A t \in Senders : snd[t].pc \in InPass => snd[t].date # p.date
      BY <1>1, <3>1
    <3>4. QED  BY <1>1, <3>1, <3>2, <3>3 DEF Rewrites
  <2>3. QED  BY <2>1, <2>2
<1>16. ASSUME NEW s \in Senders, ReclaimRows(s) PROVE Alone'
  <2>1. \A t \in Senders : snd'[t].pc \in InPass \cup {"checked", "asked"}
                            => t # s /\ snd'[t] = snd[t]
    BY <1>16, ReclaimRowsFacts, IdleOK DEF Moves, InPass
  <2>2. \A d \in Dates : SameRun(d)
    BY <1>16, ReclaimRowsFacts
  <2>3. QED  BY <1>1, <2>1, <2>2 DEF SameRun
<1>17. ASSUME NEW s \in Senders, Crash(s) PROVE Alone'
  BY <1>1, <1>17, CrashFacts, IdleOK DEF Moves, InPass
<1>18. QED
  BY <1>2, <1>3, <1>4, <1>5, <1>6, <1>7, <1>8, <1>9, <1>10, <1>11, <1>12, <1>13, <1>14,
     <1>15, <1>16, <1>17, StepCases

-----------------------------------------------------------------------------
(* What a reclaim has read, and the rows of runs.                          *)

LEMMA StatusesSame == \A d \in Dates : row'[d] = row[d] => Statuses(d)' = Statuses(d)
BY DEF Statuses

LEMMA ReclaimingStep ==
    ASSUME Typed, Calm, Timely, Alone, Reclaiming, Next
    PROVE  Reclaiming'
<1> USE DEF Reclaiming
<1>1. \A s \in Senders : snd[s].date \in Dates
  BY DEF Typed, PassOK, Passes
<1>a. ASSUME UNCHANGED <<run, row>>,
             \A t \in Senders : \/ snd'[t] = snd[t]
                                \/ snd'[t].pc \notin {"reclaim", "mend"}
      PROVE  Reclaiming'
  BY <1>1, <1>a, StatusesSame
<1>2. CASE Tick
  BY <1>2, <1>a, TickFacts
<1>3. ASSUME NEW d \in Dates, MoveDate(d) PROVE Reclaiming'
  BY <1>3, <1>a, MoveDateFacts
<1>4. CASE Aside
  BY <1>4, <1>a, AsideFacts
<1>5. ASSUME NEW d \in Dates, Accept(d) PROVE Reclaiming'
  <2>1. /\ UNCHANGED <<row, snd>>
        /\ \A e \in Dates : run'[e].status = run[e].status /\ (run'[e].quiet => run[e].quiet)
    BY <1>5, AcceptFacts
  <2>2. QED  BY <1>1, <2>1, StatusesSame
<1>6. ASSUME NEW s \in Senders, NEW d \in Dates, NEW force \in BOOLEAN, SendNow(s, d, force)
      PROVE Reclaiming'
  BY <1>6, <1>a, SendNowFacts DEF Moves
<1>7. ASSUME NEW s \in Senders, NEW d \in Dates, Due(s, d) PROVE Reclaiming'
  BY <1>7, <1>a, DueFacts DEF Moves
<1>8. ASSUME NEW s \in Senders, Check(s) PROVE Reclaiming'
  BY <1>8, <1>a, CheckFacts, IdleOK DEF Moves
<1>9. ASSUME NEW s \in Senders, ClaimRun(s) PROVE Reclaiming'
  <2> DEFINE d == snd[s].date
  <2>1. CASE run' = run /\ snd'[s] = Idle
    BY <1>9, <2>1, <1>a, ClaimRunFacts, IdleOK DEF Moves
  <2>2. CASE ~ (run' = run /\ snd'[s] = Idle)
    <3>1. /\ d \in Dates /\ Rewrites(d) /\ Moves(s) /\ snd'[s].pc = "claimed"
          /\ ~ Mending(d) /\ UNCHANGED row
      BY <1>9, <2>2, ClaimRunFacts
    <3>2. \A t \in Senders : snd'[t].pc \in {"reclaim", "mend"} => snd'[t] = snd[t]
      BY <3>1 DEF Moves
    <3>3. \A t \in Senders : snd[t].pc = "mend" => snd[t].date # d
      BY <3>1 DEF Mending
    <3>4. \A e \in Dates : e # d => run'[e] = run[e]
      BY <3>1 DEF Rewrites
    <3>5. ~ run'[d].quiet
      BY <3>1 DEF Rewrites
    <3>6. QED  BY <1>1, <3>1, <3>2, <3>3, <3>4, <3>5, StatusesSame
  <2>3. QED  BY <2>1, <2>2
<1>10. ASSUME NEW s \in Senders, NEW d \in Dates, Missed(s, d) PROVE Reclaiming'
  <2>1. CASE run' = run
    BY <1>10, <2>1, <1>a, MissedFacts
  <2>2. CASE run' # run
    <3>1. /\ UNCHANGED <<row, snd>> /\ run'[d].status = "missed" /\ ~ run'[d].quiet
          /\ \A e \in Dates : e # d => run'[e] = run[e]
      BY <1>10, <2>2, MissedFacts DEF Rewrites
    <3>2. QED  BY <1>1, <3>1, StatusesSame
  <2>3. QED  BY <2>1, <2>2
<1>11. ASSUME NEW s \in Senders, Work(s) PROVE Reclaiming'
  <2> DEFINE d == snd[s].date
  <2>1. Inside(s)  BY <1>11, WorkInside
  <2>2. run[d].status = "sending" /\ ~ run[d].quiet
    BY <2>1 DEF Inside, Alone
  <2>3. \A t \in Senders : snd'[t].pc \in {"reclaim", "mend"} => snd'[t] = snd[t]
    BY <2>1 DEF Inside, InPass
  <2>4. /\ \A e \in Dates : /\ run'[e].status = run[e].status
                            /\ run'[e].quiet => run[e].quiet
        /\ \A e \in Dates : e # d => row'[e] = row[e]
    BY <2>1 DEF Inside, SameRun
  <2>5. QED  BY <1>1, <2>2, <2>3, <2>4, StatusesSame
<1>12. ASSUME NEW s \in Senders, Finish(s) PROVE Reclaiming'
  <2> DEFINE d == snd[s].date
  <2>1. /\ d \in Dates /\ Moves(s) /\ snd'[s] = Idle /\ UNCHANGED row
        /\ run'[d].status \notin {"none", "sending"} /\ ~ run'[d].quiet
        /\ \A e \in Dates : e # d => run'[e] = run[e]
    BY <1>12, FinishFacts DEF Rewrites
  <2>2. \A t \in Senders : snd'[t].pc \in {"reclaim", "mend"} => snd'[t] = snd[t]
    BY <2>1, IdleOK DEF Moves
  <2>3. QED  BY <1>1, <2>1, <2>2, StatusesSame
<1>13. ASSUME NEW d \in Dates, Stall(d) PROVE Reclaiming'
  <2>1. /\ UNCHANGED <<row, snd>>
        /\ \A e \in Dates : run'[e].status = run[e].status /\ (e # d => run'[e] = run[e])
        /\ \A t \in Senders : snd[t].pc = "reclaim" => snd[t].date # d
    BY <1>13, StallFacts
  <2>2. QED  BY <1>1, <2>1, StatusesSame
<1>14. ASSUME NEW s \in Senders, NEW d \in Dates, ReclaimRead(s, d) PROVE Reclaiming'
  <2>1. /\ UNCHANGED <<run, row>> /\ Moves(s) /\ snd'[s].pc = "reclaim" /\ snd'[s].date = d
        /\ snd'[s].view = Statuses(d)
    BY <1>14, ReclaimReadFacts
  <2>2. QED  BY <1>1, <2>1, StatusesSame DEF Moves
<1>15. ASSUME NEW s \in Senders, ReclaimRun(s) PROVE Reclaiming'
  <2> DEFINE d == snd[s].date
  <2>1. CASE run' = run /\ snd'[s] = Idle
    BY <1>15, <2>1, <1>a, ReclaimRunFacts, IdleOK DEF Moves
  <2>2. CASE ~ (run' = run /\ snd'[s] = Idle)
    <3>1. /\ d \in Dates /\ Moves(s) /\ snd[s].pc = "reclaim" /\ UNCHANGED row
          /\ run[d].status = "sending" /\ run[d].quiet
          /\ run'[d].status \notin {"none", "sending"} /\ ~ run'[d].quiet
          /\ \A e \in Dates : e # d => run'[e] = run[e]
          /\ snd'[s].pc = "mend" /\ snd'[s].date = d /\ snd'[s].view = snd[s].view
      BY <1>15, <2>2, ReclaimRunFacts DEF Rewrites
    <3>2. \A t \in Senders : snd[t].pc = "mend" => snd[t].date # d
      BY <3>1
    <3>3. snd[s].view = Statuses(d)
      BY <3>1
    <3>4. QED  BY <1>1, <3>1, <3>2, <3>3, StatusesSame DEF Moves
  <2>3. QED  BY <2>1, <2>2
<1>16. ASSUME NEW s \in Senders, ReclaimRows(s) PROVE Reclaiming'
  <2> DEFINE d == snd[s].date
  <2>1. /\ d \in Dates /\ Moves(s) /\ snd'[s] = Idle /\ snd[s].pc = "mend"
        /\ \A e \in Dates : /\ run'[e].status = run[e].status
                            /\ run'[e].quiet => run[e].quiet
        /\ \A e \in Dates : e # d => row'[e] = row[e]
    BY <1>16, ReclaimRowsFacts DEF SameRun
  <2>2. \A t \in Senders : snd'[t].pc \in {"reclaim", "mend"} => t # s /\ snd'[t] = snd[t]
    BY <2>1, IdleOK DEF Moves
  <2>3. \A t \in Senders : t # s /\ snd[t].pc = "mend" => snd[t].date # d
    BY <2>1
  <2>4. run[d].status # "sending"
    BY <2>1
  <2>5. QED  BY <1>1, <2>1, <2>2, <2>3, <2>4, StatusesSame
<1>17. ASSUME NEW s \in Senders, Crash(s) PROVE Reclaiming'
  BY <1>17, <1>a, CrashFacts, IdleOK DEF Moves
<1>18. QED
  BY <1>2, <1>3, <1>4, <1>5, <1>6, <1>7, <1>8, <1>9, <1>10, <1>11, <1>12, <1>13, <1>14,
     <1>15, <1>16, <1>17, StepCases

\* A reclaim's second write turns rows at sending into unknown ones and leaves
\* the others.
LEMMA MendedRows ==
    ASSUME Typed, Reclaiming, NEW s \in Senders, ReclaimRows(s)
    PROVE  \A d \in Dates, g \in Gcs :
              /\ row'[d][g].amount = row[d][g].amount
              /\ \/ row'[d][g].status = row[d][g].status
                 \/ /\ row[d][g].status = "sending" /\ row'[d][g].status = "unknown"
                    /\ d = snd[s].date
<1>1. snd[s].pc = "mend" /\ snd[s].date \in Dates
  BY ReclaimRowsFacts
<1>2. \A g \in Gcs : snd[s].view[g] = row[snd[s].date][g].status
  BY <1>1 DEF Reclaiming, Statuses
<1>3. QED  BY <1>1, <1>2, ReclaimRowsFacts

LEMMA RootedStep ==
    ASSUME Typed, Calm, Timely, Dated, Alone, Reclaiming, Rooted, Next
    PROVE  Rooted'
<1> USE DEF Rooted
<1>1. \A s \in Senders : snd[s].date \in Dates
  BY DEF Typed, PassOK, Passes
<1>a. ASSUME UNCHANGED row,
             \A d \in Dates : run'[d].status = "none" => run[d].status = "none",
             \A t \in Senders : snd'[t].pc \in InPass => snd'[t] = snd[t]
      PROVE  Rooted'
  BY <1>1, <1>a
<1>2. CASE Tick
  BY <1>2, <1>a, TickFacts
<1>3. ASSUME NEW d \in Dates, MoveDate(d) PROVE Rooted'
  BY <1>3, <1>a, MoveDateFacts
<1>4. CASE Aside
  BY <1>4, <1>a, AsideFacts
<1>5. ASSUME NEW d \in Dates, Accept(d) PROVE Rooted'
  <2>1. \A e \in Dates : run'[e].status = run[e].status
    BY <1>5, AcceptFacts
  <2>2. QED  BY <1>5, <1>a, <2>1, AcceptFacts
<1>6. ASSUME NEW s \in Senders, NEW d \in Dates, NEW force \in BOOLEAN, SendNow(s, d, force)
      PROVE Rooted'
  BY <1>6, <1>a, SendNowFacts DEF Moves, InPass
<1>7. ASSUME NEW s \in Senders, NEW d \in Dates, Due(s, d) PROVE Rooted'
  BY <1>7, <1>a, DueFacts DEF Moves, InPass
<1>8. ASSUME NEW s \in Senders, Check(s) PROVE Rooted'
  BY <1>8, <1>a, CheckFacts, IdleOK DEF Moves, InPass
<1>9. ASSUME NEW s \in Senders, ClaimRun(s) PROVE Rooted'
  <2> DEFINE d == snd[s].date
  <2>1. CASE run' = run /\ snd'[s] = Idle
    BY <1>9, <2>1, <1>a, ClaimRunFacts, IdleOK DEF Moves, InPass
  <2>2. CASE ~ (run' = run /\ snd'[s] = Idle)
    <3>1. /\ d \in Dates /\ Rewrites(d) /\ Moves(s) /\ snd'[s].date = d
          /\ snd[s].pc \in {"checked", "asked"} /\ UNCHANGED row
          /\ run'[d].status = "sending"
      BY <1>9, <2>2, ClaimRunFacts
    <3>2. bidDate = d
      BY <3>1 DEF Dated, Reading
    <3>3. \A e \in Dates : e > d => run[e].status = "none"
      <4>1. \A e \in Dates : run[e].status # "none" => d >= e
        BY <3>2 DEF Dated
      <4>2. \A i, j \in Nat : i > j => ~ (j >= i)
        OBVIOUS
      <4>3. \A e \in Dates : e > d => ~ (d >= e)
        BY <3>1, <4>2, Bounds
      <4> HIDE DEF d
      <4>4. QED  BY <4>1, <4>3
    <3>4. \A e \in Dates, g \in Gcs : e > d => row[e][g].status = "absent"
      BY <3>3
    <3>5. \A e \in Dates : run'[e].status = "none" => run[e].status = "none"
      BY <3>1 DEF Rewrites
    <3>6. QED  BY <1>1, <3>1, <3>4, <3>5 DEF Moves
  <2>3. QED  BY <2>1, <2>2
<1>10. ASSUME NEW s \in Senders, NEW d \in Dates, Missed(s, d) PROVE Rooted'
  BY <1>10, <1>a, MissedFacts DEF Rewrites
<1>11. ASSUME NEW s \in Senders, Work(s) PROVE Rooted'
  <2> DEFINE d == snd[s].date
  <2>1. Inside(s)  BY <1>11, WorkInside
  <2>2. run[d].status = "sending" /\ snd[s].pc \in InPass
    BY <2>1 DEF Inside, Alone
  <2>3. \A t \in Senders : snd'[t].pc \in InPass => t = s
    BY <2>1, <2>2 DEF Inside, Alone
  <2>4. snd'[s].pc \in InPass => snd'[s].date = d
    BY <2>1 DEF Inside, InPass
  <2>5. /\ \A e \in Dates : run'[e].status = run[e].status
        /\ \A e \in Dates : e # d => row'[e] = row[e]
    BY <2>1 DEF Inside, SameRun
  <2>6. \A e \in Dates : e > d => e # d
    <3>1. \A i, j \in Nat : i > j => i # j
      OBVIOUS
    <3>2. QED  BY <1>1, <3>1, Bounds
  <2>7. \A e \in Dates : run'[e].status = "none" => e # d /\ run[e].status = "none"
    BY <2>2, <2>5
  <2>8. \A e \in Dates : e > d => \A g \in Gcs : row'[e][g].status = "absent"
    BY <2>2, <2>5, <2>6
  <2>9. QED  BY <2>3, <2>4, <2>5, <2>7, <2>8
<1>12. ASSUME NEW s \in Senders, Finish(s) PROVE Rooted'
  BY <1>12, <1>a, FinishFacts, IdleOK DEF Moves, InPass, Rewrites
<1>13. ASSUME NEW d \in Dates, Stall(d) PROVE Rooted'
  <2>1. \A e \in Dates : run'[e].status = run[e].status
    BY <1>13, StallFacts
  <2>2. QED  BY <1>13, <1>a, <2>1, StallFacts
<1>14. ASSUME NEW s \in Senders, NEW d \in Dates, ReclaimRead(s, d) PROVE Rooted'
  BY <1>14, <1>a, ReclaimReadFacts DEF Moves, InPass
<1>15. ASSUME NEW s \in Senders, ReclaimRun(s) PROVE Rooted'
  BY <1>15, <1>a, ReclaimRunFacts, IdleOK DEF Moves, InPass, Rewrites
<1>16. ASSUME NEW s \in Senders, ReclaimRows(s) PROVE Rooted'
  <2>1. \A d \in Dates, g \in Gcs : row[d][g].status = "absent" => row'[d][g].status = "absent"
    BY <1>16, MendedRows
  <2>2. /\ \A t \in Senders : snd'[t].pc \in InPass => snd'[t] = snd[t]
        /\ \A d \in Dates : run'[d].status = run[d].status
    BY <1>16, ReclaimRowsFacts, IdleOK DEF Moves, InPass, SameRun
  <2>3. QED  BY <1>1, <2>1, <2>2
<1>17. ASSUME NEW s \in Senders, Crash(s) PROVE Rooted'
  BY <1>17, <1>a, CrashFacts, IdleOK DEF Moves, InPass
<1>18. QED
  BY <1>2, <1>3, <1>4, <1>5, <1>6, <1>7, <1>8, <1>9, <1>10, <1>11, <1>12, <1>13, <1>14,
     <1>15, <1>16, <1>17, StepCases

-----------------------------------------------------------------------------
(* What each step of a pass writes, on the date d it is on.                *)

\* The numbers and the kind of a pass stay.
Keeps(p, q) == q.date = p.date /\ q.force = p.force /\ q.amount = p.amount

\* The rows and the numbers of the run stay.
SameRows(d) == \A g \in Gcs : row'[d][g] = row[d][g]
SameBid(d)  == run'[d].amount = run[d].amount

LEMMA PassTyped ==
    ASSUME Typed, NEW s \in Senders
    PROVE  /\ snd[s] \in Passes /\ snd[s].date \in Dates /\ DOMAIN snd = Senders
           /\ PassOK(snd[s]) /\ TypeOK
           /\ run \in [Dates -> RunRow] /\ row \in [Dates -> [Gcs -> GcRow]]
           /\ Statuses(snd[s].date) \in [Gcs -> RowStatuses]
BY Tables, StatusesTyped DEF Typed, PassOK, Passes

LEMMA EvaluateFacts ==
    ASSUME Typed, NEW s \in Senders, Evaluate(s)
    PROVE  LET p == snd[s]  q == snd'[s]  d == p.date  view == Statuses(d) IN
           /\ p.pc = "claimed" /\ UNCHANGED <<run, row, mailed, hidden, confirmed>>
           /\ q.date = d /\ q.force = p.force
           /\ \/ /\ q.pc = "close"
                 /\ IF Partly(view) THEN q.outcome = FinalStatus(view)
                                    ELSE q.outcome \in {"skipped", "failed"}
              \/ /\ q.pc = "open" /\ ~ Silent /\ q.view = view /\ q.amount = Numbers(d, view)
<1> DEFINE p == snd[s]  d == p.date  view == Statuses(d)
           c(st) == [p EXCEPT !.pc = "close",
                              !.outcome = IF Partly(view) THEN FinalStatus(view) ELSE st]
           o == [p EXCEPT !.pc = "open", !.view = view, !.amount = Numbers(d, view)]
<1>1. p \in Passes /\ DOMAIN snd = Senders
  BY PassTyped
<1>2. p.pc = "claimed" /\ UNCHANGED <<run, row, mailed, hidden, confirmed>>
  BY DEF Evaluate, db, log
<1>3. \/ \E st \in {"skipped", "failed"} : snd' = [snd EXCEPT ![s] = c(st)]
      \/ ~ Silent /\ snd' = [snd EXCEPT ![s] = o]
  BY DEF Evaluate, Go
<1>4. \A st : /\ c(st).pc = "close" /\ c(st).date = d /\ c(st).force = p.force
              /\ c(st).outcome = IF Partly(view) THEN FinalStatus(view) ELSE st
  BY <1>1 DEF Passes
<1>5. o.pc = "open" /\ o.date = d /\ o.force = p.force /\ o.view = view
      /\ o.amount = Numbers(d, view)
  BY <1>1 DEF Passes
<1> HIDE DEF c, o
<1>6. \/ \E st \in {"skipped", "failed"} : snd'[s] = c(st)
      \/ ~ Silent /\ snd'[s] = o
  BY <1>1, <1>3
<1>7. QED  BY <1>2, <1>4, <1>5, <1>6

LEMMA OpenFacts ==
    ASSUME Typed, NEW s \in Senders, Open(s)
    PROVE  LET p == snd[s]  q == snd'[s]  d == p.date IN
           /\ p.pc = "open" /\ UNCHANGED <<row, mailed, hidden, confirmed>>
           /\ q.pc = "insert" /\ Keeps(p, q) /\ q.view = p.view
           /\ run'[d].amount = p.amount
           /\ \A e \in Dates : e # d => run'[e] = run[e]
<1> DEFINE p == snd[s]  d == p.date  r == [run[d] EXCEPT !.amount = p.amount]
<1>1. p \in Passes /\ DOMAIN snd = Senders /\ d \in Dates /\ run \in [Dates -> RunRow]
      /\ TypeOK
  BY PassTyped
<1>2. p.pc = "open" /\ UNCHANGED <<row, mailed, hidden, confirmed>>
  BY DEF Open, log
<1>3. snd'[s].pc = "insert" /\ Keeps(p, snd'[s]) /\ snd'[s].view = p.view
  BY <1>1 DEF Open, Go, Keeps, Passes
<1>4. r \in RunRow /\ r.amount = p.amount
  BY <1>1 DEF RunRow, Passes
<1>5. WriteRun(d, r)
  BY DEF Open
<1> HIDE DEF r
<1>6. QED  BY <1>1, <1>2, <1>3, <1>4, <1>5, WriteRunFacts

\* The statuses of the rows that the insert makes.
NewView(p) ==
    [g \in Gcs |-> IF p.view[g] # "absent" THEN p.view[g]
                   ELSE IF g \in Carried(p.date) THEN "unknown" ELSE "pending"]

LEMMA InsertFacts ==
    ASSUME Typed, NEW s \in Senders, Insert(s)
    PROVE  LET p == snd[s]  q == snd'[s]  d == p.date IN
           /\ p.pc = "insert" /\ UNCHANGED <<mailed, hidden, confirmed>> /\ SameBid(d)
           /\ Keeps(p, q)
           /\ \/ /\ q.pc \in {"send", "prep"} /\ q.view = NewView(p) /\ q.ready = p.ready
                 /\ q.todo = SendableGcs(q.view, p.force)
                 /\ \A g \in Gcs : /\ row'[d][g].amount = row[d][g].amount
                                   /\ row'[d][g].status = IF p.view[g] = "absent"
                                                          THEN q.view[g]
                                                          ELSE row[d][g].status
              \/ q.pc = "rescue" /\ SameRows(d)
<1> DEFINE p == snd[s]  d == p.date  new == {g \in Gcs : p.view[g] = "absent"}
           view == [g \in Gcs |-> IF g \notin new THEN p.view[g]
                               ELSE IF g \in Carried(d) THEN "unknown" ELSE "pending"]
           todo == SendableGcs(view, p.force)
           q == [p EXCEPT !.pc = IF todo = {} THEN "send" ELSE "prep",
                          !.todo = todo, !.view = view]
           f(old) == [g \in Gcs |-> IF g \in new THEN [old[g] EXCEPT !.status = view[g]]
                                    ELSE old[g]]
<1>1. p \in Passes /\ DOMAIN snd = Senders /\ d \in Dates /\ row \in [Dates -> [Gcs -> GcRow]]
      /\ TypeOK
  BY PassTyped
<1>2. p.pc = "insert" /\ UNCHANGED <<mailed, hidden, confirmed>>
  BY DEF Insert, log
<1>3. Alive(d) \/ UNCHANGED run
  BY DEF Insert, db
<1>4. SameBid(d)
  BY <1>1, <1>3, AliveFacts DEF SameBid
<1>5. view = NewView(p)
  BY DEF NewView
<1>6. CASE /\ row' = [row EXCEPT ![d] = f(row[d])]
           /\ snd' = [snd EXCEPT ![s] = q]
  <2>1. \A old \in [Gcs -> GcRow], g \in Gcs :
           /\ f(old)[g].amount = old[g].amount
           /\ f(old)[g].status = IF p.view[g] = "absent" THEN view[g] ELSE old[g].status
    BY DEF GcRow
  <2>2. /\ q.pc \in {"send", "prep"} /\ q.view = view /\ q.ready = p.ready /\ q.todo = todo
        /\ Keeps(p, q)
    BY <1>1 DEF Passes, Keeps
  <2> HIDE DEF f, q, view
  <2>3. snd'[s] = q /\ row'[d] = f(row[d]) /\ row[d] \in [Gcs -> GcRow]
    BY <1>1, <1>6
  <2>4. QED  BY <1>2, <1>4, <1>5, <2>1, <2>2, <2>3
<1>7. CASE /\ row' = row
           /\ snd' = [snd EXCEPT ![s] = [p EXCEPT !.pc = "rescue"]]
  <2>1. snd'[s].pc = "rescue" /\ Keeps(p, snd'[s])
    BY <1>1, <1>7 DEF Passes, Keeps
  <2>2. QED  BY <1>2, <1>4, <1>7, <2>1 DEF SameRows
<1>8. \/ /\ row' = [row EXCEPT ![d] = f(row[d])]
         /\ snd' = [snd EXCEPT ![s] = q]
      \/ /\ row' = row
         /\ snd' = [snd EXCEPT ![s] = [p EXCEPT !.pc = "rescue"]]
  <2>1. CASE \A g \in new : row[d][g].status = "absent"
    BY <2>1 DEF Insert, Go
  <2>2. CASE ~ \A g \in new : row[d][g].status = "absent"
    BY <2>2 DEF Insert, Go, db
  <2>3. QED  BY <2>1, <2>2
<1>9. QED  BY <1>6, <1>7, <1>8

LEMMA BeatFacts ==
    ASSUME Typed, NEW s \in Senders, Beat(s)
    PROVE  LET p == snd[s]  q == snd'[s]  d == p.date IN
           /\ UNCHANGED <<row, mailed, hidden, confirmed>> /\ SameBid(d)
           /\ \/ /\ Keeps(p, q) /\ q.view = p.view /\ q.todo = p.todo /\ q.ready = p.ready
                 /\ \/ p.pc = "prep" /\ q.pc = "prepare"
                    \/ p.pc = "send" /\ q.pc = "check" /\ q.gc \in p.ready
              \/ q = Idle
<1> DEFINE p == snd[s]  d == p.date
           q(g) == [p EXCEPT !.gc = g, !.pc = IF p.pc = "prep" THEN "prepare" ELSE "check"]
<1>1. p \in Passes /\ DOMAIN snd = Senders /\ d \in Dates /\ run[d] \in RunRow
      /\ TypeOK
  BY PassTyped
<1>2. UNCHANGED <<row, mailed, hidden, confirmed>> /\ p.pc \in {"prep", "send"}
      /\ (WriteRun(d, run[d]) \/ UNCHANGED run)
  BY DEF Beat, log
<1>3. SameBid(d)
  BY <1>1, <1>2, WriteRunFacts DEF SameBid
<1>4. \/ \E g \in IF p.pc = "prep" THEN p.todo ELSE p.ready : snd' = [snd EXCEPT ![s] = q(g)]
      \/ snd' = [snd EXCEPT ![s] = Idle]
  BY DEF Beat, Go
<1>5. \A g : /\ Keeps(p, q(g)) /\ q(g).view = p.view /\ q(g).todo = p.todo
             /\ q(g).ready = p.ready /\ q(g).gc = g
             /\ q(g).pc = IF p.pc = "prep" THEN "prepare" ELSE "check"
  BY <1>1 DEF Passes, Keeps
<1> HIDE DEF q
<1>6. \/ \E g \in IF p.pc = "prep" THEN p.todo ELSE p.ready : snd'[s] = q(g)
      \/ snd'[s] = Idle
  BY <1>1, <1>4
<1>7. QED  BY <1>2, <1>3, <1>5, <1>6

LEMMA PrepareFacts ==
    ASSUME Typed, NEW s \in Senders, Prepare(s)
    PROVE  LET p == snd[s]  q == snd'[s]  d == p.date IN
           /\ p.pc = "prepare" /\ p.gc \in p.todo /\ UNCHANGED <<mailed, hidden, confirmed>>
           /\ SameBid(d) /\ Keeps(p, q) /\ q.pc \in {"send", "prep"}
           /\ q.todo = p.todo \ {p.gc}
           /\ row'[d][p.gc].amount = p.amount
           /\ \A g \in Gcs : g # p.gc => row'[d][g] = row[d][g]
           /\ \/ /\ q.ready = p.ready \cup {p.gc} /\ q.view = p.view
                 /\ row'[d][p.gc].status = row[d][p.gc].status
              \/ /\ q.ready = p.ready /\ q.view = [p.view EXCEPT ![p.gc] = "failed"]
                 /\ row'[d][p.gc].status = "failed"
<1> DEFINE p == snd[s]  d == p.date  left == p.todo \ {p.gc}
           next == [p EXCEPT !.todo = left, !.gc = NoGc,
                             !.pc = IF left = {} THEN "send" ELSE "prep"]
           a == [next EXCEPT !.ready = @ \cup {p.gc}]
           b == [next EXCEPT !.view[p.gc] = "failed"]
           ra == [row[d][p.gc] EXCEPT !.amount = p.amount]
           rb == [status |-> "failed", amount |-> p.amount]
<1>1. /\ p \in Passes /\ DOMAIN snd = Senders /\ d \in Dates /\ TypeOK
      /\ row \in [Dates -> [Gcs -> GcRow]]
  BY PassTyped
<1>2. p.pc = "prepare" /\ UNCHANGED <<mailed, hidden, confirmed>> /\ Alive(d)
  BY DEF Prepare, log
<1>3. p.gc \in p.todo /\ p.gc \in Gcs
  BY <1>2, PassTyped DEF PassOK, InHand
<1>4. SameBid(d)
  BY <1>1, <1>2, AliveFacts DEF SameBid
<1>5. /\ next \in Passes /\ next.date = d /\ next.force = p.force /\ next.amount = p.amount
      /\ next.pc \in {"send", "prep"} /\ next.todo = left /\ next.ready = p.ready
      /\ next.view = p.view
  BY <1>1 DEF Passes, PassStates, InPass
<1>6. \/ row' = [row EXCEPT ![d][p.gc].amount = p.amount] /\ snd' = [snd EXCEPT ![s] = a]
      \/ row' = [row EXCEPT ![d][p.gc] = rb] /\ snd' = [snd EXCEPT ![s] = b]
  BY DEF Prepare, Go
<1> HIDE DEF next
<1>7. CASE row' = [row EXCEPT ![d][p.gc].amount = p.amount] /\ snd' = [snd EXCEPT ![s] = a]
  <2>1. row' = [row EXCEPT ![d] = [row[d] EXCEPT ![p.gc] = ra]]
    BY <1>7, Zenon
  <2>2. ra.amount = p.amount /\ ra.status = row[d][p.gc].status
    BY <1>1, <1>3 DEF GcRow
  <2>3. /\ Keeps(p, a) /\ a.pc \in {"send", "prep"} /\ a.todo = left
        /\ a.ready = p.ready \cup {p.gc} /\ a.view = p.view
    BY <1>5 DEF Passes, Keeps
  <2> HIDE DEF ra, a
  <2>4. row'[d][p.gc] = ra /\ \A g \in Gcs : g # p.gc => row'[d][g] = row[d][g]
    BY <1>1, <1>3, <2>1
  <2>5. snd'[s] = a  BY <1>1, <1>7
  <2>6. QED  BY <1>2, <1>3, <1>4, <2>2, <2>3, <2>4, <2>5
<1>8. CASE row' = [row EXCEPT ![d][p.gc] = rb] /\ snd' = [snd EXCEPT ![s] = b]
  <2>1. row' = [row EXCEPT ![d] = [row[d] EXCEPT ![p.gc] = rb]]
    BY <1>8, Zenon
  <2>2. rb.amount = p.amount /\ rb.status = "failed"
    OBVIOUS
  <2>3. /\ Keeps(p, b) /\ b.pc \in {"send", "prep"} /\ b.todo = left
        /\ b.ready = p.ready /\ b.view = [p.view EXCEPT ![p.gc] = "failed"]
    BY <1>5 DEF Passes, Keeps
  <2> HIDE DEF rb, b
  <2>4. row'[d][p.gc] = rb /\ \A g \in Gcs : g # p.gc => row'[d][g] = row[d][g]
    BY <1>1, <1>3, <2>1
  <2>5. snd'[s] = b  BY <1>1, <1>8
  <2>6. QED  BY <1>2, <1>3, <1>4, <2>2, <2>3, <2>4, <2>5
<1>9. QED  BY <1>6, <1>7, <1>8

\* The GC in hand, what is left and what is known stay.
Holding(p, q) ==
    Keeps(p, q) /\ q.gc = p.gc /\ q.todo = p.todo /\ q.ready = p.ready /\ q.view = p.view

LEMMA SkipFacts ==
    ASSUME NEW p \in Passes
    PROVE  Holding(p, Skip(p)) /\ Skip(p).pc = "record" /\ Skip(p).outcome = "skipped"
BY DEF Skip, Passes, Holding, Keeps

LEMMA StopCheckFacts ==
    ASSUME Typed, NEW s \in Senders, StopCheck(s)
    PROVE  LET p == snd[s]  q == snd'[s] IN
           /\ p.pc = "check" /\ UNCHANGED <<run, row, mailed, hidden, confirmed>> /\ Holding(p, q)
           /\ \/ q.pc = "record" /\ q.outcome = "skipped"
              \/ q.pc = "claim"
<1> DEFINE p == snd[s]  c == [p EXCEPT !.pc = "claim"]
<1>1. p \in Passes /\ DOMAIN snd = Senders
  BY PassTyped
<1>2. p.pc = "check" /\ UNCHANGED <<run, row, mailed, hidden, confirmed>>
  BY DEF StopCheck, db, log
<1>3. snd' = [snd EXCEPT ![s] = Skip(p)] \/ snd' = [snd EXCEPT ![s] = c]
  BY DEF StopCheck, Go
<1>4. Holding(p, c) /\ c.pc = "claim"
  BY <1>1 DEF Holding, Keeps, Passes
<1> HIDE DEF c
<1>5. snd'[s] = Skip(p) \/ snd'[s] = c
  BY <1>1, <1>3
<1>6. QED  BY <1>1, <1>2, <1>4, <1>5, SkipFacts

LEMMA ClaimGcFacts ==
    ASSUME Typed, NEW s \in Senders, ClaimGc(s)
    PROVE  LET p == snd[s]  q == snd'[s]  d == p.date IN
           /\ p.pc = "claim" /\ p.gc \in Gcs /\ p.gc \in p.ready /\ UNCHANGED <<mailed, hidden, confirmed>>
           /\ SameBid(d)
           /\ \/ /\ row[d][p.gc].status \in ClaimableGcs(p.force)
                 /\ row'[d][p.gc].status = "sending"
                 /\ row'[d][p.gc].amount = row[d][p.gc].amount
                 /\ \A g \in Gcs : g # p.gc => row'[d][g] = row[d][g]
                 /\ q.pc = "convert" /\ Holding(p, q)
              \/ /\ row' = row
                 /\ q.pc = "send" /\ Keeps(p, q) /\ q.view = p.view /\ q.todo = p.todo
                 /\ q.ready = p.ready \ {p.gc}
<1> DEFINE p == snd[s]  d == p.date  a == [p EXCEPT !.pc = "convert"]
           b == [p EXCEPT !.pc = "send", !.ready = @ \ {p.gc}, !.gc = NoGc]
<1>1. p \in Passes /\ DOMAIN snd = Senders /\ d \in Dates /\ TypeOK
  BY PassTyped
<1>2. p.pc = "claim" /\ UNCHANGED <<mailed, hidden, confirmed>>
  BY DEF ClaimGc, log
<1>3. p.gc \in p.ready /\ p.gc \in Gcs
  BY <1>2, PassTyped DEF PassOK, InHand
<1>4. Alive(d) \/ UNCHANGED run
  BY DEF ClaimGc, db
<1>5. SameBid(d)
  BY <1>1, <1>4, AliveFacts DEF SameBid
<1>6. \/ /\ row[d][p.gc].status \in ClaimableGcs(p.force) /\ SetRow(d, p.gc, "sending")
         /\ snd' = [snd EXCEPT ![s] = a]
      \/ row' = row /\ snd' = [snd EXCEPT ![s] = b]
  BY DEF ClaimGc, Go, db
<1>7. Holding(p, a) /\ a.pc = "convert"
  BY <1>1 DEF Passes, Holding, Keeps
<1>8. /\ b.pc = "send" /\ Keeps(p, b) /\ b.view = p.view /\ b.todo = p.todo
      /\ b.ready = p.ready \ {p.gc}
  BY <1>1 DEF Passes, Keeps
<1> HIDE DEF a, b
<1>9. \/ /\ row[d][p.gc].status \in ClaimableGcs(p.force) /\ SetRow(d, p.gc, "sending")
         /\ snd'[s] = a
      \/ row' = row /\ snd'[s] = b
  BY <1>1, <1>6
<1>10. QED  BY <1>1, <1>2, <1>3, <1>5, <1>7, <1>8, <1>9, SetRowFacts

LEMMA ConvertFacts ==
    ASSUME Typed, NEW s \in Senders, Convert(s)
    PROVE  LET p == snd[s]  q == snd'[s] IN
           /\ p.pc = "convert" /\ UNCHANGED <<run, row, mailed, hidden, confirmed, human>>
           /\ Holding(p, q)
           /\ \/ q.pc = "record" /\ q.outcome \in {"skipped", "failed"}
              \/ q.pc = "mail" /\ ~ StopReason
<1> DEFINE p == snd[s]  c == [p EXCEPT !.pc = "mail"]
           x == [p EXCEPT !.pc = "record", !.outcome = "failed"]
<1>1. p \in Passes /\ DOMAIN snd = Senders
  BY PassTyped
<1>2. p.pc = "convert" /\ UNCHANGED <<run, row, mailed, hidden, confirmed, human>>
  BY DEF Convert, db, log, world
<1>3. \/ snd' = [snd EXCEPT ![s] = x]
      \/ snd' = [snd EXCEPT ![s] = Skip(p)]
      \/ ~ StopReason /\ snd' = [snd EXCEPT ![s] = c]
  BY DEF Convert, Go
<1>4. Holding(p, c) /\ c.pc = "mail"
  BY <1>1 DEF Holding, Keeps, Passes
<1>5. Holding(p, x) /\ x.pc = "record" /\ x.outcome = "failed"
  BY <1>1 DEF Holding, Keeps, Passes
<1> HIDE DEF c, x
<1>6. snd'[s] = x \/ snd'[s] = Skip(p) \/ (~ StopReason /\ snd'[s] = c)
  BY <1>1, <1>3
<1>7. QED  BY <1>1, <1>2, <1>4, <1>5, <1>6, SkipFacts

LEMMA MailFacts ==
    ASSUME Typed, NEW s \in Senders, Mail(s)
    PROVE  LET p == snd[s]  q == snd'[s] IN
           /\ p.pc = "mail" /\ p.gc \in Gcs /\ p.gc \in p.ready
           /\ UNCHANGED <<run, row, confirmed, human>>
           /\ Holding(p, q) /\ q.pc = "record"
           /\ \/ /\ mailed' = [mailed EXCEPT ![p.gc] = @ + 1]
                 /\ \/ q.outcome \in {"sent", "unknown"} /\ hidden' = hidden
                    \/ q.outcome = "failed" /\ hidden' = [hidden EXCEPT ![p.gc] = @ + 1]
                 /\ afterHuman' = IF human # "none" THEN afterHuman + 1 ELSE afterHuman
              \/ /\ mailed' = mailed /\ q.outcome \in {"failed", "unknown"}
                 /\ hidden' = hidden /\ afterHuman' = afterHuman
<1> DEFINE p == snd[s]  q(st) == [p EXCEPT !.pc = "record", !.outcome = st]
<1>1. p \in Passes /\ DOMAIN snd = Senders
  BY PassTyped
<1>2. p.pc = "mail" /\ UNCHANGED <<run, row, confirmed, human>>
  BY DEF Mail, db, world
<1>3. p.gc \in p.ready /\ p.gc \in Gcs
  BY <1>2, PassTyped DEF PassOK, InHand
<1>4. \/ /\ mailed' = [mailed EXCEPT ![p.gc] = @ + 1]
         /\ \/ /\ hidden' = hidden
               /\ \E st \in {"sent", "unknown"} : snd' = [snd EXCEPT ![s] = q(st)]
            \/ /\ hidden' = [hidden EXCEPT ![p.gc] = @ + 1]
               /\ snd' = [snd EXCEPT ![s] = q("failed")]
         /\ afterHuman' = IF human # "none" THEN afterHuman + 1 ELSE afterHuman
      \/ /\ mailed' = mailed /\ hidden' = hidden /\ afterHuman' = afterHuman
         /\ \E st \in {"failed", "unknown"} : snd' = [snd EXCEPT ![s] = q(st)]
  BY DEF Mail, Answer, Go
<1>5. \A st : Holding(p, q(st)) /\ q(st).pc = "record" /\ q(st).outcome = st
  BY <1>1 DEF Holding, Keeps, Passes
<1> HIDE DEF q
<1>6. \A st : snd' = [snd EXCEPT ![s] = q(st)] => snd'[s] = q(st)
  BY <1>1
<1>7. QED  BY SMTT(60), <1>2, <1>3, <1>4, <1>5, <1>6

LEMMA RecordFacts ==
    ASSUME Typed, NEW s \in Senders, Record(s)
    PROVE  LET p == snd[s]  q == snd'[s]  d == p.date IN
           /\ p.pc = "record" /\ p.gc \in Gcs /\ p.gc \in p.ready /\ UNCHANGED <<mailed, hidden, confirmed>>
           /\ p.outcome \in {"sent", "failed", "unknown", "skipped"}
           /\ SameBid(d)
           /\ row'[d][p.gc].status = p.outcome /\ row'[d][p.gc].amount = row[d][p.gc].amount
           /\ \A g \in Gcs : g # p.gc => row'[d][g] = row[d][g]
           /\ q.pc = "send" /\ Keeps(p, q) /\ q.view = [p.view EXCEPT ![p.gc] = p.outcome]
           /\ q.todo = p.todo /\ q.ready = p.ready \ {p.gc}
<1> DEFINE p == snd[s]  d == p.date
           q == [p EXCEPT !.pc = "send", !.ready = @ \ {p.gc}, !.gc = NoGc,
                          !.view[p.gc] = p.outcome]
<1>1. p \in Passes /\ DOMAIN snd = Senders /\ d \in Dates /\ TypeOK
  BY PassTyped
<1>2. /\ p.pc = "record" /\ UNCHANGED <<mailed, hidden, confirmed>> /\ Alive(d)
      /\ SetRow(d, p.gc, p.outcome)
  BY DEF Record, log
<1>3. /\ p.gc \in p.ready /\ p.gc \in Gcs
      /\ p.outcome \in {"sent", "failed", "unknown", "skipped"}
  BY <1>2, PassTyped DEF PassOK, InHand
<1>4. SameBid(d)
  BY <1>1, <1>2, AliveFacts DEF SameBid
<1>5. snd' = [snd EXCEPT ![s] = q]
  BY DEF Record, Go
<1>6. /\ q.pc = "send" /\ Keeps(p, q) /\ q.view = [p.view EXCEPT ![p.gc] = p.outcome]
      /\ q.todo = p.todo /\ q.ready = p.ready \ {p.gc}
  BY <1>1 DEF Passes, Keeps
<1> HIDE DEF q
<1>7. snd'[s] = q
  BY <1>1, <1>5
<1>8. QED  BY <1>1, <1>2, <1>3, <1>4, <1>6, <1>7, SetRowFacts

LEMMA RaiseFacts ==
    ASSUME Typed, NEW s \in Senders, Raise(s)
    PROVE  LET p == snd[s]  q == snd'[s] IN
           /\ p.pc \in InPass /\ UNCHANGED <<run, row, mailed, hidden, confirmed>>
           /\ faults' = faults + 1
           /\ q = Idle \/ (q.pc = "rescue" /\ Keeps(p, q))
<1> DEFINE p == snd[s]  x == [p EXCEPT !.pc = "rescue"]
<1>1. p \in Passes /\ DOMAIN snd = Senders
  BY PassTyped
<1>2. p.pc \in InPass /\ UNCHANGED <<run, row, mailed, hidden, confirmed>> /\ faults' = faults + 1
  BY DEF Raise, db, log
<1>3. snd' = [snd EXCEPT ![s] = Idle] \/ snd' = [snd EXCEPT ![s] = x]
  BY DEF Raise, Go
<1>4. x.pc = "rescue" /\ Keeps(p, x)
  BY <1>1 DEF Passes, Keeps
<1> HIDE DEF x
<1>5. snd'[s] = Idle \/ snd'[s] = x
  BY <1>1, <1>3
<1>6. QED  BY <1>2, <1>4, <1>5

LEMMA RescueFacts ==
    ASSUME Typed, NEW s \in Senders, Rescue(s)
    PROVE  LET p == snd[s]  q == snd'[s]  d == p.date IN
           /\ p.pc = "rescue" /\ UNCHANGED <<mailed, hidden, confirmed>> /\ SameBid(d)
           /\ q.pc = "rescued" /\ Keeps(p, q)
           /\ q.outcome = FinalStatus([g \in Gcs |-> row'[d][g].status])
           /\ \A g \in Gcs : /\ row'[d][g].amount = row[d][g].amount
                             /\ row'[d][g].status = IF row[d][g].status = "sending"
                                                    THEN "unknown" ELSE row[d][g].status
<1> DEFINE p == snd[s]  d == p.date  rows == Mended(row[d])
           st == FinalStatus([g \in Gcs |-> rows[g].status])
           q == [p EXCEPT !.pc = "rescued", !.outcome = st]
<1>1. /\ p \in Passes /\ DOMAIN snd = Senders /\ d \in Dates /\ TypeOK
      /\ row \in [Dates -> [Gcs -> GcRow]]
  BY PassTyped
<1>2. /\ p.pc = "rescue" /\ UNCHANGED <<mailed, hidden, confirmed>> /\ Alive(d)
      /\ row' = [row EXCEPT ![d] = rows] /\ snd' = [snd EXCEPT ![s] = q]
  BY DEF Rescue, log, Go
<1>3. \A g \in Gcs : /\ rows[g].amount = row[d][g].amount
                     /\ rows[g].status = IF row[d][g].status = "sending"
                                         THEN "unknown" ELSE row[d][g].status
  <2>1. row[d] \in [Gcs -> GcRow]
    BY <1>1
  <2>2. QED  BY <2>1 DEF Mended, GcRow
<1>4. SameBid(d)
  BY <1>1, <1>2, AliveFacts DEF SameBid
<1>5. q.pc = "rescued" /\ Keeps(p, q) /\ q.outcome = st
  BY <1>1 DEF Passes, Keeps
<1>6. row'[d] = rows
  <2> HIDE DEF rows
  <2>1. QED  BY <1>1, <1>2
<1>7. st = FinalStatus([g \in Gcs |-> row'[d][g].status])
  BY <1>6
<1> HIDE DEF q, st, rows
<1>8. snd'[s] = q
  BY <1>1, <1>2
<1>9. QED  BY <1>2, <1>3, <1>4, <1>5, <1>6, <1>7, <1>8

-----------------------------------------------------------------------------
(* What a pass knows.                                                      *)

\* A step that is not one of a pass on its run leaves every pass, its run and
\* its rows as they were.
LEMMA Bystanders ==
    ASSUME Typed, Timely, Calm, Alone, Reclaiming, Next, \A s \in Senders : ~ Work(s)
    PROVE  \A t \in Senders : snd'[t].pc \in InPass \ {"claimed"} =>
              LET d == snd[t].date IN
              /\ snd'[t] = snd[t] /\ SameRows(d) /\ SameBid(d)
              /\ run'[d].status = run[d].status
<1> SUFFICES ASSUME NEW t \in Senders, snd'[t].pc \in InPass \ {"claimed"}
             PROVE  LET d == snd[t].date IN
                    /\ snd'[t] = snd[t] /\ SameRows(d) /\ SameBid(d)
                    /\ run'[d].status = run[d].status
    OBVIOUS
<1> DEFINE d == snd[t].date
<1> USE DEF SameRows, SameBid
<1>1. \A s \in Senders : snd[s].date \in Dates
  BY PassTyped
<1>2. CASE Tick
  BY <1>2, TickFacts
<1>3. ASSUME NEW e \in Dates, MoveDate(e) PROVE snd' = snd /\ row' = row /\ run' = run
  BY <1>3, MoveDateFacts
<1>4. CASE Aside
  BY <1>4, AsideFacts
<1>5. ASSUME NEW e \in Dates, Accept(e)
      PROVE  /\ snd' = snd /\ row' = row
             /\ run'[d].status = run[d].status /\ run'[d].amount = run[d].amount
  BY <1>1, <1>5, AcceptFacts
<1>6. ASSUME NEW s \in Senders, NEW e \in Dates, NEW force \in BOOLEAN, SendNow(s, e, force)
      PROVE snd'[t] = snd[t] /\ row' = row /\ run' = run
  BY <1>6, SendNowFacts DEF Moves, InPass
<1>7. ASSUME NEW s \in Senders, NEW e \in Dates, Due(s, e)
      PROVE snd'[t] = snd[t] /\ row' = row /\ run' = run
  BY <1>7, DueFacts DEF Moves, InPass
<1>8. ASSUME NEW s \in Senders, Check(s) PROVE snd'[t] = snd[t] /\ row' = row /\ run' = run
  BY <1>8, CheckFacts, IdleOK DEF Moves, InPass
<1>9. ASSUME NEW s \in Senders, ClaimRun(s)
      PROVE  snd'[t] = snd[t] /\ row' = row /\ run'[d] = run[d]
  <2>1. t # s
    BY <1>9, ClaimRunFacts, IdleOK DEF InPass
  <2>2. snd'[t] = snd[t] /\ row' = row
    BY <1>9, <2>1, ClaimRunFacts DEF Moves
  <2>3. run[d].status = "sending"
    BY <2>2 DEF Alone
  <2>4. CASE run' = run
    BY <2>2, <2>4
  <2>5. CASE run' # run
    <3>1. Claimable(snd[s]) /\ Rewrites(snd[s].date)
      BY <1>9, <2>5, ClaimRunFacts
    <3>2. run[snd[s].date].status # "sending"
      BY <3>1 DEF Claimable, Sendable
    <3>3. QED  BY <1>1, <2>2, <2>3, <3>1, <3>2 DEF Rewrites
  <2>6. QED  BY <2>4, <2>5
<1>10. ASSUME NEW s \in Senders, NEW e \in Dates, Missed(s, e)
       PROVE  snd' = snd /\ row' = row /\ run'[d] = run[d]
  <2>1. snd' = snd /\ row' = row
    BY <1>10, MissedFacts
  <2>2. run[d].status = "sending"
    BY <2>1 DEF Alone
  <2>3. run' = run \/ (run[e].status = "none" /\ Rewrites(e))
    BY <1>10, MissedFacts
  <2>4. QED  BY <1>1, <2>1, <2>2, <2>3 DEF Rewrites
<1>11. ASSUME NEW s \in Senders, Finish(s) PROVE FALSE
  <2>1. snd[s].pc \in InPass /\ snd'[s] = Idle /\ Moves(s)
    BY <1>11, FinishFacts
  <2>2. t # s /\ snd'[t] = snd[t]
    BY <2>1, IdleOK DEF Moves, InPass
  <2>3. QED  BY <2>1, <2>2 DEF Alone
<1>12. ASSUME NEW e \in Dates, Stall(e)
      PROVE  /\ snd' = snd /\ row' = row
             /\ run'[d].status = run[d].status /\ run'[d].amount = run[d].amount
  BY <1>1, <1>12, StallFacts
<1>13. ASSUME NEW s \in Senders, NEW e \in Dates, ReclaimRead(s, e)
       PROVE  snd'[t] = snd[t] /\ row' = row /\ run' = run
  BY <1>13, ReclaimReadFacts DEF Moves, InPass
<1>14. ASSUME NEW s \in Senders, ReclaimRun(s)
       PROVE  snd'[t] = snd[t] /\ row' = row /\ run'[d] = run[d]
  <2>1. t # s
    BY <1>14, ReclaimRunFacts, IdleOK DEF InPass
  <2>2. snd'[t] = snd[t] /\ row' = row
    BY <1>14, <2>1, ReclaimRunFacts DEF Moves
  <2>3. ~ run[d].quiet
    BY <2>2 DEF Alone
  <2>4. run' = run \/ (run[snd[s].date].quiet /\ Rewrites(snd[s].date))
    BY <1>14, ReclaimRunFacts
  <2>5. QED  BY <1>1, <2>2, <2>3, <2>4 DEF Rewrites
<1>15. ASSUME NEW s \in Senders, ReclaimRows(s)
       PROVE  snd'[t] = snd[t] /\ row'[d] = row[d] /\ run'[d] = run[d]
  <2>1. t # s
    BY <1>15, ReclaimRowsFacts, IdleOK DEF InPass
  <2>2. snd'[t] = snd[t]
    BY <1>15, <2>1, ReclaimRowsFacts DEF Moves
  <2>3. run[d].status = "sending"
    BY <2>2 DEF Alone
  <2>4. run[snd[s].date].status # "sending"
    BY <1>15, ReclaimRowsFacts DEF Reclaiming
  <2>5. QED  BY <1>1, <1>15, <2>2, <2>3, <2>4, ReclaimRowsFacts
<1>16. ASSUME NEW s \in Senders, Crash(s) PROVE snd'[t] = snd[t] /\ row' = row /\ run' = run
  BY <1>16, CrashFacts, IdleOK DEF Moves, InPass
<1>17. CASE \E s \in Senders : Work(s)
  BY <1>17
<1>18. QED
  BY <1>2, <1>3, <1>4, <1>5, <1>6, <1>7, <1>8, <1>9, <1>10, <1>11, <1>12, <1>13, <1>14,
     <1>15, <1>16, <1>17, StepCases

\* A pass that works is the only one.
LEMMA OneAtWork ==
    ASSUME Typed, Alone, NEW s \in Senders, Work(s)
    PROVE  /\ snd[s].pc \in InPass /\ run[snd[s].date].status = "sending"
           /\ \A t \in Senders : t # s => snd[t].pc \notin InPass /\ snd'[t] = snd[t]
BY WorkInside DEF Inside, Alone

LEMMA TracksStep ==
    ASSUME Typed, Timely, Calm, Alone, Reclaiming, Tracks, Next
    PROVE  Tracks'
<1>1. ASSUME \A s \in Senders : ~ Work(s) PROVE Tracks'
  <2> SUFFICES ASSUME NEW t \in Senders
               PROVE  KnowsRows(snd'[t], [g \in Gcs |-> row'[snd'[t].date][g].status])
      BY DEF Tracks, Statuses
  <2> DEFINE p == snd[t]  d == p.date
  <2>1. CASE snd'[t].pc \in InPass \ {"claimed"}
    <3>1. snd'[t] = p /\ SameRows(d)
      BY <1>1, <2>1, Bystanders
    <3>2. [g \in Gcs |-> row'[d][g].status] = Statuses(d)
      BY <3>1 DEF SameRows, Statuses
    <3>3. KnowsRows(p, Statuses(d))
      BY DEF Tracks
    <3> HIDE DEF p, d
    <3>4. snd'[t].date = d
      BY <3>1 DEF d
    <3>5. QED  BY <3>1, <3>2, <3>3, <3>4
  <2>2. CASE snd'[t].pc \notin InPass \ {"claimed"}
    BY <2>2 DEF KnowsRows, Untaken, Mailing, Listed, InPass
  <2>3. QED  BY <2>1, <2>2
<1>2. ASSUME NEW s \in Senders, Work(s) PROVE Tracks'
  <2> DEFINE p == snd[s]  q == snd'[s]  d == p.date  v == Statuses(d)
             w == [g \in Gcs |-> row'[d][g].status]
  <2>1. /\ p \in Passes /\ d \in Dates /\ PassOK(p) /\ v \in [Gcs -> RowStatuses]
        /\ p.view \in [Gcs -> RowStatuses]
        /\ \A g \in Gcs : v[g] = row[d][g].status
        /\ KnowsRows(p, v)
    BY PassTyped DEF Passes, Statuses, Tracks
  <2>2. \A t \in Senders : t # s => snd'[t].pc \notin InPass
    BY <1>2, OneAtWork
  <2>3. q.pc # "idle" => q.date = d
    BY <1>2, WorkInside DEF Inside
  <2>4. SUFFICES q.pc # "idle" => KnowsRows(q, w)
    <3>1. ASSUME NEW t \in Senders
          PROVE  KnowsRows(snd'[t], [g \in Gcs |-> row'[snd'[t].date][g].status])
      <4>1. CASE snd'[t].pc \notin InPass
        BY <4>1 DEF KnowsRows, Untaken, Mailing, Listed, InPass
      <4>2. CASE snd'[t].pc \in InPass
        BY <2>2, <2>3, <2>4, <4>2 DEF InPass
      <4>3. QED  BY <4>1, <4>2
    <3>2. QED  BY <3>1 DEF Tracks, Statuses
  <2>5. SameRows(d) => w = v
    BY DEF SameRows, Statuses
  <2>6. row' = row => w = v
    BY DEF Statuses
  <2>7. \A g \in Gcs : w[g] = row'[d][g].status
    OBVIOUS
  <2> HIDE DEF w, v
  <2>8. CASE Evaluate(s)
    <3>1. row' = row /\ q.pc \in {"open", "close"} /\ (q.pc = "open" => q.view = v)
      BY <2>8, EvaluateFacts DEF v
    <3>2. QED  BY <2>6, <3>1 DEF KnowsRows, Untaken, Mailing, Listed
  <2>9. CASE Open(s)
    <3>1. row' = row /\ p.pc = "open" /\ q.pc = "insert" /\ q.view = p.view
      BY <2>9, OpenFacts
    <3>2. QED  BY <2>1, <2>6, <3>1 DEF KnowsRows, Untaken, Mailing, Listed
  <2>10. CASE Insert(s)
    <3>1. p.pc = "insert" /\ p.view = v
      BY <2>1, <2>10, InsertFacts DEF KnowsRows, Untaken
    <3>2. p.ready = {}
      BY <2>1, <3>1 DEF PassOK, Early
    <3>3. CASE q.pc = "rescue"
      BY <3>3 DEF KnowsRows, Untaken, Mailing, Listed
    <3>4. CASE q.pc # "rescue"
      <4>1. /\ q.pc \in {"send", "prep"} /\ q.view = NewView(p) /\ q.ready = {}
            /\ q.todo = SendableGcs(q.view, p.force) /\ q.force = p.force
            /\ \A g \in Gcs : w[g] = IF p.view[g] = "absent" THEN q.view[g] ELSE v[g]
        BY <2>1, <2>7, <2>10, <3>2, <3>4, InsertFacts DEF Keeps
      <4>2. \A g \in Gcs : /\ q.view[g] = w[g] /\ q.view[g] # "absent"
        BY <3>1, <4>1 DEF NewView
      <4>3. q.view = w
        BY <4>1, <4>2 DEF w, NewView
      <4>4. \A g \in q.todo : g \in Gcs /\ q.view[g] \in ClaimableGcs(p.force)
        BY <4>1, <4>2 DEF SendableGcs, ClaimableGcs
      <4>5. QED  BY <4>1, <4>2, <4>3, <4>4 DEF KnowsRows, Untaken, Mailing, Listed
    <3>5. QED  BY <3>3, <3>4
  <2>11. CASE Beat(s)
    <3>1. row' = row  BY <2>11, BeatFacts
    <3>2. CASE q.pc # "idle"
      <4>1. /\ q.force = p.force /\ q.view = p.view /\ q.todo = p.todo /\ q.ready = p.ready
            /\ p.pc \in {"prep", "send"} /\ q.pc \in {"prepare", "check"}
        BY <2>11, <3>2, BeatFacts, IdleOK DEF Keeps
      <4>2. QED  BY <2>1, <2>6, <3>1, <4>1 DEF KnowsRows, Untaken, Mailing, Listed
    <3>3. QED  BY <3>2
  <2>12. CASE Prepare(s)
    <3>1. /\ p.pc = "prepare" /\ p.gc \in p.todo /\ q.pc \in {"send", "prep"}
          /\ q.force = p.force /\ q.todo = p.todo \ {p.gc}
          /\ \A g \in Gcs : g # p.gc => w[g] = v[g]
          /\ \/ q.ready = p.ready \cup {p.gc} /\ q.view = p.view /\ w[p.gc] = v[p.gc]
             \/ /\ q.ready = p.ready /\ q.view = [p.view EXCEPT ![p.gc] = "failed"]
                /\ w[p.gc] = "failed"
      <4>1. p.gc \in p.todo /\ p.gc \in Gcs
        BY <2>1, <2>12, PrepareFacts DEF Passes
      <4>2. \A g \in Gcs : g # p.gc => w[g] = v[g]
        <5>1. \A g \in Gcs : g # p.gc => row'[d][g] = row[d][g]
          BY <2>12, PrepareFacts
        <5> HIDE DEF p, d
        <5>2. QED  BY <2>1, <2>7, <5>1
      <4>3. /\ w[p.gc] = row'[d][p.gc].status
            /\ v[p.gc] = row[d][p.gc].status
        BY <2>1, <2>7, <4>1
      <4>4. QED  BY <2>12, <4>1, <4>2, <4>3, PrepareFacts DEF Keeps
    <3>2. /\ p.view = v /\ p.gc \in Gcs /\ \A g \in Gcs : p.view[g] # "absent"
          /\ p.todo \cap p.ready = {}
          /\ \A g \in p.todo \cup p.ready : p.view[g] \in ClaimableGcs(p.force)
      BY <2>1, <3>1 DEF KnowsRows, Untaken, Listed, Passes
    <3>3. \A g \in Gcs : q.view[g] = w[g]
      BY <2>1, <3>1, <3>2
    <3>4. DOMAIN q.view = Gcs /\ q.view = [g \in Gcs |-> q.view[g]]
      BY <2>1, <3>1
    <3>5. q.view = w
      BY <3>3, <3>4 DEF w
    <3>6. "failed" \in ClaimableGcs(p.force)
      BY DEF ClaimableGcs, GcRetry
    <3>7. /\ \A g \in Gcs : q.view[g] # "absent"
          /\ \A g \in q.todo \cup q.ready : q.view[g] \in ClaimableGcs(q.force)
          /\ q.todo \cap q.ready = {}
      <4>1. \A g \in Gcs : g # p.gc => q.view[g] = p.view[g]
        BY <2>1, <3>1
      <4>2. q.view[p.gc] = p.view[p.gc] \/ q.view[p.gc] = "failed"
        BY <2>1, <3>1, <3>2
      <4>3. q.todo \cup q.ready \subseteq (p.todo \cup p.ready) /\ p.todo \cup p.ready \subseteq Gcs
        BY <2>1, <3>1 DEF Passes
      <4>4. q.todo \cap q.ready = {}
        BY <3>1, <3>2
      <4>5. QED  BY <3>1, <3>2, <3>6, <4>1, <4>2, <4>3, <4>4
    <3>8. QED  BY <3>1, <3>5, <3>7 DEF KnowsRows, Untaken, Mailing, Listed
  <2>13. CASE StopCheck(s)
    <3>1. /\ p.pc = "check" /\ row' = row /\ Holding(p, q) /\ q.pc \in {"record", "claim"}
      BY <2>13, StopCheckFacts
    <3>2. p.gc \in p.ready /\ p.gc \in Gcs
      BY <2>1, <3>1 DEF PassOK, InHand
    <3>3. \A st \in ClaimableGcs(p.force) : st \notin {"absent", "sent"}
      BY DEF ClaimableGcs, GcRetry
    <3>4. QED
      BY <2>1, <2>6, <3>1, <3>2, <3>3 DEF KnowsRows, Untaken, Mailing, Listed, Holding, Keeps
  <2>14. CASE ClaimGc(s)
    <3>1. /\ p.pc = "claim" /\ p.gc \in Gcs /\ p.gc \in p.ready
          /\ p.view = v /\ \A g \in Gcs : p.view[g] # "absent"
          /\ p.todo \cap p.ready = {}
          /\ \A g \in p.todo \cup p.ready : p.view[g] \in ClaimableGcs(p.force)
      BY <2>1, <2>14, ClaimGcFacts DEF KnowsRows, Untaken, Listed
    <3>2. CASE q.pc = "convert"
      <4>1. /\ w[p.gc] = "sending" /\ \A g \in Gcs : g # p.gc => w[g] = v[g]
            /\ Holding(p, q)
        BY <2>1, <2>7, <2>14, <3>2, ClaimGcFacts
      <4>2. QED
        BY <3>1, <3>2, <4>1 DEF KnowsRows, Untaken, Mailing, Listed, Holding, Keeps
    <3>3. CASE q.pc # "convert"
      <4>1. /\ row' = row /\ q.pc = "send" /\ q.force = p.force /\ q.view = p.view
            /\ q.todo = p.todo /\ q.ready = p.ready \ {p.gc}
        BY <2>14, <3>3, ClaimGcFacts DEF Keeps
      <4>2. QED  BY <2>6, <3>1, <4>1 DEF KnowsRows, Untaken, Mailing, Listed
    <3>4. QED  BY <3>2, <3>3
  <2>15. CASE Convert(s)
    <3>1. /\ p.pc = "convert" /\ row' = row /\ Holding(p, q) /\ q.pc \in {"record", "mail"}
      BY <2>15, ConvertFacts
    <3>2. QED
      BY <2>1, <2>6, <3>1 DEF KnowsRows, Untaken, Mailing, Listed, Holding, Keeps
  <2>16. CASE Mail(s)
    <3>1. /\ p.pc = "mail" /\ row' = row /\ Holding(p, q) /\ q.pc = "record"
      BY <2>16, MailFacts
    <3>2. QED
      BY <2>1, <2>6, <3>1 DEF KnowsRows, Untaken, Mailing, Listed, Holding, Keeps
  <2>17. CASE Record(s)
    <3>1. /\ p.pc = "record" /\ p.gc \in Gcs /\ p.gc \in p.ready /\ w[p.gc] = p.outcome
          /\ p.outcome \in {"sent", "failed", "unknown", "skipped"}
          /\ \A g \in Gcs : g # p.gc => w[g] = v[g]
          /\ q.pc = "send" /\ q.force = p.force /\ q.view = [p.view EXCEPT ![p.gc] = p.outcome]
          /\ q.todo = p.todo /\ q.ready = p.ready \ {p.gc}
      <4>1. p.gc \in Gcs
        BY <2>17, RecordFacts
      <4>2. \A g \in Gcs : g # p.gc => w[g] = v[g]
        <5>1. \A g \in Gcs : g # p.gc => row'[d][g] = row[d][g]
          BY <2>17, RecordFacts
        <5> HIDE DEF p, d
        <5>2. QED  BY <2>1, <2>7, <5>1
      <4>3. w[p.gc] = row'[d][p.gc].status
        BY <2>7, <4>1
      <4>4. QED  BY <2>17, <4>1, <4>2, <4>3, RecordFacts DEF Keeps
    <3>2. /\ \A g \in Gcs \ {p.gc} : p.view[g] = v[g]
          /\ \A g \in Gcs : p.view[g] # "absent"
          /\ \A g \in p.todo \cup p.ready : p.view[g] \in ClaimableGcs(p.force)
          /\ p.todo \subseteq Gcs /\ p.ready \subseteq Gcs
      BY <2>1, <3>1 DEF KnowsRows, Mailing, Listed, Passes
    <3>3. \A g \in Gcs : q.view[g] = w[g]
      BY <2>1, <3>1, <3>2
    <3>4. q.view = [g \in Gcs |-> q.view[g]]
      BY <2>1, <3>1
    <3>5. q.view = w
      BY <3>3, <3>4 DEF w
    <3>6. p.todo = {}
      BY <2>1, <3>1 DEF PassOK, Late
    <3>7. /\ \A g \in Gcs : q.view[g] # "absent"
          /\ \A g \in q.todo \cup q.ready : q.view[g] \in ClaimableGcs(q.force)
          /\ q.todo \cap q.ready = {}
      BY <2>1, <3>1, <3>2, <3>6
    <3>8. QED
      BY <3>1, <3>5, <3>7 DEF KnowsRows, Untaken, Mailing, Listed
  <2>18. CASE Raise(s)
    <3>1. q.pc \in {"idle", "rescue"}
      BY <2>18, RaiseFacts, IdleOK
    <3>2. QED  BY <3>1 DEF KnowsRows, Untaken, Mailing, Listed
  <2>19. CASE Rescue(s)
    <3>1. q.pc = "rescued"
      BY <2>19, RescueFacts
    <3>2. QED  BY <3>1 DEF KnowsRows, Untaken, Mailing, Listed
  <2>20. QED
    BY <1>2, <2>8, <2>9, <2>10, <2>11, <2>12, <2>13, <2>14, <2>15, <2>16, <2>17, <2>18,
       <2>19 DEF Work
<1>3. QED  BY <1>1, <1>2

-----------------------------------------------------------------------------
(* What the runs say.                                                      *)

\* What a status tells depends on which rows there are and which were sent.
LEMMA TellsKept ==
    ASSUME NEW st, NEW v, NEW w, Tells(st, v),
           \A g \in Gcs : /\ w[g] = "sent" <=> v[g] = "sent"
                          /\ w[g] = "absent" <=> v[g] = "absent"
    PROVE  Tells(st, w)
<1>1. /\ {g \in Gcs : w[g] = "sent"} = {g \in Gcs : v[g] = "sent"}
      /\ {g \in Gcs : w[g] # "absent"} = {g \in Gcs : v[g] # "absent"}
  OBVIOUS
<1>2. QED  BY <1>1 DEF Tells

\* Nothing is said of a run in progress, and little of one that sent nothing.
LEMMA TellsLittle ==
    /\ \A v : Tells("sending", v)
    /\ \A v, st : (\A g \in Gcs : v[g] # "sent") /\ st \notin {"sent", "partial"}
                  => Tells(st, v)
BY DEF Tells

LEMMA TruthStep ==
    ASSUME Typed, Timely, Calm, Alone, Reclaiming, Tracks, Rooted, Truth, Next
    PROVE  Truth'
<1>a. \A d \in Dates : Tells(run[d].status, Statuses(d))
  BY DEF Truth
<1>b. \A s \in Senders : snd[s].date \in Dates
  BY PassTyped
<1>1. ASSUME \A s \in Senders : ~ Work(s) PROVE Truth'
  <2>1. \/ \E s \in Senders : ReclaimRows(s)
        \/ row' = row
    BY <1>1, StepCases, TickFacts, MoveDateFacts, AsideFacts, AcceptFacts, SendNowFacts,
       DueFacts, CheckFacts, ClaimRunFacts, MissedFacts, FinishFacts, StallFacts,
       ReclaimReadFacts, ReclaimRunFacts, CrashFacts
  <2>2. \A d \in Dates, g \in Gcs :
           /\ row'[d][g].status = "sent" <=> row[d][g].status = "sent"
           /\ row'[d][g].status = "absent" <=> row[d][g].status = "absent"
    <3>1. CASE \E s \in Senders : ReclaimRows(s)
      BY <3>1, MendedRows
    <3>2. CASE row' = row
      BY <3>2
    <3>3. QED  BY <2>1, <3>1, <3>2
  <2>3. \A st : \A d \in Dates : Tells(st, Statuses(d)) => Tells(st, Statuses(d)')
    <3>1. \A d \in Dates, g \in Gcs : /\ Statuses(d)'[g] = row'[d][g].status
                                      /\ Statuses(d)[g] = row[d][g].status
      BY DEF Statuses
    <3>2. ASSUME NEW d \in Dates, NEW st, Tells(st, Statuses(d)) PROVE Tells(st, Statuses(d)')
      <4>1. \A g \in Gcs : /\ Statuses(d)'[g] = "sent" <=> Statuses(d)[g] = "sent"
                           /\ Statuses(d)'[g] = "absent" <=> Statuses(d)[g] = "absent"
        BY <2>2, <3>1
      <4>2. QED  BY <3>2, <4>1, TellsKept
    <3>3. QED  BY <3>2
  <2>4. ASSUME NEW d \in Dates PROVE Tells(run'[d].status, Statuses(d)')
    <3>1. CASE run'[d].status = run[d].status
      BY <1>a, <2>3, <3>1
    <3>2. ASSUME NEW s \in Senders, ClaimRun(s), run'[d].status # run[d].status
          PROVE  run'[d].status = "sending"
      BY <3>2, ClaimRunFacts DEF Rewrites
    <3>3. ASSUME NEW s \in Senders, NEW e \in Dates, Missed(s, e),
                 run'[d].status # run[d].status
          PROVE  Tells(run'[d].status, Statuses(d))
      <4>1. run'[d].status = "missed" /\ run[d].status = "none"
        BY <3>3, MissedFacts DEF Rewrites
      <4>2. \A g \in Gcs : Statuses(d)[g] # "sent"
        BY <4>1 DEF Rooted, Statuses
      <4>3. QED  BY <4>1, <4>2, TellsLittle
    <3>4. ASSUME NEW s \in Senders, Finish(s), run'[d].status # run[d].status
          PROVE  Tells(run'[d].status, Statuses(d))
      <4>1. d = snd[s].date
        BY <3>4, FinishFacts DEF Rewrites
      <4>2. CASE snd[s].pc = "send"
        <5>1. run'[d].status = FinalStatus(snd[s].view)
          BY <3>4, <4>1, <4>2, FinishFacts
        <5>2. snd[s].view = Statuses(d)
          BY <4>1, <4>2 DEF Tracks, KnowsRows, Untaken
        <5>3. QED  BY <5>1, <5>2, FinalStatusTells
      <4>3. CASE snd[s].pc # "send"
        <5>1. run'[d].status = snd[s].outcome /\ snd[s].pc \in {"close", "rescued"}
          BY <3>4, <4>1, <4>3, FinishFacts
        <5>2. QED  BY <4>1, <5>1 DEF Truth
      <4>4. QED  BY <4>2, <4>3
    <3>5. ASSUME NEW s \in Senders, ReclaimRun(s), run'[d].status # run[d].status
          PROVE  Tells(run'[d].status, Statuses(d))
      <4>1. /\ run[d].status = "sending" /\ run[d].quiet /\ snd[s].pc = "reclaim"
            /\ d = snd[s].date /\ run'[d].status = FinalStatus(snd[s].view)
        BY <3>5, ReclaimRunFacts DEF Rewrites
      <4>2. snd[s].view = Statuses(d)
        BY <4>1 DEF Reclaiming
      <4>3. QED  BY <4>1, <4>2, FinalStatusTells
    <3>6. CASE run'[d].status # run[d].status
      <4>1. \/ \E s \in Senders : ClaimRun(s) \/ Finish(s) \/ ReclaimRun(s)
            \/ \E s \in Senders, e \in Dates : Missed(s, e)
        BY <1>1, <3>6, StepCases, TickFacts, MoveDateFacts, AsideFacts, AcceptFacts,
           SendNowFacts, DueFacts, CheckFacts, StallFacts, ReclaimReadFacts,
           ReclaimRowsFacts, CrashFacts DEF SameRun
      <4>2. QED  BY <2>3, <3>2, <3>3, <3>4, <3>5, <3>6, <4>1, TellsLittle
    <3>7. QED  BY <3>1, <3>6
  <2>5. ASSUME NEW t \in Senders, snd'[t].pc \in {"close", "rescued"}
        PROVE  Tells(snd'[t].outcome, [g \in Gcs |-> row'[snd'[t].date][g].status])
    <3>1. snd'[t] = snd[t] /\ SameRows(snd[t].date)
      BY <1>1, <2>5, Bystanders DEF InPass
    <3>2. [g \in Gcs |-> row'[snd'[t].date][g].status] = Statuses(snd[t].date)
      BY <3>1 DEF SameRows, Statuses
    <3>3. QED  BY <2>5, <3>1, <3>2 DEF Truth
  <2>6. QED  BY <2>4, <2>5 DEF Truth, Statuses
<1>2. ASSUME NEW s \in Senders, Work(s) PROVE Truth'
  <2> DEFINE p == snd[s]  q == snd'[s]  d == p.date
             w == [g \in Gcs |-> row'[d][g].status]
  <2>1. Inside(s) /\ run[d].status = "sending" /\ d \in Dates
    BY <1>2, WorkInside, OneAtWork, PassTyped
  <2>2. \A e \in Dates : Tells(run'[e].status, Statuses(e)')
    <3>1. ASSUME NEW e \in Dates, e # d PROVE Tells(run'[e].status, Statuses(e)')
      BY <1>a, <2>1, <3>1, StatusesSame DEF Inside
    <3>2. run'[d].status = "sending"
      BY <2>1 DEF Inside, SameRun
    <3>3. QED  BY <3>1, <3>2, TellsLittle
  <2>3. ASSUME q.pc \in {"close", "rescued"} PROVE Tells(q.outcome, w)
    <3>1. CASE Evaluate(s)
      <4>1. /\ row' = row
            /\ IF Partly(Statuses(d)) THEN q.outcome = FinalStatus(Statuses(d))
                                      ELSE q.outcome \in {"skipped", "failed"}
        BY <2>3, <3>1, EvaluateFacts
      <4>2. w = Statuses(d)
        BY <4>1 DEF Statuses
      <4>3. CASE Partly(Statuses(d))
        BY <4>1, <4>2, <4>3, FinalStatusTells
      <4>4. CASE ~ Partly(Statuses(d))
        BY <4>1, <4>2, <4>4, TellsLittle DEF Partly
      <4>5. QED  BY <4>3, <4>4
    <3>2. CASE Rescue(s)
      BY <3>2, RescueFacts, FinalStatusTells
    <3>3. CASE ~ Evaluate(s) /\ ~ Rescue(s)
      BY ZenonT(60), <1>2, <2>3, <3>3, OpenFacts, InsertFacts, BeatFacts, PrepareFacts, StopCheckFacts,
         ClaimGcFacts, ConvertFacts, MailFacts, RecordFacts, RaiseFacts, IdleOK DEF Work
    <3>4. QED  BY <3>1, <3>2, <3>3
  <2>4. ASSUME NEW t \in Senders, snd'[t].pc \in {"close", "rescued"}
        PROVE  Tells(snd'[t].outcome, [g \in Gcs |-> row'[snd'[t].date][g].status])
    <3>1. t = s
      BY <1>2, <2>4, OneAtWork DEF InPass
    <3>2. q.date = d
      BY <2>1, <2>4, <3>1 DEF Inside
    <3>3. QED  BY <2>3, <2>4, <3>1, <3>2
  <2>5. QED  BY <2>2, <2>4 DEF Truth, Statuses
<1>3. QED  BY <1>1, <1>2

LEMMA BidStep ==
    ASSUME Typed, Timely, Calm, Alone, Reclaiming, Tracks, Bid, Next
    PROVE  Bid'
<1>a. /\ \A d \in Dates, g \in Gcs : row[d][g].status = "sent" => row[d][g].amount = run[d].amount
      /\ \A d \in Dates, g \in Gcs : row[d][g].status = "sent" => run[d].amount # 0
  BY DEF Bid, OneBid, Partly, Statuses
<1>b. \A s \in Senders : snd[s].date \in Dates
  BY PassTyped
<1>1. ASSUME \A s \in Senders : ~ Work(s) PROVE Bid'
  <2>1. \/ \E s \in Senders : ReclaimRows(s)
        \/ row' = row
    BY <1>1, StepCases, TickFacts, MoveDateFacts, AsideFacts, AcceptFacts, SendNowFacts,
       DueFacts, CheckFacts, ClaimRunFacts, MissedFacts, FinishFacts, StallFacts,
       ReclaimReadFacts, ReclaimRunFacts, CrashFacts
  <2>2. \A d \in Dates, g \in Gcs :
           /\ row'[d][g].status = "sent" <=> row[d][g].status = "sent"
           /\ row'[d][g].amount = row[d][g].amount
    <3>1. CASE \E s \in Senders : ReclaimRows(s)
      BY <3>1, MendedRows
    <3>2. CASE row' = row
      BY <3>2
    <3>3. QED  BY <2>1, <3>1, <3>2
  <2>3. \A d \in Dates : run'[d].amount = run[d].amount
    BY <1>1, StepCases, TickFacts, MoveDateFacts, AsideFacts, AcceptFacts, SendNowFacts,
       DueFacts, CheckFacts, ClaimRunFacts, MissedFacts, FinishFacts, StallFacts,
       ReclaimReadFacts, ReclaimRunFacts, ReclaimRowsFacts, CrashFacts DEF Rewrites
  <2>4. OneBid' /\ \A d \in Dates : Partly(Statuses(d)') => run'[d].amount # 0
    BY <1>a, <2>2, <2>3 DEF OneBid, Partly, Statuses
  <2>5. ASSUME NEW t \in Senders
        PROVE  LET p == snd'[t] IN
               /\ p.pc \in Carrying => p.amount # 0
               /\ p.pc = "open" => ((\E g \in Gcs : row'[p.date][g].status = "sent")
                                    => p.amount = run'[p.date].amount)
               /\ p.pc \in Carrying \ {"open"} => p.amount = run'[p.date].amount
               /\ p.pc \in Listed => \A g \in p.ready : row'[p.date][g].amount = p.amount
    <3>1. CASE snd'[t].pc \notin Carrying
      BY <3>1 DEF Carrying, Listed
    <3>2. CASE snd'[t].pc \in Carrying
      <4> DEFINE p == snd[t]  d == p.date
      <4>1. snd'[t] = p /\ SameRows(d) /\ SameBid(d)
        BY <1>1, <3>2, Bystanders DEF Carrying, Listed, InPass
      <4>2. /\ p.pc \in Carrying => p.amount # 0
            /\ p.pc = "open" => ((\E g \in Gcs : row[d][g].status = "sent")
                                 => p.amount = run[d].amount)
            /\ p.pc \in Carrying \ {"open"} => p.amount = run[d].amount
            /\ p.pc \in Listed => \A g \in p.ready : row[d][g].amount = p.amount
        BY DEF Bid, Partly, Statuses
      <4>3. p.ready \subseteq Gcs /\ \A g \in Gcs : row'[d][g] = row[d][g]
        BY <4>1, PassTyped DEF Passes, SameRows
      <4>4. run'[d].amount = run[d].amount
        BY <4>1 DEF SameBid
      <4> HIDE DEF d, p
      <4>5. p.date = d  BY DEF d
      <4>6. QED  BY <4>1, <4>2, <4>3, <4>4, <4>5
    <3>3. QED  BY <3>1, <3>2
  <2>6. QED  BY <2>4, <2>5 DEF Bid, Partly, Statuses
<1>2. ASSUME NEW s \in Senders, Work(s) PROVE Bid'
  <2> DEFINE p == snd[s]  q == snd'[s]  d == p.date
             \* What the step must leave of run d, of its rows and of the pass.
             kept == /\ \A g \in Gcs : row'[d][g].status = "sent"
                                       => /\ row'[d][g].amount = run'[d].amount
                                          /\ run'[d].amount # 0
                     /\ q.pc \in Carrying => q.amount # 0
                     /\ q.pc = "open" => ((\E g \in Gcs : row'[d][g].status = "sent")
                                          => q.amount = run'[d].amount)
                     /\ q.pc \in Carrying \ {"open"} => q.amount = run'[d].amount
                     /\ q.pc \in Listed => \A g \in q.ready : row'[d][g].amount = q.amount
  <2>1. Inside(s) /\ d \in Dates /\ p \in Passes /\ PassOK(p)
    BY <1>2, WorkInside, PassTyped
  <2>2. /\ \A g \in Gcs : row[d][g].status = "sent"
                          => row[d][g].amount = run[d].amount /\ run[d].amount # 0
        /\ p.pc \in Carrying => p.amount # 0
        /\ p.pc = "open" => ((\E g \in Gcs : row[d][g].status = "sent")
                             => p.amount = run[d].amount)
        /\ p.pc \in Carrying \ {"open"} => p.amount = run[d].amount
        /\ p.pc \in Listed => \A g \in p.ready : row[d][g].amount = p.amount
        /\ p.ready \subseteq Gcs /\ p.todo \subseteq Gcs
    BY <1>a, <2>1 DEF Bid, Partly, Statuses, Passes
  <2>3. SUFFICES kept
    <3>1. \A t \in Senders : snd'[t].pc \in InPass => t = s /\ snd'[t].date = d
      BY <1>2, <2>1, OneAtWork DEF Inside, InPass
    <3>2. \A e \in Dates : e # d => row'[e] = row[e] /\ run'[e] = run[e]
      BY <2>1 DEF Inside
    <3>3. \A e \in Dates, g \in Gcs : row'[e][g].status = "sent"
             => row'[e][g].amount = run'[e].amount /\ run'[e].amount # 0
      <4>1. ASSUME NEW e \in Dates, e # d
            PROVE  \A g \in Gcs : row'[e][g].status = "sent"
                      => row'[e][g].amount = run'[e].amount /\ run'[e].amount # 0
        BY <1>a, <3>2, <4>1
      <4>2. QED  BY <2>3, <4>1
    <3>4. ASSUME NEW t \in Senders
          PROVE  LET x == snd'[t] IN
                 /\ x.pc \in Carrying => x.amount # 0
                 /\ x.pc = "open" => ((\E g \in Gcs : row'[x.date][g].status = "sent")
                                      => x.amount = run'[x.date].amount)
                 /\ x.pc \in Carrying \ {"open"} => x.amount = run'[x.date].amount
                 /\ x.pc \in Listed => \A g \in x.ready : row'[x.date][g].amount = x.amount
      <4>1. CASE snd'[t].pc \in InPass
        <5>1. snd'[t] = q /\ q.date = d
          BY <3>1, <4>1
        <5> HIDE DEF q, d
        <5>2. QED  BY <2>3, <5>1
      <4>2. CASE snd'[t].pc \notin InPass
        BY <4>2 DEF Carrying, Listed, InPass
      <4>3. QED  BY <4>1, <4>2
    <3>5. QED  BY <3>3, <3>4 DEF Bid, OneBid, Partly, Statuses
  <2>4. CASE Evaluate(s)
    <3>1. /\ row' = row /\ run' = run
          /\ \/ q.pc = "close"
             \/ q.pc = "open" /\ q.amount = Numbers(d, Statuses(d))
      BY <2>4, EvaluateFacts
    <3>2. /\ Numbers(d, Statuses(d)) # 0
          /\ (\E g \in Gcs : row[d][g].status = "sent")
             => Numbers(d, Statuses(d)) = run[d].amount
      BY <2>2 DEF Numbers, Partly, Statuses, Typed
    <3> HIDE DEF p, q, d
    <3>3. QED  BY <2>2, <3>1, <3>2 DEF Carrying, Listed
  <2>5. CASE Open(s)
    <3>1. /\ p.pc = "open" /\ row' = row /\ q.pc = "insert" /\ q.amount = p.amount
          /\ run'[d].amount = p.amount
      BY <2>5, OpenFacts DEF Keeps
    <3> HIDE DEF p, q, d
    <3>2. QED  BY <2>2, <3>1 DEF Carrying, Listed
  <2>6. CASE Insert(s)
    <3>1. /\ p.pc = "insert" /\ q.amount = p.amount /\ run'[d].amount = run[d].amount
          /\ p.ready = {}
      BY <2>1, <2>6, InsertFacts DEF Keeps, SameBid, PassOK, Early
    <3>2. CASE q.pc = "rescue"
      <4>1. \A g \in Gcs : row'[d][g] = row[d][g]
        BY <2>6, <3>2, InsertFacts DEF SameRows
      <4> HIDE DEF p, q, d
      <4>2. QED  BY <2>2, <3>1, <3>2, <4>1 DEF Carrying, Listed
    <3>3. CASE q.pc # "rescue"
      <4>1. /\ q.ready = {} /\ q.pc \in {"send", "prep"}
            /\ \A g \in Gcs : /\ row'[d][g].amount = row[d][g].amount
                              /\ row'[d][g].status = IF p.view[g] = "absent"
                                                     THEN NewView(p)[g]
                                                     ELSE row[d][g].status
        BY <2>6, <3>1, <3>3, InsertFacts
      <4>2. \A g \in Gcs : p.view[g] = "absent" => NewView(p)[g] # "sent"
        BY DEF NewView
      <4> HIDE DEF p, q, d
      <4>3. QED  BY <2>2, <3>1, <4>1, <4>2 DEF Carrying, Listed
    <3>4. QED  BY <3>2, <3>3
  <2>7. CASE Beat(s)
    <3>1. row' = row /\ run'[d].amount = run[d].amount
      BY <2>7, BeatFacts DEF SameBid
    <3>2. \/ q.pc = "idle"
          \/ q.amount = p.amount /\ q.ready = p.ready /\ p.pc \in {"prep", "send"}
             /\ q.pc # "open"
      BY <2>7, BeatFacts, IdleOK DEF Keeps
    <3> HIDE DEF p, q, d
    <3>3. QED  BY <2>2, <3>1, <3>2 DEF Carrying, Listed
  <2>8. CASE Prepare(s)
    <3>1. /\ p.pc = "prepare" /\ p.gc \in Gcs /\ run'[d].amount = run[d].amount
          /\ q.amount = p.amount /\ q.pc \in {"send", "prep"}
          /\ row'[d][p.gc].amount = p.amount
          /\ q.ready \subseteq p.ready \cup {p.gc}
          /\ row'[d][p.gc].status \in {row[d][p.gc].status, "failed"}
      BY <2>2, <2>8, PrepareFacts DEF Keeps, SameBid
    <3>2. \A g \in Gcs : g # p.gc => row'[d][g] = row[d][g]
      BY <2>8, PrepareFacts
    <3> HIDE DEF p, q, d
    <3>3. QED  BY <2>2, <3>1, <3>2 DEF Carrying, Listed
  <2>9. CASE StopCheck(s) \/ Convert(s) \/ Mail(s)
    <3>1. /\ row' = row /\ run' = run /\ q.amount = p.amount /\ q.ready = p.ready
          /\ p.pc \in {"check", "convert", "mail"} /\ q.pc \in {"record", "claim", "mail"}
      BY <2>9, StopCheckFacts, ConvertFacts, MailFacts DEF Holding, Keeps
    <3> HIDE DEF p, q, d
    <3>2. QED  BY <2>2, <3>1 DEF Carrying, Listed
  <2>10. CASE ClaimGc(s)
    <3>1. /\ p.pc = "claim" /\ run'[d].amount = run[d].amount /\ p.gc \in Gcs
          /\ q.amount = p.amount /\ q.ready \subseteq p.ready /\ q.pc \in {"convert", "send"}
      BY <2>10, ClaimGcFacts DEF Holding, Keeps, SameBid
    <3>2. /\ \A g \in Gcs : g # p.gc => row'[d][g] = row[d][g]
          /\ row'[d][p.gc].amount = row[d][p.gc].amount
          /\ row'[d][p.gc].status \in {row[d][p.gc].status, "sending"}
      BY <2>10, ClaimGcFacts
    <3> HIDE DEF p, q, d
    <3>3. QED  BY <2>2, <3>1, <3>2 DEF Carrying, Listed
  <2>11. CASE Record(s)
    <3>1. /\ p.pc = "record" /\ run'[d].amount = run[d].amount /\ p.gc \in p.ready
          /\ q.amount = p.amount /\ q.ready \subseteq p.ready /\ q.pc = "send"
          /\ p.gc \in Gcs
      BY <2>11, RecordFacts DEF Keeps, SameBid
    <3>2. /\ \A g \in Gcs : g # p.gc => row'[d][g] = row[d][g]
          /\ row'[d][p.gc].amount = row[d][p.gc].amount
      BY <2>11, RecordFacts
    <3> HIDE DEF p, q, d
    <3>3. QED  BY <2>2, <3>1, <3>2 DEF Carrying, Listed
  <2>12. CASE Raise(s)
    <3>1. row' = row /\ run' = run /\ q.pc \in {"idle", "rescue"}
      BY <2>12, RaiseFacts, IdleOK
    <3> HIDE DEF p, q, d
    <3>2. QED  BY <2>2, <3>1 DEF Carrying, Listed
  <2>13. CASE Rescue(s)
    <3>1. /\ q.pc = "rescued" /\ run'[d].amount = run[d].amount
          /\ \A g \in Gcs : /\ row'[d][g].amount = row[d][g].amount
                            /\ row'[d][g].status = IF row[d][g].status = "sending"
                                                   THEN "unknown" ELSE row[d][g].status
      BY <2>13, RescueFacts DEF SameBid
    <3> HIDE DEF p, q, d
    <3>2. QED  BY <2>2, <3>1 DEF Carrying, Listed
  <2>14. QED
    BY <1>2, <2>4, <2>5, <2>6, <2>7, <2>8, <2>9, <2>10, <2>11, <2>12, <2>13 DEF Work
<1>3. QED  BY <1>1, <1>2

\* A pass's steps leave Send Out, and the count of late emails but for an email.
LEMMA WorkHuman ==
    ASSUME NEW s \in Senders, Work(s)
    PROVE  human' = human /\ (Mail(s) \/ afterHuman' = afterHuman)
BY DEF Work, Evaluate, Open, Insert, Beat, Prepare, StopCheck, ClaimGc, Convert, Mail,
       Record, Raise, Rescue, world, log

LEMMA HushedStep ==
    ASSUME Typed, Timely, Calm, Alone, Reclaiming, Hushed, Next
    PROVE  Hushed'
<1>a. /\ \A s \in Senders : snd[s].pc \in Carrying
            => \A d \in Dates : run[d].status \notin WentOut
      /\ \A d \in Dates : run[d].accepted => run[d].status \in WentOut
      /\ afterHuman \in Nat /\ afterHuman <= 1
      /\ human # "none" /\ afterHuman = 1 => \A s \in Senders : snd[s].pc # "mail"
      /\ human \in {"none", "sending", "sent", "unknown"}
  BY DEF Hushed, Typed, TypeOK
<1>b. \A s \in Senders : snd[s].date \in Dates
  BY PassTyped
<1>1. ASSUME \A s \in Senders : ~ Work(s) PROVE Hushed'
  <2>1. \A t \in Senders : snd'[t].pc \in Carrying => snd'[t] = snd[t]
    BY <1>1, Bystanders DEF Carrying, Listed, InPass
  <2>2. ASSUME NEW d \in Dates, run'[d].status # run[d].status, run'[d].status \in WentOut
        PROVE  run[d].status = "sending" /\ \A t \in Senders : snd'[t].pc \notin Carrying
    <3>1. \E s \in Senders : Finish(s) \/ ReclaimRun(s)
      BY <1>1, <2>2, StepCases, TickFacts, MoveDateFacts, AsideFacts, AcceptFacts,
         SendNowFacts, DueFacts, CheckFacts, ClaimRunFacts, MissedFacts, StallFacts,
         ReclaimReadFacts, ReclaimRowsFacts, CrashFacts DEF SameRun, Rewrites, WentOut
    <3>2. ASSUME NEW s \in Senders, Finish(s)
          PROVE  run[d].status = "sending" /\ \A t \in Senders : snd'[t].pc \notin Carrying
      <4>1. d = snd[s].date /\ snd[s].pc \in InPass /\ snd'[s] = Idle
        BY <2>2, <3>2, FinishFacts DEF Rewrites
      <4>2. \A t \in Senders : t # s => snd[t].pc \notin Carrying
        BY <4>1 DEF Alone, Carrying, Listed, InPass
      <4>3. snd'[s].pc \notin Carrying
        BY <4>1, IdleOK DEF Carrying, Listed
      <4>4. run[d].status = "sending"
        BY <4>1 DEF Alone
      <4>5. QED  BY <2>1, <4>2, <4>3, <4>4
    <3>3. ASSUME NEW s \in Senders, ReclaimRun(s)
          PROVE  run[d].status = "sending" /\ \A t \in Senders : snd'[t].pc \notin Carrying
      <4>1. d = snd[s].date /\ run[d].status = "sending" /\ run[d].quiet
        BY <2>2, <3>3, ReclaimRunFacts DEF Rewrites
      <4>2. \A t \in Senders : snd[t].pc \notin InPass
        BY <1>b, <4>1 DEF Alone
      <4>3. QED  BY <2>1, <4>1, <4>2 DEF Carrying, Listed, InPass
    <3>4. QED  BY <3>1, <3>2, <3>3
  <2>3. \A s \in Senders : snd'[s].pc \in Carrying
           => \A d \in Dates : run'[d].status \notin WentOut
    BY <1>a, <2>1, <2>2
  <2>4. \A d \in Dates : run'[d].accepted => run'[d].status \in WentOut
    <3>1. ASSUME NEW d \in Dates, Accept(d)
          PROVE  \A e \in Dates : run'[e].accepted => run'[e].status \in WentOut
      BY <1>a, <3>1, AcceptFacts
    <3>2. ASSUME NEW s \in Senders, ClaimRun(s)
          PROVE  \A e \in Dates : run'[e].accepted => run'[e].status \in WentOut
      <4>1. CASE run' = run
        BY <1>a, <4>1
      <4>2. CASE run' # run
        <5>1. Claimable(snd[s]) /\ Rewrites(snd[s].date)
          BY <3>2, <4>2, ClaimRunFacts
        <5>2. ~ run[snd[s].date].accepted
          BY <1>a, <1>b, <5>1 DEF Claimable, WentOut
        <5>3. QED  BY <1>a, <1>b, <5>1, <5>2 DEF Rewrites
      <4>3. QED  BY <4>1, <4>2
    <3>3. ASSUME NEW s \in Senders, NEW d \in Dates, Missed(s, d)
          PROVE  \A e \in Dates : run'[e].accepted => run'[e].status \in WentOut
      BY <1>a, <3>3, MissedFacts DEF Rewrites, WentOut
    <3>4. ASSUME NEW s \in Senders, Finish(s)
          PROVE  \A e \in Dates : run'[e].accepted => run'[e].status \in WentOut
      <4>1. Rewrites(snd[s].date) /\ snd[s].pc \in InPass
        BY <3>4, FinishFacts
      <4>2. ~ run[snd[s].date].accepted
        BY <1>a, <1>b, <4>1 DEF Alone, WentOut
      <4>3. QED  BY <1>a, <1>b, <4>1, <4>2 DEF Rewrites
    <3>5. ASSUME NEW s \in Senders, ReclaimRun(s)
          PROVE  \A e \in Dates : run'[e].accepted => run'[e].status \in WentOut
      <4>1. CASE run' = run
        BY <1>a, <4>1
      <4>2. CASE run' # run
        <5>1. Rewrites(snd[s].date) /\ run[snd[s].date].status = "sending"
          BY <3>5, <4>2, ReclaimRunFacts
        <5>2. ~ run[snd[s].date].accepted
          BY <1>a, <1>b, <5>1 DEF WentOut
        <5>3. QED  BY <1>a, <1>b, <5>1, <5>2 DEF Rewrites
      <4>3. QED  BY <4>1, <4>2
    <3>6. CASE /\ \A d \in Dates : ~ Accept(d)
               /\ \A s \in Senders : ~ ClaimRun(s) /\ ~ Finish(s) /\ ~ ReclaimRun(s)
               /\ \A s \in Senders, d \in Dates : ~ Missed(s, d)
      <4>1. \A d \in Dates : /\ run'[d].status = run[d].status
                             /\ run'[d].accepted = run[d].accepted
        BY <1>1, <3>6, StepCases, TickFacts, MoveDateFacts, AsideFacts, SendNowFacts,
           DueFacts, CheckFacts, StallFacts, ReclaimReadFacts, ReclaimRowsFacts, CrashFacts
        DEF SameRun
      <4>2. QED  BY <1>a, <4>1
    <3>7. QED  BY <3>1, <3>2, <3>3, <3>4, <3>5, <3>6
  <2>5. afterHuman' <= 1 /\ (afterHuman' = afterHuman \/ afterHuman' = 0)
    <3>1. CASE Aside
      BY <1>a, <3>1 DEF Aside, Reprice, Switch, HumanSend, HumanDone, log
    <3>2. CASE ~ Aside
      BY <1>1, <1>a, <3>2, StepCases, TickFacts, MoveDateFacts, AcceptFacts, SendNowFacts,
         DueFacts, CheckFacts, ClaimRunFacts, MissedFacts, FinishFacts, StallFacts,
         ReclaimReadFacts, ReclaimRunFacts, ReclaimRowsFacts, CrashFacts
    <3>3. QED  BY <3>1, <3>2
  <2>6. ASSUME human' # "none", afterHuman' = 1, NEW t \in Senders, snd'[t].pc = "mail"
        PROVE  FALSE
    <3>1. snd[t].pc = "mail" /\ snd[t].pc \in Carrying
      BY <2>1, <2>6 DEF Carrying, Listed
    <3>2. \A d \in Dates : ~ Accept(d)
      BY <1>a, <3>1, AcceptFacts
    <3>3. human # "none"
      <4>1. CASE Aside
        BY <2>5, <2>6, <4>1 DEF Aside, Reprice, Switch, HumanSend, HumanDone
      <4>2. CASE ~ Aside
        BY <1>1, <2>6, <3>2, <4>2, StepCases, TickFacts, MoveDateFacts, SendNowFacts,
           DueFacts, CheckFacts, ClaimRunFacts, MissedFacts, FinishFacts, StallFacts,
           ReclaimReadFacts, ReclaimRunFacts, ReclaimRowsFacts, CrashFacts
      <4>3. QED  BY <4>1, <4>2
    <3>4. afterHuman = 1
      BY <2>5, <2>6
    <3>5. QED  BY <1>a, <3>1, <3>3, <3>4
  <2>7. QED  BY <2>3, <2>4, <2>5, <2>6 DEF Hushed
<1>2. ASSUME NEW s \in Senders, Work(s) PROVE Hushed'
  <2> DEFINE p == snd[s]  q == snd'[s]
  <2>1. /\ \A d \in Dates : /\ run'[d].status = run[d].status
                            /\ run'[d].accepted = run[d].accepted
        /\ \A t \in Senders : t # s => snd'[t].pc \notin InPass
    BY <1>2, WorkInside, OneAtWork DEF Inside, SameRun
  <2>2. ASSUME q.pc \in Carrying PROVE \A d \in Dates : run[d].status \notin WentOut
    <3>1. CASE Evaluate(s)
      BY <2>2, <3>1, EvaluateFacts DEF Silent, AlreadySent, Carrying, Listed
    <3>2. CASE ~ Evaluate(s)
      <4>1. p.pc \in Carrying
        <5>1. CASE Open(s) \/ Insert(s) \/ Beat(s) \/ Prepare(s)
          BY <5>1, OpenFacts, InsertFacts, BeatFacts, PrepareFacts, <2>2, IdleOK
          DEF Carrying, Listed
        <5>2. CASE StopCheck(s) \/ ClaimGc(s) \/ Convert(s) \/ Mail(s) \/ Record(s)
          BY <5>2, StopCheckFacts, ClaimGcFacts, ConvertFacts, MailFacts, RecordFacts
          DEF Carrying, Listed
        <5>3. CASE Raise(s) \/ Rescue(s)
          BY <2>2, <5>3, RaiseFacts, RescueFacts, IdleOK DEF Carrying, Listed
        <5>4. QED  BY <1>2, <3>2, <5>1, <5>2, <5>3 DEF Work
      <4>2. QED  BY <1>a, <4>1
    <3>3. QED  BY <3>1, <3>2
  <2>3. /\ afterHuman' <= 1
        /\ human' # "none" /\ afterHuman' = 1 => q.pc # "mail"
    <3>1. CASE Mail(s)
      <4>1. /\ p.pc = "mail" /\ q.pc = "record"
            /\ \/ human # "none" /\ afterHuman' = afterHuman + 1
               \/ afterHuman' = afterHuman
        BY <3>1, MailFacts
      <4>2. human # "none" => afterHuman = 0
        BY <1>a, <4>1
      <4>3. QED  BY <1>a, <4>1, <4>2
    <3>2. CASE ~ Mail(s)
      <4>1. human' = human /\ afterHuman' = afterHuman
        BY <1>2, <3>2, WorkHuman
      <4>2. CASE Convert(s)
        <5>1. q.pc = "mail" => human = "none"
          BY <1>a, <4>2, ConvertFacts DEF StopReason
        <5>2. QED  BY <1>a, <4>1, <5>1
      <4>3. CASE ~ Convert(s)
        <5>1. q.pc # "mail"
          BY ZenonT(60), <1>2, <3>2, <4>3, EvaluateFacts, OpenFacts, InsertFacts, BeatFacts,
             PrepareFacts, StopCheckFacts, ClaimGcFacts, RecordFacts, RaiseFacts,
             RescueFacts, IdleOK DEF Work
        <5>2. QED  BY <1>a, <4>1, <5>1
      <4>4. QED  BY <4>2, <4>3
    <3>3. QED  BY <3>1, <3>2
  <2>4. \A t \in Senders : snd'[t].pc \in Carrying => t = s
    BY <2>1 DEF Carrying, Listed, InPass
  <2>5. \A t \in Senders : snd'[t].pc = "mail" => t = s
    BY <2>4 DEF Carrying, Listed
  <2>6. \A d \in Dates : run'[d].accepted => run'[d].status \in WentOut
    BY <1>a, <2>1
  <2>7. QED  BY <2>1, <2>2, <2>3, <2>4, <2>5, <2>6 DEF Hushed
<1>3. QED  BY <1>1, <1>2

-----------------------------------------------------------------------------
(* What the confirmations pay for.                                         *)

\* An account is a number.
LEMMA KnownTyped == Typed => Known \in [Gcs -> Int]
BY Tables DEF Typed, Known

\* The confirmed passes are counted.
LEMMA Counted ==
    ASSUME NEW sn, NEW g
    PROVE  IsFiniteSet(Confirmed(sn, g)) /\ Cardinality(Confirmed(sn, g)) \in Nat
<1>1. Confirmed(sn, g) \subseteq Senders /\ IsFiniteSet(Senders)
  BY AutoSendAssumption DEF Confirmed
<1>2. QED  BY <1>1, FS_Subset, FS_CardinalityType

\* A step that emails nobody and confirms nothing keeps the account of a GC
\* that it does not free.
LEMMA FitsKept ==
    ASSUME NEW rw, NEW sn, NEW rx, NEW sx, NEW m, NEW n, NEW c \in Nat, NEW g, m[g] \in Int,
           n[g] = m[g],
           Fits(rw, sn, m, c, g), Confirmed(sx, g) \subseteq Confirmed(sn, g),
           Free(rx, sx, g) => Free(rw, sn, g)
    PROVE  Fits(rx, sx, n, c, g)
<1> DEFINE k == Cardinality(Confirmed(sn, g))  l == Cardinality(Confirmed(sx, g))
<1>1. k \in Nat /\ l \in Nat /\ l <= k
  BY Counted, FS_Subset
<1>2. \A i \in Int : i + k <= 1 + c => i + l <= 1 + c
  <2> HIDE DEF k, l
  <2>1. QED  BY <1>1
<1>3. \A i \in Int : i + k <= c => i + l <= c
  <2> HIDE DEF k, l
  <2>1. QED  BY <1>1
<1>4. QED  BY <1>2, <1>3 DEF Fits

\* A pass that takes a GC it was confirmed for spends its confirmation.
LEMMA FitsSpent ==
    ASSUME NEW rw, NEW sn, NEW rx, NEW sx, NEW m, NEW c \in Nat, NEW g, m[g] \in Int,
           Fits(rw, sn, m, c, g), Confirmed(sx, g) \subseteq Confirmed(sn, g),
           NEW s \in Confirmed(sn, g), s \notin Confirmed(sx, g)
    PROVE  Fits(rx, sx, m, c, g)
<1> DEFINE k == Cardinality(Confirmed(sn, g))  l == Cardinality(Confirmed(sx, g))
<1>1. k \in Nat /\ l \in Nat /\ l < k
  BY Counted, FS_Subset
<1>2. \A i \in Int : i + k <= 1 + c => i + l <= c /\ i + l <= 1 + c
  <2> HIDE DEF k, l
  <2>1. QED  BY <1>1
<1>3. QED  BY <1>2 DEF Fits

\* A confirmation pays for the pass it starts.
LEMMA FitsConfirmed ==
    ASSUME NEW rw, NEW sn, NEW rx, NEW sx, NEW m, NEW c \in Nat, NEW g, m[g] \in Int,
           NEW s, Fits(rw, sn, m, c, g), Confirmed(sx, g) \subseteq Confirmed(sn, g) \cup {s},
           Free(rx, sx, g) => Free(rw, sn, g)
    PROVE  Fits(rx, sx, m, c + 1, g)
<1> DEFINE k == Cardinality(Confirmed(sn, g))  l == Cardinality(Confirmed(sx, g))
           j == Cardinality(Confirmed(sn, g) \cup {s})
<1>1. k \in Nat /\ l \in Nat /\ IsFiniteSet(Confirmed(sn, g))
  BY Counted
<1>2. IsFiniteSet(Confirmed(sn, g) \cup {s}) /\ (j = k \/ j = k + 1)
  BY <1>1, FS_AddElement
<1>3. l <= j
  BY <1>2, FS_Subset
<1>4. l <= k + 1
  <2> HIDE DEF j, k, l
  <2>1. QED  BY <1>1, <1>2, <1>3
<1>5. \A i \in Int : /\ i + k <= 1 + c => i + l <= 1 + (c + 1)
                     /\ i + k <= c => i + l <= c + 1
  <2> HIDE DEF k, l
  <2>1. QED  BY <1>1, <1>4
<1>6. QED  BY <1>5 DEF Fits

\* An email to a free GC, that frees it no more.
LEMMA FitsMailed ==
    ASSUME NEW rw, NEW sn, NEW rx, NEW sx, NEW m, NEW c \in Nat, NEW g, m[g] \in Int,
           NEW n, n[g] = m[g] + 1,
           Fits(rw, sn, m, c, g), Confirmed(sx, g) \subseteq Confirmed(sn, g),
           Free(rw, sn, g), ~ Free(rx, sx, g)
    PROVE  Fits(rx, sx, n, c, g)
<1> DEFINE k == Cardinality(Confirmed(sn, g))  l == Cardinality(Confirmed(sx, g))
<1>1. k \in Nat /\ l \in Nat /\ l <= k
  BY Counted, FS_Subset
<1>2. \A i \in Int : i + k <= c => (i + 1) + l <= 1 + c
  <2> HIDE DEF k, l
  <2>1. QED  BY <1>1
<1>3. QED  BY <1>2 DEF Fits

\* For a GC with a row in the run of a pass, that row decides.
LEMMA FreeAt ==
    ASSUME Typed, Rooted, NEW s \in Senders, snd[s].pc \in InPass, NEW g \in Gcs,
           row[snd[s].date][g].status # "absent"
    PROVE  Free(row, snd, g) <=> \/ row[snd[s].date][g].status \in GcRetry
                                 \/ Hand(snd, snd[s].date, g)
<1> DEFINE d == snd[s].date
<1>1. d \in Dates /\ Latest(row, d, g)
  BY PassTyped DEF Rooted, Latest
<1>2. \A e \in Dates : Latest(row, e, g) => e = d \/ row[e][g].status = "absent"
  <2>1. \A i, j \in Nat : i = j \/ i > j \/ j > i
    OBVIOUS
  <2>2. \A e \in Dates : e = d \/ e > d \/ d > e
    BY <1>1, <2>1, Bounds
  <2>3. QED  BY <1>1, <2>2 DEF Latest
<1>3. QED  BY <1>1, <1>2 DEF Free

\* What a pass may still send, and what it was confirmed for, change by its own
\* steps only.
LEMMA UnderWork ==
    ASSUME Typed, Alone, Rooted, NEW s \in Senders, Work(s), NEW g \in Gcs
    PROVE  LET p == snd[s]  q == snd'[s]  d == p.date IN
           /\ row'[d][g].status # "absent" /\ Free(row', snd', g)
              => row'[d][g].status \in GcRetry \/ Spending(q, g)
           /\ row[d][g].status # "absent"
              => (Free(row, snd, g) <=> row[d][g].status \in GcRetry \/ Spending(p, g))
           /\ (Holds(q, g) => Holds(p, g)) => Confirmed(snd', g) \subseteq Confirmed(snd, g)
           /\ s \in Confirmed(snd, g) <=> Holds(p, g)
           /\ s \in Confirmed(snd', g) <=> Holds(q, g)
           /\ /\ row'[d][g].status = "absent" <=> row[d][g].status = "absent"
              /\ row'[d][g].status \in GcRetry => row[d][g].status \in GcRetry
              /\ Spending(q, g) => Spending(p, g)
              => (Free(row', snd', g) => Free(row, snd, g))
<1> DEFINE p == snd[s]  q == snd'[s]  d == p.date
<1>1. /\ p.pc \in InPass /\ d \in Dates /\ Inside(s)
      /\ \A t \in Senders : t # s => snd[t].pc \notin InPass /\ snd'[t] = snd[t]
  BY OneAtWork, PassTyped, WorkInside
<1>2. \A e \in Dates : e # d => row'[e] = row[e]
  BY <1>1 DEF Inside
<1>3. \A e : Hand(snd, e, g) <=> e = d /\ Spending(p, g)
  BY <1>1 DEF Hand, Spending, InPass
<1>4. \A e : Hand(snd', e, g) <=> e = d /\ Spending(q, g)
  <2>1. Spending(q, g) => q.date = d
    BY <1>1 DEF Inside, Spending
  <2>2. \A t \in Senders : t # s => ~ Spending(snd'[t], g)
    BY <1>1 DEF Spending, InPass
  <2>3. QED  BY <2>1, <2>2 DEF Hand
<1>5. Latest(row, d, g) /\ Latest(row', d, g)
  <2>1. Latest(row, d, g)
    BY <1>1 DEF Rooted, Latest
  <2>2. \A e \in Dates : e > d => e # d
    <3>1. \A i, j \in Nat : i > j => i # j
      OBVIOUS
    <3>2. QED  BY <1>1, <3>1, Bounds
  <2>3. QED  BY <1>2, <2>1, <2>2 DEF Latest
<1>6. row'[d][g].status # "absent" /\ Free(row', snd', g)
      => row'[d][g].status \in GcRetry \/ Spending(q, g)
  BY <1>1, <1>4, <1>5 DEF Free
<1>7. row[d][g].status # "absent"
      => (Free(row, snd, g) <=> row[d][g].status \in GcRetry \/ Spending(p, g))
  BY <1>1, <1>3, FreeAt
<1>8. (Holds(q, g) => Holds(p, g)) => Confirmed(snd', g) \subseteq Confirmed(snd, g)
  BY <1>1 DEF Confirmed
<1>9. ASSUME row'[d][g].status = "absent" <=> row[d][g].status = "absent",
             row'[d][g].status \in GcRetry => row[d][g].status \in GcRetry,
             Spending(q, g) => Spending(p, g), Free(row', snd', g)
      PROVE  Free(row, snd, g)
  <2>1. \A e \in Dates : row'[e][g].status = "absent" <=> row[e][g].status = "absent"
    BY <1>2, <1>9
  <2>2. \A e \in Dates : Latest(row, e, g) => Latest(row', e, g)
    BY <2>1 DEF Latest
  <2>3. ASSUME NEW e \in Dates, Latest(row, e, g)
        PROVE  row[e][g].status \in GcRetry \cup {"absent"} \/ Hand(snd, e, g)
    <3>1. row'[e][g].status \in GcRetry \cup {"absent"} \/ Hand(snd', e, g)
      BY <1>9, <2>2, <2>3 DEF Free
    <3>2. CASE e = d
      BY <1>3, <1>4, <1>9, <3>1, <3>2
    <3>3. CASE e # d
      BY <1>2, <1>4, <3>1, <3>3
    <3>4. QED  BY <3>2, <3>3
  <2>4. QED  BY <2>3 DEF Free
<1>10. /\ s \in Confirmed(snd, g) <=> Holds(p, g)
       /\ s \in Confirmed(snd', g) <=> Holds(q, g)
  BY DEF Confirmed
<1>11. QED  BY <1>6, <1>7, <1>8, <1>9, <1>10

\* A step of a pass that takes no GC, frees none and emails none keeps the
\* account.
LEMMA WorkKept ==
    ASSUME Typed, Alone, Rooted, NEW s \in Senders, Work(s), NEW g \in Gcs,
           Within(row, snd, Known, confirmed), Known'[g] = Known[g], confirmed' = confirmed,
           row'[snd[s].date][g].status = "absent" <=> row[snd[s].date][g].status = "absent",
           row'[snd[s].date][g].status \in GcRetry => row[snd[s].date][g].status \in GcRetry,
           Spending(snd'[s], g) => Spending(snd[s], g),
           Holds(snd'[s], g) => Holds(snd[s], g)
    PROVE  Fits(row', snd', Known', confirmed', g)
<1>1. Fits(row, snd, Known, confirmed, g) /\ confirmed \in Nat /\ Known[g] \in Int
  BY Tables, KnownTyped DEF Within, Typed
<1>2. /\ Confirmed(snd', g) \subseteq Confirmed(snd, g)
      /\ Free(row', snd', g) => Free(row, snd, g)
  BY UnderWork
<1>3. QED  BY <1>1, <1>2, FitsKept

\* A pass takes a GC that was free, or that it was confirmed for.
LEMMA WorkTaken ==
    ASSUME Typed, Alone, Rooted, NEW s \in Senders, Work(s), NEW g \in Gcs,
           Within(row, snd, Known, confirmed), Known'[g] = Known[g], confirmed' = confirmed,
           row[snd[s].date][g].status \in ClaimableGcs(snd[s].force),
           snd[s].pc \in Listed \ Mailing, g \in snd[s].todo \cup snd[s].ready,
           ~ Holds(snd'[s], g)
    PROVE  Fits(row', snd', Known', confirmed', g)
<1> DEFINE p == snd[s]
<1>1. Fits(row, snd, Known, confirmed, g) /\ confirmed \in Nat /\ Known[g] \in Int
  BY Tables, KnownTyped DEF Within, Typed
<1>2. /\ Confirmed(snd', g) \subseteq Confirmed(snd, g)
      /\ s \notin Confirmed(snd', g)
      /\ s \in Confirmed(snd, g) <=> Holds(p, g)
  BY UnderWork
<1>3. CASE row[p.date][g].status \in GcRetry
  <2>1. row[p.date][g].status # "absent"
    BY <1>3 DEF GcRetry
  <2>2. Free(row, snd, g)
    BY <1>3, <2>1, UnderWork
  <2>3. QED  BY <1>1, <1>2, <2>2, FitsKept
<1>4. CASE row[p.date][g].status \notin GcRetry
  <2>1. p.force
    BY <1>4 DEF ClaimableGcs
  <2>2. Holds(p, g)
    BY <2>1 DEF Holds
  <2>3. Fits(row', snd', Known, confirmed, g)
    BY <1>1, <1>2, <2>2, FitsSpent
  <2>4. QED  BY <1>1, <2>3, FitsKept DEF Fits
<1>5. QED  BY <1>3, <1>4

\* A GC without a row gets a fresh one only if no earlier run can have emailed it.
LEMMA FreshIsFree ==
    ASSUME Typed, Alone, Rooted, Truth, Hushed, NEW s \in Senders, snd[s].pc = "insert",
           NEW g \in Gcs, row[snd[s].date][g].status = "absent", g \notin Carried(snd[s].date)
    PROVE  Free(row, snd, g)
<1> DEFINE d == snd[s].date
<1>1. snd[s].pc \in Carrying /\ snd[s].pc \in InPass /\ d \in Dates
  BY PassTyped DEF Carrying, InPass
<1>2. \A e \in Dates \ {d} : run[e].status \notin {"sending", "sent", "partial"}
  BY <1>1 DEF Hushed, WentOut, Alone
<1>3. \A e \in Dates : run[e].status \in RunStatuses
  BY Tables DEF Typed, RunRow
<1>4. ASSUME NEW e \in Dates \ {d} PROVE row[e][g].status # "sent"
  <2>1. CASE run[e].status = "none"
    BY <2>1 DEF Rooted
  <2>2. CASE run[e].status # "none"
    <3>1. run[e].status \in {"failed", "skipped", "missed"}
      BY <1>2, <1>3, <2>2 DEF RunStatuses
    <3>2. {h \in Gcs : Statuses(e)[h] = "sent"} = {}
      BY <3>1 DEF Truth, Tells
    <3>3. QED  BY <3>2 DEF Statuses
  <2>3. QED  BY <2>1, <2>2
<1>5. \A e \in Dates : row[e][g].status # "sent"
  BY <1>1, <1>4
<1>6. \A e \in Dates \ {d} : row[e][g].status \notin {"unknown", "sending"}
  BY <1>5 DEF Carried
<1>7. \A e \in Dates : row[e][g].status \in RowStatuses
  BY Tables DEF Typed, GcRow
<1>8. \A e \in Dates : row[e][g].status \in GcRetry \cup {"absent"}
  BY <1>1, <1>5, <1>6, <1>7 DEF RowStatuses, GcRetry
<1>9. QED  BY <1>8 DEF Free

\* The steps of a pass keep the account.
LEMMA WorkBudget ==
    ASSUME Typed, Alone, Tracks, Rooted, Truth, Hushed, NEW s \in Senders, Work(s),
           Within(row, snd, Known, confirmed)
    PROVE  Within(row', snd', Known', confirmed')
<1> SUFFICES ASSUME NEW g \in Gcs PROVE Fits(row', snd', Known', confirmed', g)
    BY DEF Within
<1> DEFINE p == snd[s]  q == snd'[s]  d == p.date
<1>1. /\ p \in Passes /\ PassOK(p) /\ d \in Dates /\ Known[g] \in Int /\ confirmed \in Nat
      /\ Fits(row, snd, Known, confirmed, g) /\ row \in [Dates -> [Gcs -> GcRow]]
      /\ p.todo \subseteq Gcs /\ p.ready \subseteq Gcs
  BY PassTyped, Tables, KnownTyped DEF Within, Typed, Passes
<1>2. KnowsRows(p, Statuses(d)) /\ \A h \in Gcs : Statuses(d)[h] = row[d][h].status
  BY DEF Tracks, Statuses
<1>3. CASE Evaluate(s)
  <2>1. /\ p.pc = "claimed" /\ q.pc \in {"close", "open"} /\ row' = row /\ q.force = p.force
        /\ Known' = Known /\ confirmed' = confirmed
    BY <1>3, EvaluateFacts DEF Known
  <2>2. ~ Spending(q, g) /\ (Holds(q, g) => Holds(p, g))
    BY <2>1 DEF Spending, Holds, Early, Listed
  <2>3. QED  BY <1>3, <2>1, <2>2, WorkKept DEF Work
<1>4. CASE Open(s)
  <2>1. /\ p.pc = "open" /\ q.pc = "insert" /\ row' = row /\ q.force = p.force
        /\ Known' = Known /\ confirmed' = confirmed
    BY <1>4, OpenFacts DEF Known, Keeps
  <2>2. ~ Spending(q, g) /\ (Holds(q, g) => Holds(p, g))
    BY <2>1 DEF Spending, Holds, Early, Listed
  <2>3. QED  BY <1>4, <2>1, <2>2, WorkKept DEF Work
<1>5. CASE Insert(s)
  <2>1. /\ p.pc = "insert" /\ q.pc \in {"send", "prep", "rescue"} /\ q.force = p.force
        /\ Known' = Known /\ confirmed' = confirmed
    BY <1>5, InsertFacts DEF Known, Keeps
  <2>2. ~ Spending(q, g) /\ (Holds(q, g) => Holds(p, g))
    BY <2>1 DEF Spending, Holds, Early, Listed
  <2>3. p.view[g] = row[d][g].status
    BY <1>2, <2>1 DEF KnowsRows, Untaken
  <2>4. CASE q.pc = "rescue"
    <3>1. row'[d][g] = row[d][g]
      BY <1>5, <2>4, InsertFacts DEF SameRows
    <3>2. QED  BY <1>5, <2>1, <2>2, <3>1, WorkKept DEF Work
  <2>5. CASE q.pc # "rescue"
    <3>1. row'[d][g].status = IF p.view[g] = "absent" THEN NewView(p)[g] ELSE row[d][g].status
      BY <1>5, <2>5, InsertFacts
    <3>2. CASE row[d][g].status # "absent"
      BY <1>5, <2>1, <2>2, <2>3, <3>1, <3>2, WorkKept DEF Work
    <3>3. CASE row[d][g].status = "absent" /\ g \in Carried(d)
      <4>1. row'[d][g].status = "unknown"
        BY <2>3, <3>1, <3>3 DEF NewView
      <4>2. ~ Free(row', snd', g)
        BY <1>5, <2>2, <4>1, UnderWork DEF Work, GcRetry
      <4>3. Confirmed(snd', g) \subseteq Confirmed(snd, g)
        BY <1>5, <2>2, UnderWork DEF Work
      <4>4. QED  BY <1>1, <2>1, <4>2, <4>3, FitsKept
    <3>4. CASE row[d][g].status = "absent" /\ g \notin Carried(d)
      <4>1. Free(row, snd, g)
        BY <2>1, <3>4, FreshIsFree
      <4>2. Confirmed(snd', g) \subseteq Confirmed(snd, g)
        BY <1>5, <2>2, UnderWork DEF Work
      <4>3. QED  BY <1>1, <2>1, <4>1, <4>2, FitsKept
    <3>5. QED  BY <3>2, <3>3, <3>4
  <2>6. QED  BY <2>4, <2>5
<1>6. CASE Beat(s)
  <2>1. row' = row /\ Known' = Known /\ confirmed' = confirmed
    BY <1>6, BeatFacts DEF Known
  <2>2. ~ Spending(q, g) /\ (Holds(q, g) => Holds(p, g))
    <3>1. CASE q = Idle
      BY <3>1, IdleOK DEF Spending, Holds
    <3>2. CASE q # Idle
      <4>1. /\ q.force = p.force /\ q.todo = p.todo /\ q.ready = p.ready
            /\ p.pc \in {"prep", "send"} /\ q.pc \in {"prepare", "check"}
        BY <1>6, <3>2, BeatFacts DEF Keeps
      <4>2. QED  BY <4>1 DEF Spending, Holds, Early, Listed, Mailing
    <3>3. QED  BY <3>1, <3>2
  <2>3. QED  BY <1>6, <2>1, <2>2, WorkKept DEF Work
<1>7. CASE Prepare(s)
  <2>1. /\ p.pc = "prepare" /\ p.gc \in p.todo /\ q.pc \in {"send", "prep"}
        /\ q.force = p.force /\ q.todo = p.todo \ {p.gc}
        /\ Known' = Known /\ confirmed' = confirmed
        /\ g # p.gc => row'[d][g] = row[d][g]
        /\ \/ q.ready = p.ready \cup {p.gc} /\ row'[d][p.gc].status = row[d][p.gc].status
           \/ q.ready = p.ready /\ row'[d][p.gc].status = "failed"
    BY <1>7, PrepareFacts DEF Known, Keeps
  <2>2. ~ Spending(q, g) /\ (Holds(q, g) => Holds(p, g))
    BY <2>1 DEF Spending, Holds, Early, Listed, Mailing
  <2>3. /\ p.todo \cap p.ready = {}
        /\ row[d][p.gc].status \in ClaimableGcs(p.force)
    BY <1>1, <1>2, <2>1 DEF KnowsRows, Untaken, Listed
  <2>4. CASE g # p.gc \/ row'[d][p.gc].status = row[d][p.gc].status
    <3>1. row'[d][g].status = row[d][g].status
      BY <2>1, <2>4
    <3>2. QED  BY <1>7, <2>1, <2>2, <3>1, WorkKept DEF Work
  <2>5. CASE g = p.gc /\ row'[d][p.gc].status # row[d][p.gc].status
    <3>1. ~ Holds(q, g)
      BY <2>1, <2>3, <2>5 DEF Holds, Early, Listed
    <3>2. p.pc \in Listed \ Mailing /\ g \in p.todo \cup p.ready
      BY <2>1, <2>5 DEF Listed, Mailing
    <3>3. Work(s)
      BY <1>7 DEF Work
    <3>4. QED  BY <2>1, <2>3, <2>5, <3>1, <3>2, <3>3, WorkTaken
  <2>6. QED  BY <2>4, <2>5
<1>8. CASE StopCheck(s)
  <2>1. /\ p.pc = "check" /\ row' = row /\ Holding(p, q)
        /\ Known' = Known /\ confirmed' = confirmed
        /\ q.pc \in {"record", "claim"}
    BY <1>8, StopCheckFacts DEF Known
  <2>2. /\ p.gc \in p.ready /\ row[d][p.gc].status \in ClaimableGcs(p.force)
        /\ p.todo = {}
    BY <1>1, <1>2, <2>1 DEF PassOK, InHand, Late, KnowsRows, Untaken, Listed
  <2>3. Holds(q, g) => Holds(p, g)
    BY <2>1 DEF Holds, Holding, Keeps, Early, Listed, Mailing
  <2>4. CASE g # p.gc \/ q.pc = "claim"
    <3>1. ~ Spending(q, g)
      BY <2>1, <2>4 DEF Spending, Holding
    <3>2. QED  BY <1>8, <2>1, <2>3, <3>1, WorkKept DEF Work
  <2>5. CASE g = p.gc /\ q.pc = "record"
    <3>1. ~ Holds(q, g)
      BY <2>1, <2>5 DEF Holds, Holding, Early, Mailing
    <3>2. p.pc \in Listed \ Mailing /\ g \in p.todo \cup p.ready
      BY <2>1, <2>2, <2>5 DEF Listed, Mailing
    <3>3. Work(s)
      BY <1>8 DEF Work
    <3>4. QED  BY <2>1, <2>2, <2>5, <3>1, <3>2, <3>3, WorkTaken
  <2>6. QED  BY <2>1, <2>4, <2>5
<1>9. CASE ClaimGc(s)
  <2>1. /\ p.pc = "claim" /\ p.gc \in p.ready /\ Known' = Known /\ confirmed' = confirmed
        /\ p.todo = {}
    BY <1>1, <1>9, ClaimGcFacts DEF Known, PassOK, Late
  <2>2. Work(s)  BY <1>9 DEF Work
  <2>3. CASE q.pc = "convert"
    <3>1. /\ row[d][p.gc].status \in ClaimableGcs(p.force) /\ Holding(p, q)
          /\ g # p.gc => row'[d][g] = row[d][g]
      BY <1>9, <2>3, ClaimGcFacts
    <3>2. CASE g # p.gc
      <4>1. row'[d][g] = row[d][g] /\ ~ Spending(q, g) /\ (Holds(q, g) => Holds(p, g))
        BY <2>1, <2>3, <3>1, <3>2
        DEF Holds, Holding, Keeps, Spending, Early, Listed, Mailing
      <4>2. QED  BY <2>1, <2>2, <4>1, WorkKept
    <3>3. CASE g = p.gc
      <4>1. ~ Holds(q, g)
        BY <2>3, <3>1, <3>3 DEF Holds, Holding, Early, Mailing
      <4>2. p.pc \in Listed \ Mailing /\ g \in p.todo \cup p.ready
        BY <2>1, <3>3 DEF Listed, Mailing
      <4>3. QED  BY <2>1, <2>2, <3>1, <3>3, <4>1, <4>2, WorkTaken
    <3>4. QED  BY <3>2, <3>3
  <2>4. CASE q.pc # "convert"
    <3>1. /\ row' = row /\ q.pc = "send" /\ q.force = p.force /\ q.todo = p.todo
          /\ q.ready = p.ready \ {p.gc}
      BY <1>9, <2>4, ClaimGcFacts DEF Keeps
    <3>2. ~ Spending(q, g) /\ (Holds(q, g) => Holds(p, g))
      BY <2>1, <3>1 DEF Spending, Holds, Early, Listed, Mailing
    <3>3. QED  BY <2>1, <2>2, <3>1, <3>2, WorkKept
  <2>5. QED  BY <2>3, <2>4
<1>10. CASE Convert(s)
  <2>1. /\ p.pc = "convert" /\ row' = row /\ Holding(p, q) /\ q.pc \in {"record", "mail"}
        /\ Known' = Known /\ confirmed' = confirmed
    BY <1>10, ConvertFacts DEF Known
  <2>2. /\ Spending(q, g) => Spending(p, g)
        /\ Holds(q, g) => Holds(p, g)
    BY <2>1 DEF Spending, Holds, Holding, Keeps, Early, Listed, Mailing
  <2>3. QED  BY <1>10, <2>1, <2>2, WorkKept DEF Work
<1>11. CASE Mail(s)
  <2>1. /\ p.pc = "mail" /\ p.gc \in Gcs /\ row' = row /\ Holding(p, q) /\ q.pc = "record"
        /\ confirmed' = confirmed
    BY <1>11, MailFacts
  <2>2. /\ Spending(q, g) => Spending(p, g)
        /\ Holds(q, g) => Holds(p, g)
    BY <2>1 DEF Spending, Holds, Holding, Keeps, Early, Listed, Mailing
  <2>3. Work(s)  BY <1>11 DEF Work
  <2>4. CASE Known'[g] = Known[g]
    BY <2>1, <2>2, <2>3, <2>4, WorkKept
  <2>5. CASE Known'[g] # Known[g]
    <3>1. /\ g = p.gc /\ q.outcome \in {"sent", "unknown"}
          /\ mailed' = [mailed EXCEPT ![p.gc] = @ + 1] /\ hidden' = hidden
      <4>1. /\ mailed \in [Gcs -> Nat] /\ hidden \in [Gcs -> Nat]
            /\ \A i, j \in Nat : (i + 1) - (j + 1) = i - j
        BY Tables DEF Typed
      <4>2. CASE mailed' = mailed /\ hidden' = hidden
        BY <2>5, <4>2 DEF Known
      <4>3. CASE /\ mailed' = [mailed EXCEPT ![p.gc] = @ + 1]
                 /\ hidden' = [hidden EXCEPT ![p.gc] = @ + 1]
        BY <2>1, <2>5, <4>1, <4>3 DEF Known
      <4>4. CASE /\ mailed' = [mailed EXCEPT ![p.gc] = @ + 1] /\ hidden' = hidden
                 /\ q.outcome \in {"sent", "unknown"}
        BY <2>1, <2>5, <4>1, <4>4 DEF Known
      <4>5. QED  BY <1>11, <4>2, <4>3, <4>4, MailFacts
    <3>2. Known'[g] = Known[g] + 1
      <4>1. \A i, j \in Nat : (i + 1) - j = (i - j) + 1
        OBVIOUS
      <4>2. QED  BY <2>1, <3>1, <4>1, Tables DEF Typed, Known
    <3>3. row[d][g].status = "sending"
      BY <1>2, <2>1, <3>1 DEF KnowsRows
    <3>4. Free(row, snd, g)
      BY <2>1, <2>3, <3>1, <3>3, UnderWork DEF Spending
    <3>5. ~ Free(row', snd', g)
      BY <2>1, <2>3, <3>1, <3>3, UnderWork DEF Spending, GcRetry
    <3>6. Confirmed(snd', g) \subseteq Confirmed(snd, g)
      BY <2>2, <2>3, UnderWork
    <3>7. QED  BY <1>1, <2>1, <3>2, <3>4, <3>5, <3>6, FitsMailed
  <2>6. QED  BY <2>4, <2>5
<1>12. CASE Record(s)
  <2>1. /\ p.pc = "record" /\ p.gc \in Gcs /\ q.pc = "send" /\ q.force = p.force
        /\ Known' = Known /\ confirmed' = confirmed
        /\ q.todo = {} /\ p.todo = {} /\ q.ready = p.ready \ {p.gc}
        /\ row'[d][p.gc].status = p.outcome
        /\ p.outcome \in {"sent", "failed", "unknown", "skipped"}
    BY <1>1, <1>12, RecordFacts DEF Known, Keeps, PassOK, Late
  <2>2. ~ Spending(q, g) /\ (Holds(q, g) => Holds(p, g))
    BY <2>1 DEF Spending, Holds, Early, Listed, Mailing
  <2>3. Work(s)  BY <1>12 DEF Work
  <2>4. CASE g # p.gc
    <3>1. row'[d][g] = row[d][g]
      BY <1>12, <2>4, RecordFacts
    <3>2. QED  BY <2>1, <2>2, <2>3, <3>1, WorkKept
  <2>5. CASE g = p.gc
    <3>1. Free(row', snd', g) => Free(row, snd, g)
      <4>1. row[d][g].status # "absent"
        BY <1>2, <2>1, <2>5 DEF KnowsRows, Mailing
      <4>2. CASE p.outcome \in {"failed", "skipped"}
        BY <2>1, <2>3, <2>5, <4>1, <4>2, UnderWork DEF Spending
      <4>3. CASE p.outcome \in {"sent", "unknown"}
        BY <2>1, <2>2, <2>3, <2>5, <4>3, UnderWork DEF GcRetry
      <4>4. QED  BY <2>1, <4>2, <4>3
    <3>2. Confirmed(snd', g) \subseteq Confirmed(snd, g)
      BY <2>2, <2>3, UnderWork
    <3>3. QED  BY <1>1, <2>1, <3>1, <3>2, FitsKept
  <2>6. QED  BY <2>4, <2>5
<1>13. CASE Raise(s)
  <2>1. /\ q = Idle \/ q.pc = "rescue"
        /\ row' = row /\ Known' = Known /\ confirmed' = confirmed
    BY <1>13, RaiseFacts DEF Known
  <2>2. ~ Spending(q, g) /\ ~ Holds(q, g)
    BY <2>1, IdleOK DEF Spending, Holds, Early, Listed
  <2>3. QED  BY <1>13, <2>1, <2>2, WorkKept DEF Work
<1>14. CASE Rescue(s)
  <2>1. /\ q.pc = "rescued" /\ Known' = Known /\ confirmed' = confirmed
        /\ row'[d][g].status = IF row[d][g].status = "sending"
                               THEN "unknown" ELSE row[d][g].status
    BY <1>14, RescueFacts DEF Known
  <2>2. ~ Spending(q, g) /\ ~ Holds(q, g)
    BY <2>1 DEF Spending, Holds, Early, Listed
  <2>3. /\ row'[d][g].status = "absent" <=> row[d][g].status = "absent"
        /\ row'[d][g].status \in GcRetry => row[d][g].status \in GcRetry
    BY <2>1 DEF GcRetry
  <2>4. QED  BY <1>14, <2>1, <2>2, <2>3, WorkKept DEF Work
<1>15. QED
  BY <1>3, <1>4, <1>5, <1>6, <1>7, <1>8, <1>9, <1>10, <1>11, <1>12, <1>13, <1>14 DEF Work

\* A step of nobody's work confirms a pass only if it is the Send now that a
\* person confirmed.
LEMMA HoldsKept ==
    ASSUME Typed, Timely, Calm, Alone, Reclaiming, Next, \A s \in Senders : ~ Work(s),
           NEW t \in Senders, NEW g \in Gcs, Holds(snd'[t], g)
    PROVE  Holds(snd[t], g) \/ \E d \in Dates : SendNow(t, d, TRUE)
<1>1. CASE snd'[t].pc \in InPass \ {"claimed"}
  BY <1>1, Bystanders
<1>2. CASE snd'[t].pc \notin InPass \ {"claimed"}
  <2>1. snd'[t].pc \in {"due", "checked", "asked", "claimed"} /\ snd'[t].force
    BY <1>2 DEF Holds, Early, Listed, InPass
  <2>2. CASE snd'[t] = snd[t]
    BY <2>2
  <2>3. ASSUME NEW s \in Senders, NEW d \in Dates, NEW force \in BOOLEAN,
               SendNow(s, d, force), snd'[t] # snd[t]
        PROVE  SendNow(t, d, TRUE)
    <3>1. s = t /\ snd'[s].force = force
      BY <2>3, SendNowFacts DEF Moves
    <3>2. force = TRUE
      BY <2>1, <3>1
    <3>3. QED  BY <2>3, <3>1, <3>2
  <2>4. ASSUME NEW s \in Senders, NEW d \in Dates, Due(s, d) PROVE snd'[t] = snd[t]
    BY <2>1, <2>4, DueFacts DEF Moves
  <2>5. ASSUME NEW s \in Senders, Check(s), snd'[t] # snd[t] PROVE Holds(snd[t], g)
    <3>1. s = t
      BY <2>5, CheckFacts DEF Moves
    <3>2. snd[t].pc = "due" /\ snd[t].force
      BY <2>1, <2>5, <3>1, CheckFacts, IdleOK
    <3>3. QED  BY <3>2 DEF Holds, Early
  <2>6. ASSUME NEW s \in Senders, ClaimRun(s), snd'[t] # snd[t] PROVE Holds(snd[t], g)
    <3>1. s = t
      BY <2>6, ClaimRunFacts DEF Moves
    <3>2. snd[t].pc \in {"checked", "asked"} /\ snd[t].force
      BY <2>1, <2>6, <3>1, ClaimRunFacts, IdleOK
    <3>3. QED  BY <3>2 DEF Holds, Early
  <2>7. ASSUME NEW s \in Senders, Finish(s) \/ ReclaimRun(s) \/ ReclaimRows(s) \/ Crash(s)
        PROVE  snd'[t] = snd[t]
    BY <2>1, <2>7, FinishFacts, ReclaimRunFacts, ReclaimRowsFacts, CrashFacts, IdleOK
    DEF Moves
  <2>8. ASSUME NEW s \in Senders, NEW d \in Dates, ReclaimRead(s, d) PROVE snd'[t] = snd[t]
    BY <2>1, <2>8, ReclaimReadFacts DEF Moves
  <2>9. QED
    BY <2>2, <2>3, <2>4, <2>5, <2>6, <2>7, <2>8, StepCases, TickFacts, MoveDateFacts,
       AsideFacts, AcceptFacts, MissedFacts, StallFacts
<1>3. QED  BY <1>1, <1>2

LEMMA IdleBudget ==
    ASSUME Typed, Timely, Calm, Alone, Reclaiming, Next, \A s \in Senders : ~ Work(s),
           Within(row, snd, Known, confirmed)
    PROVE  Within(row', snd', Known', confirmed')
<1> SUFFICES ASSUME NEW g \in Gcs PROVE Fits(row', snd', Known', confirmed', g)
    BY DEF Within
<1>1. Known[g] \in Int /\ confirmed \in Nat /\ Fits(row, snd, Known, confirmed, g)
  BY Tables, KnownTyped DEF Within, Typed
<1>2. Known' = Known
  <2>1. mailed' = mailed /\ hidden' = hidden
   BY StepCases, TickFacts, MoveDateFacts, AsideFacts, AcceptFacts, SendNowFacts,
     DueFacts, CheckFacts, ClaimRunFacts, MissedFacts, FinishFacts, StallFacts,
     ReclaimReadFacts, ReclaimRunFacts, ReclaimRowsFacts, CrashFacts
  <2>2. QED  BY <2>1 DEF Known
<1>3. \/ \E s \in Senders : ReclaimRows(s)
      \/ row' = row
  BY StepCases, TickFacts, MoveDateFacts, AsideFacts, AcceptFacts, SendNowFacts,
     DueFacts, CheckFacts, ClaimRunFacts, MissedFacts, FinishFacts, StallFacts,
     ReclaimReadFacts, ReclaimRunFacts, CrashFacts
<1>4. \A d \in Dates :
         /\ row'[d][g].status = "absent" <=> row[d][g].status = "absent"
         /\ row'[d][g].status \in GcRetry => row[d][g].status \in GcRetry
  <2>1. CASE \E s \in Senders : ReclaimRows(s)
    BY <2>1, MendedRows DEF GcRetry
  <2>2. CASE row' = row
    BY <2>2
  <2>3. QED  BY <1>3, <2>1, <2>2
<1>5. \A d : Hand(snd', d, g) => Hand(snd, d, g)
  <2>1. \A t \in Senders : Spending(snd'[t], g) => snd'[t] = snd[t]
    BY Bystanders DEF Spending, InPass
  <2>2. QED  BY <2>1 DEF Hand
<1>6. Free(row', snd', g) => Free(row, snd, g)
  <2>1. \A d \in Dates : Latest(row, d, g) => Latest(row', d, g)
    BY <1>4 DEF Latest
  <2>2. QED  BY <1>4, <1>5, <2>1 DEF Free
<1>7. CASE \E s \in Senders, d \in Dates : SendNow(s, d, TRUE)
  <2>1. PICK s \in Senders, d \in Dates : SendNow(s, d, TRUE)
    BY <1>7
  <2>2. Moves(s) /\ confirmed' = confirmed + 1
    BY <2>1, SendNowFacts
  <2>3. Confirmed(snd', g) \subseteq Confirmed(snd, g) \cup {s}
    BY <2>2 DEF Confirmed, Moves
  <2>4. Fits(row', snd', Known, confirmed + 1, g)
    BY <1>1, <1>6, <2>3, FitsConfirmed
  <2>5. QED  BY <1>2, <2>2, <2>4
<1>8. CASE ~ \E s \in Senders, d \in Dates : SendNow(s, d, TRUE)
  <2>1. confirmed' = confirmed
    <3>1. ASSUME NEW s \in Senders, NEW d \in Dates, NEW force \in BOOLEAN,
                 SendNow(s, d, force)
          PROVE  confirmed' = confirmed
      <4>1. force = FALSE
        BY <1>8, <3>1
      <4>2. QED  BY <3>1, <4>1, SendNowFacts
    <3>2. QED
      BY <3>1, StepCases, TickFacts, MoveDateFacts, AsideFacts, AcceptFacts,
         DueFacts, CheckFacts, ClaimRunFacts, MissedFacts, FinishFacts, StallFacts,
         ReclaimReadFacts, ReclaimRunFacts, ReclaimRowsFacts, CrashFacts
  <2>2. Confirmed(snd', g) \subseteq Confirmed(snd, g)
    BY <1>8, HoldsKept DEF Confirmed
  <2>3. QED  BY <1>1, <1>2, <1>6, <2>1, <2>2, FitsKept
<1>9. QED  BY <1>7, <1>8

LEMMA BudgetStep ==
    ASSUME Typed, Timely, Calm, Alone, Reclaiming, Tracks, Rooted, Truth, Hushed, Budget, Next
    PROVE  Budget'
<1>1. CASE \E s \in Senders : Work(s)
  BY <1>1, WorkBudget DEF Budget
<1>2. CASE ~ \E s \in Senders : Work(s)
  BY <1>2, IdleBudget DEF Budget
<1>3. QED  BY <1>1, <1>2

-----------------------------------------------------------------------------
(* The invariant.                                                          *)

LEMMA OrderlyInit == Init => Orderly
<1> SUFFICES ASSUME Init PROVE Orderly
    OBVIOUS
<1>1. /\ \A d \in Dates : /\ run[d].status = "none" /\ ~ run[d].quiet /\ ~ run[d].still
                          /\ ~ run[d].accepted
      /\ \A d \in Dates, g \in Gcs : row[d][g].status = "absent"
      /\ \A s \in Senders : snd[s] = Idle
      /\ \A g \in Gcs : Known[g] = 0
      /\ confirmed = 0 /\ afterHuman = 0
  BY DEF Init, NoRun, NoRows, Known
<1>2. \A s \in Senders : snd[s].pc = "idle" /\ ~ snd[s].force
  BY <1>1, IdleOK
<1>3. Dated
  BY <1>1, <1>2 DEF Dated, Reading
<1>4. Alone
  BY <1>1, <1>2 DEF Alone, InPass
<1>5. Reclaiming /\ Tracks /\ Rooted
  BY <1>1, <1>2 DEF Reclaiming, Tracks, KnowsRows, Rooted, Untaken, Mailing, Listed, InPass
<1>6. Truth
  <2>1. \A d \in Dates, g \in Gcs : Statuses(d)[g] = "absent"
    BY <1>1 DEF Statuses
  <2>2. \A d \in Dates : Tells(run[d].status, Statuses(d))
    BY <1>1, <2>1, TellsLittle
  <2>3. QED  BY <1>2, <2>2 DEF Truth
<1>7. Bid
  BY <1>1, <1>2 DEF Bid, OneBid, Partly, Statuses, Carrying, Listed
<1>8. Hushed
  BY <1>1, <1>2 DEF Hushed, Carrying, Listed
<1>9. Budget
  <2>1. \A g \in Gcs : Confirmed(snd, g) = {}
    BY <1>2 DEF Confirmed, Holds
  <2>2. ASSUME NEW g \in Gcs PROVE Fits(row, snd, Known, confirmed, g)
    <3>1. Cardinality(Confirmed(snd, g)) = 0
      BY <2>1, FS_EmptySet
    <3>2. QED  BY <1>1, <3>1 DEF Fits
  <2>3. QED  BY <2>2 DEF Budget, Within
<1>10. QED  BY <1>3, <1>4, <1>5, <1>6, <1>7, <1>8, <1>9 DEF Orderly

LEMMA OrderlyStep == Typed /\ Timely /\ Calm /\ Orderly /\ [Next]_vars => Orderly'
<1> SUFFICES ASSUME Typed, Timely, Calm, Orderly, [Next]_vars PROVE Orderly'
    OBVIOUS
<1> USE DEF Orderly
<1>1. CASE Next
  BY <1>1, DatedStep, AloneStep, ReclaimingStep, TracksStep, RootedStep, TruthStep, BidStep,
     HushedStep, BudgetStep
<1>2. CASE UNCHANGED vars
  <2>1. UNCHANGED <<now, bidDate, human, run, row, snd, mailed, hidden, confirmed, afterHuman, faults>>
    BY <1>2 DEF vars, world, db, log
  <2>2. Dated' /\ Alone'
    BY <2>1 DEF Dated, Alone
  <2>3. Reclaiming' /\ Tracks' /\ Rooted'
    BY <2>1 DEF Reclaiming, Tracks, Rooted, Statuses
  <2>4. Truth' /\ Bid' /\ Hushed' /\ Budget'
    BY <2>1 DEF Truth, Bid, Hushed, Budget, Known, OneBid, Statuses
  <2>5. QED  BY <2>2, <2>3, <2>4
<1>3. QED  BY <1>1, <1>2

\* Every behaviour, whatever the timing, keeps the types.
THEOREM TypeCorrect == Spec => []TypeOK
<1>1. Init => Typed
  BY TypedInit
<1>2. Typed /\ [Next]_vars => Typed'
  BY TypedStep
<1>3. Typed => TypeOK
  BY DEF Typed
<1>4. QED  BY <1>1, <1>2, <1>3, PTL DEF Spec

\* Every behaviour keeps the invariant.
THEOREM Invariance == Spec => []IInv
<1>1. Init => IInv
  BY TypedInit, OrderlyInit DEF IInv
<1>2. IInv /\ [Next]_vars => IInv'
  BY TypedStep, OrderlyStep DEF IInv
<1>3. QED  BY <1>1, <1>2, PTL DEF Spec

\* A person's Send Out wins: one email at most is delivered after it begins
\* (_stop_reason() before a GC is claimed and again before it is emailed).
THEOREM PersonWins ==
    ASSUME Timely, Calm
    PROVE  Spec => []HumanWins
<1>1. IInv => HumanWins
  BY DEF IInv, Orderly, Hushed, HumanWins
<1>2. QED  BY <1>1, Invariance, PTL

\* The status of a settled run tells what its GCs got, whatever died or raised.
THEOREM TruthTold ==
    ASSUME Timely, Calm
    PROVE  Spec => []RunTellsTheTruth
<1>1. IInv => RunTellsTheTruth
  BY ZenonT(60) DEF IInv, Orderly, Truth, Tells, Statuses, RunTellsTheTruth
<1>2. QED  BY <1>1, Invariance, PTL

\* Every GC that a run sent got the numbers of the run.
THEOREM OneBidPerRun ==
    ASSUME Timely, Calm
    PROVE  Spec => []OneBid
<1>1. IInv => OneBid
  BY DEF IInv, Orderly, Bid
<1>2. QED  BY <1>1, Invariance, PTL

\* The confirmations and the deliveries that counted as failed pay for every
\* email to a GC but the first, across bid dates, stops, timeouts, reclaims,
\* crashes and calls that raise.
THEOREM OneEmail ==
    ASSUME Timely, Calm
    PROVE  Spec => []OneEmailPerGc
<1>1. IInv => OneEmailPerGc
  <2> SUFFICES ASSUME IInv, NEW g \in Gcs PROVE mailed[g] <= 1 + confirmed + hidden[g]
      BY DEF OneEmailPerGc
  <2> DEFINE k == Cardinality(Confirmed(snd, g))
  <2>1. /\ (mailed[g] - hidden[g]) + k <= 1 + confirmed /\ k \in Nat
        /\ mailed[g] \in Nat /\ hidden[g] \in Nat /\ confirmed \in Nat
    BY Counted, Tables DEF IInv, Orderly, Budget, Within, Fits, Known, Typed
  <2> HIDE DEF k
  <2>2. QED  BY <2>1
<1>2. QED  BY <1>1, Invariance, PTL

\* A run that was accepted as the bid stays as it is, and the project is not
\* emailed again: no pass that sends is in progress, and none begins.
THEOREM AcceptanceCloses ==
    ASSUME Timely, Calm
    PROVE  Spec => AcceptedIsClosed
<1>1. ASSUME IInv, Next, NEW d \in Dates, run[d].accepted
      PROVE  run'[d] = run[d] /\ mailed' = mailed
  <2>1. /\ Typed /\ Orderly /\ run[d].status \in {"sent", "partial"}
        /\ \A s \in Senders : snd[s].pc # "mail" /\ snd[s].date \in Dates
    BY <1>1, PassTyped DEF IInv, Orderly, Hushed, WentOut, Carrying, Listed
  <2>2. ASSUME NEW s \in Senders, Work(s) PROVE run'[d] = run[d] /\ mailed' = mailed
    <3>1. run'[d] = run[d]
      <4>1. run[snd[s].date].status = "sending"
        BY <2>1, <2>2, OneAtWork DEF Orderly
      <4>2. QED  BY <2>1, <2>2, <4>1, WorkInside DEF Inside
    <3>2. mailed' = mailed
      BY <2>1, <2>2, EvaluateFacts, OpenFacts, InsertFacts, BeatFacts, PrepareFacts,
         StopCheckFacts, ClaimGcFacts, ConvertFacts, MailFacts, RecordFacts, RaiseFacts,
         RescueFacts DEF Work
    <3>3. QED  BY <3>1, <3>2
  <2>3. ASSUME NEW e \in Dates, Accept(e) PROVE run'[d] = run[d] /\ mailed' = mailed
    <3>1. e # d
      BY <1>1, <2>3 DEF Accept, Acceptable
    <3>2. QED  BY <2>1, <2>3, <3>1, AcceptFacts
  <2>4. ASSUME NEW s \in Senders, ClaimRun(s) PROVE run'[d] = run[d] /\ mailed' = mailed
    <3>1. Claimable(snd[s]) => snd[s].date # d
      BY <1>1, <2>1 DEF Claimable
    <3>2. QED  BY <2>1, <2>4, <3>1, ClaimRunFacts DEF Rewrites
  <2>5. ASSUME NEW s \in Senders, NEW e \in Dates, Missed(s, e)
        PROVE  run'[d] = run[d] /\ mailed' = mailed
    BY <2>1, <2>5, MissedFacts DEF Rewrites
  <2>6. ASSUME NEW s \in Senders, Finish(s) PROVE run'[d] = run[d] /\ mailed' = mailed
    <3>1. run[snd[s].date].status = "sending"
      BY <2>1, <2>6, FinishFacts DEF Orderly, Alone
    <3>2. QED  BY <2>1, <2>6, <3>1, FinishFacts DEF Rewrites
  <2>7. ASSUME NEW e \in Dates, Stall(e) PROVE run'[d] = run[d] /\ mailed' = mailed
    BY <2>1, <2>7, StallFacts
  <2>8. ASSUME NEW s \in Senders, ReclaimRun(s) PROVE run'[d] = run[d] /\ mailed' = mailed
    BY <2>1, <2>8, ReclaimRunFacts DEF Rewrites
  <2>9. ASSUME NEW s \in Senders, ReclaimRows(s) PROVE run'[d] = run[d] /\ mailed' = mailed
    <3>1. mailed' = mailed
      BY <2>1, <2>9, ReclaimRowsFacts
    <3>2. run[d] \in RunRow /\ ~ run[d].still /\ run \in [Dates -> RunRow]
      BY <2>1, Tables DEF Orderly, Alone, Typed
    <3>3. Alive(snd[s].date) \/ run' = run
      BY <2>9 DEF ReclaimRows, db
    <3>4. [run[d] EXCEPT !.still = FALSE] = run[d]
      BY <3>2 DEF RunRow
    <3>5. run'[d] = run[d] \/ run'[d] = [run[d] EXCEPT !.still = FALSE]
      BY <3>2, <3>3 DEF Alive
    <3>6. QED  BY <3>1, <3>4, <3>5
  <2>10. QED
    BY <1>1, <2>1, <2>2, <2>3, <2>4, <2>5, <2>6, <2>7, <2>8, <2>9, StepCases, TickFacts,
       MoveDateFacts, AsideFacts, SendNowFacts, DueFacts, CheckFacts, ReclaimReadFacts,
       CrashFacts
<1>2. IInv /\ [Next]_vars
      => [\A d \in Dates : run[d].accepted => run'[d] = run[d] /\ mailed' = mailed]_vars
  BY <1>1
<1>3. QED  BY <1>2, Invariance, PTL DEF Spec, AcceptedIsClosed
=============================================================================
