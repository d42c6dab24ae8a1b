------------------------- MODULE ProposalSendProofs -------------------------
(***************************************************************************)
(* Theorems about ProposalSend for any number of requests, any figures,    *)
(* any recipients and any bounds: who may touch the row, which document it *)
(* names, and what a delivery proves.                                      *)
(***************************************************************************)
EXTENDS ProposalSend, SequenceTheorems, TLAPS

-----------------------------------------------------------------------------
(* The inductive invariant, in three layers.                                *)

Selling == {"s_link", "s_decide", "s_recheck", "s_check", "s_mail", "s_record"}
Again == {"r_decide", "r_check", "r_mail", "r_record"}
Pricing == {"q_write", "q_recheck", "q_restore"}
Marking == {"m_claim", "m_recheck"}
Steps == {"idle", "x_delete", "e_write", "a_write",
          "g_upload", "g_write", "g_delete", "g_sweep"}
         \cup Selling \cup Again \cup Pricing \cup Marking

Asked == [at : Steps, row : Rows, link : Links, file : FileIds \cup {None},
          figures : Figures \cup {None}, to : Recipients \cup {None}, force : BOOLEAN,
          out : {"none", "ok", "unknown", "error"}, event : Nat]

\* What a request needs for its next step it has read.
AskedOK(q) ==
    /\ q.at \in {"e_write", "a_write", "q_write", "g_upload"} => q.figures \in Figures
    /\ q.at = "g_write" => q.file \in FileIds
    /\ q.at \in Selling \cup Again => q.to \in Recipients

Resends == [status : {"sending", "sent", "failed"}, to : Recipients, old : BOOLEAN]
Emails == [kind : {"initial", "resend"}, file : FileIds \cup {None}, event : Nat,
           member : BOOLEAN, known : BOOLEAN, blind : BOOLEAN]

\* Layer 1: types.
StoreOK ==
    /\ link \in Links /\ row \in Rows /\ goneOut \in BOOLEAN
    /\ files \in [FileIds -> Figures \cup {None}]
    /\ logged \in SUBSET Recipients
    /\ events \in Seq(Resends) /\ mail \in Seq(Emails)
AsksOK == req \in [Requests -> Asked] /\ \A p \in Requests : AskedOK(req[p])
CountsOK == {commands, crashes, timeouts, faults} \subseteq Nat
Typed == StoreOK /\ AsksOK /\ CountsOK

\* Layer 2: what a request read, and the documents.
ReadOK(q) ==
    /\ q.at \in {"g_upload", "g_write"} => q.row.status \notin {"sending", "sent"}
    /\ q.at \in Selling \cup Marking => q.row.status # "none"
    /\ q.at \in {"s_recheck"} \cup Marking => q.row.status \in Claimable
    /\ q.at \in Pricing => q.link.on /\ q.link.approval # "pending"
    /\ q.at = "s_mail" => q.link.on

\* A row that somebody read exists.
Named == \A p \in Requests :
            req[p].at \in Selling \cup Marking \cup {"g_sweep"} => row.status # "none"

\* The row names a document that is stored; one that a generate is to attach or
\* to delete is its own.
Owns(p) == req[p].at = "g_write" \/ (req[p].at = "g_delete" /\ req[p].file # None)

RowHasFile ==
    \/ row.status = "none" /\ row.file = None
    \/ row.status # "none" /\ row.file \in FileIds /\ files[row.file] # None

OwnFiles ==
    \A p \in Requests : Owns(p) =>
        /\ req[p].file \in FileIds /\ files[req[p].file] # None /\ req[p].file # row.file
        /\ \A q \in Requests \ {p} : Owns(q) => req[q].file # req[p].file

Reads == \A p \in Requests : ReadOK(req[p])
Documents == Reads /\ Named /\ RowHasFile /\ OwnFiles

\* Layer 3: who may touch the row, and what the email log proves.
Hush(p) == req[p].at \in {"x_delete", "g_sweep"}

HushOK ==
    \A p \in Requests :
        /\ Hush(p) => \A q \in Requests \ {p} : ~Hush(q)
        /\ req[p].at = "x_delete" => row.status \notin Claimable /\ \A q \in Requests : ~Reviving(q)
        /\ req[p].at = "g_sweep" => row.status \in Claimable

Holds ==
    \A p \in Requests : Holding(p) =>
        /\ row.status = "sending" /\ ~row.old
        /\ row.file = req[p].file /\ row.to = req[p].to
        /\ \A q \in Requests \ {p} : ~Holding(q)

\* A row that waits for an Executive and is sent has somebody to take it back.
TakesBack(p) ==
    \/ req[p].at \in {"q_recheck", "q_restore", "s_recheck"}
    \/ req[p].at = "m_recheck" /\ row.status = "sent" /\ ~row.log

Handshake ==
    crashes = 0 /\ PendingNow /\ row.status \in {"sending", "sent"}
        => \E p \in Requests : TakesBack(p)

\* Whoever believes that the GC is on the project is right as long as the row can
\* still be claimed.
Belongs ==
    \A p \in Requests :
        /\ req[p].at \in Selling \ {"s_link"} /\ req[p].link.on
              => link.on \/ row.status \in {"sent", "superseded"}
        /\ Reviving(p) => link.on

\* A sent row that no mark can take back any more.
Settled == row.status = "sent" /\ (row.log \/ \A p \in Requests : ~Unsettled(p))

Delivered(f) == \E i \in DOMAIN mail : mail[i].file = f

\* The delivery that the log proves is that of the document on the row.
Proof ==
    faults = 0 /\ logged # {} =>
        /\ Delivered(row.file)
        /\ \/ Settled
           \/ /\ row.status = "sending" /\ row.to \in logged
              /\ \A p \in Requests : Holding(p) => req[p].at = "s_record" /\ req[p].out = "ok"

History ==
    /\ \A p \in Requests :
        /\ req[p].at \in Again => Settled /\ req[p].file = row.file
        /\ req[p].at = "s_record" /\ req[p].out = "ok"
              => Delivered(req[p].file) /\ req[p].to \in logged
    /\ faults = 0 /\ row.status = "sent" /\ row.via = "email" => Delivered(row.file)
    /\ \A i \in DOMAIN mail : faults = 0 /\ mail[i].kind = "initial" /\ mail[i].known
              => logged # {} /\ mail[i].file = row.file
    /\ RemovedNotMailed /\ OneConfirmedBid

-----------------------------------------------------------------------------
USE SendAssumption DEF SendAssumption

LEMMA TypedInit == Init => Typed
BY DEF Init, Typed, StoreOK, AsksOK, CountsOK, NewLink, NoRow, Idle, Links, Rows, Asked,
   AskedOK, Steps, Selling, Again, Pricing, Marking, FileIds

LEMMA IdleOK == Idle \in Asked /\ AskedOK(Idle)
BY DEF Idle, Asked, AskedOK, Steps, NoRow, NewLink, Rows, Links, Selling, Again

LEMMA Taken ==
    ASSUME AsksOK, NEW p \in Requests, NEW l \in Asked, AskedOK(l),
           req' = [req EXCEPT ![p] = l]
    PROVE  AsksOK'
BY DEF AsksOK

LEMMA Ended ==
    ASSUME AsksOK, NEW p \in Requests, Done(p)
    PROVE  AsksOK'
BY IdleOK, Taken DEF Done

\* A request goes on to a step that needs nothing new.
LEMMA Went ==
    ASSUME AsksOK, NEW p \in Requests,
           NEW at \in Steps \ {"e_write", "a_write", "q_write", "g_upload", "g_write"},
           Goto(p, at),
           at \in Selling \cup Again => req[p].at \in Selling \cup Again
    PROVE  AsksOK'
<1>1. [req[p] EXCEPT !.at = at] \in Asked /\ AskedOK([req[p] EXCEPT !.at = at])
  BY DEF AsksOK, Asked, AskedOK
<1>. QED BY <1>1, Taken DEF Goto

LEMMA RowFields ==
    ASSUME NEW r \in Rows
    PROVE  /\ [r EXCEPT !.old = FALSE] \in Rows
           /\ \A s \in {"generated", "sending", "sent", "failed", "superseded"} :
                [r EXCEPT !.status = s, !.old = FALSE] \in Rows
BY DEF Rows

LEMMA TypedPeople ==
    ASSUME Typed, NEW p \in Requests, People(p)
    PROVE  Typed'
<1>. USE DEF Typed, StoreOK, CountsOK, Command, store, bounds
<1>0. Idle \in Asked
  BY IdleOK
<1>1. CASE AddGc(p)
  BY <1>1 DEF AddGc, NewLink, Links, AsksOK
<1>2. CASE StartRemove(p)
  <2>1. AsksOK'
    BY <1>2, Went DEF StartRemove, Steps, Selling, Again
  <2>2. row' \in Rows
    BY <1>2, RowFields DEF StartRemove, Write
  <2>. QED BY <1>2, <2>1, <2>2 DEF StartRemove
<1>3. CASE StartSetAmounts(p)
  <2>1. PICK f \in Figures : req' = [req EXCEPT ![p] = [Idle EXCEPT !.at = "e_write", !.figures = f]]
    BY <1>3 DEF StartSetAmounts
  <2>2. [Idle EXCEPT !.at = "e_write", !.figures = f] \in Asked
    BY <1>0 DEF Asked, Steps
  <2>3. AsksOK'
    BY <2>1, <2>2, <1>0, Taken DEF AskedOK, Asked, Selling, Again
  <2>. QED BY <1>3, <2>3 DEF StartSetAmounts
<1>4. CASE StartRequest(p)
  <2>1. PICK f \in Figures :
          req' = [req EXCEPT ![p] = [Idle EXCEPT !.at = "q_write", !.figures = f, !.link = link]]
    BY <1>4 DEF StartRequest
  <2>2. [Idle EXCEPT !.at = "q_write", !.figures = f, !.link = link] \in Asked
    BY <1>0 DEF Asked, Steps, Pricing
  <2>3. AsksOK'
    BY <2>1, <2>2, <1>0, Taken DEF AskedOK, Asked, Selling, Again
  <2>. QED BY <1>4, <2>3 DEF StartRequest
<1>5. CASE StartApprove(p)
  <2>1. PICK f \in Figures : req' = [req EXCEPT ![p] = [Idle EXCEPT !.at = "a_write", !.figures = f]]
    BY <1>5 DEF StartApprove
  <2>2. [Idle EXCEPT !.at = "a_write", !.figures = f] \in Asked
    BY <1>0 DEF Asked, Steps
  <2>3. AsksOK'
    BY <2>1, <2>2, <1>0, Taken DEF AskedOK, Asked, Selling, Again
  <2>. QED BY <1>5, <2>3 DEF StartApprove
<1>6. CASE Reject(p)
  <2>1. link' \in Links
    BY <1>6 DEF Reject, Links
  <2>. QED BY <1>6, <2>1 DEF Reject, AsksOK
<1>7. CASE CompleteSendOut(p)
  BY <1>7 DEF CompleteSendOut, AsksOK
<1>8. CASE StartGenerate(p)
  <2>1. [Idle EXCEPT !.at = "g_upload", !.row = row, !.figures = link.figures] \in Asked
    BY <1>0 DEF Asked, Steps, Links
  <2>2. [Idle EXCEPT !.at = "g_sweep"] \in Asked
    BY <1>0 DEF Asked, Steps
  <2>3. /\ AskedOK([Idle EXCEPT !.at = "g_upload", !.row = row, !.figures = link.figures])
        /\ AskedOK([Idle EXCEPT !.at = "g_sweep"])
    BY <1>0 DEF AskedOK, Asked, Links, Selling, Again
  <2>4. AsksOK'
    BY <1>8, <2>1, <2>2, <2>3, Taken DEF StartGenerate
  <2>. QED BY <1>8, <2>4 DEF StartGenerate
<1>9. CASE StartSend(p)
  <2>1. PICK to \in Recipients, force \in BOOLEAN :
          req' = [req EXCEPT ![p] = [Idle EXCEPT !.at = "s_link", !.row = row, !.to = to,
                                                 !.force = force]]
    BY <1>9 DEF StartSend
  <2>2. [Idle EXCEPT !.at = "s_link", !.row = row, !.to = to, !.force = force] \in Asked
    BY <1>0 DEF Asked, Steps, Selling
  <2>3. AsksOK'
    BY <2>1, <2>2, <1>0, Taken DEF AskedOK, Asked
  <2>. QED BY <1>9, <2>3 DEF StartSend
<1>10. CASE StartMark(p)
  <2>1. [Idle EXCEPT !.at = "m_claim", !.row = row] \in Asked
    BY <1>0 DEF Asked, Steps, Marking
  <2>2. AsksOK'
    BY <1>10, <2>1, <1>0, Taken DEF StartMark, AskedOK, Asked, Selling, Again
  <2>. QED BY <1>10, <2>2 DEF StartMark
<1>11. CASE StartResend(p)
  <2>1. PICK to \in Recipients :
          req' = [req EXCEPT ![p] = [Idle EXCEPT !.at = "r_decide", !.row = row, !.to = to,
                                                 !.file = row.file, !.link = link]]
    BY <1>11 DEF StartResend
  <2>2. [Idle EXCEPT !.at = "r_decide", !.row = row, !.to = to, !.file = row.file,
                     !.link = link] \in Asked
    BY ZenonT(60), <1>0 DEF Asked, Steps, Again, Rows
  <2>3. AsksOK'
    BY <2>1, <2>2, <1>0, Taken DEF AskedOK, Asked
  <2>. QED BY <1>11, <2>3 DEF StartResend
<1>. QED
  BY <1>1, <1>2, <1>3, <1>4, <1>5, <1>6, <1>7, <1>8, <1>9, <1>10, <1>11 DEF People

\* What send_mail can come to.
Accepted(p, kind) == mail' = Append(mail, Email(kind, p, TRUE)) /\ logged' = logged \cup {req[p].to}
Unproved(p, kind) == mail' \in {mail, Append(mail, Email(kind, p, FALSE))} /\ logged' = logged

LEMMA MailOutcome ==
    ASSUME NEW p, NEW kind, NEW next, Mails(p, kind, next)
    PROVE  \E out \in {"ok", "unknown", "error"} :
                /\ req' = [req EXCEPT ![p].at = next, ![p].out = out]
                /\ IF out = "ok" THEN Accepted(p, kind) ELSE Unproved(p, kind)
                /\ out = "ok" => UNCHANGED faults
BY DEF Mails, Accepted, Unproved, bounds

LEMMA Mailed ==
    ASSUME Typed, NEW p \in Requests, NEW kind \in {"initial", "resend"},
           NEW next \in {"s_record", "r_record"}, Mails(p, kind, next)
    PROVE  Typed'
<1>0. req[p] \in Asked /\ AskedOK(req[p]) /\ link.on \in BOOLEAN
  BY DEF Typed, StoreOK, AsksOK, Links
<1>1. \A known \in BOOLEAN : Email(kind, p, known) \in Emails
  BY <1>0 DEF Email, Emails, Asked
<1>2. req[p].to \in Recipients /\ req[p].at \in Selling \cup Again
  BY <1>0 DEF Mails, AskedOK, Selling, Again
<1>3. PICK out \in {"ok", "unknown", "error"} :
        /\ req' = [req EXCEPT ![p].at = next, ![p].out = out]
        /\ IF out = "ok" THEN Accepted(p, kind) ELSE Unproved(p, kind)
  BY MailOutcome
<1>4. /\ [req[p] EXCEPT !.at = next, !.out = out] \in Asked
      /\ AskedOK([req[p] EXCEPT !.at = next, !.out = out])
  BY <1>0, <1>2 DEF Asked, AskedOK, Steps, Selling, Again
<1>5. AsksOK'
  BY <1>3, <1>4, Taken DEF Typed, AsksOK
<1>6. \A e \in Emails : Append(mail, e) \in Seq(Emails)
  BY DEF Typed, StoreOK
<1>7. mail' \in Seq(Emails) /\ logged' \in SUBSET Recipients
  BY <1>1, <1>2, <1>3, <1>6 DEF Accepted, Unproved, Typed, StoreOK
<1>8. {commands', crashes', timeouts', faults'} \subseteq Nat
  <2>1. /\ commands' = commands /\ crashes' = crashes
        /\ timeouts' \in {timeouts, timeouts + 1} /\ faults' \in {faults, faults + 1}
    BY DEF Mails, bounds
  <2>. QED BY <2>1 DEF Typed, CountsOK
<1>. QED BY <1>5, <1>7, <1>8 DEF Mails, Typed, StoreOK, CountsOK

LEMMA EventSet ==
    ASSUME NEW s \in Seq(Resends), NEW i \in DOMAIN s, NEW v \in {"sending", "sent", "failed"}
    PROVE  [s EXCEPT ![i].status = v] \in Seq(Resends)
<1>1. i \in 1 .. Len(s) /\ s[i] \in Resends
  BY LenProperties, ElementOfSeq
<1>2. [s[i] EXCEPT !.status = v] \in Resends
  BY <1>1 DEF Resends
<1>3. [s EXCEPT ![i].status = v] = [s EXCEPT ![i] = [s[i] EXCEPT !.status = v]]
  BY <1>1
<1>. QED BY <1>1, <1>2, <1>3, ExceptSeq

LEMMA TypedWork ==
    ASSUME Typed, NEW p \in Requests, Work(p)
    PROVE  Typed'
<1>. USE DEF Typed, StoreOK, CountsOK, Step, store
<1>0. /\ req[p] \in Asked /\ AskedOK(req[p])
      /\ req[p].row \in Rows /\ req[p].link \in Links
  BY DEF AsksOK, Asked
<1>1. CASE DeleteLink(p)
  <2>1. link' \in Links
    BY <1>1 DEF DeleteLink, Links
  <2>. QED BY <1>1, <2>1, Ended DEF DeleteLink
<1>2. CASE SetAmounts(p)
  <2>1. link' \in Links
    BY <1>0, <1>2 DEF SetAmounts, Links, AskedOK
  <2>. QED BY <1>2, <2>1, Ended DEF SetAmounts
<1>3. CASE RequestChange(p)
  <2>1. link' \in Links
    BY <1>0, <1>3 DEF RequestChange, Links, AskedOK
  <2>2. AsksOK'
    BY <1>3, Ended, Went DEF RequestChange, Steps, Pricing, Selling, Again
  <2>. QED BY <1>3, <2>1, <2>2 DEF RequestChange
<1>4. CASE RequestRecheck(p)
  <2>1. AsksOK'
    BY <1>4, Ended, Went DEF RequestRecheck, Steps, Pricing, Selling, Again
  <2>. QED BY <1>4, <2>1 DEF RequestRecheck
<1>5. CASE RequestRestore(p)
  BY <1>0, <1>5, Ended DEF RequestRestore
<1>6. CASE Approve(p)
  <2>1. link' \in Links
    BY <1>0, <1>6 DEF Approve, Links, AskedOK
  <2>. QED BY <1>6, <2>1, Ended DEF Approve
<1>7. CASE Upload(p)
  <2>1. PICK f \in FileIds :
          /\ files' = [files EXCEPT ![f] = req[p].figures]
          /\ req' = [req EXCEPT ![p].at = "g_write", ![p].file = f]
    BY <1>7 DEF Upload
  <2>2. /\ [req[p] EXCEPT !.at = "g_write", !.file = f] \in Asked
        /\ AskedOK([req[p] EXCEPT !.at = "g_write", !.file = f])
    BY <1>0 DEF Asked, AskedOK, Steps, Selling, Again
  <2>3. AsksOK'
    BY <2>1, <2>2, Taken DEF AsksOK
  <2>4. files' \in [FileIds -> Figures \cup {None}]
    BY <1>0, <1>7, <2>1 DEF Upload, AskedOK
  <2>. QED BY <1>7, <2>3, <2>4 DEF Upload
<1>8. CASE WriteGenerated(p)
  <2>1. req[p].file \in FileIds /\ req[p].row.file \in FileIds \cup {None}
    BY <1>0, <1>8 DEF WriteGenerated, AskedOK, Rows
  <2>2. row' \in Rows
    <3>1. files[req[p].file] \in Figures \cup {None} /\ row.via \in {"email", "external"}
      BY <2>1 DEF Rows
    <3>2. [Generated(req[p].file) EXCEPT !.old = FALSE] \in Rows
      BY <2>1, <3>1 DEF Generated, NoRow, Rows
    <3>. QED BY <1>8, <3>2 DEF WriteGenerated, Write
  <2>3. /\ [req[p] EXCEPT !.at = "g_delete", !.file = req[p].row.file] \in Asked
        /\ AskedOK([req[p] EXCEPT !.at = "g_delete", !.file = req[p].row.file])
    BY ZenonT(60), <1>0, <2>1 DEF Asked, AskedOK, Steps, Selling, Again
  <2>4. AsksOK'
    <3>1. CASE Unchanged(req[p].row)
      BY ZenonT(60), <1>8, <2>3, <3>1, Taken DEF WriteGenerated, AsksOK
    <3>2. CASE ~Unchanged(req[p].row)
      BY <1>8, <3>2, Went DEF WriteGenerated, Steps, Selling, Again
    <3>. QED BY <3>1, <3>2
  <2>. QED BY <1>8, <2>2, <2>4 DEF WriteGenerated
<1>9. CASE DeleteFile(p)
  <2>1. files' \in [FileIds -> Figures \cup {None}]
    BY <1>9 DEF DeleteFile
  <2>. QED BY <1>9, <2>1, Ended DEF DeleteFile
<1>10. CASE Sweep(p)
  <2>1. row' \in Rows
    BY <1>10, RowFields DEF Sweep, Write
  <2>. QED BY <1>10, <2>1, Ended DEF Sweep
<1>11. CASE SendReadLink(p)
  <2>1. /\ [req[p] EXCEPT !.at = "s_decide", !.link = link] \in Asked
        /\ AskedOK([req[p] EXCEPT !.at = "s_decide", !.link = link])
    BY <1>0, <1>11 DEF SendReadLink, Asked, AskedOK, Steps, Selling, Again
  <2>2. AsksOK'
    BY <1>11, <2>1, Taken DEF SendReadLink, AsksOK
  <2>. QED BY <1>11, <2>2 DEF SendReadLink
<1>12. CASE SendReclaim(p)
  <2>1. Reclaimed(req[p].row) \in Rows /\ row' \in Rows
    BY ZenonT(60), <1>0, <1>12 DEF SendReclaim, Reclaimed, Write, Rows
  <2>2. /\ [req[p] EXCEPT !.row = Reclaimed(req[p].row)] \in Asked
        /\ AskedOK([req[p] EXCEPT !.row = Reclaimed(req[p].row)])
    BY <1>0, <2>1 DEF Asked, AskedOK
  <2>3. AsksOK'
    BY <1>12, <2>2, Taken DEF SendReclaim, AsksOK
  <2>. QED BY <1>12, <2>1, <2>3 DEF SendReclaim
<1>13. CASE SendSkip(p)
  BY <1>13, Ended DEF SendSkip
<1>14. CASE SendClaim(p)
  <2>1. row' \in Rows
    <3>1. req[p].to \in Recipients \cup {None}
      BY <1>0 DEF Asked
    <3>2. [row EXCEPT !.status = "sending", !.to = req[p].to, !.old = FALSE] \in Rows
      BY <3>1 DEF Rows
    <3>. QED BY <1>14, <3>2 DEF SendClaim, Write, Rows
  <2>2. /\ [req[p] EXCEPT !.at = "s_recheck", !.file = row.file, !.figures = row.figures] \in Asked
        /\ AskedOK([req[p] EXCEPT !.at = "s_recheck", !.file = row.file, !.figures = row.figures])
    BY ZenonT(60), <1>0, <1>14 DEF SendClaim, Asked, AskedOK, Rows, Steps, Selling, Again
  <2>3. AsksOK'
    <3>1. CASE row.status \in Claimable
      <4>1. req' = [req EXCEPT ![p].at = "s_recheck", ![p].file = row.file,
                               ![p].figures = row.figures]
        BY <1>14, <3>1 DEF SendClaim
      <4>. QED BY <2>2, <4>1, Taken DEF AsksOK
    <3>2. CASE row.status \notin Claimable
      BY <1>14, <3>2, Ended DEF SendClaim
    <3>. QED BY <3>1, <3>2
  <2>. QED BY <1>14, <2>1, <2>3 DEF SendClaim
<1>15. CASE SendRecheck(p)
  <2>1. row' \in Rows
    <3>1. req[p].row.status \in {"none", "generated", "sending", "sent", "failed", "superseded"}
          /\ req[p].row.to \in Recipients \cup {None}
      BY <1>0 DEF Rows
    <3>2. [row EXCEPT !.status = req[p].row.status, !.to = req[p].row.to, !.old = FALSE] \in Rows
      BY <3>1 DEF Rows
    <3>. QED BY <1>15, <3>2 DEF SendRecheck, Write, Rows
  <2>2. AsksOK'
    BY <1>15, Ended, Went DEF SendRecheck, Steps, Selling
  <2>. QED BY <1>15, <2>1, <2>2 DEF SendRecheck
<1>16. CASE SendCheck(p)
  <2>1. /\ [req[p] EXCEPT !.at = "s_record", !.out = "error"] \in Asked
        /\ AskedOK([req[p] EXCEPT !.at = "s_record", !.out = "error"])
    BY <1>0, <1>16 DEF SendCheck, Asked, AskedOK, Steps, Selling, Again
  <2>2. AsksOK'
    <3>1. CASE Goto(p, "s_mail")
      BY <1>16, <3>1, Went DEF SendCheck, Steps, Selling
    <3>2. CASE req' = [req EXCEPT ![p].at = "s_record", ![p].out = "error"]
      BY <2>1, <3>2, Taken DEF AsksOK
    <3>. QED BY <1>16, <3>1, <3>2 DEF SendCheck
  <2>. QED BY <1>16, <2>2 DEF SendCheck
<1>17. CASE SendMail(p)
  BY <1>17, Mailed DEF SendMail
<1>18. CASE SendRecord(p)
  <2>1. row' \in Rows
    BY <1>18 DEF SendRecord, Write, Rows
  <2>. QED BY <1>18, <2>1, Ended DEF SendRecord
<1>19. CASE SendRecordFails(p)
  <2>1. /\ [req[p] EXCEPT !.out = "error"] \in Asked
        /\ AskedOK([req[p] EXCEPT !.out = "error"])
    BY <1>0 DEF Asked, AskedOK
  <2>2. AsksOK'
    BY <1>19, <2>1, Taken DEF SendRecordFails, AsksOK
  <2>. QED BY <1>19, <2>2 DEF SendRecordFails
<1>20. CASE MarkClaim(p)
  <2>1. row' \in Rows
    BY ZenonT(60), <1>20 DEF MarkClaim, Write, Rows
  <2>2. AsksOK'
    BY <1>20, Ended, Went DEF MarkClaim, Steps, Marking, Selling, Again
  <2>. QED BY <1>20, <2>1, <2>2 DEF MarkClaim
<1>21. CASE MarkRecheck(p)
  <2>1. /\ req[p].row.via \in {"email", "external"} /\ req[p].row.unknown \in BOOLEAN
        /\ req[p].row.status \in {"none", "generated", "sending", "sent", "failed", "superseded"}
    BY <1>0 DEF Rows
  <2>2. [row EXCEPT !.status = req[p].row.status, !.via = req[p].row.via,
                    !.unknown = req[p].row.unknown, !.old = FALSE] \in Rows
    BY <2>1 DEF Rows
  <2>3. row' \in Rows
    BY <1>21, <2>2 DEF MarkRecheck, Write, Rows
  <2>. QED BY <1>21, <2>3, Ended DEF MarkRecheck
<1>22. CASE ResendReclaim(p)
  <2>1. PICK i \in DOMAIN events : events' = [events EXCEPT ![i].status =
                                        IF events[i].to \in logged THEN "sent" ELSE "failed"]
    BY <1>22 DEF ResendReclaim, InFlight
  <2>2. events' \in Seq(Resends)
    BY <2>1, EventSet
  <2>. QED BY <1>22, <2>2 DEF ResendReclaim, AsksOK
<1>23. CASE ResendClaim(p)
  <2>1. events' \in Seq(Resends)
    <3>1. [status |-> "sending", to |-> req[p].to, old |-> FALSE] \in Resends
      BY <1>0, <1>23 DEF ResendClaim, Resends, AskedOK, Again
    <3>2. \A e \in Resends : Append(events, e) \in Seq(Resends)
      OBVIOUS
    <3>. QED BY <1>23, <3>1, <3>2 DEF ResendClaim
  <2>0. Len(events) + 1 \in Nat /\ req[p].at = "r_decide"
    BY <1>23, LenProperties DEF ResendClaim
  <2>2. /\ [req[p] EXCEPT !.at = "r_check", !.event = Len(events) + 1] \in Asked
        /\ AskedOK([req[p] EXCEPT !.at = "r_check", !.event = Len(events) + 1])
    BY <1>0, <2>0 DEF Asked, AskedOK, Steps, Selling, Again
  <2>3. AsksOK'
    BY ZenonT(60), <1>23, <2>2, Ended, Taken DEF ResendClaim, AsksOK
  <2>. QED BY <1>23, <2>1, <2>3 DEF ResendClaim
<1>24. CASE ResendCheck(p)
  <2>1. /\ [req[p] EXCEPT !.at = "r_record", !.out = "error"] \in Asked
        /\ AskedOK([req[p] EXCEPT !.at = "r_record", !.out = "error"])
    BY <1>0, <1>24 DEF ResendCheck, Asked, AskedOK, Steps, Selling, Again
  <2>2. AsksOK'
    <3>1. CASE Goto(p, "r_mail")
      BY <1>24, <3>1, Went DEF ResendCheck, Steps, Again
    <3>2. CASE req' = [req EXCEPT ![p].at = "r_record", ![p].out = "error"]
      BY <2>1, <3>2, Taken DEF AsksOK
    <3>. QED BY <1>24, <3>1, <3>2 DEF ResendCheck
  <2>. QED BY <1>24, <2>2 DEF ResendCheck
<1>25. CASE ResendMail(p)
  BY <1>25, Mailed DEF ResendMail
<1>26. CASE ResendRecord(p)
  <2>1. events' \in Seq(Resends)
    <3>1. CASE req[p].event \in DOMAIN events
      BY <1>26, <3>1, EventSet DEF ResendRecord
    <3>2. CASE req[p].event \notin DOMAIN events
      <4>1. events' = events
        BY <1>26, <3>2, LenProperties DEF ResendRecord
      <4>. QED BY <4>1
    <3>. QED BY <3>1, <3>2
  <2>. QED BY <1>26, <2>1, Ended DEF ResendRecord
<1>. QED
  BY Work(p), <1>1, <1>2, <1>3, <1>4, <1>5, <1>6, <1>7, <1>8, <1>9, <1>10, <1>11, <1>12, <1>13,
     <1>14, <1>15, <1>16, <1>17, <1>18, <1>19, <1>20, <1>21, <1>22, <1>23, <1>24, <1>25, <1>26
     DEF Work

LEMMA TypedStep == Typed /\ [Next]_vars => Typed'
<1>. SUFFICES ASSUME Typed, [Next]_vars PROVE Typed'
  OBVIOUS
<1>1. ASSUME NEW p \in Requests, Crash(p) PROVE Typed'
  BY <1>1, Ended DEF Typed, StoreOK, CountsOK, Crash, store
<1>2. CASE Age
  <2>1. row' \in Rows
    BY <1>2 DEF Age, Typed, StoreOK, Rows
  <2>2. events' \in Seq(Resends)
    <3>1. ASSUME NEW i \in DOMAIN events PROVE [events EXCEPT ![i].old = TRUE] \in Seq(Resends)
      <4>1. i \in 1 .. Len(events) /\ events[i] \in Resends
        BY LenProperties, ElementOfSeq DEF Typed, StoreOK
      <4>2. [events[i] EXCEPT !.old = TRUE] \in Resends
        BY <4>1 DEF Resends
      <4>3. [events EXCEPT ![i].old = TRUE] = [events EXCEPT ![i] = [events[i] EXCEPT !.old = TRUE]]
        BY <4>1
      <4>. QED BY <4>1, <4>2, <4>3, ExceptSeq DEF Typed, StoreOK
    <3>. QED BY <1>2, <3>1 DEF Age, InFlight, Typed, StoreOK
  <2>. QED BY <1>2, <2>1, <2>2 DEF Age, Typed, StoreOK, AsksOK, CountsOK, bounds
<1>3. CASE UNCHANGED vars
  BY <1>3 DEF vars, Typed, StoreOK, AsksOK, CountsOK
<1>. QED BY <1>1, <1>2, <1>3, TypedPeople, TypedWork DEF Next

\* The columns of the link, the row, the documents, the events and the email log
\* keep their types through every handler, and a request names only documents
\* that exist.
THEOREM TypeCorrect == Spec => []TypeOK
<1>1. Typed => TypeOK
  <2>1. ASSUME Typed PROVE \A i \in DOMAIN events : events[i].status \in {"sending", "sent", "failed"}
    <3>1. ASSUME NEW i \in DOMAIN events PROVE events[i] \in Resends
      BY <2>1, LenProperties, ElementOfSeq DEF Typed, StoreOK
    <3>. QED BY <3>1 DEF Resends
  <2>2. ASSUME Typed PROVE \A p \in Requests : req[p].file \in FileIds \cup {None}
    BY <2>2 DEF Typed, AsksOK, Asked
  <2>. QED BY <2>1, <2>2 DEF Typed, StoreOK, TypeOK
<1>. QED BY <1>1, TypedInit, TypedStep, PTL DEF Spec

-----------------------------------------------------------------------------
(* Steps read field by field.                                               *)

\* A step of one request.
Acts(p) == People(p) \/ Work(p) \/ Crash(p)

LEMMA Alone ==
    ASSUME Typed, NEW p \in Requests, Acts(p)
    PROVE  \A q \in Requests \ {p} : req'[q] = req[q]
<1>. USE DEF Typed, AsksOK, Goto, Done, Command, Step, store, Mails
<1>1. CASE AddGc(p) \/ StartRemove(p) \/ StartSetAmounts(p) \/ StartRequest(p)
           \/ StartApprove(p) \/ Reject(p) \/ CompleteSendOut(p) \/ StartGenerate(p)
           \/ StartSend(p) \/ StartMark(p) \/ StartResend(p) \/ DeleteLink(p)
           \/ SetAmounts(p) \/ RequestChange(p) \/ RequestRecheck(p) \/ RequestRestore(p)
           \/ Approve(p) \/ Upload(p) \/ WriteGenerated(p) \/ DeleteFile(p) \/ Sweep(p)
           \/ SendReadLink(p) \/ SendReclaim(p) \/ SendSkip(p) \/ SendClaim(p)
           \/ SendRecheck(p) \/ SendCheck(p) \/ SendMail(p) \/ SendRecord(p)
           \/ SendRecordFails(p) \/ MarkClaim(p) \/ MarkRecheck(p) \/ ResendReclaim(p)
           \/ ResendClaim(p) \/ ResendCheck(p) \/ ResendMail(p) \/ ResendRecord(p)
           \/ Crash(p)
  BY <1>1 DEF AddGc, StartRemove, StartSetAmounts, StartRequest, StartApprove, Reject,
     CompleteSendOut, StartGenerate, StartSend, StartMark, StartResend, DeleteLink,
     SetAmounts, RequestChange, RequestRecheck, RequestRestore, Approve, Upload,
     WriteGenerated, DeleteFile, Sweep, SendReadLink, SendReclaim, SendSkip, SendClaim,
     SendRecheck, SendCheck, SendMail, SendRecord, SendRecordFails, MarkClaim, MarkRecheck,
     ResendReclaim, ResendClaim, ResendCheck, ResendMail, ResendRecord, Crash
<1>. QED
  BY <1>1 DEF Acts, People, Work

LEMMA Gone ==
    ASSUME Typed, NEW p \in Requests, NEW at, Goto(p, at)
    PROVE  /\ req'[p].at = at /\ req'[p].row = req[p].row /\ req'[p].link = req[p].link
           /\ req'[p].file = req[p].file /\ req'[p].to = req[p].to /\ req'[p].out = req[p].out
BY DEF Goto, Typed, AsksOK, Asked

LEMMA Stopped ==
    ASSUME Typed, NEW p \in Requests, Done(p)
    PROVE  req'[p].at = "idle"
BY DEF Done, Idle, Typed, AsksOK

\* What a handler that starts takes along.
LEMMA Starts ==
    ASSUME Typed, NEW p \in Requests
    PROVE  /\ StartSetAmounts(p) => req'[p].at = "e_write"
           /\ StartApprove(p) => req'[p].at = "a_write"
           /\ StartRequest(p) =>
                /\ link.on /\ link.approval # "pending"
                /\ req'[p].at = "q_write" /\ req'[p].link = link
           /\ StartGenerate(p) =>
                \/ /\ link.on /\ row.status \notin {"sending", "sent"}
                   /\ req'[p].at = "g_upload" /\ req'[p].row = row
                \/ /\ ~link.on /\ row.status \notin {"none", "sending", "sent", "superseded"}
                   /\ req'[p].at = "g_sweep"
           /\ StartSend(p) =>
                row.status # "none" /\ req'[p].at = "s_link" /\ req'[p].row = row
           /\ StartMark(p) =>
                row.status \in Claimable /\ req'[p].at = "m_claim" /\ req'[p].row = row
           /\ StartResend(p) =>
                /\ row.status = "sent" /\ (Calm => \A q \in Requests : ~Unsettled(q))
                /\ req'[p].at = "r_decide" /\ req'[p].file = row.file
<1>1. req \in [Requests -> Asked]
  BY DEF Typed, AsksOK
<1>2. ASSUME StartGenerate(p)
      PROVE  \/ /\ link.on /\ row.status \notin {"sending", "sent"}
                /\ req'[p].at = "g_upload" /\ req'[p].row = row
             \/ /\ ~link.on /\ row.status \notin {"none", "sending", "sent", "superseded"}
                /\ req'[p].at = "g_sweep"
  BY <1>1, <1>2 DEF StartGenerate, Idle
<1>3. ASSUME StartSetAmounts(p) PROVE req'[p].at = "e_write"
  BY <1>1, <1>3 DEF StartSetAmounts, Idle
<1>4. ASSUME StartApprove(p) PROVE req'[p].at = "a_write"
  BY <1>1, <1>4 DEF StartApprove, Idle
<1>5. ASSUME StartRequest(p)
      PROVE  /\ link.on /\ link.approval # "pending"
             /\ req'[p].at = "q_write" /\ req'[p].link = link
  BY <1>1, <1>5 DEF StartRequest, Idle
<1>6. ASSUME StartSend(p)
      PROVE  row.status # "none" /\ req'[p].at = "s_link" /\ req'[p].row = row
  BY <1>1, <1>6 DEF StartSend, Idle
<1>7. ASSUME StartMark(p)
      PROVE  row.status \in Claimable /\ req'[p].at = "m_claim" /\ req'[p].row = row
  BY <1>1, <1>7 DEF StartMark, Idle
<1>8. ASSUME StartResend(p)
      PROVE  /\ row.status = "sent" /\ (Calm => \A q \in Requests : ~Unsettled(q))
             /\ req'[p].at = "r_decide" /\ req'[p].file = row.file
  BY <1>1, <1>8 DEF StartResend, Idle
<1>. QED BY <1>2, <1>3, <1>4, <1>5, <1>6, <1>7, <1>8

\* The request after a step that changes more than its place.
LEMMA StartsAlone ==
    ASSUME NEW p, \/ StartSetAmounts(p) \/ StartApprove(p) \/ StartRequest(p) \/ StartGenerate(p)
                  \/ StartSend(p) \/ StartMark(p) \/ StartResend(p)
    PROVE  req[p].at = "idle" /\ UNCHANGED <<link, row, files, logged, mail>>
BY DEF StartSetAmounts, StartApprove, StartRequest, StartGenerate, StartSend, StartMark,
       StartResend, Command, store

LEMMA UploadAfter ==
    ASSUME Typed, NEW p \in Requests, Upload(p)
    PROVE  /\ req[p].at = "g_upload" /\ req[p].figures \in Figures
           /\ req'[p].at = "g_write" /\ req'[p].row = req[p].row
           /\ req'[p].file \in FileIds /\ files[req'[p].file] = None
           /\ files' = [files EXCEPT ![req'[p].file] = req[p].figures]
           /\ UNCHANGED <<link, row, logged, mail>>
<1>1. PICK f \in FileIds : 
        /\ files[f] = None
        /\ files' = [files EXCEPT ![f] = req[p].figures]
        /\ req' = [req EXCEPT ![p].at = "g_write", ![p].file = f]
  BY DEF Upload
<1>2. req'[p].at = "g_write" /\ req'[p].row = req[p].row /\ req'[p].file = f
  BY <1>1 DEF Typed, AsksOK, Asked
<1>. QED BY <1>1, <1>2 DEF Upload, Step, Typed, AsksOK, AskedOK

LEMMA WriteAfter ==
    ASSUME Typed, NEW p \in Requests, WriteGenerated(p)
    PROVE  /\ req[p].at = "g_write" /\ req'[p].at = "g_delete"
           /\ \/ /\ row.status = req[p].row.status /\ row.file = req[p].row.file
                 /\ row'.status = "generated" /\ row'.file = req[p].file /\ row'.via = row.via
                 /\ ~row'.log /\ ~row'.old /\ req'[p].file = row.file
              \/ row' = row /\ req'[p].file = req[p].file
           /\ UNCHANGED <<link, files, logged, mail>>
<1>1. req[p] \in Asked /\ req \in [Requests -> Asked]
  BY DEF Typed, AsksOK
<1>2. CASE Unchanged(req[p].row)
  <2>1. /\ row' = [Generated(req[p].file) EXCEPT !.old = FALSE]
        /\ req' = [req EXCEPT ![p].at = "g_delete", ![p].file = req[p].row.file]
    BY <1>2 DEF WriteGenerated, Write
  <2>2. req'[p].at = "g_delete" /\ req'[p].file = req[p].row.file
    BY <1>1, <2>1 DEF Asked
  <2>3. /\ row'.status = "generated" /\ row'.file = req[p].file /\ row'.via = row.via
        /\ ~row'.log /\ ~row'.old
    BY <2>1 DEF Generated, NoRow
  <2>. QED BY <1>2, <2>2, <2>3 DEF WriteGenerated, Step, Unchanged
<1>3. CASE ~Unchanged(req[p].row)
  BY <1>3, Gone DEF WriteGenerated, Step
<1>. QED BY <1>2, <1>3

LEMMA ReadLinkAfter ==
    ASSUME Typed, NEW p \in Requests, SendReadLink(p)
    PROVE  /\ req[p].at = "s_link" /\ req'[p].at = "s_decide"
           /\ req'[p].row = req[p].row /\ req'[p].link = link
           /\ UNCHANGED store
BY DEF SendReadLink, Step, store, Typed, AsksOK, Asked

LEMMA ReclaimAfter ==
    ASSUME Typed, NEW p \in Requests, SendReclaim(p)
    PROVE  /\ req[p].at = "s_decide" /\ req'[p].at = "s_decide" /\ req'[p].link = req[p].link
           /\ req[p].row.status = "sending" /\ req[p].row.old /\ (Calm => row = req[p].row)
           /\ IF req[p].row.to \in logged THEN row'.status = "sent" /\ row'.log
                                          ELSE row'.status = "failed"
           /\ req'[p].row.status = row'.status
           /\ row'.file = row.file /\ row'.via = row.via /\ ~row'.old
           /\ UNCHANGED <<link, files, logged, mail>>
<1>1. /\ row' = [Reclaimed(req[p].row) EXCEPT !.old = FALSE]
      /\ req' = [req EXCEPT ![p].row = Reclaimed(req[p].row)]
  BY DEF SendReclaim, Write
<1>2. /\ IF req[p].row.to \in logged THEN row'.status = "sent" /\ row'.log
                                     ELSE row'.status = "failed"
      /\ Reclaimed(req[p].row).status = row'.status
      /\ row'.file = row.file /\ row'.via = row.via /\ ~row'.old
  BY <1>1 DEF Reclaimed, Proved, Typed, StoreOK, Rows
<1>3. /\ req'[p].at = req[p].at /\ req'[p].link = req[p].link
      /\ req'[p].row = Reclaimed(req[p].row)
  BY <1>1 DEF Typed, AsksOK, Asked
<1>. QED BY <1>2, <1>3 DEF SendReclaim, Step

LEMMA ClaimAfter ==
    ASSUME Typed, NEW p \in Requests, SendClaim(p)
    PROVE  /\ req[p].at = "s_decide" /\ ~Skips(req[p]) /\ req[p].row.status # "sending"
           /\ \/ /\ row.status \in Claimable
                 /\ row'.status = "sending" /\ row'.file = row.file /\ row'.to = req[p].to
                 /\ row'.via = row.via /\ ~row'.old
                 /\ req'[p].at = "s_recheck" /\ req'[p].file = row.file /\ req'[p].to = req[p].to
                 /\ req'[p].row = req[p].row /\ req'[p].link = req[p].link
              \/ req'[p].at = "idle" /\ row' = row
           /\ UNCHANGED <<link, files, logged, mail>>
<1>1. CASE row.status \in Claimable
  <2>1. /\ row' = [[row EXCEPT !.status = "sending", !.to = req[p].to] EXCEPT !.old = FALSE]
        /\ req' = [req EXCEPT ![p].at = "s_recheck", ![p].file = row.file,
                              ![p].figures = row.figures]
    BY <1>1 DEF SendClaim, Write
  <2>2. /\ row'.status = "sending" /\ row'.file = row.file /\ row'.to = req[p].to
        /\ row'.via = row.via /\ ~row'.old
    BY <2>1 DEF Typed, StoreOK, Rows
  <2>3. /\ req'[p].at = "s_recheck" /\ req'[p].file = row.file /\ req'[p].to = req[p].to
        /\ req'[p].row = req[p].row /\ req'[p].link = req[p].link
    BY <2>1 DEF Typed, AsksOK, Asked
  <2>. QED BY <1>1, <2>2, <2>3 DEF SendClaim, Step
<1>2. CASE row.status \notin Claimable
  BY <1>2, Stopped DEF SendClaim, Step
<1>. QED BY <1>1, <1>2

LEMMA RecheckAfter ==
    ASSUME Typed, NEW p \in Requests, SendRecheck(p)
    PROVE  /\ req[p].at = "s_recheck"
           /\ \/ /\ PendingNow /\ row.status = "sending" /\ req'[p].at = "idle"
                 /\ row'.status = req[p].row.status
                 /\ row'.file = row.file /\ row'.via = row.via /\ ~row'.old
              \/ PendingNow /\ row.status # "sending" /\ row' = row /\ req'[p].at = "idle"
              \/ /\ ~PendingNow /\ row' = row /\ req'[p].at = "s_check"
                 /\ req'[p].row = req[p].row /\ req'[p].link = req[p].link
                 /\ req'[p].file = req[p].file /\ req'[p].to = req[p].to
           /\ UNCHANGED <<link, files, logged, mail>>
<1>1. CASE PendingNow /\ row.status = "sending"
  <2>1. row' = [[row EXCEPT !.status = req[p].row.status, !.to = req[p].row.to] EXCEPT !.old = FALSE]
    BY <1>1 DEF SendRecheck, Write
  <2>2. row'.status = req[p].row.status /\ row'.file = row.file /\ row'.via = row.via /\ ~row'.old
    BY <2>1 DEF Typed, StoreOK, Rows
  <2>. QED BY <1>1, <2>2, Stopped DEF SendRecheck, Step
<1>2. CASE ~(PendingNow /\ row.status = "sending")
  BY <1>2, Gone, Stopped DEF SendRecheck, Step
<1>. QED BY <1>1, <1>2

LEMMA CheckAfter ==
    ASSUME Typed, NEW p \in Requests, SendCheck(p)
    PROVE  /\ req[p].at = "s_check"
           /\ req'[p].row = req[p].row /\ req'[p].link = req[p].link
           /\ req'[p].file = req[p].file /\ req'[p].to = req[p].to
           /\ \/ req'[p].at = "s_mail" /\ req[p].link.on
              \/ req'[p].at = "s_record" /\ req'[p].out = "error"
           /\ UNCHANGED store
<1>1. CASE Passes(req[p]) /\ Goto(p, "s_mail")
  BY <1>1, Gone DEF SendCheck, Step, Passes
<1>2. CASE req' = [req EXCEPT ![p].at = "s_record", ![p].out = "error"]
  BY <1>2 DEF SendCheck, Step, Typed, AsksOK, Asked
<1>. QED BY <1>1, <1>2 DEF SendCheck, store

LEMMA MailAfter ==
    ASSUME Typed, NEW p \in Requests, NEW kind, NEW next, Mails(p, kind, next)
    PROVE  /\ req'[p].at = next /\ req'[p].out \in {"ok", "unknown", "error"}
           /\ req'[p].row = req[p].row /\ req'[p].link = req[p].link
           /\ req'[p].file = req[p].file /\ req'[p].to = req[p].to
           /\ IF req'[p].out = "ok" THEN Accepted(p, kind) ELSE Unproved(p, kind)
<1>1. PICK out \in {"ok", "unknown", "error"} :
        /\ req' = [req EXCEPT ![p].at = next, ![p].out = out]
        /\ IF out = "ok" THEN Accepted(p, kind) ELSE Unproved(p, kind)
  BY MailOutcome
<1>2. /\ req'[p].at = next /\ req'[p].out = out
      /\ req'[p].row = req[p].row /\ req'[p].link = req[p].link
      /\ req'[p].file = req[p].file /\ req'[p].to = req[p].to
  BY <1>1 DEF Typed, AsksOK, Asked
<1>. QED BY <1>1, <1>2

LEMMA SendMailAfter ==
    ASSUME Typed, NEW p \in Requests, SendMail(p)
    PROVE  /\ req[p].at = "s_mail" /\ req'[p].at = "s_record"
           /\ req'[p].row = req[p].row /\ req'[p].link = req[p].link
           /\ req'[p].file = req[p].file /\ req'[p].to = req[p].to
           /\ IF req'[p].out = "ok" THEN Accepted(p, "initial") ELSE Unproved(p, "initial")
           /\ UNCHANGED <<link, row, files>>
<1>1. Mails(p, "initial", "s_record")
  BY DEF SendMail
<1>2. /\ req'[p].at = "s_record"
      /\ req'[p].row = req[p].row /\ req'[p].link = req[p].link
      /\ req'[p].file = req[p].file /\ req'[p].to = req[p].to
      /\ IF req'[p].out = "ok" THEN Accepted(p, "initial") ELSE Unproved(p, "initial")
  BY <1>1, MailAfter
<1>3. req[p].at = "s_mail" /\ UNCHANGED <<link, row, files>>
  BY <1>1 DEF Mails
<1>. QED BY <1>2, <1>3

LEMMA ResendMailAfter ==
    ASSUME Typed, NEW p \in Requests, ResendMail(p)
    PROVE  /\ req[p].at = "r_mail" /\ req'[p].at = "r_record" /\ req'[p].file = req[p].file
           /\ IF req'[p].out = "ok" THEN Accepted(p, "resend") ELSE Unproved(p, "resend")
           /\ UNCHANGED <<link, row, files>>
<1>1. Mails(p, "resend", "r_record")
  BY DEF ResendMail
<1>2. /\ req'[p].at = "r_record" /\ req'[p].file = req[p].file
      /\ IF req'[p].out = "ok" THEN Accepted(p, "resend") ELSE Unproved(p, "resend")
  BY <1>1, MailAfter
<1>3. req[p].at = "r_mail" /\ UNCHANGED <<link, row, files>>
  BY <1>1 DEF Mails
<1>. QED BY <1>2, <1>3

LEMMA RecordAfter ==
    ASSUME Typed, NEW p \in Requests, SendRecord(p)
    PROVE  /\ req[p].at = "s_record" /\ req'[p].at = "idle"
           /\ IF req[p].out = "ok" THEN row'.status = "sent" /\ row'.log
                                   ELSE row'.status = "failed"
           /\ row'.file = row.file /\ row'.via = row.via /\ ~row'.old
           /\ UNCHANGED <<link, files, logged, mail>>
<1>1. row' = [(IF req[p].out = "ok"
               THEN [row EXCEPT !.status = "sent", !.log = TRUE, !.unknown = FALSE]
               ELSE [row EXCEPT !.status = "failed", !.unknown = req[p].out = "unknown"])
              EXCEPT !.old = FALSE]
  BY DEF SendRecord, Write
<1>2. /\ IF req[p].out = "ok" THEN row'.status = "sent" /\ row'.log
                              ELSE row'.status = "failed"
      /\ row'.file = row.file /\ row'.via = row.via /\ ~row'.old
  BY <1>1 DEF Typed, StoreOK, Rows
<1>. QED BY <1>2, Stopped DEF SendRecord, Step

LEMMA RecordFailsAfter ==
    ASSUME Typed, NEW p \in Requests, SendRecordFails(p)
    PROVE  /\ req[p].at = "s_record" /\ req'[p].at = "s_record" /\ req'[p].out = "error"
           /\ req'[p].row = req[p].row /\ req'[p].link = req[p].link
           /\ req'[p].file = req[p].file /\ req'[p].to = req[p].to
           /\ faults' = faults + 1
           /\ UNCHANGED store
BY DEF SendRecordFails, Typed, AsksOK, Asked

LEMMA RetiredAfter ==
    ASSUME Typed, NEW p \in Requests, Write([row EXCEPT !.status = "superseded"])
    PROVE  /\ row'.status = "superseded" /\ row'.file = row.file /\ row'.via = row.via
           /\ ~row'.old
BY DEF Write, Typed, StoreOK, Rows

LEMMA MarkAfter ==
    ASSUME Typed, NEW p \in Requests, MarkClaim(p)
    PROVE  /\ req[p].at = "m_claim"
           /\ \/ /\ row.status \in Claimable
                 /\ row'.status = "sent" /\ row'.file = row.file /\ row'.via = "external"
                 /\ ~row'.log /\ ~row'.old
                 /\ req'[p].at = "m_recheck" /\ req'[p].row = req[p].row
              \/ req'[p].at = "idle" /\ row' = row
           /\ UNCHANGED <<link, files, logged, mail>>
<1>1. CASE row.status \in Claimable
  <2>1. row' = [[row EXCEPT !.status = "sent", !.via = "external", !.to = None,
                            !.log = FALSE, !.unknown = FALSE] EXCEPT !.old = FALSE]
    BY <1>1 DEF MarkClaim, Write
  <2>2. /\ row'.status = "sent" /\ row'.file = row.file /\ row'.via = "external"
        /\ ~row'.log /\ ~row'.old
    BY <2>1 DEF Typed, StoreOK, Rows
  <2>. QED BY <1>1, <2>2, Gone DEF MarkClaim, Step
<1>2. CASE row.status \notin Claimable
  BY <1>2, Stopped DEF MarkClaim, Step
<1>. QED BY <1>1, <1>2

LEMMA UnmarkAfter ==
    ASSUME Typed, NEW p \in Requests, MarkRecheck(p)
    PROVE  /\ req[p].at = "m_recheck" /\ req'[p].at = "idle"
           /\ IF PendingNow /\ row.status = "sent" /\ ~row.log
              THEN row'.status = req[p].row.status /\ row'.file = row.file /\ ~row'.old
              ELSE row' = row
           /\ UNCHANGED <<link, files, logged, mail>>
<1>1. CASE PendingNow /\ row.status = "sent" /\ ~row.log
  <2>1. row' = [[row EXCEPT !.status = req[p].row.status, !.via = req[p].row.via,
                            !.unknown = req[p].row.unknown] EXCEPT !.old = FALSE]
    BY <1>1 DEF MarkRecheck, Write
  <2>2. row'.status = req[p].row.status /\ row'.file = row.file /\ ~row'.old
    BY <2>1 DEF Typed, StoreOK, Rows
  <2>. QED BY <1>1, <2>2, Stopped DEF MarkRecheck, Step
<1>2. CASE ~(PendingNow /\ row.status = "sent" /\ ~row.log)
  BY <1>2, Stopped DEF MarkRecheck, Step
<1>. QED BY <1>1, <1>2

LEMMA ResendAfter ==
    ASSUME Typed, NEW p \in Requests, ResendClaim(p) \/ ResendCheck(p)
    PROVE  /\ req[p].at \in {"r_decide", "r_check"}
           /\ \/ /\ req'[p].at \in {"r_check", "r_mail", "r_record"}
                 /\ req'[p].file = req[p].file
              \/ req'[p].at = "idle"
           /\ UNCHANGED <<link, row, files, logged, mail>>
<1>1. CASE req' = [req EXCEPT ![p].at = "r_check", ![p].event = Len(events) + 1]
  BY <1>1 DEF ResendClaim, ResendCheck, Step, store, Typed, AsksOK, Asked
<1>2. CASE req' = [req EXCEPT ![p].at = "r_record", ![p].out = "error"]
  BY <1>2 DEF ResendClaim, ResendCheck, Step, store, Typed, AsksOK, Asked
<1>3. CASE Goto(p, "r_mail")
  BY <1>3, Gone DEF ResendClaim, ResendCheck, Step, store
<1>4. CASE Done(p)
  BY <1>4, Stopped DEF ResendClaim, ResendCheck, Step, store
<1>. QED BY <1>1, <1>2, <1>3, <1>4 DEF ResendClaim, ResendCheck, store

LEMMA LinkAfter ==
    ASSUME Typed, NEW p \in Requests
    PROVE  /\ AddGc(p) => link'.on /\ link'.approval = "none"
           /\ DeleteLink(p) =>
                /\ link'.approval = link.approval
                /\ link'.on = (link.on /\ row.status = "sending")
           /\ SetAmounts(p) => link'.on = link.on /\ link'.approval = link.approval
           /\ RequestChange(p) =>
                /\ req[p].at = "q_write" /\ link'.on = link.on
                /\ \/ req'[p].at = "q_recheck" /\ req'[p].link = req[p].link
                   \/ req'[p].at = "idle" /\ link' = link
           /\ Approve(p) => link'.on = link.on /\ link'.approval \in {link.approval, "approved"}
           /\ Reject(p) => link'.on = link.on /\ link'.approval = "rejected"
<1>1. link \in Links
  BY DEF Typed, StoreOK
<1>2. ASSUME RequestChange(p)
      PROVE  /\ req[p].at = "q_write" /\ link'.on = link.on
             /\ \/ req'[p].at = "q_recheck" /\ req'[p].link = req[p].link
                \/ req'[p].at = "idle" /\ link' = link
  BY ZenonT(60), <1>1, <1>2, Gone, Stopped DEF RequestChange, Links, Step
<1>3. DeleteLink(p) =>
        /\ link'.approval = link.approval
        /\ link'.on = (link.on /\ row.status = "sending")
  BY <1>1 DEF DeleteLink, MayUnlink, Links
<1>4. SetAmounts(p) => link'.on = link.on /\ link'.approval = link.approval
  BY <1>1 DEF SetAmounts, Links
<1>5. Approve(p) => link'.on = link.on /\ link'.approval \in {link.approval, "approved"}
  BY <1>1 DEF Approve, Links
<1>6. Reject(p) => link'.on = link.on /\ link'.approval = "rejected"
  BY <1>1 DEF Reject, Links
<1>7. AddGc(p) => link'.on /\ link'.approval = "none"
  BY DEF AddGc, NewLink
<1>. QED BY <1>2, <1>3, <1>4, <1>5, <1>6, <1>7

LEMMA Counted ==
    ASSUME Typed, NEW p \in Requests, Acts(p)
    PROVE  (crashes' = 0 => crashes = 0) /\ (faults' = 0 => faults = 0)
<1>. USE DEF Typed, CountsOK, Command, Step, bounds, Mails
<1>1. CASE AddGc(p) \/ StartRemove(p) \/ StartSetAmounts(p) \/ StartRequest(p)
           \/ StartApprove(p) \/ Reject(p) \/ CompleteSendOut(p) \/
           StartGenerate(p)
  BY <1>1 DEF AddGc, StartRemove, StartSetAmounts, StartRequest, StartApprove, Reject,
     CompleteSendOut, StartGenerate
<1>2. CASE StartSend(p) \/ StartMark(p) \/ StartResend(p) \/ DeleteLink(p) \/
           SetAmounts(p) \/ RequestChange(p) \/ RequestRecheck(p) \/
           RequestRestore(p)
  BY <1>2 DEF StartSend, StartMark, StartResend, DeleteLink, SetAmounts, RequestChange,
     RequestRecheck, RequestRestore
<1>3. CASE Approve(p) \/ Upload(p) \/ WriteGenerated(p) \/ DeleteFile(p) \/
           Sweep(p) \/ SendReadLink(p) \/ SendReclaim(p) \/ SendSkip(p)
  BY <1>3 DEF Approve, Upload, WriteGenerated, DeleteFile, Sweep, SendReadLink,
     SendReclaim, SendSkip
<1>4. CASE SendClaim(p) \/ SendRecheck(p) \/ SendCheck(p) \/ SendRecord(p) \/
           SendRecordFails(p) \/ MarkClaim(p) \/ MarkRecheck(p)
  BY <1>4 DEF SendClaim, SendRecheck, SendCheck, SendRecord, SendRecordFails, MarkClaim,
     MarkRecheck
<1>5. CASE ResendReclaim(p) \/ ResendClaim(p) \/ ResendCheck(p) \/
           ResendRecord(p) \/ Crash(p)
  BY <1>5 DEF ResendReclaim, ResendClaim, ResendCheck, ResendRecord, Crash
<1>6. CASE SendMail(p)
  <2>1. crashes' = crashes /\ faults' \in {faults, faults + 1}
    BY <1>6 DEF SendMail
  <2>. QED BY <2>1
<1>7. CASE ResendMail(p)
  <2>1. crashes' = crashes /\ faults' \in {faults, faults + 1}
    BY <1>7 DEF ResendMail
  <2>. QED BY <2>1
<1>. QED
  BY <1>1, <1>2, <1>3, <1>4, <1>5, <1>6, <1>7 DEF Acts, People, Work

-----------------------------------------------------------------------------
(* What a request read, and the documents.                                  *)

LEMMA ReadStep ==
    ASSUME Typed, Reads, Named, NEW p \in Requests, Acts(p)
    PROVE  ReadOK(req'[p])
<1>0. req[p] \in Asked /\ ReadOK(req[p]) /\ req \in [Requests -> Asked] /\ req[p].row \in Rows
  BY DEF Typed, AsksOK, Reads, Asked
<1>. USE DEF Command, Step, Named, ReadOK, Selling, Marking, Pricing, Claimable
<1>1. CASE AddGc(p) \/ Reject(p) \/ CompleteSendOut(p) \/ ResendReclaim(p)
  BY <1>1, <1>0 DEF AddGc, Reject, CompleteSendOut, ResendReclaim
<1>2. CASE StartRemove(p)
  BY <1>2, <1>0, Gone DEF StartRemove
<1>3. CASE StartSetAmounts(p) \/ StartRequest(p) \/ StartApprove(p) \/ StartGenerate(p)
           \/ StartSend(p) \/ StartMark(p) \/ StartResend(p)
  BY <1>3, <1>0, Starts, StartsAlone
<1>4. CASE DeleteLink(p) \/ SetAmounts(p) \/ RequestRestore(p) \/ Approve(p)
           \/ DeleteFile(p) \/ Sweep(p) \/ SendSkip(p) \/ ResendRecord(p) \/ Crash(p)
  BY <1>4, <1>0, Stopped DEF DeleteLink, SetAmounts, RequestRestore, Approve, DeleteFile,
     Sweep, SendSkip, ResendRecord, Crash
<1>5. CASE RequestChange(p) \/ RequestRecheck(p)
  BY <1>5, <1>0, Gone, Stopped DEF RequestChange, RequestRecheck
<1>6. CASE Upload(p)
  BY <1>6, <1>0, UploadAfter
<1>7. CASE WriteGenerated(p)
  BY <1>7, <1>0, WriteAfter
<1>8. CASE SendReadLink(p)
  BY <1>8, <1>0, ReadLinkAfter
<1>9. CASE SendReclaim(p)
  BY <1>9, <1>0, ReclaimAfter
<1>10. CASE SendClaim(p)
  BY <1>10, <1>0, ClaimAfter DEF Skips, Rows
<1>11. CASE SendRecheck(p)
  BY <1>11, <1>0, RecheckAfter
<1>12. CASE SendCheck(p)
  BY <1>12, <1>0, CheckAfter
<1>13. CASE SendMail(p)
  BY <1>13, <1>0, SendMailAfter
<1>14. CASE SendRecord(p)
  BY <1>14, <1>0, RecordAfter
<1>15. CASE SendRecordFails(p)
  BY <1>15, <1>0, RecordFailsAfter
<1>16. CASE MarkClaim(p)
  BY <1>16, <1>0, MarkAfter
<1>17. CASE MarkRecheck(p)
  BY <1>17, <1>0, UnmarkAfter
<1>18. CASE ResendClaim(p) \/ ResendCheck(p)
  BY <1>18, <1>0, ResendAfter
<1>19. CASE ResendMail(p)
  BY <1>19, <1>0, ResendMailAfter
<1>. QED
  BY <1>1, <1>2, <1>3, <1>4, <1>5, <1>6, <1>7, <1>8, <1>9, <1>10, <1>11, <1>12, <1>13, <1>14,
     <1>15, <1>16, <1>17, <1>18, <1>19 DEF Acts, People, Work

LEMMA NamedStep ==
    ASSUME Typed, Reads, Named, NEW p \in Requests, Acts(p)
    PROVE  /\ row.status # "none" => row'.status # "none"
           /\ req'[p].at \in Selling \cup Marking \cup {"g_sweep"} => row'.status # "none"
<1>0. req[p] \in Asked /\ ReadOK(req[p]) /\ req \in [Requests -> Asked] /\ req[p].row \in Rows
  BY DEF Typed, AsksOK, Reads, Asked
<1>. USE DEF Command, Step, store, Named, ReadOK, Selling, Marking, Claimable
<1>1. CASE AddGc(p) \/ Reject(p) \/ CompleteSendOut(p) \/ ResendReclaim(p)
  BY <1>1, <1>0 DEF AddGc, Reject, CompleteSendOut, ResendReclaim
<1>2. CASE StartRemove(p)
  BY <1>2, <1>0, Gone, RetiredAfter DEF StartRemove
<1>3. CASE StartSetAmounts(p) \/ StartRequest(p) \/ StartApprove(p) \/ StartGenerate(p)
           \/ StartSend(p) \/ StartMark(p) \/ StartResend(p)
  BY <1>3, <1>0, Starts, StartsAlone DEF StartSetAmounts, StartRequest, StartApprove,
     StartGenerate, StartSend, StartMark, StartResend
<1>4. CASE DeleteLink(p) \/ SetAmounts(p) \/ RequestRestore(p) \/ Approve(p)
           \/ DeleteFile(p) \/ SendSkip(p) \/ ResendRecord(p) \/ Crash(p)
  BY <1>4, <1>0, Stopped DEF DeleteLink, SetAmounts, RequestRestore, Approve, DeleteFile,
     SendSkip, ResendRecord, Crash
<1>5. CASE RequestChange(p) \/ RequestRecheck(p)
  BY <1>5, <1>0, Gone, Stopped DEF RequestChange, RequestRecheck
<1>6. CASE Upload(p)
  BY <1>6, <1>0, UploadAfter DEF Upload
<1>7. CASE WriteGenerated(p)
  BY <1>7, <1>0, WriteAfter DEF WriteGenerated
<1>8. CASE Sweep(p)
  BY <1>8, <1>0, Stopped, RetiredAfter DEF Sweep
<1>9. CASE SendReadLink(p)
  BY <1>9, <1>0, ReadLinkAfter DEF SendReadLink
<1>10. CASE SendReclaim(p)
  BY <1>10, <1>0, ReclaimAfter DEF SendReclaim
<1>11. CASE SendClaim(p)
  BY <1>11, <1>0, ClaimAfter DEF SendClaim, Skips, Rows
<1>12. CASE SendRecheck(p)
  BY <1>12, <1>0, RecheckAfter DEF SendRecheck
<1>13. CASE SendCheck(p)
  BY <1>13, <1>0, CheckAfter DEF SendCheck
<1>14. CASE SendMail(p)
  BY <1>14, <1>0, SendMailAfter DEF SendMail
<1>15. CASE SendRecord(p)
  BY <1>15, <1>0, RecordAfter DEF SendRecord
<1>16. CASE SendRecordFails(p)
  BY <1>16, <1>0, RecordFailsAfter DEF SendRecordFails
<1>17. CASE MarkClaim(p)
  BY <1>17, <1>0, MarkAfter DEF MarkClaim
<1>18. CASE MarkRecheck(p)
  BY <1>18, <1>0, UnmarkAfter DEF MarkRecheck
<1>19. CASE ResendClaim(p) \/ ResendCheck(p)
  BY <1>19, <1>0, ResendAfter DEF ResendClaim, ResendCheck
<1>20. CASE ResendMail(p)
  BY <1>20, <1>0, ResendMailAfter DEF ResendMail
<1>. QED
  BY <1>1, <1>2, <1>3, <1>4, <1>5, <1>6, <1>7, <1>8, <1>9, <1>10, <1>11, <1>12, <1>13, <1>14,
     <1>15, <1>16, <1>17, <1>18, <1>19, <1>20 DEF Acts, People, Work

LEMMA SameDocs ==
    ASSUME RowHasFile, OwnFiles, NEW p \in Requests, UNCHANGED files,
           row' = row \/ (row.status # "none" /\ row'.status # "none" /\ row'.file = row.file),
           \A q \in Requests \ {p} : req'[q] = req[q],
           req'[p].at \notin {"g_write", "g_delete"}
    PROVE  RowHasFile' /\ OwnFiles'
BY DEF RowHasFile, OwnFiles, Owns

LEMMA FilesStep ==
    ASSUME Typed, Reads, Named, RowHasFile, OwnFiles, NEW p \in Requests, Acts(p)
    PROVE  RowHasFile' /\ OwnFiles'
<1>0. \A q \in Requests \ {p} : req'[q] = req[q]
  BY Alone
<1>n. row.status # "none" => row'.status # "none"
  BY NamedStep
<1>. USE DEF Command, Step, store, Named, Selling, Marking, Claimable
<1>1. CASE AddGc(p)
  BY <1>1, SameDocs, <1>0, <1>n DEF AddGc
<1>2. CASE StartRemove(p)
  BY <1>2, SameDocs, <1>0, <1>n, Gone, RetiredAfter DEF StartRemove
<1>3. CASE StartSetAmounts(p)
  BY <1>3, SameDocs, <1>0, <1>n, Starts, StartsAlone DEF StartSetAmounts
<1>4. CASE StartRequest(p)
  BY <1>4, SameDocs, <1>0, <1>n, Starts, StartsAlone DEF StartRequest
<1>5. CASE StartApprove(p)
  BY <1>5, SameDocs, <1>0, <1>n, Starts, StartsAlone DEF StartApprove
<1>6. CASE Reject(p)
  BY <1>6, SameDocs, <1>0, <1>n DEF Reject
<1>7. CASE CompleteSendOut(p)
  BY <1>7, SameDocs, <1>0, <1>n DEF CompleteSendOut
<1>8. CASE StartGenerate(p)
  BY <1>8, SameDocs, <1>0, <1>n, Starts, StartsAlone DEF StartGenerate
<1>9. CASE StartSend(p)
  BY <1>9, SameDocs, <1>0, <1>n, Starts, StartsAlone DEF StartSend
<1>10. CASE StartMark(p)
  BY <1>10, SameDocs, <1>0, <1>n, Starts, StartsAlone DEF StartMark
<1>11. CASE StartResend(p)
  BY <1>11, SameDocs, <1>0, <1>n, Starts, StartsAlone DEF StartResend
<1>12. CASE DeleteLink(p)
  BY <1>12, SameDocs, <1>0, <1>n, Stopped DEF DeleteLink
<1>13. CASE SetAmounts(p)
  BY <1>13, SameDocs, <1>0, <1>n, Stopped DEF SetAmounts
<1>14. CASE RequestChange(p)
  BY <1>14, SameDocs, <1>0, <1>n, Gone, Stopped DEF RequestChange
<1>15. CASE RequestRecheck(p)
  BY <1>15, SameDocs, <1>0, <1>n, Gone, Stopped DEF RequestRecheck
<1>16. CASE RequestRestore(p)
  BY <1>16, SameDocs, <1>0, <1>n, Stopped DEF RequestRestore
<1>17. CASE Approve(p)
  BY <1>17, SameDocs, <1>0, <1>n, Stopped DEF Approve
<1>18. CASE Upload(p)
  <2>. DEFINE f == req'[p].file
  <2>1. /\ files' = [files EXCEPT ![f] = req[p].figures] /\ req[p].figures # None
        /\ f \in FileIds /\ files[f] = None /\ files \in [FileIds -> Figures \cup {None}]
        /\ req'[p].at = "g_write" /\ row' = row
    BY <1>18, UploadAfter DEF Upload, Typed, StoreOK
  <2>2. f # row.file /\ \A q \in Requests \ {p} : Owns(q) => req[q].file # f
    BY <2>1 DEF RowHasFile, OwnFiles, FileIds
  <2>. HIDE DEF f
  <2>3. \A g \in FileIds : files[g] # None => files'[g] # None
    BY <2>1
  <2>4. files'[f] # None
    BY <2>1
  <2>5. RowHasFile'
    BY <2>1, <2>3 DEF RowHasFile
  <2>6. OwnFiles'
    BY <1>0, <2>1, <2>2, <2>3, <2>4 DEF OwnFiles, Owns, f
  <2>. QED BY <2>5, <2>6
<1>19. CASE WriteGenerated(p)
  <2>1. req[p].file \in FileIds /\ files[req[p].file] # None /\ req[p].file # row.file
    BY <1>19, WriteAfter DEF OwnFiles, Owns
  <2>2. files' = files /\ Owns(p) /\ req'[p].at = "g_delete"
    BY <1>19, WriteAfter DEF WriteGenerated, Owns
  <2>3. CASE /\ row'.status = "generated" /\ row'.file = req[p].file
             /\ req'[p].file = row.file
    BY <1>0, <2>1, <2>2, <2>3 DEF RowHasFile, OwnFiles, Owns
  <2>4. CASE row' = row /\ req'[p].file = req[p].file
    BY <1>0, <2>1, <2>2, <2>4 DEF RowHasFile, OwnFiles, Owns
  <2>. QED BY <1>19, <2>3, <2>4, WriteAfter
<1>20. CASE DeleteFile(p)
  <2>1. CASE req[p].file = None
    BY <1>0, <1>20, <2>1, SameDocs, Stopped DEF DeleteFile
  <2>2. CASE req[p].file # None
    <3>1. /\ Owns(p) /\ ~Owns(p)' /\ row' = row
          /\ files' = [files EXCEPT ![req[p].file] = None]
      BY <1>20, <2>2, Stopped DEF DeleteFile, Owns
    <3>2. \A g \in FileIds : g # req[p].file => files'[g] = files[g]
      BY <3>1 DEF Typed, StoreOK
    <3>3. RowHasFile'
      BY <3>1, <3>2 DEF RowHasFile, OwnFiles
    <3>4. OwnFiles'
      BY <1>0, <3>1, <3>2 DEF OwnFiles, Owns
    <3>. QED BY <3>3, <3>4
  <2>. QED BY <2>1, <2>2
<1>21. CASE Sweep(p)
  BY <1>21, SameDocs, <1>0, <1>n, Stopped, RetiredAfter DEF Sweep
<1>22. CASE SendReadLink(p)
  BY <1>22, SameDocs, <1>0, <1>n, ReadLinkAfter DEF SendReadLink
<1>23. CASE SendReclaim(p)
  BY <1>23, SameDocs, <1>0, <1>n, ReclaimAfter DEF SendReclaim
<1>24. CASE SendSkip(p)
  BY <1>24, SameDocs, <1>0, <1>n, Stopped DEF SendSkip
<1>25. CASE SendClaim(p)
  BY <1>25, SameDocs, <1>0, <1>n, ClaimAfter DEF SendClaim, Skips, Rows
<1>26. CASE SendRecheck(p)
  BY <1>26, SameDocs, <1>0, <1>n, RecheckAfter DEF SendRecheck
<1>27. CASE SendCheck(p)
  BY <1>27, SameDocs, <1>0, <1>n, CheckAfter DEF SendCheck
<1>28. CASE SendMail(p)
  BY <1>28, SameDocs, <1>0, <1>n, SendMailAfter DEF SendMail
<1>29. CASE SendRecord(p)
  BY <1>29, SameDocs, <1>0, <1>n, RecordAfter DEF SendRecord
<1>30. CASE SendRecordFails(p)
  BY <1>30, SameDocs, <1>0, <1>n, RecordFailsAfter DEF SendRecordFails
<1>31. CASE MarkClaim(p)
  BY <1>31, SameDocs, <1>0, <1>n, MarkAfter DEF MarkClaim
<1>32. CASE MarkRecheck(p)
  BY <1>32, SameDocs, <1>0, <1>n, UnmarkAfter DEF MarkRecheck
<1>33. CASE ResendReclaim(p)
  BY <1>33, SameDocs, <1>0, <1>n DEF ResendReclaim
<1>34. CASE ResendClaim(p)
  BY <1>34, SameDocs, <1>0, <1>n, ResendAfter DEF ResendClaim
<1>35. CASE ResendCheck(p)
  BY <1>35, SameDocs, <1>0, <1>n, ResendAfter DEF ResendCheck
<1>36. CASE ResendMail(p)
  BY <1>36, SameDocs, <1>0, <1>n, ResendMailAfter DEF ResendMail
<1>37. CASE ResendRecord(p)
  BY <1>37, SameDocs, <1>0, <1>n, Stopped DEF ResendRecord
<1>38. CASE Crash(p)
  BY <1>38, SameDocs, <1>0, <1>n, Stopped DEF Crash
<1>. QED
  BY <1>1, <1>2, <1>3, <1>4, <1>5, <1>6, <1>7, <1>8, <1>9, <1>10, <1>11, <1>12, <1>13, <1>14,
     <1>15, <1>16, <1>17, <1>18, <1>19, <1>20, <1>21, <1>22, <1>23, <1>24, <1>25, <1>26, <1>27,
     <1>28, <1>29, <1>30, <1>31, <1>32, <1>33, <1>34, <1>35, <1>36, <1>37, <1>38 DEF Acts,
     People, Work

LEMMA AgeAfter ==
    ASSUME Typed, Age
    PROVE  /\ UNCHANGED <<link, files, logged, goneOut, req, mail, crashes, timeouts, faults>>
           /\ row'.status = row.status /\ row'.file = row.file /\ row'.to = row.to
           /\ row'.via = row.via /\ row'.log = row.log
           /\ row' = row \/ (row.status = "sending" /\ (Timely => \A p \in Requests : ~Holding(p)))
BY DEF Age, bounds, Typed, StoreOK, Rows

LEMMA DocumentsStep == Typed /\ Documents /\ [Next]_vars => Documents'
<1>. SUFFICES ASSUME Typed, Documents, [Next]_vars PROVE Documents'
  OBVIOUS
<1>. USE DEF Documents
<1>1. ASSUME NEW p \in Requests, Acts(p) PROVE Documents'
  <2>0. \A q \in Requests \ {p} : req'[q] = req[q]
    BY <1>1, Alone
  <2>1. Reads'
    BY <1>1, <2>0, ReadStep DEF Reads
  <2>2. Named'
    BY <1>1, <2>0, NamedStep DEF Named
  <2>. QED BY <1>1, <2>1, <2>2, FilesStep
<1>2. CASE Age
  BY <1>2, AgeAfter DEF Reads, Named, RowHasFile, OwnFiles, Owns
<1>3. CASE UNCHANGED vars
  BY <1>3 DEF vars, Reads, Named, RowHasFile, OwnFiles, Owns
<1>. QED BY <1>1, <1>2, <1>3 DEF Next, Acts

LEMMA DocumentsInit == Init => Documents
BY DEF Init, Documents, Reads, ReadOK, Named, RowHasFile, OwnFiles, Owns, Idle, NoRow, Selling,
       Marking, Pricing
-----------------------------------------------------------------------------
(* Who may touch the row, and what the email log proves.                    *)

LEMMA HushStep ==
    ASSUME Typed, Documents, HushOK, Belongs, Calm, NEW p \in Requests, Hushed(p), Acts(p)
    PROVE  HushOK'
<1>0. \A q \in Requests \ {p} : req'[q] = req[q] /\ ~Hush(q)
  BY Alone DEF Hushed, Hush
<1>. SUFFICES /\ req'[p].at = "x_delete" => row'.status \notin Claimable /\ \A q \in Requests : ~Reviving(q)'
              /\ req'[p].at = "g_sweep" => row'.status \in Claimable
  BY <1>0 DEF HushOK, Hush
<1>. USE DEF Command, Step, store, Reviving
<1>1. CASE AddGc(p) \/ Reject(p) \/ CompleteSendOut(p) \/ ResendReclaim(p)
  BY <1>1, <1>0 DEF AddGc, Reject, CompleteSendOut, ResendReclaim
<1>2. CASE StartRemove(p)
  BY <1>2, <1>0, Gone, RetiredAfter DEF StartRemove, Claimable
<1>3. CASE StartSetAmounts(p) \/ StartRequest(p) \/ StartApprove(p) \/ StartSend(p)
           \/ StartMark(p) \/ StartResend(p)
  BY <1>3, <1>0, Starts, StartsAlone DEF StartSetAmounts, StartRequest, StartApprove,
     StartSend, StartMark, StartResend
<1>4. CASE StartGenerate(p)
  BY <1>4, <1>0, Starts DEF StartGenerate, Claimable, Typed, StoreOK, Rows
<1>5. CASE DeleteLink(p) \/ SetAmounts(p) \/ RequestRestore(p) \/ Approve(p)
           \/ DeleteFile(p) \/ SendSkip(p) \/ ResendRecord(p) \/ Crash(p)
  BY <1>5, <1>0, Stopped DEF DeleteLink, SetAmounts, RequestRestore, Approve, DeleteFile,
     SendSkip, ResendRecord, Crash
<1>6. CASE RequestChange(p) \/ RequestRecheck(p)
  BY <1>6, <1>0, Gone, Stopped DEF RequestChange, RequestRecheck
<1>7. CASE Upload(p)
  BY <1>7, <1>0, UploadAfter DEF Upload
<1>8. CASE WriteGenerated(p)
  BY <1>8, <1>0, WriteAfter DEF WriteGenerated
<1>9. CASE Sweep(p)
  BY <1>9, <1>0, Stopped, RetiredAfter DEF Sweep
<1>10. CASE SendReadLink(p)
  BY <1>10, <1>0, ReadLinkAfter DEF SendReadLink
<1>11. CASE SendReclaim(p)
  BY <1>11, <1>0, ReclaimAfter DEF SendReclaim
<1>12. CASE SendClaim(p)
  BY <1>12, <1>0, ClaimAfter DEF SendClaim, Skips, Rows
<1>13. CASE SendRecheck(p)
  BY <1>13, <1>0, RecheckAfter DEF SendRecheck
<1>14. CASE SendCheck(p)
  BY <1>14, <1>0, CheckAfter DEF SendCheck
<1>15. CASE SendMail(p)
  BY <1>15, <1>0, SendMailAfter DEF SendMail
<1>16. CASE SendRecord(p)
  BY <1>16, <1>0, RecordAfter DEF SendRecord
<1>17. CASE SendRecordFails(p)
  BY <1>17, <1>0, RecordFailsAfter DEF SendRecordFails
<1>18. CASE MarkClaim(p)
  BY <1>18, <1>0, MarkAfter DEF MarkClaim
<1>19. CASE MarkRecheck(p)
  BY <1>19, <1>0, UnmarkAfter DEF MarkRecheck
<1>20. CASE ResendClaim(p) \/ ResendCheck(p)
  BY <1>20, <1>0, ResendAfter DEF ResendClaim, ResendCheck
<1>21. CASE ResendMail(p)
  BY <1>21, <1>0, ResendMailAfter DEF ResendMail
<1>. QED
  BY <1>1, <1>2, <1>3, <1>4, <1>5, <1>6, <1>7, <1>8, <1>9, <1>10, <1>11, <1>12, <1>13, <1>14,
     <1>15, <1>16, <1>17, <1>18, <1>19, <1>20, <1>21 DEF Acts, People, Work

LEMMA HoldsStep ==
    ASSUME Typed, Documents, HushOK, Holds, Calm, NEW p \in Requests, Hushed(p), Acts(p)
    PROVE  Holds'
<1>0. \A q \in Requests \ {p} : req'[q] = req[q]
  BY Alone
<1>. USE DEF Command, Step, store, Holds, Holding
<1>1. CASE AddGc(p) \/ Reject(p) \/ CompleteSendOut(p) \/ ResendReclaim(p)
  BY <1>1, <1>0 DEF AddGc, Reject, CompleteSendOut, ResendReclaim
<1>2. CASE StartRemove(p)
  BY <1>2, <1>0, Gone, RetiredAfter DEF StartRemove, Claimable
<1>3. CASE StartSetAmounts(p) \/ StartRequest(p) \/ StartApprove(p) \/ StartGenerate(p)
           \/ StartSend(p) \/ StartMark(p) \/ StartResend(p)
  BY <1>3, <1>0, Starts, StartsAlone
<1>4. CASE DeleteLink(p) \/ SetAmounts(p) \/ RequestRestore(p) \/ Approve(p)
           \/ DeleteFile(p) \/ SendSkip(p) \/ ResendRecord(p) \/ Crash(p)
  BY <1>4, <1>0, Stopped DEF DeleteLink, SetAmounts, RequestRestore, Approve, DeleteFile,
     SendSkip, ResendRecord, Crash
<1>5. CASE RequestChange(p) \/ RequestRecheck(p)
  BY <1>5, <1>0, Gone, Stopped DEF RequestChange, RequestRecheck
<1>6. CASE Upload(p)
  BY <1>6, <1>0, UploadAfter
<1>7. CASE WriteGenerated(p)
  BY <1>7, <1>0, WriteAfter DEF Documents, Reads, ReadOK
<1>8. CASE Sweep(p)
  BY <1>8, <1>0, Stopped, RetiredAfter DEF Sweep, HushOK, Claimable
<1>9. CASE SendReadLink(p)
  BY <1>9, <1>0, ReadLinkAfter
<1>10. CASE SendReclaim(p)
  BY <1>10, <1>0, ReclaimAfter
<1>11. CASE SendClaim(p)
  BY <1>11, <1>0, ClaimAfter DEF Claimable
<1>12. CASE SendRecheck(p)
  BY <1>12, <1>0, RecheckAfter
<1>13. CASE SendCheck(p)
  BY <1>13, <1>0, CheckAfter
<1>14. CASE SendMail(p)
  BY <1>14, <1>0, SendMailAfter
<1>15. CASE SendRecord(p)
  BY <1>15, <1>0, RecordAfter
<1>16. CASE SendRecordFails(p)
  BY <1>16, <1>0, RecordFailsAfter
<1>17. CASE MarkClaim(p)
  BY <1>17, <1>0, MarkAfter DEF Claimable
<1>18. CASE MarkRecheck(p)
  BY <1>18, <1>0, UnmarkAfter
<1>19. CASE ResendClaim(p) \/ ResendCheck(p)
  BY <1>19, <1>0, ResendAfter
<1>20. CASE ResendMail(p)
  BY <1>20, <1>0, ResendMailAfter
<1>. QED
  BY <1>1, <1>2, <1>3, <1>4, <1>5, <1>6, <1>7, <1>8, <1>9, <1>10, <1>11, <1>12, <1>13, <1>14,
     <1>15, <1>16, <1>17, <1>18, <1>19, <1>20 DEF Acts, People, Work

LEMMA HandshakeStep ==
    ASSUME Typed, Documents, HushOK, Holds, Handshake, Timely, Calm,
           NEW p \in Requests, Hushed(p), Acts(p)
    PROVE  Handshake'
<1>0. \A q \in Requests \ {p} : req'[q] = req[q]
  BY Alone
<1>1. SUFFICES ASSUME crashes' = 0, PendingNow', row'.status \in {"sending", "sent"},
                      crashes = 0
               PROVE  \E q \in Requests : TakesBack(q)'
  BY Counted DEF Handshake
<1>2. ReadOK(req[p])
  BY DEF Documents, Reads
<1>. USE DEF Command, Step, store, Handshake, TakesBack, PendingNow, Holds, Holding
<1>10. CASE AddGc(p) \/ Reject(p) \/ RequestChange(p)
  BY <1>10, <1>0, <1>1, <1>2, LinkAfter DEF AddGc, Reject, RequestChange
<1>11. CASE StartRemove(p)
  BY <1>11, <1>0, <1>1, <1>2, Gone, RetiredAfter DEF StartRemove, Claimable
<1>12. CASE StartSetAmounts(p) \/ StartRequest(p) \/ StartApprove(p) \/ StartGenerate(p)
            \/ StartSend(p) \/ StartMark(p) \/ StartResend(p)
  BY <1>12, <1>0, <1>1, <1>2, Starts, StartsAlone
<1>13. CASE CompleteSendOut(p) \/ ResendReclaim(p)
  BY <1>13, <1>0, <1>1, <1>2 DEF CompleteSendOut, ResendReclaim
<1>14. CASE DeleteLink(p) \/ SetAmounts(p) \/ Approve(p)
  BY <1>14, <1>0, <1>1, <1>2, LinkAfter, Stopped DEF DeleteLink, SetAmounts, Approve
<1>15. CASE RequestRecheck(p)
  BY <1>15, <1>0, <1>1, <1>2, Gone, Stopped DEF RequestRecheck
<1>16. CASE RequestRestore(p)
  BY <1>16, <1>0, <1>1, <1>2, Stopped DEF RequestRestore, ReadOK, Pricing
<1>17. CASE Upload(p)
  BY <1>17, <1>0, <1>1, <1>2, UploadAfter
<1>18. CASE WriteGenerated(p)
  BY <1>18, <1>0, <1>1, <1>2, WriteAfter DEF Documents, Reads, ReadOK
<1>19. CASE DeleteFile(p) \/ SendSkip(p) \/ ResendRecord(p)
  BY <1>19, <1>0, <1>1, <1>2, Stopped DEF DeleteFile, SendSkip, ResendRecord
<1>20. CASE Sweep(p)
  BY <1>20, <1>0, <1>1, <1>2, Stopped, RetiredAfter DEF Sweep, HushOK, Claimable
<1>21. CASE SendReadLink(p)
  BY <1>21, <1>0, <1>1, <1>2, ReadLinkAfter
<1>22. CASE SendReclaim(p)
  BY <1>22, <1>0, <1>1, <1>2, ReclaimAfter
<1>23. CASE SendClaim(p)
  BY <1>23, <1>0, <1>1, <1>2, ClaimAfter DEF Claimable
<1>24. CASE SendRecheck(p)
  BY <1>24, <1>0, <1>1, <1>2, RecheckAfter DEF ReadOK, Claimable
<1>25. CASE SendCheck(p)
  BY <1>25, <1>0, <1>1, <1>2, CheckAfter
<1>26. CASE SendMail(p)
  BY <1>26, <1>0, <1>1, <1>2, SendMailAfter
<1>27. CASE SendRecord(p)
  BY <1>27, <1>0, <1>1, <1>2, RecordAfter
<1>28. CASE SendRecordFails(p)
  BY <1>28, <1>0, <1>1, <1>2, RecordFailsAfter
<1>29. CASE MarkClaim(p)
  BY <1>29, <1>0, <1>1, <1>2, MarkAfter DEF Claimable
<1>30. CASE MarkRecheck(p)
  BY <1>30, <1>0, <1>1, <1>2, UnmarkAfter DEF ReadOK, Marking, Claimable
<1>31. CASE ResendClaim(p) \/ ResendCheck(p)
  BY <1>31, <1>0, <1>1, <1>2, ResendAfter
<1>32. CASE ResendMail(p)
  BY <1>32, <1>0, <1>1, <1>2, ResendMailAfter
<1>33. CASE Crash(p)
  BY <1>33, <1>0, <1>1, <1>2 DEF Crash, bounds, Typed, CountsOK
<1>. QED
  BY <1>10, <1>11, <1>12, <1>13, <1>14, <1>15, <1>16, <1>17, <1>18, <1>19, <1>20, <1>21, <1>22,
     <1>23, <1>24, <1>25, <1>26, <1>27, <1>28, <1>29, <1>30, <1>31, <1>32, <1>33 DEF Acts,
     People, Work

LEMMA BelongsStep ==
    ASSUME Typed, Documents, HushOK, Holds, Belongs, Timely, Calm,
           NEW p \in Requests, Hushed(p), Acts(p)
    PROVE  Belongs'
<1>0. \A q \in Requests \ {p} : req'[q] = req[q] /\ req[q].at # "x_delete"
  BY Alone DEF Hushed
<1>2. ReadOK(req[p])
  BY DEF Documents, Reads
<1>3. row \in Rows /\ link \in Links
  BY DEF Typed, StoreOK
<1>. USE DEF Command, Step, store, Belongs, Selling, Reviving
<1>10. CASE AddGc(p) \/ Reject(p) \/ RequestChange(p)
  BY <1>10, <1>0, <1>2, <1>3, LinkAfter DEF AddGc, Reject, RequestChange
<1>11. CASE StartRemove(p)
  BY <1>11, <1>0, <1>2, <1>3, Gone, RetiredAfter DEF StartRemove, Claimable
<1>12. CASE StartSetAmounts(p) \/ StartRequest(p) \/ StartApprove(p) \/ StartGenerate(p)
            \/ StartSend(p) \/ StartMark(p) \/ StartResend(p)
  BY <1>12, <1>0, <1>2, <1>3, Starts, StartsAlone
<1>13. CASE CompleteSendOut(p) \/ ResendReclaim(p)
  BY <1>13, <1>0, <1>2, <1>3 DEF CompleteSendOut, ResendReclaim
<1>14. CASE DeleteLink(p)
  <2>1. /\ row.status \notin Claimable /\ \A q \in Requests : ~Reviving(q)
        /\ row' = row /\ req'[p].at = "idle"
    BY <1>14, Stopped DEF DeleteLink, HushOK
  <2>2. CASE row.status = "sending"
    BY <1>0, <1>14, <2>1, <2>2, LinkAfter
  <2>3. CASE row.status # "sending"
    <3>1. ASSUME NEW q \in Requests, req[q].at \in Selling
          PROVE  row.status \in {"sent", "superseded"}
      BY <1>3, <2>1, <2>3, <3>1 DEF Documents, Named, Rows, Claimable, Selling
    <3>. QED BY <1>0, <2>1, <3>1
  <2>. QED BY <2>2, <2>3
<1>15. CASE SetAmounts(p) \/ Approve(p)
  BY ZenonT(60), <1>15, <1>0, <1>2, <1>3, LinkAfter, Stopped DEF SetAmounts, Approve
<1>16. CASE RequestRecheck(p)
  BY <1>16, <1>0, <1>2, <1>3, Gone, Stopped DEF RequestRecheck
<1>17. CASE RequestRestore(p)
  BY <1>17, <1>0, <1>2, <1>3, Stopped DEF RequestRestore, ReadOK, Pricing
<1>18. CASE Upload(p)
  BY <1>18, <1>0, <1>2, <1>3, UploadAfter
<1>19. CASE WriteGenerated(p)
  BY <1>19, <1>0, <1>2, <1>3, WriteAfter DEF Documents, Reads, ReadOK, Named, Rows
<1>20. CASE DeleteFile(p) \/ SendSkip(p) \/ ResendRecord(p) \/ Crash(p)
  BY <1>20, <1>0, <1>2, <1>3, Stopped DEF DeleteFile, SendSkip, ResendRecord, Crash
<1>21. CASE Sweep(p)
  BY <1>21, <1>0, <1>2, <1>3, Stopped, RetiredAfter DEF Sweep, HushOK, Claimable
<1>22. CASE SendReadLink(p)
  BY <1>22, <1>0, <1>2, <1>3, ReadLinkAfter
<1>23. CASE SendReclaim(p)
  BY <1>23, <1>0, <1>2, <1>3, ReclaimAfter
<1>24. CASE SendClaim(p)
  BY <1>24, <1>0, <1>2, <1>3, ClaimAfter DEF Claimable
<1>25. CASE SendRecheck(p)
  BY <1>25, <1>0, <1>2, <1>3, RecheckAfter DEF ReadOK, Claimable, Holds, Holding, PendingNow
<1>26. CASE SendCheck(p)
  BY <1>26, <1>0, <1>2, <1>3, CheckAfter
<1>27. CASE SendMail(p)
  BY <1>27, <1>0, <1>2, <1>3, SendMailAfter
<1>28. CASE SendRecord(p)
  BY <1>28, <1>0, <1>2, <1>3, RecordAfter DEF Holds, Holding
<1>29. CASE SendRecordFails(p)
  BY <1>29, <1>0, <1>2, <1>3, RecordFailsAfter
<1>30. CASE MarkClaim(p)
  BY <1>30, <1>0, <1>2, <1>3, MarkAfter DEF Claimable
<1>31. CASE MarkRecheck(p)
  BY <1>31, <1>0, <1>2, <1>3, UnmarkAfter DEF PendingNow, ReadOK, Marking, Claimable
<1>32. CASE ResendClaim(p) \/ ResendCheck(p)
  BY <1>32, <1>0, <1>2, <1>3, ResendAfter
<1>33. CASE ResendMail(p)
  BY <1>33, <1>0, <1>2, <1>3, ResendMailAfter
<1>. QED
  BY <1>10, <1>11, <1>12, <1>13, <1>14, <1>15, <1>16, <1>17, <1>18, <1>19, <1>20, <1>21, <1>22,
     <1>23, <1>24, <1>25, <1>26, <1>27, <1>28, <1>29, <1>30, <1>31, <1>32, <1>33 DEF Acts,
     People, Work

\* Emails are only added; a new one is that of this step.
Grows(p, kind) ==
    /\ \A i \in DOMAIN mail : i \in DOMAIN mail' /\ mail'[i] = mail[i]
    /\ \A i \in DOMAIN mail' \ DOMAIN mail :
        /\ \A k \in DOMAIN mail' : k <= i
        /\ mail'[i].file = req[p].file /\ mail'[i].member = link.on
        /\ mail'[i].kind = kind
        /\ mail'[i].known => logged' = logged \cup {req[p].to}

LEMMA NewMail ==
    ASSUME Typed, NEW p \in Requests, Acts(p)
    PROVE  /\ \A i \in DOMAIN mail : i \in DOMAIN mail' /\ mail'[i] = mail[i]
           /\ \A i \in DOMAIN mail' \ DOMAIN mail :
                /\ \A k \in DOMAIN mail' : k <= i
                /\ mail'[i].file = req[p].file /\ mail'[i].member = link.on
                /\ \/ SendMail(p) /\ mail'[i].kind = "initial"
                   \/ ResendMail(p) /\ mail'[i].kind = "resend"
                /\ mail'[i].known => logged' = logged \cup {req[p].to}
<1>1. ASSUME NEW kind, Accepted(p, kind) \/ Unproved(p, kind)
      PROVE  Grows(p, kind)
  <2>1. CASE mail' = mail
    BY <2>1 DEF Grows
  <2>2. ASSUME NEW known \in BOOLEAN, mail' = Append(mail, Email(kind, p, known)),
               known => logged' = logged \cup {req[p].to}
        PROVE  Grows(p, kind)
    <3>. DEFINE e == Email(kind, p, known)
    <3>1. /\ e.file = req[p].file /\ e.member = link.on /\ e.kind = kind /\ e.known = known
      BY DEF Email
    <3>. HIDE DEF e
    <3>2. /\ Len(mail) \in Nat /\ DOMAIN mail = 1 .. Len(mail)
          /\ DOMAIN mail' = 1 .. Len(mail) + 1
          /\ \A i \in 1 .. Len(mail) : mail'[i] = mail[i]
          /\ mail'[Len(mail) + 1] = e
      BY <2>2 DEF Typed, StoreOK, e
    <3>3. \A i \in DOMAIN mail' \ DOMAIN mail : i = Len(mail) + 1
      BY <3>2
    <3>4. \A i \in DOMAIN mail : i \in DOMAIN mail' /\ mail'[i] = mail[i]
      BY <3>2
    <3>5. \A i \in DOMAIN mail' \ DOMAIN mail :
            /\ \A k \in DOMAIN mail' : k <= i
            /\ mail'[i] = e
      BY <3>2, <3>3
    <3>. QED BY <2>2, <3>1, <3>4, <3>5 DEF Grows
  <2>. QED BY <1>1, <2>1, <2>2 DEF Accepted, Unproved
<1>2. CASE SendMail(p)
  BY <1>1, <1>2, SendMailAfter DEF Grows
<1>3. CASE ResendMail(p)
  BY <1>1, <1>3, ResendMailAfter DEF Grows
<1>4. CASE UNCHANGED mail
  BY <1>4
<1>. USE DEF Command, Step, store
<1>10. CASE AddGc(p) \/ StartRemove(p) \/ Reject(p) \/ CompleteSendOut(p) \/ DeleteLink(p)
            \/ SetAmounts(p) \/ RequestChange(p) \/ RequestRecheck(p) \/ RequestRestore(p)
            \/ Approve(p) \/ DeleteFile(p) \/ Sweep(p) \/ SendSkip(p) \/ ResendReclaim(p)
            \/ ResendRecord(p) \/ Crash(p)
  BY <1>10, <1>4 DEF AddGc, StartRemove, Reject, CompleteSendOut, DeleteLink, SetAmounts,
     RequestChange, RequestRecheck, RequestRestore, Approve, DeleteFile, Sweep, SendSkip,
     ResendReclaim, ResendRecord, Crash
<1>11. CASE StartSetAmounts(p) \/ StartRequest(p) \/ StartApprove(p) \/ StartGenerate(p)
            \/ StartSend(p) \/ StartMark(p) \/ StartResend(p)
  BY <1>11, <1>4, Starts, StartsAlone
<1>12. CASE Upload(p)
  BY <1>12, <1>4, UploadAfter
<1>13. CASE WriteGenerated(p)
  BY <1>13, <1>4, WriteAfter
<1>14. CASE SendReadLink(p)
  BY <1>14, <1>4, ReadLinkAfter
<1>15. CASE SendReclaim(p)
  BY <1>15, <1>4, ReclaimAfter
<1>16. CASE SendClaim(p)
  BY <1>16, <1>4, ClaimAfter
<1>17. CASE SendRecheck(p)
  BY <1>17, <1>4, RecheckAfter
<1>18. CASE SendCheck(p)
  BY <1>18, <1>4, CheckAfter
<1>19. CASE SendRecord(p)
  BY <1>19, <1>4, RecordAfter
<1>20. CASE SendRecordFails(p)
  BY <1>20, <1>4, RecordFailsAfter
<1>21. CASE MarkClaim(p)
  BY <1>21, <1>4, MarkAfter
<1>22. CASE MarkRecheck(p)
  BY <1>22, <1>4, UnmarkAfter
<1>23. CASE ResendClaim(p) \/ ResendCheck(p)
  BY <1>23, <1>4, ResendAfter
<1>. QED
  BY <1>2, <1>3, <1>10, <1>11, <1>12, <1>13, <1>14, <1>15, <1>16, <1>17, <1>18, <1>19, <1>20,
     <1>21, <1>22, <1>23 DEF Acts, People, Work

LEMMA DeliveredStays ==
    ASSUME Typed, NEW p \in Requests, Acts(p), NEW f
    PROVE  Delivered(f) => Delivered(f)'
BY NewMail DEF Delivered

LEMMA SettledStays ==
    ASSUME Typed, Documents, HushOK, Holds, Settled, Calm, NEW p \in Requests, Acts(p)
    PROVE  Settled' /\ row' = row
<1>0. \A q \in Requests \ {p} : req'[q] = req[q]
  BY Alone
<1>1. ReadOK(req[p]) /\ row.status = "sent"
  BY DEF Documents, Reads, Settled
<1>2. SUFFICES row' = row /\ (Unsettled(p)' => Unsettled(p))
  BY <1>0 DEF Settled, Unsettled
<1>. USE DEF Command, Step, store, Unsettled
<1>10. CASE AddGc(p) \/ Reject(p) \/ CompleteSendOut(p) \/ ResendReclaim(p)
  BY <1>10, <1>0, <1>1 DEF AddGc, Reject, CompleteSendOut, ResendReclaim
<1>11. CASE StartRemove(p)
  BY <1>11, <1>0, <1>1, Gone DEF StartRemove, Claimable
<1>12. CASE StartSetAmounts(p) \/ StartRequest(p) \/ StartApprove(p) \/ StartGenerate(p)
            \/ StartSend(p) \/ StartMark(p) \/ StartResend(p)
  BY <1>12, <1>0, <1>1, Starts, StartsAlone
<1>13. CASE DeleteLink(p) \/ SetAmounts(p) \/ RequestRestore(p) \/ Approve(p)
            \/ DeleteFile(p) \/ SendSkip(p) \/ ResendRecord(p) \/ Crash(p)
  BY <1>13, <1>0, <1>1, Stopped DEF DeleteLink, SetAmounts, RequestRestore, Approve,
     DeleteFile, SendSkip, ResendRecord, Crash
<1>14. CASE RequestChange(p) \/ RequestRecheck(p)
  BY <1>14, <1>0, <1>1, Gone, Stopped DEF RequestChange, RequestRecheck
<1>15. CASE Upload(p)
  BY <1>15, <1>0, <1>1, UploadAfter
<1>16. CASE WriteGenerated(p)
  BY <1>16, <1>0, <1>1, WriteAfter DEF ReadOK
<1>17. CASE Sweep(p)
  BY <1>17, <1>0, <1>1 DEF Sweep, HushOK, Claimable
<1>18. CASE SendReadLink(p)
  BY <1>18, <1>0, <1>1, ReadLinkAfter
<1>19. CASE SendReclaim(p)
  BY <1>19, <1>0, <1>1, ReclaimAfter
<1>20. CASE SendClaim(p)
  BY <1>20, <1>0, <1>1, ClaimAfter DEF Claimable
<1>21. CASE SendRecheck(p)
  BY <1>21, <1>0, <1>1, RecheckAfter DEF Holds, Holding
<1>22. CASE SendCheck(p)
  BY <1>22, <1>0, <1>1, CheckAfter
<1>23. CASE SendMail(p)
  BY <1>23, <1>0, <1>1, SendMailAfter
<1>24. CASE SendRecord(p)
  BY <1>24, <1>0, <1>1, RecordAfter DEF Holds, Holding
<1>25. CASE SendRecordFails(p)
  BY <1>25, <1>0, <1>1, RecordFailsAfter
<1>26. CASE MarkClaim(p)
  BY <1>26, <1>0, <1>1, MarkAfter DEF Claimable
<1>27. CASE MarkRecheck(p)
  BY <1>27, <1>0, <1>1, UnmarkAfter DEF Settled
<1>28. CASE ResendClaim(p) \/ ResendCheck(p)
  BY <1>28, <1>0, <1>1, ResendAfter
<1>29. CASE ResendMail(p)
  BY <1>29, <1>0, <1>1, ResendMailAfter
<1>. QED
  BY <1>10, <1>11, <1>12, <1>13, <1>14, <1>15, <1>16, <1>17, <1>18, <1>19, <1>20, <1>21, <1>22,
     <1>23, <1>24, <1>25, <1>26, <1>27, <1>28, <1>29 DEF Acts, People, Work

\* While a claimed row waits for the write that the log already proves.
Owed == /\ row.status = "sending" /\ row.to \in logged
        /\ \A p \in Requests : Holding(p) => req[p].at = "s_record" /\ req[p].out = "ok"

LEMMA OwedStep ==
    ASSUME Typed, Documents, HushOK, Holds, Owed, Timely, Calm,
           NEW p \in Requests, Acts(p), faults' = 0
    PROVE  row'.file = row.file /\ (Settled \/ Owed)'
<1>0. \A q \in Requests \ {p} : req'[q] = req[q]
  BY Alone
<1>1. ReadOK(req[p]) /\ row.status = "sending" /\ row.to \in logged
  BY DEF Documents, Reads, Owed
<1>2. Holding(p) => req[p].at = "s_record" /\ req[p].out = "ok"
  BY DEF Owed
<1>3. ASSUME row' = row, row.to \in logged',
Holding(p)' => Holding(p) /\ req'[p].out = req[p].out
             /\ req'[p].at = req[p].at
      PROVE  Owed'
  BY <1>0, <1>3 DEF Owed, Holding
<1>4. ASSUME row'.status = "sent", row'.log PROVE Settled'
  BY <1>4 DEF Settled
<1>. USE DEF Command, Step, store, Holding
<1>10. CASE AddGc(p) \/ Reject(p) \/ CompleteSendOut(p) \/ ResendReclaim(p)
  BY <1>10, <1>1, <1>2, <1>3, <1>4 DEF AddGc, Reject, CompleteSendOut, ResendReclaim
<1>11. CASE StartRemove(p)
  BY <1>11, <1>1, <1>2, <1>3, <1>4, Gone DEF StartRemove, Claimable
<1>12. CASE StartSetAmounts(p) \/ StartRequest(p) \/ StartApprove(p) \/ StartGenerate(p)
            \/ StartSend(p) \/ StartMark(p) \/ StartResend(p)
  BY <1>12, <1>1, <1>2, <1>3, <1>4, Starts, StartsAlone
<1>13. CASE DeleteLink(p) \/ SetAmounts(p) \/ RequestRestore(p) \/ Approve(p)
            \/ DeleteFile(p) \/ SendSkip(p) \/ ResendRecord(p) \/ Crash(p)
  BY <1>13, <1>1, <1>2, <1>3, <1>4, Stopped DEF DeleteLink, SetAmounts, RequestRestore,
     Approve, DeleteFile, SendSkip, ResendRecord, Crash
<1>14. CASE RequestChange(p) \/ RequestRecheck(p)
  BY <1>14, <1>1, <1>2, <1>3, <1>4, Gone, Stopped DEF RequestChange, RequestRecheck
<1>15. CASE Upload(p)
  BY <1>15, <1>1, <1>2, <1>3, <1>4, UploadAfter
<1>16. CASE WriteGenerated(p)
  BY <1>16, <1>1, <1>2, <1>3, <1>4, WriteAfter DEF ReadOK
<1>17. CASE Sweep(p)
  BY <1>17, <1>1, <1>2, <1>3, <1>4 DEF Sweep, HushOK, Claimable
<1>18. CASE SendReadLink(p)
  BY <1>18, <1>1, <1>2, <1>3, <1>4, ReadLinkAfter
<1>19. CASE SendReclaim(p)
  BY <1>19, <1>1, <1>2, <1>3, <1>4, ReclaimAfter
<1>20. CASE SendClaim(p)
  BY <1>20, <1>1, <1>2, <1>3, <1>4, ClaimAfter DEF Claimable
<1>21. CASE SendRecheck(p)
  BY <1>21, <1>1, <1>2, <1>3, <1>4, RecheckAfter
<1>22. CASE SendCheck(p)
  BY <1>22, <1>1, <1>2, <1>3, <1>4, CheckAfter
<1>23. CASE SendMail(p)
  BY <1>23, <1>1, <1>2, <1>3, <1>4, SendMailAfter
<1>24. CASE SendRecord(p)
  BY <1>24, <1>1, <1>2, <1>3, <1>4, RecordAfter
<1>25. CASE SendRecordFails(p)
  BY <1>25, <1>1, <1>2, <1>3, <1>4, RecordFailsAfter DEF Typed, CountsOK
<1>26. CASE MarkClaim(p)
  BY <1>26, <1>1, <1>2, <1>3, <1>4, MarkAfter DEF Claimable
<1>27. CASE MarkRecheck(p)
  BY <1>27, <1>1, <1>2, <1>3, <1>4, UnmarkAfter
<1>28. CASE ResendClaim(p) \/ ResendCheck(p)
  BY <1>28, <1>1, <1>2, <1>3, <1>4, ResendAfter
<1>29. CASE ResendMail(p)
  BY <1>29, <1>1, <1>2, <1>3, <1>4, ResendMailAfter DEF Accepted, Unproved
<1>. QED
  BY <1>10, <1>11, <1>12, <1>13, <1>14, <1>15, <1>16, <1>17, <1>18, <1>19, <1>20, <1>21, <1>22,
     <1>23, <1>24, <1>25, <1>26, <1>27, <1>28, <1>29 DEF Acts, People, Work

LEMMA OnlyMailLogs ==
    ASSUME Typed, NEW p \in Requests, Acts(p), ~SendMail(p), ~ResendMail(p)
    PROVE  UNCHANGED logged
<1>. USE DEF Step, store
<1>1. CASE AddGc(p) \/ StartRemove(p) \/ Reject(p) \/ CompleteSendOut(p) \/ DeleteLink(p)
           \/ SetAmounts(p) \/ RequestChange(p) \/ RequestRecheck(p) \/ RequestRestore(p)
           \/ Approve(p) \/ DeleteFile(p) \/ Sweep(p) \/ SendSkip(p) \/ ResendReclaim(p)
           \/ ResendRecord(p) \/ Crash(p)
  BY <1>1 DEF AddGc, StartRemove, Reject, CompleteSendOut, DeleteLink, SetAmounts,
     RequestChange, RequestRecheck, RequestRestore, Approve, DeleteFile, Sweep, SendSkip,
     ResendReclaim, ResendRecord, Crash
<1>2. CASE StartSetAmounts(p) \/ StartRequest(p) \/ StartApprove(p) \/ StartGenerate(p)
           \/ StartSend(p) \/ StartMark(p) \/ StartResend(p)
  BY <1>2, Starts, StartsAlone
<1>3. CASE Upload(p)
  BY <1>3, UploadAfter
<1>4. CASE WriteGenerated(p)
  BY <1>4, WriteAfter
<1>5. CASE SendReadLink(p)
  BY <1>5, ReadLinkAfter
<1>6. CASE SendReclaim(p)
  BY <1>6, ReclaimAfter
<1>7. CASE SendClaim(p)
  BY <1>7, ClaimAfter
<1>8. CASE SendRecheck(p)
  BY <1>8, RecheckAfter
<1>9. CASE SendCheck(p)
  BY <1>9, CheckAfter
<1>10. CASE SendRecord(p)
  BY <1>10, RecordAfter
<1>11. CASE SendRecordFails(p)
  BY <1>11, RecordFailsAfter
<1>12. CASE MarkClaim(p)
  BY <1>12, MarkAfter
<1>13. CASE MarkRecheck(p)
  BY <1>13, UnmarkAfter
<1>14. CASE ResendClaim(p) \/ ResendCheck(p)
  BY <1>14, ResendAfter
<1>. QED
  BY <1>1, <1>2, <1>3, <1>4, <1>5, <1>6, <1>7, <1>8, <1>9, <1>10, <1>11, <1>12, <1>13,
     <1>14 DEF Acts, People, Work

\* The step that mails: the request, its document and its recipients.
LEMMA Mailing ==
    ASSUME Typed, NEW p \in Requests, SendMail(p) \/ ResendMail(p)
    PROVE  /\ UNCHANGED row
           /\ req'[p].at \in {"s_record", "r_record"}
           /\ req'[p].file = req[p].file /\ req[p].to \in Recipients
           /\ req'[p].at = "s_record" => SendMail(p) /\ req'[p].to = req[p].to
           /\ IF req'[p].out = "ok"
              THEN logged' = logged \cup {req[p].to} /\ \E i \in DOMAIN mail' : mail'[i].file = req[p].file
              ELSE logged' = logged
<1>1. ASSUME NEW kind, Accepted(p, kind)
      PROVE  \E i \in DOMAIN mail' : mail'[i].file = req[p].file
  <2>. DEFINE e == Email(kind, p, TRUE)
  <2>1. e.file = req[p].file
    BY DEF Email
  <2>. HIDE DEF e
  <2>2. Len(mail) + 1 \in DOMAIN mail' /\ mail'[Len(mail) + 1] = e
    <3>1. mail' = Append(mail, e) /\ mail \in Seq(Emails)
      BY <1>1 DEF Accepted, Typed, StoreOK, e
    <3>. QED BY <3>1
  <2>. QED BY <2>1, <2>2
<1>2. CASE SendMail(p)
  <2>1. req[p].to \in Recipients
    BY <1>2, SendMailAfter DEF Typed, AsksOK, AskedOK, Selling
  <2>. QED BY <1>1, <1>2, <2>1, SendMailAfter DEF Accepted, Unproved
<1>3. CASE ResendMail(p)
  <2>1. req[p].to \in Recipients
    BY <1>3, ResendMailAfter DEF Typed, AsksOK, AskedOK, Again
  <2>. QED BY <1>1, <1>3, <2>1, ResendMailAfter DEF Accepted, Unproved
<1>. QED BY <1>2, <1>3

LEMMA ProofStep ==
    ASSUME Typed, Documents, HushOK, Holds, Proof, History, Timely, Calm,
           NEW p \in Requests, Acts(p)
    PROVE  Proof'
<1>. SUFFICES ASSUME faults' = 0, logged' # {}, faults = 0
              PROVE  Delivered(row.file)' /\ (Settled \/ Owed)'
  BY Counted DEF Proof, Owed
<1>1. CASE logged # {}
  <2>1. Delivered(row.file) /\ (Settled \/ Owed)
    BY <1>1 DEF Proof, Owed
  <2>2. row'.file = row.file /\ (Settled \/ Owed)'
    BY <2>1, SettledStays, OwedStep
  <2>3. Delivered(row.file) => \E i \in DOMAIN mail' : mail'[i].file = row.file
    BY NewMail DEF Delivered
  <2>. QED BY <2>1, <2>2, <2>3 DEF Delivered
<1>2. CASE logged = {}
  <2>1. SendMail(p) \/ ResendMail(p)
    BY <1>2, OnlyMailLogs
  <2>2. /\ UNCHANGED row /\ req'[p].out = "ok" /\ logged' = {req[p].to}
        /\ \E i \in DOMAIN mail' : mail'[i].file = req[p].file
    BY <1>2, <2>1, Mailing
  <2>3. \A q \in Requests \ {p} : req'[q] = req[q]
    BY Alone
  <2>4. CASE SendMail(p)
    <3>1. /\ row.status = "sending" /\ row.file = req[p].file /\ row.to = req[p].to
          /\ \A q \in Requests \ {p} : ~Holding(q)
      BY <2>4, SendMailAfter DEF Holds, Holding
    <3>2. Owed'
      BY <2>2, <2>3, <2>4, <3>1, SendMailAfter DEF Owed, Holding
    <3>. QED BY <2>2, <3>1, <3>2 DEF Delivered
  <2>5. CASE ResendMail(p)
    <3>1. Settled /\ req[p].file = row.file
      BY <2>5, ResendMailAfter DEF History, Again
    <3>2. Settled'
      BY <3>1, SettledStays
    <3>. QED BY <2>2, <3>1, <3>2 DEF Delivered
  <2>. QED BY <2>1, <2>4, <2>5
<1>. QED BY <1>1, <1>2

\* Where a re-send, and a delivery to be recorded, come from.
LEMMA ComesFrom ==
    ASSUME Typed, NEW p \in Requests, Acts(p)
    PROVE  /\ req'[p].at \in Again
                => StartResend(p) \/ (req[p].at \in Again /\ req'[p].file = req[p].file)
           /\ req'[p].at = "s_record" /\ req'[p].out = "ok" => SendMail(p)
<1>. USE DEF Command, Step, store, Again
<1>1. CASE AddGc(p) \/ Reject(p) \/ CompleteSendOut(p) \/ ResendReclaim(p)
  BY <1>1 DEF AddGc, Reject, CompleteSendOut, ResendReclaim
<1>2. CASE StartRemove(p)
  BY <1>2, Gone DEF StartRemove
<1>3. CASE StartSetAmounts(p) \/ StartRequest(p) \/ StartApprove(p) \/ StartGenerate(p)
           \/ StartSend(p) \/ StartMark(p) \/ StartResend(p)
  BY <1>3, Starts, StartsAlone
<1>4. CASE DeleteLink(p) \/ SetAmounts(p) \/ RequestRestore(p) \/ Approve(p)
           \/ DeleteFile(p) \/ Sweep(p) \/ SendSkip(p) \/ ResendRecord(p) \/ Crash(p)
  BY <1>4, Stopped DEF DeleteLink, SetAmounts, RequestRestore, Approve, DeleteFile, Sweep,
     SendSkip, ResendRecord, Crash
<1>5. CASE RequestChange(p) \/ RequestRecheck(p)
  BY <1>5, Gone, Stopped DEF RequestChange, RequestRecheck
<1>6. CASE Upload(p)
  BY <1>6, UploadAfter
<1>7. CASE WriteGenerated(p)
  BY <1>7, WriteAfter
<1>8. CASE SendReadLink(p)
  BY <1>8, ReadLinkAfter
<1>9. CASE SendReclaim(p)
  BY <1>9, ReclaimAfter
<1>10. CASE SendClaim(p)
  BY <1>10, ClaimAfter DEF Skips, Rows
<1>11. CASE SendRecheck(p)
  BY <1>11, RecheckAfter
<1>12. CASE SendCheck(p)
  BY <1>12, CheckAfter
<1>13. CASE SendMail(p)
  BY <1>13, SendMailAfter
<1>14. CASE SendRecord(p)
  BY <1>14, RecordAfter
<1>15. CASE SendRecordFails(p)
  BY <1>15, RecordFailsAfter
<1>16. CASE MarkClaim(p)
  BY <1>16, MarkAfter
<1>17. CASE MarkRecheck(p)
  BY <1>17, UnmarkAfter
<1>18. CASE ResendClaim(p) \/ ResendCheck(p)
  BY <1>18, ResendAfter
<1>19. CASE ResendMail(p)
  BY <1>19, ResendMailAfter
<1>. QED
  BY <1>1, <1>2, <1>3, <1>4, <1>5, <1>6, <1>7, <1>8, <1>9, <1>10, <1>11, <1>12, <1>13, <1>14,
     <1>15, <1>16, <1>17, <1>18, <1>19 DEF Acts, People, Work

LEMMA SentRowFrom ==
    ASSUME Typed, Documents, HushOK, Holds, Timely, Calm, NEW p \in Requests, Acts(p),
           row'.status = "sent", row'.via = "email"
    PROVE  \/ row' = row
           \/ SendRecord(p) /\ req[p].out = "ok" /\ row'.file = row.file
           \/ logged # {} /\ row.status = "sending" /\ row'.file = row.file
<1>1. ReadOK(req[p])
  BY DEF Documents, Reads
<1>. USE DEF Command, Step, store
<1>10. CASE AddGc(p) \/ Reject(p) \/ CompleteSendOut(p) \/ RequestChange(p)
            \/ ResendReclaim(p)
  BY <1>10, <1>1 DEF AddGc, Reject, CompleteSendOut, RequestChange, ResendReclaim
<1>11. CASE StartRemove(p) \/ Sweep(p)
  BY <1>11, <1>1, RetiredAfter DEF StartRemove, Sweep
<1>12. CASE StartSetAmounts(p) \/ StartRequest(p) \/ StartApprove(p) \/ StartGenerate(p)
            \/ StartSend(p) \/ StartMark(p) \/ StartResend(p)
  BY <1>12, <1>1, Starts, StartsAlone
<1>13. CASE DeleteLink(p) \/ SetAmounts(p) \/ RequestRestore(p) \/ Approve(p)
            \/ DeleteFile(p) \/ SendSkip(p) \/ ResendRecord(p) \/ Crash(p)
  BY <1>13, <1>1, Stopped DEF DeleteLink, SetAmounts, RequestRestore, Approve, DeleteFile,
     SendSkip, ResendRecord, Crash
<1>14. CASE RequestRecheck(p)
  BY <1>14, <1>1, Gone, Stopped DEF RequestRecheck
<1>15. CASE Upload(p)
  BY <1>15, <1>1, UploadAfter
<1>16. CASE WriteGenerated(p)
  BY <1>16, <1>1, WriteAfter
<1>17. CASE SendReadLink(p)
  BY <1>17, <1>1, ReadLinkAfter
<1>18. CASE SendReclaim(p)
  BY <1>18, <1>1, ReclaimAfter
<1>19. CASE SendClaim(p)
  BY <1>19, <1>1, ClaimAfter DEF Skips, Rows
<1>20. CASE SendRecheck(p)
  BY <1>20, <1>1, RecheckAfter DEF ReadOK, Claimable
<1>21. CASE SendCheck(p)
  BY <1>21, <1>1, CheckAfter
<1>22. CASE SendMail(p)
  BY <1>22, <1>1, SendMailAfter
<1>23. CASE SendRecord(p)
  BY <1>23, <1>1, RecordAfter
<1>24. CASE SendRecordFails(p)
  BY <1>24, <1>1, RecordFailsAfter
<1>25. CASE MarkClaim(p)
  BY <1>25, <1>1, MarkAfter
<1>26. CASE MarkRecheck(p)
  BY <1>26, <1>1, UnmarkAfter DEF ReadOK, Marking, Claimable
<1>27. CASE ResendClaim(p) \/ ResendCheck(p)
  BY <1>27, <1>1, ResendAfter
<1>28. CASE ResendMail(p)
  BY <1>28, <1>1, ResendMailAfter
<1>. QED
  BY <1>10, <1>11, <1>12, <1>13, <1>14, <1>15, <1>16, <1>17, <1>18, <1>19, <1>20, <1>21, <1>22,
     <1>23, <1>24, <1>25, <1>26, <1>27, <1>28 DEF Acts, People, Work

LEMMA HistoryStep ==
    ASSUME Typed, Documents, HushOK, Holds, Belongs, Proof, History, Timely, Calm,
           Typed', NEW p \in Requests, Acts(p)
    PROVE  History'
<1>0. \A q \in Requests \ {p} : req'[q] = req[q]
  BY Alone
<1>1. ASSUME NEW q \in Requests, req'[q].at \in Again
      PROVE  Settled' /\ req'[q].file = row'.file
  <2>1. \/ req[q].at \in Again /\ req'[q].file = req[q].file
        \/ q = p /\ StartResend(p)
    BY <1>0, <1>1, ComesFrom
  <2>2. Settled /\ req'[q].file = row.file
    BY <2>1, Starts DEF History, Settled
  <2>. QED BY <2>2, SettledStays
<1>2. ASSUME NEW q \in Requests, req'[q].at = "s_record", req'[q].out = "ok"
      PROVE  Delivered(req[q].file)' /\ req'[q].to \in logged'
  <2>1. CASE q = p
    BY <1>2, <2>1, ComesFrom, Mailing DEF Delivered
  <2>2. CASE q # p
    <3>1. Delivered(req[q].file) /\ req[q].to \in logged /\ req'[q] = req[q]
      BY <1>0, <1>2, <2>2 DEF History
    <3>2. logged \subseteq logged'
      BY OnlyMailLogs, Mailing
    <3>3. \E i \in DOMAIN mail' : mail'[i].file = req[q].file
      BY <3>1, NewMail DEF Delivered
    <3>. QED BY <3>1, <3>2, <3>3 DEF Delivered
  <2>. QED BY <2>1, <2>2
<1>3. ASSUME faults' = 0, row'.status = "sent", row'.via = "email"
      PROVE  Delivered(row.file)'
  <2>1. Delivered(row.file) /\ row'.file = row.file
    <3>1. CASE row' = row
      BY <1>3, <3>1, Counted DEF History
    <3>2. CASE SendRecord(p) /\ req[p].out = "ok" /\ row'.file = row.file
      BY <3>2, RecordAfter DEF History, Holds, Holding
    <3>3. CASE logged # {} /\ row.status = "sending" /\ row'.file = row.file
      BY <1>3, <3>3, Counted DEF Proof
    <3>. QED BY <1>3, <3>1, <3>2, <3>3, SentRowFrom
  <2>2. \E i \in DOMAIN mail' : mail'[i].file = row.file
    BY <2>1, NewMail DEF Delivered
  <2>. QED BY <2>1, <2>2 DEF Delivered
<1>4. ASSUME faults' = 0, NEW i \in DOMAIN mail', mail'[i].kind = "initial", mail'[i].known
      PROVE  logged' # {} /\ mail'[i].file = row'.file
  <2>0. faults = 0
    BY <1>4, Counted
  <2>1. CASE i \in DOMAIN mail
    <3>1. logged # {} /\ mail'[i].file = row.file
      BY <1>4, <2>0, <2>1, NewMail DEF History
    <3>2. row'.file = row.file
      BY <1>4, <2>0, <3>1, SettledStays, OwedStep DEF Proof, Owed
    <3>. QED BY <3>1, <3>2, OnlyMailLogs, Mailing
  <2>2. CASE i \notin DOMAIN mail
    <3>1. /\ SendMail(p) /\ mail'[i].file = req[p].file
          /\ logged' = logged \cup {req[p].to}
      BY <1>4, <2>2, NewMail
    <3>2. row' = row /\ row.file = req[p].file
      BY <3>1, SendMailAfter DEF Holds, Holding
    <3>. QED BY <3>1, <3>2
  <2>. QED BY <2>1, <2>2
<1>5. RemovedNotMailed'
  <2>. SUFFICES ASSUME NEW i \in DOMAIN mail', mail'[i].kind = "initial"
                PROVE  mail'[i].member
    BY DEF RemovedNotMailed
  <2>1. CASE i \in DOMAIN mail
    BY <2>1, NewMail DEF History, RemovedNotMailed
  <2>2. CASE i \notin DOMAIN mail
    <3>1. SendMail(p) /\ mail'[i].member = link.on
      BY <2>2, NewMail
    <3>2. req[p].link.on /\ row.status = "sending"
      BY <3>1, SendMailAfter DEF Documents, Reads, ReadOK, Holds, Holding
    <3>3. link.on
      BY <3>1, <3>2, SendMailAfter DEF Belongs, Selling
    <3>. QED BY <3>1, <3>3
  <2>. QED BY <2>1, <2>2
<1>6. OneConfirmedBid'
  <2>. SUFFICES ASSUME faults' = 0, NEW i \in DOMAIN mail', NEW j \in DOMAIN mail', i < j,
                       mail'[i].kind = "initial", mail'[i].known
                PROVE  mail'[j].kind = "resend" /\ mail'[j].file = mail'[i].file
    BY DEF OneConfirmedBid
  <2>1. faults = 0 /\ i \in DOMAIN mail
    <3>1. DOMAIN mail \subseteq Int /\ DOMAIN mail' \subseteq Int
      <4>1. mail \in Seq(Emails) /\ mail' \in Seq(Emails)
        BY DEF Typed, StoreOK
      <4>. QED BY <4>1
    <3>. QED BY <3>1, Counted, NewMail
  <2>2. CASE j \in DOMAIN mail
    BY <2>1, <2>2, NewMail DEF History, OneConfirmedBid
  <2>3. CASE j \notin DOMAIN mail
    <3>1. logged # {} /\ mail'[i].file = row.file
      BY <2>1, NewMail DEF History
    <3>2. CASE SendMail(p)
      <4>1. Holding(p) /\ req[p].at = "s_mail" /\ row.status = "sending"
        BY <3>2, SendMailAfter DEF Holds, Holding
      <4>. QED BY <2>1, <3>1, <4>1 DEF Proof, Settled
    <3>3. CASE ResendMail(p)
      <4>1. req[p].at = "r_mail" /\ ~SendMail(p)
        BY <3>3, ResendMailAfter, SendMailAfter
      <4>2. mail'[j].kind = "resend" /\ mail'[j].file = req[p].file
        BY <2>3, <4>1, NewMail
      <4>3. req[p].file = row.file
        BY <4>1 DEF History, Again
      <4>. QED BY <3>1, <4>2, <4>3
    <3>. QED BY <2>3, <3>2, <3>3, NewMail
  <2>. QED BY <2>2, <2>3
<1>. QED BY <1>1, <1>2, <1>3, <1>4, <1>5, <1>6 DEF History

-----------------------------------------------------------------------------
(* The theorems.                                                            *)

Guarded == HushOK /\ Holds /\ Handshake /\ Belongs /\ Proof /\ History

LEMMA GuardedInit == Init => Guarded
BY DEF Init, Guarded, HushOK, Hush, Holds, Holding, Handshake, PendingNow, Belongs, Proof,
   History,
       Idle, NoRow, NewLink, Selling, Again, Reviving, RemovedNotMailed, OneConfirmedBid

LEMMA GuardedStep ==
    ASSUME Timely, Calm, Typed, Documents, Guarded, Typed', [Next]_vars
    PROVE  Guarded'
<1>1. ASSUME NEW p \in Requests, Hushed(p), Acts(p) PROVE Guarded'
  BY <1>1, HushStep, HoldsStep, HandshakeStep, BelongsStep, ProofStep, HistoryStep DEF Guarded
<1>2. CASE Age
  <2>1. /\ UNCHANGED <<link, logged, req, mail, crashes, faults>>
        /\ row'.status = row.status /\ row'.file = row.file /\ row'.to = row.to
        /\ row'.via = row.via /\ row'.log = row.log
        /\ row' = row \/ \A p \in Requests : ~Holding(p)
    BY <1>2, AgeAfter
  <2>2. HushOK' /\ Handshake' /\ Belongs'
    BY <2>1 DEF Guarded, HushOK, Hush, Reviving, Handshake, PendingNow, TakesBack, Belongs
  <2>3. Holds'
    BY <2>1 DEF Guarded, Holds, Holding
  <2>4. Proof' /\ History'
    BY <2>1 DEF Guarded, Proof, History, Settled, Unsettled, Holding, Delivered,
                RemovedNotMailed, OneConfirmedBid
  <2>. QED BY <2>2, <2>3, <2>4 DEF Guarded
<1>3. CASE UNCHANGED vars
  BY <1>3 DEF vars, Guarded, HushOK, Hush, Holds, Holding, Handshake, PendingNow, TakesBack,
              Belongs, Reviving, Proof, History, Settled, Unsettled, Delivered,
              RemovedNotMailed, OneConfirmedBid
<1>. QED BY <1>1, <1>2, <1>3 DEF Next, Acts

IInv == Typed /\ Documents /\ (Timely /\ Calm => Guarded)

THEOREM Invariance == Spec => []IInv
<1>1. Init => IInv
  BY TypedInit, DocumentsInit, GuardedInit DEF IInv
<1>2. IInv /\ [Next]_vars => IInv'
  BY TypedStep, DocumentsStep, GuardedStep DEF IInv
<1>. QED BY <1>1, <1>2, PTL DEF Spec

\* send_proposals: while a send works on a row that it claimed, nobody else moves
\* the row, and no second send works on it.
THEOREM SenderAlone == ASSUME Timely, Calm PROVE Spec => []SenderOwnsRow
<1>1. IInv => SenderOwnsRow
  BY DEF IInv, Guarded, Holds, SenderOwnsRow
<1>. QED BY <1>1, Invariance, PTL

\* request_gc_pricing_change against send_proposals and mark_submitted: as long as
\* no handler died, a price that waits for an Executive is neither being sent nor
\* sent, or the side that is to take its write back has not looked again yet.
THEOREM PendingTakenBack == ASSUME Timely, Calm PROVE Spec => []PendingNotSent
<1>1. IInv => PendingNotSent
  BY DEF IInv, Guarded, Handshake, TakesBack, PendingNotSent
<1>. QED BY <1>1, Invariance, PTL

\* remove_gc_link against send_proposals: no first email of a proposal leaves for
\* a GC that is off the project.
THEOREM RemovedUnmailed == ASSUME Timely, Calm PROVE Spec => []RemovedNotMailed
<1>1. IInv => RemovedNotMailed
  BY DEF IInv, Guarded, History
<1>. QED BY <1>1, Invariance, PTL

\* A row at sent names a document that is on file, and one that was sent by email
\* was delivered: also when the email log alone proves it (_reclaim_stuck_sending).
THEOREM SentDelivered == ASSUME Timely, Calm PROVE Spec => []SentWasDelivered
<1>1. IInv => SentWasDelivered
  BY DEF IInv, Guarded, History, Delivered, Documents, RowHasFile, SentWasDelivered
<1>. QED BY <1>1, Invariance, PTL

\* send_proposals and resend_proposals: after a first delivery that the log proves,
\* a GC gets only re-sends, and of that document.
THEOREM ConfirmedOnce == ASSUME Timely, Calm PROVE Spec => []OneConfirmedBid
<1>1. IInv => OneConfirmedBid
  BY DEF IInv, Guarded, History
<1>. QED BY <1>1, Invariance, PTL

\* generate_documents, for any timing: the document that the row names is stored,
\* whatever the generates that lost and the ones that replaced it delete.
THEOREM DocumentOnFile == Spec => [](row.status # "none" => files[row.file] # None)
<1>1. IInv => (row.status # "none" => files[row.file] # None)
  BY DEF IInv, Documents, RowHasFile
<1>. QED BY <1>1, Invariance, PTL

=============================================================================
