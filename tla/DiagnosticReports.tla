---------------------------- MODULE DiagnosticReports ----------------------------
(***************************************************************************)
(* A report of a wrong analysis (diagnostic_reports.go,                    *)
(* diagnostic_delivery.go, gatewaylink/diagnostics.go): its draft lives in *)
(* the memory of the server under reports.Lock, is prepared, edited and    *)
(* checked by goroutines that work on copies, and becomes a row that other *)
(* goroutines deliver to the gateway.  A content is a pair of a version of *)
(* the draft and the edits a request added to it.                          *)
(***************************************************************************)
EXTENDS Integers, FiniteSets

CONSTANTS
    Sender,     \* goroutines of sendDiagnosticDraftAsync
    Delivery,   \* transactions and requests of deliverDiagnostic
    MaxVersion, \* bound: versions of the draft
    MaxSend     \* bound: accepted requests to send

Version == 0..MaxVersion
Edit == 0..MaxSend              \* 0: no edits
Content == Version \X Edit
Plain(v) == <<v, 0>>
DraftState == {"processing", "failed", "ready", "needs_review", "sending"}
Stage == {"received", "in_review", "resolved"}      \* and rejected, which is as final
GatewayStage == {"received", "waiting_user", "resolved"}    \* in_review is like waiting_user

VARIABLES
    draft,      \* reports.drafts[id]
    preparing,  \* prepareDiagnosticDraftAsync is running
    patch,      \* the request that edits a copy of the draft
    sender,     \* the goroutines that send it
    report,     \* diagnostic_reports
    delivery,   \* the deliveries under way
    poll,       \* what the gateway answered to a listing
    removal,    \* the request that deletes the report
    gw,         \* the report at the gateway
    checked,    \* contents the model has checked for personal data
    approved,   \* contents the user has confirmed
    got,        \* contents the gateway has accepted
    accepted,   \* the user was told the report is being sent, and did not withdraw it
    dropped,    \* a restart took an accepted report that was not stored yet
    removed,    \* the user deleted the row
    stale,      \* an edit was written over a draft it had not read
    versions, sends     \* counters of the bounds

vars == <<draft, preparing, patch, sender, report, delivery, poll, removal, gw,
          checked, approved, got, accepted, dropped, removed, stale, versions, sends>>
history == <<approved, accepted, dropped, removed, stale, sends>>
rows == <<report, delivery, poll, removal, gw, got>>
memory == <<draft, preparing, patch, sender, checked, approved, accepted, dropped, removed,
            stale, versions, sends>>

NoDraft == [state |-> "none"]
NoRow == [state |-> "none"]
Closed == [at |-> "off"]
Draft == [state : DraftState, version : Version, valid : Content]
Row == [state : Stage \cup {"queued"}, content : Content]

Init ==
    /\ draft = NoDraft /\ preparing = FALSE /\ patch = Closed
    /\ sender = [s \in Sender |-> Closed] /\ report = NoRow
    /\ delivery = [k \in Delivery |-> Closed] /\ poll = Closed /\ removal = FALSE
    /\ gw = NoRow /\ checked = {} /\ approved = {} /\ got = {} /\ accepted = FALSE
    /\ dropped = FALSE /\ removed = FALSE /\ stale = FALSE /\ versions = 0 /\ sends = 0

Fresh == versions + 1
MayEdit == draft.state \in {"ready", "needs_review"}

(***************************************************************************)
(* The draft is prepared.                                                  *)
(***************************************************************************)
\* One draft and its report id are followed from the first content on.
CreateDraft ==
    /\ draft = NoDraft /\ ~preparing /\ versions = 0
    /\ draft' = [state |-> "processing", version |-> 0, valid |-> Plain(0)] /\ preparing' = TRUE
    /\ UNCHANGED <<patch, sender, rows, checked, history, versions>>

RetryDraft ==
    /\ draft.state = "failed"
    /\ draft' = [draft EXCEPT !.state = "processing"] /\ preparing' = TRUE
    /\ UNCHANGED <<patch, sender, rows, checked, history, versions>>

\* prepareDiagnosticDraftAsync ends; what it made is kept if the draft is still there.
Prepared ==
    /\ preparing /\ preparing' = FALSE
    /\ \/ /\ draft' = IF draft = NoDraft THEN NoDraft ELSE [draft EXCEPT !.state = "failed"]
          /\ UNCHANGED <<checked, versions>>
       \/ /\ versions < MaxVersion /\ versions' = Fresh
          /\ checked' = checked \cup {Plain(Fresh)}
          /\ draft' = IF draft = NoDraft THEN NoDraft
                      ELSE [state |-> "ready", version |-> Fresh, valid |-> Plain(Fresh)]
    /\ UNCHANGED <<patch, sender, rows, history>>

(***************************************************************************)
(* PATCH: edits a copy, has the model check it, writes it back.            *)
(***************************************************************************)
PatchRead ==
    /\ patch = Closed /\ MayEdit /\ versions < MaxVersion
    /\ patch' = [at |-> "check", read |-> draft]
    /\ UNCHANGED <<draft, preparing, sender, rows, checked, history, versions>>

PatchFailed ==
    /\ patch # Closed /\ patch' = Closed
    /\ UNCHANGED <<draft, preparing, sender, rows, checked, history, versions>>

PatchWrite ==
    /\ patch # Closed /\ patch' = Closed
    /\ versions < MaxVersion /\ versions' = Fresh
    /\ checked' = checked \cup {Plain(Fresh)}
    /\ draft' = [state |-> "ready", version |-> Fresh, valid |-> Plain(Fresh)]
    /\ stale' = (stale \/ draft # patch.read)
    /\ UNCHANGED <<preparing, sender, rows, approved, accepted, dropped, removed, sends>>

CancelDraft ==
    /\ draft.state \notin {"none", "sending"} /\ draft' = NoDraft /\ accepted' = FALSE
    /\ UNCHANGED <<preparing, patch, sender, rows, checked, approved, dropped, removed, stale,
                   versions, sends>>

\* 24 hours pass; an edit never lasts that long.
ExpireDraft ==
    /\ draft.state \in {"failed", "ready", "needs_review"} /\ patch = Closed
    /\ draft' = NoDraft /\ accepted' = FALSE
    /\ UNCHANGED <<preparing, patch, sender, rows, checked, approved, dropped, removed, stale,
                   versions, sends>>

(***************************************************************************)
(* POST send: the hash of the version shown, and edits of its fields.      *)
(***************************************************************************)
Send(s) ==
    /\ sender[s] = Closed /\ MayEdit /\ sends < MaxSend /\ sends' = sends + 1
    /\ \E e \in {0, sends'} :
           /\ approved' = approved \cup {<<draft.version, e>>}
           /\ sender' = [sender EXCEPT ![s] = [at |-> "start", edit |-> e]]
    /\ draft' = [draft EXCEPT !.state = "sending"] /\ accepted' = TRUE
    /\ UNCHANGED <<preparing, patch, rows, checked, dropped, removed, stale, versions>>

\* sendDiagnosticDraftAsync reads the draft there is now.
SendRead(s) ==
    /\ sender[s].at = "start"
    /\ sender' = [sender EXCEPT ![s] =
           IF draft.state = "sending"
           THEN [at |-> "check", read |-> draft, content |-> <<draft.version, sender[s].edit>>]
           ELSE Closed]
    /\ UNCHANGED <<draft, preparing, patch, rows, checked, history, versions>>

\* diagnosticNeedsReview: the draft gets what the goroutine made, if it is still sending.
NeedsReview(d) == IF draft.state = "sending" THEN [d EXCEPT !.state = "needs_review"] ELSE draft

\* A required field is empty, or the model did not answer: the edited text, with
\* the names known so far hidden, is shown again and is not checked.
SendUnchecked(s) ==
    /\ sender[s].at = "check" /\ versions < MaxVersion /\ versions' = Fresh
    /\ draft' = NeedsReview([sender[s].read EXCEPT !.version = Fresh])
    /\ sender' = [sender EXCEPT ![s] = Closed]
    /\ UNCHANGED <<preparing, patch, rows, checked, history>>

\* Mutant: the text the check has changed is sent without asking again.
SendWithoutReview(s) ==
    /\ sender[s].at = "check" /\ sender[s].content # sender[s].read.valid
    /\ versions < MaxVersion /\ versions' = Fresh
    /\ checked' = checked \cup {Plain(Fresh)}
    /\ sender' = [sender EXCEPT ![s].at = "insert", ![s].content = Plain(Fresh)]
    /\ UNCHANGED <<draft, preparing, patch, rows, history>>

\* The check hid more: the new text is shown again.
SendHidMore(s) ==
    /\ sender[s].at = "check" /\ sender[s].content # sender[s].read.valid
    /\ versions < MaxVersion /\ versions' = Fresh
    /\ checked' = checked \cup {Plain(Fresh)}
    /\ draft' = NeedsReview([sender[s].read EXCEPT !.version = Fresh, !.valid = Plain(Fresh)])
    /\ sender' = [sender EXCEPT ![s] = Closed]
    /\ UNCHANGED <<preparing, patch, rows, history>>

\* Nothing to check, or nothing more to hide.
SendChecked(s) ==
    /\ sender[s].at = "check"
    /\ checked' = IF sender[s].content = sender[s].read.valid THEN checked
                  ELSE checked \cup {sender[s].content}
    /\ sender' = [sender EXCEPT ![s].at = "insert"]
    /\ UNCHANGED <<draft, preparing, patch, rows, history, versions>>

\* INSERT ... ON CONFLICT DO NOTHING, and the stored hash is the same.
SendInsert(s) ==
    /\ sender[s].at = "insert" /\ report \in {NoRow} \cup {r \in Row : r.content = sender[s].content}
    /\ report' = IF report = NoRow
                 THEN [state |-> "queued", content |-> sender[s].content] ELSE report
    /\ sender' = [sender EXCEPT ![s].at = "forget"]
    /\ UNCHANGED <<draft, preparing, patch, delivery, poll, removal, gw, got, checked, history, versions>>

\* Mutant: the draft is forgotten although its report was not stored.
SendGivesUp(s) ==
    /\ sender[s].at = "insert" /\ draft' = NoDraft
    /\ sender' = [sender EXCEPT ![s] = Closed]
    /\ UNCHANGED <<preparing, patch, rows, checked, history, versions>>

\* The database fails, or the stored report is another one.
SendNotQueued(s) ==
    /\ sender[s].at = "insert" /\ versions < MaxVersion /\ versions' = Fresh
    /\ draft' = NeedsReview([sender[s].read EXCEPT !.version = Fresh])
    /\ sender' = [sender EXCEPT ![s] = Closed]
    /\ UNCHANGED <<preparing, patch, rows, checked, history>>

SendForget(s) ==
    /\ sender[s].at = "forget" /\ draft' = NoDraft
    /\ sender' = [sender EXCEPT ![s] = Closed]
    /\ \E k \in Delivery : delivery[k] = Closed /\ delivery' = [delivery EXCEPT ![k] = [at |-> "read"]]
    /\ UNCHANGED <<preparing, patch, report, poll, removal, gw, got, checked, history, versions>>

\* POST support: a text the user agreed to send as it is has no draft.
TechnicalSupport(k) ==
    /\ draft = NoDraft /\ ~preparing /\ versions = 0 /\ versions' = MaxVersion
    /\ report = NoRow /\ report' = [state |-> "queued", content |-> Plain(0)]
    /\ approved' = approved \cup {Plain(0)} /\ accepted' = TRUE
    /\ delivery[k] = Closed /\ delivery' = [delivery EXCEPT ![k] = [at |-> "read"]]
    /\ UNCHANGED <<draft, preparing, patch, sender, poll, removal, gw, got, checked, dropped, removed,
                   stale, sends>>

(***************************************************************************)
(* deliverDiagnostic, from the queue or at the user's request.             *)
(***************************************************************************)
\* A report that left the queue is not sent again.
RetryDelivery(k) ==
    /\ report.state = "queued" /\ delivery[k] = Closed
    /\ delivery' = [delivery EXCEPT ![k] = [at |-> "read"]]
    /\ UNCHANGED <<memory, report, poll, removal, gw, got>>

DeliverRead(k) ==
    /\ delivery[k].at = "read"
    /\ delivery' = [delivery EXCEPT ![k] =
           IF report.state = "queued" THEN [at |-> "send", content |-> report.content] ELSE Closed]
    /\ UNCHANGED <<memory, report, poll, removal, gw, got>>

\* Send with Idempotency-Key; the gateway (external) answers 409 to another body.
DeliverSend(k) ==
    /\ delivery[k].at = "send"
    /\ gw # NoRow => gw.content = delivery[k].content
    /\ gw' = IF gw = NoRow THEN [state |-> "received", content |-> delivery[k].content] ELSE gw
    /\ got' = got \cup {delivery[k].content}
    /\ delivery' = [delivery EXCEPT ![k] = [at |-> "answer", state |->
           IF gw'.state \in Stage THEN gw'.state ELSE "received"]]
    /\ UNCHANGED <<memory, report, poll, removal>>

DeliverAnswer(k) ==
    /\ delivery[k].at = "answer" /\ delivery' = [delivery EXCEPT ![k] = Closed]
    /\ report' = IF report = NoRow THEN NoRow
                 ELSE [report EXCEPT !.state = delivery[k].state]
    /\ UNCHANGED <<memory, poll, removal, gw, got>>

\* No settings, no connection, a refusal, or the answer is lost: last_error is set.
DeliverFailed(k) ==
    /\ delivery[k].at \in {"send", "answer"} /\ delivery' = [delivery EXCEPT ![k] = Closed]
    /\ UNCHANGED <<memory, report, poll, removal, gw, got>>

(***************************************************************************)
(* The gateway (external) works on the report; the server lists, opens and *)
(* deletes it.                                                             *)
(***************************************************************************)
Review ==
    /\ \/ gw.state = "received" /\ gw' = [gw EXCEPT !.state = "waiting_user"]
       \/ gw.state = "waiting_user" /\ gw' = [gw EXCEPT !.state = "resolved"]
    /\ UNCHANGED <<memory, report, delivery, poll, removal, got>>

\* A listing asks for every report; opening one asks only when it left the queue.
PollRead ==
    /\ poll = Closed /\ gw # NoRow /\ report # NoRow
    /\ poll' = [at |-> "answer", state |-> gw.state]
    /\ UNCHANGED <<memory, report, delivery, removal, gw, got>>

gatewayDiagnosticState(state) == IF state = "waiting_user" THEN "in_review" ELSE state

PollWrite ==
    /\ poll # Closed /\ poll' = Closed
    /\ report' = IF report = NoRow THEN NoRow
                 ELSE [report EXCEPT !.state = gatewayDiagnosticState(poll.state)]
    /\ UNCHANGED <<memory, delivery, removal, gw, got>>

\* DELETE: first at the gateway; if that fails the row stays.
RemoveAtGateway ==
    /\ report # NoRow /\ ~removal /\ removal' = TRUE /\ gw' = NoRow
    /\ UNCHANGED <<memory, report, delivery, poll, got>>

RemoveRow ==
    /\ removal /\ removal' = FALSE /\ report' = NoRow /\ accepted' = FALSE /\ removed' = TRUE
    /\ UNCHANGED <<draft, preparing, patch, sender, delivery, poll, gw, got, checked, approved,
                   dropped, stale, versions, sends>>

\* The drafts, and everything under way, are in memory: a report the user was told
\* is being sent goes with them until it is a row.
Restart ==
    /\ draft' = NoDraft /\ preparing' = FALSE /\ patch' = Closed
    /\ sender' = [s \in Sender |-> Closed] /\ delivery' = [k \in Delivery |-> Closed]
    /\ poll' = Closed /\ removal' = FALSE
    /\ dropped' = (dropped \/ (accepted /\ report = NoRow))
    /\ UNCHANGED <<report, gw, got, checked, approved, accepted, removed, stale, versions, sends>>

Step ==
    \/ CreateDraft \/ RetryDraft \/ Prepared \/ PatchRead \/ PatchFailed \/ PatchWrite
    \/ CancelDraft \/ ExpireDraft \/ Review \/ PollRead \/ PollWrite \/ RemoveAtGateway
    \/ \E s \in Sender : \/ Send(s) \/ SendRead(s) \/ SendUnchecked(s) \/ SendHidMore(s)
                         \/ SendChecked(s) \/ SendInsert(s) \/ SendNotQueued(s) \/ SendForget(s)
    \/ \E k \in Delivery : \/ TechnicalSupport(k) \/ RetryDelivery(k) \/ DeliverRead(k) \/ DeliverSend(k)
                           \/ DeliverAnswer(k) \/ DeliverFailed(k)

Next == Step \/ RemoveRow \/ Restart

Spec == Init /\ [][Next]_vars

(***************************************************************************)
(* Properties.                                                             *)
(***************************************************************************)
\* Every variable stays in its range.
TypeOK ==
    /\ draft \in {NoDraft} \cup Draft /\ preparing \in BOOLEAN
    /\ patch \in {Closed} \cup [at : {"check"}, read : Draft]
    /\ sender \in [Sender -> {Closed} \cup [at : {"start"}, edit : Edit]
           \cup [at : {"check", "insert", "forget"}, read : Draft, content : Content]]
    /\ report \in {NoRow} \cup Row
    /\ delivery \in [Delivery -> {Closed} \cup [at : {"read"}] \cup [at : {"send"}, content : Content]
           \cup [at : {"answer"}, state : Stage]]
    /\ poll \in {Closed} \cup [at : {"answer"}, state : GatewayStage] /\ removal \in BOOLEAN
    /\ gw \in {NoRow} \cup [state : GatewayStage, content : Content]
    /\ checked \in SUBSET Content /\ approved \in SUBSET Content /\ got \in SUBSET Content
    /\ accepted \in BOOLEAN /\ dropped \in BOOLEAN /\ removed \in BOOLEAN /\ stale \in BOOLEAN
    /\ versions \in Version /\ sends \in Edit

\* Every content stored for delivery was checked for personal data with the very
\* edits it carries, also when edits and requests to send overlap
\* (diagnostic_delivery.go:142); a request for technical support has no draft.
CheckedOnly == report # NoRow => report.content \in checked \cup {Plain(0)}

\* What is stored is a version the user confirmed together with his edits, as long
\* as no edit was written over a draft it had not read (diagnostic_reports.go:760).
ApprovedOnly == report # NoRow /\ ~stale => report.content \in approved

\* A draft that is being prepared or sent has a goroutine that will say how it
\* ended: no interleaving leaves the user waiting for nobody.
Served ==
    /\ draft.state = "sending" => \E s \in Sender : sender[s] # Closed
    /\ draft.state = "processing" => preparing

\* A report the user was told is being sent is a row, or a draft that can be sent
\* again, whatever the model, the database, overlapping edits and requests and a restart
\* after its INSERT do, until the user deletes the row (diagnostic_delivery.go:157-179).
\* A restart before the INSERT takes it: NeverLost.
NotLost == accepted /\ ~removed /\ ~dropped => report # NoRow \/ draft # NoDraft

\* A report shown as received was accepted by the gateway with that content, whatever
\* answers were lost or came late and whatever edits overlapped, until the user deletes
\* the row (diagnostic_delivery.go:47).
Delivered == report # NoRow /\ report.state # "queued" /\ ~removed => report.content \in got

\* docs/diagnostic-reporting.md:48-51: after the sending the report has a lasting id and
\* a state, and on failure stays in the queue.  The code does not keep it: between its
\* answer and the INSERT the report is in memory only (diagnostic_delivery.go:234-241).
NeverLost == accepted => report # NoRow \/ draft # NoDraft

\* docs/diagnostic-reporting.md:168: what is sent is exactly the approved version.  The
\* code does not keep it: an edit that was being checked writes its copy over a draft
\* that is being sent (diagnostic_reports.go:760).
SentAsApproved == report # NoRow => report.content \in approved
===================================================================================
