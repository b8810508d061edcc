---------------------------------- MODULE Support ----------------------------------
(***************************************************************************)
(* Reports of errors and the corrections support sends in reply: one       *)
(* report from its draft to the gateway (DiagnosticReports) and the rules  *)
(* offered for it (Corrections), in one server process and one database.   *)
(***************************************************************************)
EXTENDS Integers, Sequences, FiniteSets

CONSTANTS
    Sender, Delivery, MaxVersion, MaxSend,
    Rule, Text, Personal, Model, Call, MaxEvent, MaxRev, MaxOpen, NoRule, NoText, NoPersonal,
    Scene       \* bound: what a behaviour is about, a subset of {"report", "replies"}

ASSUME SupportAssumption ==
    /\ MaxVersion \in Nat \ {0} /\ MaxSend \in Nat
    /\ IsFiniteSet(Rule) /\ NoRule \notin Rule /\ NoText \notin Text /\ NoPersonal \notin Personal
    /\ DOMAIN Model = Personal \cup {NoPersonal}
    /\ MaxEvent \in Nat /\ MaxRev \in Nat \ {0} /\ MaxOpen \in Nat
    /\ Scene \subseteq {"report", "replies"}

VARIABLES
    draft, preparing, patch, sender, report, delivery, poll, removal, gw,
    checked, approved, got, accepted, dropped, removed, stale, versions, sends,
    personal, fixed, inbox, offer, row, rcv, apply, disable, call, prompt, held, saves,
    scene

R == INSTANCE DiagnosticReports
C == INSTANCE Corrections WITH
        rep <- IF report.state \in {"none", "queued"} THEN report.state ELSE "sent"

rules == <<personal, fixed, inbox, offer, row, rcv, apply, disable, call, prompt, held, saves>>
delivering == <<draft, preparing, patch, sender, report, delivery, poll, removal, gw,
                checked, approved, got, accepted, dropped, removed, stale, versions, sends>>
vars == <<delivering, rules, scene>>

\* A behaviour about the replies starts with a report that support has received and
\* the user is deleting: its row goes at any time.
Stored == [state |-> "received", content |-> R!Plain(MaxVersion)]

Init ==
    /\ scene \in Scene /\ C!InitRules
    /\ \/ scene = "report" /\ R!Init
       \/ /\ scene = "replies" /\ report = Stored
          /\ gw = R!NoRow
          /\ draft = R!NoDraft /\ preparing = FALSE /\ patch = R!Closed
          /\ sender = [s \in Sender |-> R!Closed] /\ delivery = [k \in Delivery |-> R!Closed]
          /\ poll = R!Closed /\ removal = TRUE /\ accepted = FALSE
          /\ dropped = FALSE /\ removed = FALSE /\ stale = FALSE
          /\ checked = {Stored.content} /\ approved = {Stored.content} /\ got = {Stored.content}
          /\ versions = MaxVersion /\ sends = MaxSend

\* The draft and its delivery.
ReportStep == scene = "report" /\ R!Step /\ UNCHANGED <<rules, scene>>

\* The replies.
RulesStep == scene = "replies" /\ UNCHANGED <<delivering, scene>> /\ C!Step

\* DELETE of the row takes the offers with it (ON DELETE CASCADE); the rules stay.
RemoveRow ==
    /\ R!RemoveRow /\ C!OffersGo
    /\ UNCHANGED <<personal, fixed, inbox, row, rcv, apply, disable, call, held, saves, scene>>

Restart == R!Restart /\ C!Restart /\ UNCHANGED scene

Next == ReportStep \/ RulesStep \/ RemoveRow \/ Restart

Spec == Init /\ [][Next]_vars

(***************************************************************************)
(* Properties.                                                             *)
(***************************************************************************)
\* Every variable of both components stays in its range.
TypeOK == R!TypeOK /\ C!TypeOK /\ scene \in Scene

\* Every content stored for delivery was checked for personal data with the very
\* edits it carries (diagnostic_delivery.go:142).
CheckedOnly == R!CheckedOnly

\* What is stored is a version the user confirmed together with his edits, unless
\* an edit was written over a draft it had not read (diagnostic_reports.go:760).
ApprovedOnly == R!ApprovedOnly

\* A draft that is being prepared or sent has a goroutine that will report its end.
Served == R!Served

\* An accepted report is in the queue, or its draft can be sent again, unless a restart
\* came before its INSERT (diagnostic_delivery.go:157-179).
NotLost == R!NotLost

\* A report shown as received was accepted by the gateway with that content.
Delivered == R!Delivered

\* docs/diagnostic-reporting.md:48-51: after the sending the report has a lasting id and
\* a state, and on failure stays in the queue.  The code does not keep it: README,
\* "Disagreements found".
NeverLost == R!NeverLost

\* docs/diagnostic-reporting.md:168: what is sent is exactly the approved version.  The
\* code does not keep it: README, "Disagreements found".
SentAsApproved == R!SentAsApproved

\* Only what was checked and confirmed is stored, in the range of its variables.
OnlyApproved == TypeOK /\ CheckedOnly /\ ApprovedOnly

\* From the draft to the gateway a report is at each moment worked on, in the queue,
\* or shown as received because the gateway has it.
DeliveryKept == Served /\ NotLost /\ Delivered

\* A rule stored at the revision of an applied offer has that offer's text
\* (diagnostic_recommendations.go:72, :161).
ConsentMatches == C!ConsentMatches

\* A rule the user has switched off comes back only by applying a newer revision
\* (docs/llm-prompt-corrections.md, COR-02).
ManualStays == [][C!OffStays]_vars

\* A rule whose text support has revised stays out of prompts until the user
\* applies the revision (docs/llm-prompt-corrections.md:46).  The code does not keep it:
\* README, "Disagreements found".
Suspended == C!Suspended
===================================================================================
