------------------------------- MODULE Corrections -------------------------------
(***************************************************************************)
(* Temporary corrections of prompts (llm_temporary_corrections.go,         *)
(* llm_temporary_correction_routes.go, diagnostic_recommendations.go):     *)
(* rules that support offers in the replies to one report, all for one     *)
(* type of request.  The user applies, declines or disables a rule; every  *)
(* call of the model first reviews the status of every rule.  The receiver *)
(* of replies runs outside a transaction, statement by statement; apply    *)
(* and disable are transactions at READ COMMITTED.                         *)
(***************************************************************************)
EXTENDS Integers, Sequences, FiniteSets, SequencesExt, FiniteSetsExt

CONSTANTS
    Rule,       \* correction ids offered for the report
    Text,       \* texts of a rule
    Personal,   \* settings the user may save: a model and permanent instructions
    Model,      \* which model each of them names: a function
    Call,       \* concurrent calls of the model
    MaxEvent,   \* bound: replies of support and changes of the settings
    MaxRev,     \* bound: revisions of a rule
    MaxOpen,    \* bound: transactions of the user open at a time
    NoRule,     \* not a rule
    NoText,     \* the text of a rule that was never offered
    NoPersonal  \* the first model and no instructions

Scope == {"individual", "systemic"}
Status == {"none", "active", "manual_disabled", "disabled_by_fix", "needs_review"}
Reason == {"", "user", "fix", "changed", "several", "support"}
Offered == {"none", "offered", "applied", "declined", "superseded"}
Rev == 0..MaxRev
Instructions == Personal \cup {NoPersonal}

Rows == [status : Status, reason : Reason, scope : Scope,
         text : Text \cup {NoText}, for : Instructions, rev : Rev]
Offers == [status : Offered, rev : Rev, scope : Scope, text : Text \cup {NoText}]
Replies == [kind : {"pending"}] \cup
           [kind : {"offer"}, rule : Rule, rev : 1..MaxRev, scope : Scope, text : Text]

VARIABLES
    rep,        \* the row of the report: none, queued or sent
    personal,   \* the saved settings a rule's applicability depends on
    fixed,      \* the installed release has the fix of the issue (llm_fix_manifest.json)
    inbox,      \* public replies of support, in order
    offer,      \* diagnostic_recommendations
    row,        \* llm_temporary_corrections
    rcv,        \* the receiver: which reply it handles and what it read
    apply,      \* what the open transactions that apply a rule read
    disable,    \* the status the open transactions that disable a rule read
    call,       \* what the open calls read
    prompt,     \* the rule the call that has just finished put into its prompt
    held,       \* rules suspended since support revised their text
    saves       \* changes of the settings so far

vars == <<rep, personal, fixed, inbox, offer, row, rcv, apply, disable, call, prompt, held, saves>>
world == <<rep, personal, fixed, saves>>

NoReceive == [at |-> 0]
NoApply == [open |-> FALSE]
NoCall == [open |-> FALSE]
Idle == "idle"

NoOffer == [status |-> "none", rev |-> 0, scope |-> "individual", text |-> NoText]
NoRow == [status |-> "none", reason |-> "", scope |-> "individual", text |-> NoText,
          for |-> NoPersonal, rev |-> 0]

InitRules ==
    /\ personal = NoPersonal /\ fixed = FALSE /\ inbox = <<>>
    /\ offer = [r \in Rule |-> NoOffer] /\ row = [r \in Rule |-> NoRow]
    /\ rcv = NoReceive
    /\ apply = [r \in Rule |-> NoApply] /\ disable = [r \in Rule |-> Idle]
    /\ call = [c \in Call |-> NoCall]
    /\ prompt = NoRule /\ held = {} /\ saves = 0

\* The report is with support.
Init == rep = "sent" /\ InitRules

(***************************************************************************)
(* The review of one rule, and of all of them.                             *)
(***************************************************************************)
Put(w, s, why) == [w EXCEPT !.status = s, !.reason = why]

correctionTransition(w, p, fix) ==
    IF w.status \in {"none", "manual_disabled"} THEN w
    ELSE IF Model[w.for] # Model[p] THEN Put(w, "needs_review", "changed")
    ELSE IF w.scope = "systemic" /\ fix THEN Put(w, "disabled_by_fix", "fix")
    ELSE IF w.for # p THEN Put(w, "needs_review", "changed")
    ELSE IF w.status = "needs_review" /\ w.reason = "several" THEN w
    ELSE Put(w, "active", "")

\* Mutant: the verdict is written whatever the status has become.
ReviewedBlindly(seen, now, p, fix) ==
    [r \in Rule |->
        LET v == correctionTransition(seen[r], p, fix)
        IN IF v # seen[r] THEN Put(now[r], v.status, v.reason) ELSE now[r]]

\* The verdict on what was read is written where the status is still the one read.
Reviewed(seen, now, p, fix) ==
    [r \in Rule |->
        LET v == correctionTransition(seen[r], p, fix)
        IN IF v # seen[r] /\ now[r].status = seen[r].status
           THEN Put(now[r], v.status, v.reason) ELSE now[r]]

Active(w) == {r \in Rule : w[r].status = "active"}

\* Several active rules of one type are set aside together.
SetAside(w) ==
    IF Cardinality(Active(w)) > 1
    THEN [r \in Rule |-> IF r \in Active(w) THEN Put(w[r], "needs_review", "several") ELSE w[r]]
    ELSE w

activeTemporaryCorrections(seen, now, p, fix) == SetAside(Reviewed(seen, now, p, fix))
InPrompt(w) == IF Cardinality(Active(w)) = 1 THEN CHOOSE r \in Active(w) : TRUE ELSE NoRule

(***************************************************************************)
(* A call of the model (llmConfig).                                        *)
(***************************************************************************)
ReadConfig(c) ==
    /\ ~call[c].open
    /\ call' = [call EXCEPT ![c] = [open |-> TRUE, p |-> personal, seen |-> row]]
    /\ prompt' = NoRule
    /\ UNCHANGED <<world, inbox, offer, row, rcv, apply, disable, held>>

\* The transaction of the call commits, or fails after the prompt was sent and
\* takes the new statuses with it.
llmConfig(c) ==
    LET after == activeTemporaryCorrections(call[c].seen, row, call[c].p, fixed) IN
    /\ call[c].open
    /\ call' = [call EXCEPT ![c] = NoCall]
    /\ row' \in {row, after}
    /\ prompt' = InPrompt(Reviewed(call[c].seen, row, call[c].p, fixed))
    /\ UNCHANGED <<world, inbox, offer, rcv, apply, disable, held>>

(***************************************************************************)
(* The settings are saved; the server restarts, perhaps as a release with  *)
(* the fix, and ReconcileTemporaryCorrections runs before the  *)
(* first request.                                                          *)
(***************************************************************************)
SaveSettings ==
    /\ saves + Len(inbox) < MaxEvent /\ saves' = saves + 1
    /\ \E p \in Instructions \ {personal} : personal' = p
    /\ prompt' = NoRule
    /\ UNCHANGED <<rep, fixed, inbox, offer, row, rcv, apply, disable, call, held>>

Restart ==
    /\ fixed' \in {fixed, TRUE}
    /\ row' = activeTemporaryCorrections(row, row, personal, fixed')
    /\ rcv' = NoReceive /\ apply' = [r \in Rule |-> NoApply]
    /\ disable' = [r \in Rule |-> Idle] /\ call' = [c \in Call |-> NoCall]
    /\ prompt' = NoRule
    /\ UNCHANGED <<rep, personal, saves, inbox, offer, held>>

(***************************************************************************)
(* Support (external): a reply to the report; a revision grows.            *)
(***************************************************************************)
Reply(m) ==
    /\ rep = "sent"
    /\ saves + Len(inbox) < MaxEvent /\ inbox' = Append(inbox, m)
    /\ m.kind = "offer" =>
           m.rev = 1 + Cardinality({i \in DOMAIN inbox : inbox[i].kind = "offer" /\ inbox[i].rule = m.rule})
    /\ prompt' = NoRule
    /\ UNCHANGED <<world, offer, row, rcv, apply, disable, call, held>>

(***************************************************************************)
(* receiveDiagnosticRecommendations: every reply again each time the       *)
(* report is opened.                                                       *)
(***************************************************************************)
Later(i) == IF i = Len(inbox) THEN NoReceive ELSE [at |-> i + 1, read |-> FALSE]

Open ==
    /\ rep = "sent" /\ rcv = NoReceive /\ inbox # <<>>
    /\ rcv' = [at |-> 1, read |-> FALSE] /\ prompt' = NoRule
    /\ UNCHANGED <<world, inbox, offer, row, apply, disable, call, held>>

Individual == {r \in Rule : row[r].scope = "individual" /\ row[r].status = "active"}

\* The report belongs to an issue that support still examines.
ReceivePending ==
    /\ rcv # NoReceive /\ inbox[rcv.at].kind = "pending"
    /\ row' = [r \in Rule |-> IF r \in Individual THEN Put(row[r], "needs_review", "support") ELSE row[r]]
    /\ offer' = [r \in Rule |->
           IF offer[r].scope = "individual" /\ offer[r].status \in {"offered", "applied"}
           THEN [offer[r] EXCEPT !.status = "superseded"] ELSE offer[r]]
    /\ rcv' = Later(rcv.at) /\ prompt' = NoRule
    /\ UNCHANGED <<world, inbox, apply, disable, call, held>>

\* Mutant: another text counts as the approved rule.
LinkedAnyText(old, m, w) ==
    /\ old.scope = "individual" /\ m.scope = "systemic"
    /\ w.scope = "individual" /\ w.status = "active" /\ w.rev = old.rev

\* sameApprovedRule, and the rule the user applied is still that one.
Linked(old, m, w) ==
    /\ old.scope = "individual" /\ m.scope = "systemic" /\ old.text = m.text
    /\ w.scope = "individual" /\ w.status = "active" /\ w.text = m.text /\ w.rev = old.rev

ReceiveRead ==
    /\ rcv # NoReceive /\ inbox[rcv.at].kind = "offer" /\ ~rcv.read
    /\ LET m == inbox[rcv.at]  r == m.rule
           revised == offer[r].status = "applied" /\ offer[r].rev < m.rev
       IN rcv' = [at |-> rcv.at, read |-> TRUE, revised |-> revised,
                  link |-> revised /\ Linked(offer[r], m, row[r])]
    /\ prompt' = NoRule
    /\ UNCHANGED <<world, inbox, offer, row, apply, disable, call, held>>

\* An applied rule is linked to its issue, or suspended; individual rules give
\* way to a systemic one; a revision newer than the stored one becomes the offer,
\* unless the report was deleted meanwhile and the insertion fails.
ReceiveWrite ==
    LET m == inbox[rcv.at]  r == m.rule
        suspended == rcv.revised /\ ~rcv.link /\ row[r].status = "active"
        Yields(x) == m.scope = "systemic" /\ x # r
        newer == offer[r].rev < m.rev
    IN
    /\ rcv # NoReceive /\ m.kind = "offer" /\ rcv.read
    /\ row' = [x \in Rule |->
           IF x = r
           THEN IF suspended THEN Put(row[x], "needs_review", "support")
                ELSE IF rcv.link /\ x \in Individual
                THEN [row[x] EXCEPT !.scope = "systemic", !.rev = m.rev] ELSE row[x]
           ELSE IF Yields(x) /\ x \in Individual THEN Put(row[x], "needs_review", "support")
           ELSE row[x]]
    /\ offer' = [x \in Rule |->
           IF x = r
           THEN IF newer /\ rep # "none"
                THEN [status |-> IF rcv.link THEN "applied" ELSE "offered",
                      rev |-> m.rev, scope |-> m.scope, text |-> m.text]
                ELSE offer[x]
           ELSE IF Yields(x) /\ offer[x].scope = "individual" /\ offer[x].status \in {"offered", "applied"}
           THEN [offer[x] EXCEPT !.status = "superseded"] ELSE offer[x]]
    /\ held' = IF suspended /\ row[r].text # m.text THEN held \cup {r} ELSE held
    /\ rcv' = IF rep = "none" THEN NoReceive ELSE Later(rcv.at)
    /\ prompt' = NoRule
    /\ UNCHANGED <<world, inbox, apply, disable, call>>

(***************************************************************************)
(* The user's decisions.                                                   *)
(***************************************************************************)
OpenByUser == {r \in Rule : apply[r].open} \cup {r \in Rule : disable[r] # Idle}
MayOpen == Cardinality(OpenByUser) < MaxOpen

ApplyRead(r) ==
    /\ MayOpen /\ ~apply[r].open /\ offer[r].status = "offered"
    /\ Active(row) \subseteq {r}
    /\ ~(offer[r].scope = "systemic" /\ fixed)
    /\ row[r].rev < offer[r].rev
    /\ apply' = [apply EXCEPT ![r] = [open |-> TRUE, p |-> personal, rev |-> offer[r].rev,
                                      scope |-> offer[r].scope, text |-> offer[r].text]]
    /\ prompt' = NoRule
    /\ UNCHANGED <<world, inbox, offer, row, rcv, disable, call, held>>

\* The second statement marks the offer there is now.
ApplyWrite(r) ==
    LET a == apply[r] IN
    /\ a.open /\ apply' = [apply EXCEPT ![r] = NoApply]
    /\ row' = IF row[r].rev < a.rev
              THEN [row EXCEPT ![r] = [status |-> "active", reason |-> "", scope |-> a.scope,
                                       text |-> a.text, for |-> a.p, rev |-> a.rev]]
              ELSE row
    /\ offer' = IF offer[r].status = "offered"
                THEN [offer EXCEPT ![r].status = "applied"] ELSE offer
    /\ held' = IF row[r].rev < a.rev THEN held \ {r} ELSE held
    /\ prompt' = NoRule
    /\ UNCHANGED <<world, inbox, rcv, disable, call>>

Decline(r) ==
    /\ offer[r].status = "offered" /\ offer' = [offer EXCEPT ![r].status = "declined"]
    /\ prompt' = NoRule
    /\ UNCHANGED <<world, inbox, row, rcv, apply, disable, call, held>>

DisableRead(r) ==
    /\ MayOpen /\ disable[r] = Idle /\ row[r].status \notin {"none", "manual_disabled"}
    /\ disable' = [disable EXCEPT ![r] = row[r].status]
    /\ prompt' = NoRule
    /\ UNCHANGED <<world, inbox, offer, row, rcv, apply, call, held>>

DisableWrite(r) ==
    /\ disable[r] # Idle /\ disable' = [disable EXCEPT ![r] = Idle]
    /\ row' = IF row[r].status = disable[r]
              THEN [row EXCEPT ![r] = Put(row[r], "manual_disabled", "user")] ELSE row
    /\ prompt' = NoRule
    /\ UNCHANGED <<world, inbox, offer, rcv, apply, call, held>>

\* The report is deleted, and its offers with it; the rules stay.
OffersGo == offer' = [r \in Rule |-> NoOffer] /\ prompt' = NoRule

DeleteReport ==
    /\ rep = "sent" /\ rep' = "none" /\ OffersGo
    /\ UNCHANGED <<personal, fixed, saves, inbox, row, rcv, apply, disable, call, held>>

Step ==
    \/ SaveSettings \/ Open \/ ReceivePending \/ ReceiveRead \/ ReceiveWrite
    \/ \E m \in Replies : Reply(m)
    \/ \E c \in Call : ReadConfig(c) \/ llmConfig(c)
    \/ \E r \in Rule : \/ ApplyRead(r) \/ ApplyWrite(r) \/ Decline(r)
                       \/ DisableRead(r) \/ DisableWrite(r)

Next == Step \/ Restart \/ DeleteReport

Spec == Init /\ [][Next]_vars

(***************************************************************************)
(* Properties.                                                             *)
(***************************************************************************)
\* Every variable stays in its range.
TypeOK ==
    /\ rep \in {"none", "queued", "sent"}
    /\ personal \in Instructions /\ fixed \in BOOLEAN /\ inbox \in Seq(Replies)
    /\ offer \in [Rule -> Offers] /\ row \in [Rule -> Rows]
    /\ rcv \in {NoReceive} \cup [at : 1..Len(inbox), read : {FALSE}]
                \cup [at : 1..Len(inbox), read : {TRUE}, revised : BOOLEAN, link : BOOLEAN]
    /\ apply \in [Rule -> {NoApply} \cup
           [open : {TRUE}, p : Instructions, rev : Rev, scope : Scope, text : Text]]
    /\ disable \in [Rule -> {Idle} \cup Status]
    /\ call \in [Call -> {NoCall} \cup [open : {TRUE}, p : Instructions, seen : [Rule -> Rows]]]
    /\ prompt \in Rule \cup {NoRule} /\ held \in SUBSET Rule /\ saves \in 0..MaxEvent

\* A rule stored at the revision of an applied offer has the text of that offer:
\* linking a rule to an issue, or a revision that arrives while the user applies
\* an older one, never passes off another text as approved
\* (diagnostic_recommendations.go:72, :161).
ConsentMatches ==
    \A r \in Rule : offer[r].status = "applied" /\ row[r].rev = offer[r].rev
                    => row[r].text = offer[r].text

\* A rule the user has switched off comes back only by applying a newer revision,
\* whatever calls and replies were under way (docs COR-02).
OffStays ==
    \A r \in Rule : row[r].status = "manual_disabled" /\ row'[r].status # "manual_disabled"
                   => row'[r].rev > row[r].rev
ManualStays == [][OffStays]_vars

\* A rule whose text support has revised stays out of prompts until the user
\* applies the revision (docs/llm-prompt-corrections.md:46).  The code does not keep it:
\* README, "Disagreements found".
Suspended == prompt \notin held
===================================================================================
