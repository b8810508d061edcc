------------------------------- MODULE Support_proofs -------------------------------
(***************************************************************************)
(* Proofs about Support: what is stored for delivery was checked and       *)
(* confirmed, an accepted report is not lost, and a rule never passes off  *)
(* a text the user did not apply.  The invariant has one half about the    *)
(* report (Delivering) and one about the rules (Consent); no step changes  *)
(* what both speak of except RemoveRow and Restart.                        *)
(***************************************************************************)
EXTENDS Support, FiniteSetTheorems, TLAPS

(***************************************************************************)
(* The invariant of the report.                                            *)
(***************************************************************************)
\* What the model of the language has seen, and the request of technical support.
Good == checked \cup {R!Plain(0)}

\* The draft, the goroutine that prepares it and the number of its versions agree.
Fields ==
    /\ draft.state = "processing" => preparing
    /\ preparing => draft.state \in {"none", "processing"}
    /\ preparing \/ draft.state \in {"processing", "failed"} => versions = 0
    /\ patch # R!Closed => patch.read.state \in {"ready", "needs_review"}
    /\ patch # R!Closed => versions > 0
    /\ \A s \in Sender : sender[s] # R!Closed => versions > 0
    /\ draft.state \in {"ready", "needs_review", "sending"} => versions > 0

\* A draft remembers a checked content, and so does every copy a sender holds.
Valid ==
    /\ draft # R!NoDraft => draft.valid \in Good
    /\ \A s \in Sender :
          /\ sender[s].at \in {"check", "insert", "forget"} => sender[s].read.valid \in Good
          /\ sender[s].at = "insert" => sender[s].content \in Good

\* Without an edit over an unread draft one goroutine at a time sends it.
OneSender == \A s \in Sender : sender[s] # R!Closed =>
    /\ draft.state = "sending"
    /\ \A t \in Sender : sender[t] # R!Closed => t = s

\* What a sender works on is what the user confirmed.
Asked == \A s \in Sender :
    /\ sender[s].at = "start" => <<draft.version, sender[s].edit>> \in approved
    /\ sender[s].at \in {"check", "insert", "forget"} => sender[s].content \in approved

\* Nothing of the report has left the memory of the server.
Blank ==
    /\ report = R!NoRow /\ gw = R!NoRow /\ poll = R!Closed
    /\ \A k \in Delivery : delivery[k] = R!Closed

\* The row comes first: until a sender has inserted it nothing is delivered and no
\* sender forgets the draft.
RowFirst == report = R!NoRow => Blank /\ \A s \in Sender : sender[s].at # "forget"

\* Every delivery under way carries the content of the row, and an answer about the
\* row means the gateway has that content.
OneContent ==
    report # R!NoRow =>
       /\ \A k \in Delivery : /\ delivery[k].at = "send" => delivery[k].content = report.content
                              /\ delivery[k].at = "answer" => report.content \in got
       /\ poll # R!Closed \/ gw # R!NoRow => report.content \in got

\* An accepted report has a row or a draft, unless a restart took it.
Said == accepted /\ ~dropped => report # R!NoRow \/ draft # R!NoDraft

\* What the user confirmed is what is sent as long as no edit was written over a draft
\* it had not read; the row decides what is delivered until the user deletes it.
Truthful ==
    /\ ~stale => OneSender /\ Asked
    /\ ~removed => RowFirst /\ OneContent /\ Said

\* A draft that is being sent has its goroutine.
Manned == draft.state = "sending" => \E s \in Sender : sender[s] # R!Closed

\* The row tells the truth: checked, confirmed, and delivered if it says so.
Kept == Manned /\ R!CheckedOnly /\ R!ApprovedOnly /\ R!Delivered

Delivering == Fields /\ Valid /\ Truthful /\ Kept

(***************************************************************************)
(* The invariant of the rules.                                             *)
(***************************************************************************)
\* Rules, open transactions and offers in the order of revisions: the offer comes first.
Behind == \A r \in Rule :
    /\ report # R!NoRow => row[r].rev <= offer[r].rev
    /\ report # R!NoRow /\ apply[r].open => apply[r].rev <= offer[r].rev
    /\ report = R!NoRow => offer[r] = C!NoOffer
    /\ offer[r].status # "none" => offer[r].text \in Text
    /\ offer[r].status = "offered" => row[r].rev < offer[r].rev
    /\ apply[r].open => apply[r].rev > 0
    /\ apply[r].open /\ apply[r].rev = offer[r].rev => apply[r].text = offer[r].text

\* What the receiver has read of an offer still holds when it writes: a linked rule has
\* kept its text, and no transaction applies a later one.
Reading ==
    rcv # C!NoReceive /\ rcv.read =>
      LET m == inbox[rcv.at]  r == m.rule IN
        /\ m.kind = "offer"
        /\ rcv.revised => offer[r].rev < m.rev
        /\ rcv.link => /\ rcv.revised /\ row[r].text = m.text /\ offer[r].status # "offered"
                       /\ apply[r].open => apply[r].rev <= row[r].rev

\* A behaviour about the report leaves the rules alone.
Still == scene = "report" =>
    rcv = C!NoReceive /\ \A r \in Rule : row[r].rev = 0 /\ offer[r] = C!NoOffer /\ ~apply[r].open

Consent == Behind /\ Reading /\ C!ConsentMatches

Inv == TypeOK /\ Delivering /\ Consent /\ Still

(***************************************************************************)
(* Types of the report.                                                    *)
(***************************************************************************)
\* A new version is in range as long as the bound allows one.
LEMMA NextVersion ==
    ASSUME R!TypeOK, versions < MaxVersion
    PROVE  R!Fresh \in R!Version /\ R!Fresh > 0 /\ R!Plain(R!Fresh) \in R!Content
BY SupportAssumption DEF R!TypeOK, R!Fresh, R!Version, R!Plain, R!Content, R!Edit

\* The first version and the content of technical support are in range.
LEMMA FirstContent ==
    0 \in R!Version /\ MaxVersion \in R!Version /\ 0 \in R!Edit /\ R!Plain(0) \in R!Content
BY SupportAssumption DEF R!Version, R!Plain, R!Content, R!Edit

\* Drafts are made field by field.
LEMMA DraftMade ==
    \A t \in R!DraftState, v \in R!Version, c \in R!Content :
        [state |-> t, version |-> v, valid |-> c] \in R!Draft
BY DEF R!Draft

\* Editing fields of a draft leaves a draft.
LEMMA DraftEdited ==
    ASSUME NEW d \in R!Draft
    PROVE  /\ \A t \in R!DraftState : [d EXCEPT !.state = t] \in R!Draft
           /\ \A v \in R!Version :
                  /\ [d EXCEPT !.version = v] \in R!Draft
                  /\ \A c \in R!Content : [d EXCEPT !.version = v, !.valid = c] \in R!Draft
<1>1. ASSUME NEW t \in R!DraftState PROVE [d EXCEPT !.state = t] \in R!Draft
  BY DEF R!Draft
<1>2. ASSUME NEW v \in R!Version PROVE [d EXCEPT !.version = v] \in R!Draft
  BY DEF R!Draft
<1>3. ASSUME NEW v \in R!Version, NEW c \in R!Content
      PROVE [d EXCEPT !.version = v, !.valid = c] \in R!Draft
  BY DEF R!Draft
<1> QED
  BY <1>1, <1>2, <1>3

\* diagnosticNeedsReview leaves a draft or none.
LEMMA ReviewMade ==
    ASSUME R!TypeOK, NEW d \in R!Draft
    PROVE  R!NeedsReview(d) \in {R!NoDraft} \cup R!Draft
<1>1. "needs_review" \in R!DraftState
  BY DEF R!DraftState
<1>2. [d EXCEPT !.state = "needs_review"] \in R!Draft
  BY <1>1, DraftEdited
<1> QED
  BY <1>2 DEF R!NeedsReview, R!TypeOK

\* Steps of the draft keep the types.
LEMMA DraftTypes ==
    ASSUME R!TypeOK,
           R!CreateDraft \/ R!RetryDraft \/ R!Prepared \/ R!PatchRead \/ R!PatchFailed
           \/ R!PatchWrite \/ R!CancelDraft \/ R!ExpireDraft
    PROVE R!TypeOK'
<1> USE SupportAssumption DEF R!TypeOK, R!Version, R!Edit, R!Content, R!Plain, R!Fresh,
                             R!rows, R!history, R!memory
<1>1. CASE R!CreateDraft
  BY <1>1 DEF R!CreateDraft, R!Draft, R!DraftState, R!NoDraft
<1>2. CASE R!RetryDraft
  BY <1>2 DEF R!RetryDraft, R!Draft, R!DraftState, R!NoDraft
<1>3. CASE R!Prepared
  <2>1. draft' \in {R!NoDraft} \cup R!Draft
    <3>1. {"failed", "ready"} \subseteq R!DraftState
      BY DEF R!DraftState
    <3>2. draft # R!NoDraft => [draft EXCEPT !.state = "failed"] \in R!Draft
      BY <3>1, DraftEdited DEF R!TypeOK
    <3>3. versions < MaxVersion =>
              [state |-> "ready", version |-> R!Fresh, valid |-> R!Plain(R!Fresh)] \in R!Draft
      BY <3>1, NextVersion, DraftMade
    <3> QED
      BY <1>3, <3>2, <3>3 DEF R!Prepared
  <2> QED
    BY <1>3, <2>1, NextVersion DEF R!Prepared
<1>4. CASE R!PatchRead
  <2>1. draft \in R!Draft
    BY <1>4 DEF R!PatchRead, R!MayEdit, R!NoDraft
  <2> QED
    BY <1>4, <2>1 DEF R!PatchRead
<1>5. CASE R!PatchFailed
  BY <1>5 DEF R!PatchFailed
<1>6. CASE R!PatchWrite
  BY <1>6 DEF R!PatchWrite, R!Draft, R!DraftState, R!NoDraft
<1>7. CASE R!CancelDraft
  BY <1>7 DEF R!CancelDraft
<1>8. CASE R!ExpireDraft
  BY <1>8 DEF R!ExpireDraft
<1> QED
  BY <1>1, <1>2, <1>3, <1>4, <1>5, <1>6, <1>7, <1>8

\* Steps of a sender keep the types.
LEMMA SenderTypes ==
    ASSUME R!TypeOK, NEW s \in Sender,
           R!Send(s) \/ R!SendRead(s) \/ R!SendUnchecked(s) \/ R!SendHidMore(s)
           \/ R!SendChecked(s) \/ R!SendInsert(s) \/ R!SendNotQueued(s) \/ R!SendForget(s)
    PROVE R!TypeOK'
<1> USE SupportAssumption DEF R!TypeOK, R!Version, R!Edit, R!Content, R!Plain, R!Fresh,
                             R!rows, R!history, R!memory
<1>1. CASE R!Send(s)
  BY <1>1 DEF R!Send, R!MayEdit, R!Draft, R!DraftState, R!NoDraft
<1>2. CASE R!SendRead(s)
  BY <1>2 DEF R!SendRead, R!Closed, R!NoDraft, R!Draft
<1>3. CASE R!SendUnchecked(s)
  <2>1. sender[s].read \in R!Draft
    BY <1>3 DEF R!SendUnchecked, R!Closed
  <2>2. draft' \in {R!NoDraft} \cup R!Draft
    <3>1. R!Fresh \in R!Version /\ R!Plain(R!Fresh) \in R!Content
      BY <1>3, NextVersion DEF R!SendUnchecked
    <3>2. [sender[s].read EXCEPT !.version = R!Fresh] \in R!Draft
      BY <2>1, <3>1, DraftEdited
    <3> QED
      BY <1>3, <3>2, ReviewMade DEF R!SendUnchecked
  <2>3. sender' \in [Sender -> {R!Closed} \cup [at : {"start"}, edit : R!Edit]
           \cup [at : {"check", "insert", "forget"}, read : R!Draft, content : R!Content]]
    BY <1>3 DEF R!SendUnchecked
  <2> QED
    BY <1>3, <2>2, <2>3 DEF R!SendUnchecked
<1>4. CASE R!SendHidMore(s)
  <2>1. sender[s].read \in R!Draft
    BY <1>4 DEF R!SendHidMore, R!Closed
  <2>2. draft' \in {R!NoDraft} \cup R!Draft
    <3>1. R!Fresh \in R!Version /\ R!Plain(R!Fresh) \in R!Content
      BY <1>4, NextVersion DEF R!SendHidMore
    <3>2. [sender[s].read EXCEPT !.version = R!Fresh, !.valid = R!Plain(R!Fresh)] \in R!Draft
      BY <2>1, <3>1, DraftEdited
    <3> QED
      BY <1>4, <3>2, ReviewMade DEF R!SendHidMore
  <2>3. sender' \in [Sender -> {R!Closed} \cup [at : {"start"}, edit : R!Edit]
           \cup [at : {"check", "insert", "forget"}, read : R!Draft, content : R!Content]]
    BY <1>4 DEF R!SendHidMore
  <2> QED
    BY <1>4, <2>2, <2>3 DEF R!SendHidMore
<1>5. CASE R!SendChecked(s)
  BY <1>5 DEF R!SendChecked, R!Closed
<1>6. CASE R!SendInsert(s)
  BY <1>6 DEF R!SendInsert, R!Closed, R!Row
<1>7. CASE R!SendNotQueued(s)
  <2>1. sender[s].read \in R!Draft
    BY <1>7 DEF R!SendNotQueued, R!Closed
  <2>2. draft' \in {R!NoDraft} \cup R!Draft
    <3>1. R!Fresh \in R!Version /\ R!Plain(R!Fresh) \in R!Content
      BY <1>7, NextVersion DEF R!SendNotQueued
    <3>2. [sender[s].read EXCEPT !.version = R!Fresh] \in R!Draft
      BY <2>1, <3>1, DraftEdited
    <3> QED
      BY <1>7, <3>2, ReviewMade DEF R!SendNotQueued
  <2>3. sender' \in [Sender -> {R!Closed} \cup [at : {"start"}, edit : R!Edit]
           \cup [at : {"check", "insert", "forget"}, read : R!Draft, content : R!Content]]
    BY <1>7 DEF R!SendNotQueued
  <2> QED
    BY <1>7, <2>2, <2>3 DEF R!SendNotQueued
<1>8. CASE R!SendForget(s)
  <2> PICK k \in Delivery : delivery' = [delivery EXCEPT ![k] = [at |-> "read"]]
    BY <1>8 DEF R!SendForget
  <2> QED
    BY <1>8 DEF R!SendForget
<1> QED
  BY <1>1, <1>2, <1>3, <1>4, <1>5, <1>6, <1>7, <1>8

\* Steps of a delivery keep the types.
LEMMA DeliveryTypes ==
    ASSUME R!TypeOK, NEW k \in Delivery,
           R!TechnicalSupport(k) \/ R!RetryDelivery(k) \/ R!DeliverRead(k)
           \/ R!DeliverSend(k) \/ R!DeliverAnswer(k) \/ R!DeliverFailed(k)
    PROVE R!TypeOK'
<1> USE SupportAssumption DEF R!TypeOK, R!Version, R!Edit, R!Content, R!Plain,
                             R!rows, R!history, R!memory
<1>1. CASE R!TechnicalSupport(k)
  BY <1>1 DEF R!TechnicalSupport, R!Row
<1>2. CASE R!RetryDelivery(k)
  BY <1>2 DEF R!RetryDelivery
<1>3. CASE R!DeliverRead(k)
  BY <1>3 DEF R!DeliverRead, R!NoRow, R!Row
<1>4. CASE R!DeliverSend(k)
  BY <1>4 DEF R!DeliverSend, R!GatewayStage, R!Stage, R!Closed
<1>5. CASE R!DeliverAnswer(k)
  BY <1>5 DEF R!DeliverAnswer, R!Row, R!Closed
<1>6. CASE R!DeliverFailed(k)
  BY <1>6 DEF R!DeliverFailed
<1> QED
  BY <1>1, <1>2, <1>3, <1>4, <1>5, <1>6

\* Listings, removal, restart and the gateway keep the types.
LEMMA GatewayTypes ==
    ASSUME R!TypeOK,
           R!Review \/ R!PollRead \/ R!PollWrite \/ R!RemoveAtGateway \/ R!RemoveRow \/ R!Restart
    PROVE R!TypeOK'
<1> USE SupportAssumption DEF R!TypeOK, R!Version, R!Edit, R!Content, R!Plain,
                             R!rows, R!history, R!memory
<1>1. CASE R!Review
  <2>1. gw # R!NoRow
    BY <1>1 DEF R!Review, R!NoRow
  <2>2. gw' \in [state : R!GatewayStage, content : R!Content]
    BY <1>1, <2>1 DEF R!Review, R!GatewayStage
  <2> QED
    BY <1>1, <2>2 DEF R!Review
<1>2. CASE R!PollRead
  BY <1>2 DEF R!PollRead
<1>3. CASE R!PollWrite
  BY <1>3 DEF R!PollWrite, R!gatewayDiagnosticState, R!GatewayStage, R!Row, R!Stage, R!Closed
<1>4. CASE R!RemoveAtGateway \/ R!RemoveRow
  BY <1>4 DEF R!RemoveAtGateway, R!RemoveRow
<1>5. CASE R!Restart
  BY <1>5 DEF R!Restart
<1> QED
  BY <1>1, <1>2, <1>3, <1>4, <1>5

(***************************************************************************)
(* The draft, its goroutines and the number of its versions (Fields).      *)
(***************************************************************************)
\* What tells an idle record from a busy one.
LEMMA Tags ==
    ASSUME R!TypeOK
    PROVE  /\ R!Closed.at = "off" /\ R!NoDraft.state = "none"
           /\ draft = R!NoDraft <=> draft.state = "none"
           /\ draft # R!NoDraft => draft \in R!Draft
           /\ \A s \in Sender :
                 /\ sender[s] = R!Closed <=> sender[s].at = "off"
                 /\ sender[s].at \in {"off", "start", "check", "insert", "forget"}
                 /\ sender[s].at \in {"check", "insert", "forget"} => sender[s].read \in R!Draft
           /\ patch # R!Closed => patch.read \in R!Draft
BY DEF R!TypeOK, R!NoDraft, R!Draft, R!DraftState, R!Closed

\* Steps of the draft keep Fields.
LEMMA FieldsByDraft ==
    ASSUME R!TypeOK, Fields,
           R!CreateDraft \/ R!RetryDraft \/ R!Prepared \/ R!PatchRead \/ R!PatchFailed
           \/ R!PatchWrite \/ R!CancelDraft \/ R!ExpireDraft
    PROVE Fields'
<1> USE Tags, SupportAssumption DEF Fields, R!rows, R!history, R!MayEdit
<1>0. versions \in Nat
  BY DEF R!TypeOK, R!Version
<1>1. CASE R!CreateDraft
  BY <1>1 DEF R!CreateDraft, R!Closed
<1>2. CASE R!RetryDraft
  BY <1>2 DEF R!RetryDraft, R!Draft
<1>3. CASE R!Prepared
  BY <1>0, <1>3 DEF R!Prepared, R!NoDraft, R!Fresh, R!Draft
<1>4. CASE R!PatchRead
  BY <1>0, <1>4 DEF R!PatchRead
<1>5. CASE R!PatchFailed
  BY <1>5 DEF R!PatchFailed
<1>6. CASE R!PatchWrite
  BY <1>0, <1>6 DEF R!PatchWrite, R!Fresh
<1>7. CASE R!CancelDraft \/ R!ExpireDraft
  BY <1>7 DEF R!CancelDraft, R!ExpireDraft, R!NoDraft
<1> QED
  BY <1>1, <1>2, <1>3, <1>4, <1>5, <1>6, <1>7

\* Steps of a sender keep Fields.
LEMMA FieldsBySender ==
    ASSUME R!TypeOK, Fields, NEW s \in Sender,
           R!Send(s) \/ R!SendRead(s) \/ R!SendUnchecked(s) \/ R!SendHidMore(s)
           \/ R!SendChecked(s) \/ R!SendInsert(s) \/ R!SendNotQueued(s) \/ R!SendForget(s)
    PROVE Fields'
<1> USE Tags, SupportAssumption DEF Fields, R!rows, R!history
<1>0. versions \in Nat /\ sender \in [Sender -> {sender[t] : t \in Sender}]
  BY DEF R!TypeOK, R!Version
<1>1. CASE R!Send(s)
  BY <1>0, <1>1 DEF R!Send, R!MayEdit, R!Draft
<1>2. CASE R!SendRead(s)
  BY <1>0, <1>2 DEF R!SendRead
<1>3. CASE R!SendUnchecked(s) \/ R!SendHidMore(s) \/ R!SendNotQueued(s)
  <2>1. versions' = R!Fresh /\ sender' = [sender EXCEPT ![s] = R!Closed]
        /\ draft'.state = (IF draft.state = "sending" THEN "needs_review" ELSE draft.state)
    BY <1>3 DEF R!SendUnchecked, R!SendHidMore, R!SendNotQueued, R!NeedsReview, R!Draft
  <2> QED
    BY <1>0, <1>3, <2>1 DEF R!SendUnchecked, R!SendHidMore, R!SendNotQueued, R!Fresh
<1>4. CASE R!SendChecked(s) \/ R!SendInsert(s)
  BY <1>0, <1>4 DEF R!SendChecked, R!SendInsert
<1>5. CASE R!SendForget(s)
  BY <1>0, <1>5 DEF R!SendForget, R!NoDraft
<1> QED
  BY <1>1, <1>2, <1>3, <1>4, <1>5

\* The other steps keep Fields.
LEMMA FieldsByDelivery ==
    ASSUME R!TypeOK, Fields,
           \/ \E k \in Delivery : R!TechnicalSupport(k) \/ R!RetryDelivery(k) \/ R!DeliverRead(k)
                 \/ R!DeliverSend(k) \/ R!DeliverAnswer(k) \/ R!DeliverFailed(k)
           \/ R!Review \/ R!PollRead \/ R!PollWrite \/ R!RemoveAtGateway \/ R!RemoveRow \/ R!Restart
    PROVE Fields'
<1>1. CASE R!Restart
  BY <1>1 DEF R!Restart, Fields, R!NoDraft
<1>2. CASE \E k \in Delivery : R!TechnicalSupport(k)
  BY <1>2, SupportAssumption DEF R!TechnicalSupport, Fields, R!NoDraft
<1>3. CASE ~R!Restart /\ ~(\E k \in Delivery : R!TechnicalSupport(k))
  BY <1>3 DEF Fields, R!memory, R!RetryDelivery, R!DeliverRead, R!DeliverSend, R!DeliverAnswer,
     R!DeliverFailed, R!Review, R!PollRead, R!PollWrite, R!RemoveAtGateway, R!RemoveRow
<1> QED
  BY <1>1, <1>2, <1>3

(***************************************************************************)
(* Checked contents (Valid), and one sender with a confirmed content.      *)
(***************************************************************************)
\* Steps of the draft keep Valid.
LEMMA ValidByDraft ==
    ASSUME R!TypeOK, Fields, Valid,
           R!CreateDraft \/ R!RetryDraft \/ R!Prepared \/ R!PatchRead \/ R!PatchFailed
           \/ R!PatchWrite \/ R!CancelDraft \/ R!ExpireDraft
    PROVE Valid'
<1> USE Tags DEF Valid, Good, R!rows, R!history
<1>1. CASE R!CreateDraft
  BY <1>1 DEF R!CreateDraft
<1>2. CASE R!RetryDraft
  BY <1>2 DEF R!RetryDraft, R!Draft
<1>3. CASE R!Prepared
  BY <1>3 DEF R!Prepared, R!Draft
<1>4. CASE R!PatchRead \/ R!PatchFailed
  BY <1>4 DEF R!PatchRead, R!PatchFailed
<1>6. CASE R!PatchWrite
  BY <1>6 DEF R!PatchWrite
<1>7. CASE R!CancelDraft \/ R!ExpireDraft
  BY <1>7 DEF R!CancelDraft, R!ExpireDraft
<1> QED
  BY <1>1, <1>2, <1>3, <1>4, <1>6, <1>7

\* Steps of a sender keep Valid.
LEMMA ValidBySender ==
    ASSUME R!TypeOK, Valid, NEW s \in Sender,
           R!Send(s) \/ R!SendRead(s) \/ R!SendUnchecked(s) \/ R!SendHidMore(s)
           \/ R!SendChecked(s) \/ R!SendInsert(s) \/ R!SendNotQueued(s) \/ R!SendForget(s)
    PROVE Valid'
<1> USE Tags DEF Valid, Good, R!rows, R!history
<1>0. sender \in [Sender -> {sender[t] : t \in Sender}]
  BY DEF R!TypeOK
<1>1. CASE R!Send(s)
  BY <1>0, <1>1 DEF R!Send, R!MayEdit, R!Draft
<1>2. CASE R!SendRead(s)
  BY <1>0, <1>2 DEF R!SendRead
<1>3. CASE R!SendUnchecked(s) \/ R!SendHidMore(s) \/ R!SendNotQueued(s)
  <2>1. sender' = [sender EXCEPT ![s] = R!Closed] /\ sender[s].read \in R!Draft
    BY <1>3 DEF R!SendUnchecked, R!SendHidMore, R!SendNotQueued
  <2>2. checked \subseteq checked'
    BY <1>3 DEF R!SendUnchecked, R!SendHidMore, R!SendNotQueued
  <2>3. draft' # R!NoDraft => draft'.valid \in Good'
    BY <1>3, <2>1 DEF R!SendUnchecked, R!SendHidMore, R!SendNotQueued, R!NeedsReview, R!Draft
  <2> QED
    BY <1>0, <2>1, <2>2, <2>3
<1>4. CASE R!SendChecked(s)
  BY <1>0, <1>4 DEF R!SendChecked
<1>5. CASE R!SendInsert(s)
  BY <1>0, <1>5 DEF R!SendInsert
<1>6. CASE R!SendForget(s)
  BY <1>0, <1>6 DEF R!SendForget
<1> QED
  BY <1>1, <1>2, <1>3, <1>4, <1>5, <1>6

\* The other steps keep Valid.
LEMMA ValidByDelivery ==
    ASSUME R!TypeOK, Valid,
           \/ \E k \in Delivery : R!TechnicalSupport(k) \/ R!RetryDelivery(k) \/ R!DeliverRead(k)
                 \/ R!DeliverSend(k) \/ R!DeliverAnswer(k) \/ R!DeliverFailed(k)
           \/ R!Review \/ R!PollRead \/ R!PollWrite \/ R!RemoveAtGateway \/ R!RemoveRow \/ R!Restart
    PROVE Valid'
<1>1. CASE R!Restart
  BY <1>1, Tags DEF R!Restart, Valid, Good
<1>2. CASE ~R!Restart
  BY <1>2 DEF Valid, Good, R!memory, R!TechnicalSupport, R!RetryDelivery, R!DeliverRead,
     R!DeliverSend, R!DeliverAnswer,
     R!DeliverFailed, R!Review, R!PollRead, R!PollWrite, R!RemoveAtGateway, R!RemoveRow
<1> QED
  BY <1>1, <1>2

\* Steps of the draft leave one sender with a confirmed content.
LEMMA AskedByDraft ==
    ASSUME R!TypeOK, Fields, Truthful, ~stale',
           R!CreateDraft \/ R!RetryDraft \/ R!Prepared \/ R!PatchRead \/ R!PatchFailed
           \/ R!PatchWrite \/ R!CancelDraft \/ R!ExpireDraft
    PROVE OneSender' /\ Asked'
<1> USE Tags DEF Truthful, OneSender, Asked, R!rows, R!history, Fields
<1>1. CASE R!CreateDraft
  BY <1>1 DEF R!CreateDraft
<1>2. CASE R!RetryDraft
  BY <1>2 DEF R!RetryDraft, R!Draft
<1>3. CASE R!Prepared
  BY <1>3 DEF R!Prepared, R!Draft
<1>4. CASE R!PatchRead \/ R!PatchFailed
  BY <1>4 DEF R!PatchRead, R!PatchFailed
<1>6. CASE R!PatchWrite
  BY <1>6 DEF R!PatchWrite
<1>7. CASE R!CancelDraft \/ R!ExpireDraft
  BY <1>7 DEF R!CancelDraft, R!ExpireDraft
<1> QED
  BY <1>1, <1>2, <1>3, <1>4, <1>6, <1>7

\* So do the steps of that sender,
LEMMA AskedBySender ==
    ASSUME R!TypeOK, Fields, Truthful, ~stale', NEW s \in Sender,
           R!Send(s) \/ R!SendRead(s) \/ R!SendUnchecked(s) \/ R!SendHidMore(s)
           \/ R!SendChecked(s) \/ R!SendInsert(s) \/ R!SendNotQueued(s) \/ R!SendForget(s)
    PROVE OneSender' /\ Asked'
<1> USE Tags DEF Truthful, OneSender, Asked, R!rows, R!history
<1>0. sender \in [Sender -> {sender[t] : t \in Sender}]
  BY DEF R!TypeOK
<1>1. CASE R!Send(s)
  BY <1>0, <1>1 DEF R!Send, R!MayEdit, R!Draft
<1>2. CASE R!SendRead(s)
  BY <1>0, <1>2 DEF R!SendRead
<1>3. CASE R!SendUnchecked(s) \/ R!SendHidMore(s) \/ R!SendNotQueued(s) \/ R!SendForget(s)
  <2>1. sender' = [sender EXCEPT ![s] = R!Closed] /\ sender[s] # R!Closed /\ ~stale
    BY <1>3 DEF R!SendUnchecked, R!SendHidMore, R!SendNotQueued, R!SendForget
  <2>2. \A t \in Sender : sender'[t] = R!Closed
    BY <1>0, <2>1
  <2> QED
    BY <2>2
<1>4. CASE R!SendChecked(s)
  BY <1>0, <1>4 DEF R!SendChecked
<1>5. CASE R!SendInsert(s)
  BY <1>0, <1>5 DEF R!SendInsert
<1> QED
  BY <1>1, <1>2, <1>3, <1>4, <1>5

\* and the others.
LEMMA AskedByDelivery ==
    ASSUME R!TypeOK, Truthful, ~stale',
           \/ \E k \in Delivery : R!TechnicalSupport(k) \/ R!RetryDelivery(k) \/ R!DeliverRead(k)
                 \/ R!DeliverSend(k) \/ R!DeliverAnswer(k) \/ R!DeliverFailed(k)
           \/ R!Review \/ R!PollRead \/ R!PollWrite \/ R!RemoveAtGateway \/ R!RemoveRow \/ R!Restart
    PROVE OneSender' /\ Asked'
<1> USE Tags DEF Truthful, OneSender, Asked
<1>1. CASE R!Restart
  BY <1>1 DEF R!Restart
<1>2. CASE \E k \in Delivery : R!TechnicalSupport(k)
  BY <1>2 DEF R!TechnicalSupport
<1>3. CASE R!RemoveRow
  BY <1>3 DEF R!RemoveRow
<1>4. CASE R!Review \/ R!PollRead \/ R!PollWrite \/ R!RemoveAtGateway \/ \E k \in Delivery :
              R!RetryDelivery(k) \/ R!DeliverRead(k) \/ R!DeliverSend(k) \/ R!DeliverAnswer(k)
              \/ R!DeliverFailed(k)
  BY <1>4 DEF R!memory, R!RetryDelivery, R!DeliverRead, R!DeliverSend, R!DeliverAnswer,
     R!DeliverFailed, R!Review, R!PollRead, R!PollWrite, R!RemoveAtGateway
<1> QED
  BY <1>1, <1>2, <1>3, <1>4

(***************************************************************************)
(* One content from the row to the gateway (RowFirst, OneContent, Said).   *)
(***************************************************************************)
\* Steps of the draft do not touch what was sent.
LEMMA ContentByDraft ==
    ASSUME R!TypeOK, Truthful, ~removed',
           R!CreateDraft \/ R!RetryDraft \/ R!Prepared \/ R!PatchRead \/ R!PatchFailed
           \/ R!PatchWrite \/ R!CancelDraft \/ R!ExpireDraft
    PROVE RowFirst' /\ OneContent' /\ Said'
<1>0. UNCHANGED <<report, delivery, poll, removal, gw, got, sender, removed, dropped>>
  BY DEF R!CreateDraft, R!RetryDraft, R!Prepared, R!PatchRead, R!PatchFailed,
     R!PatchWrite, R!CancelDraft, R!ExpireDraft, R!rows, R!history
<1>1. OneContent' /\ RowFirst'
  BY <1>0 DEF Truthful, OneContent, RowFirst, Blank
<1>2. Said'
  <2>1. CASE R!CreateDraft \/ R!RetryDraft \/ R!PatchWrite
    <3>1. draft'.state \in {"processing", "ready"}
      BY <2>1, Tags DEF R!CreateDraft, R!RetryDraft, R!PatchWrite, R!Draft
    <3> QED
      BY <3>1, Tags DEF Said
  <2>2. CASE R!Prepared
    BY <1>0, <2>2, Tags DEF R!Prepared, R!history, Truthful, Said, R!Draft, R!NoDraft
  <2>3. CASE R!PatchRead \/ R!PatchFailed
    BY <1>0, <2>3 DEF R!PatchRead, R!PatchFailed, R!history, Truthful, Said
  <2>4. CASE R!CancelDraft \/ R!ExpireDraft
    BY <2>4 DEF R!CancelDraft, R!ExpireDraft, Said
  <2> QED
    BY <2>1, <2>2, <2>3, <2>4
<1> QED
  BY <1>1, <1>2

\* A sender stores the only row there is, and forgets the draft after that.
LEMMA ContentBySender ==
    ASSUME R!TypeOK, Truthful, ~removed', NEW s \in Sender,
           R!Send(s) \/ R!SendRead(s) \/ R!SendUnchecked(s) \/ R!SendHidMore(s)
           \/ R!SendChecked(s) \/ R!SendInsert(s) \/ R!SendNotQueued(s) \/ R!SendForget(s)
    PROVE RowFirst' /\ OneContent' /\ Said'
<1> USE Tags
<1>0. sender \in [Sender -> {sender[t] : t \in Sender}] /\ ~removed /\ dropped' = dropped
  BY DEF R!TypeOK, R!Send, R!SendRead, R!SendUnchecked, R!SendHidMore, R!SendChecked,
     R!SendInsert, R!SendNotQueued, R!SendForget, R!history
<1>1. RowFirst /\ OneContent /\ Said
  BY <1>0 DEF Truthful
<1>2. CASE R!Send(s) \/ R!SendRead(s) \/ R!SendUnchecked(s) \/ R!SendHidMore(s)
           \/ R!SendChecked(s) \/ R!SendNotQueued(s)
  <2>1. UNCHANGED <<report, delivery, poll, removal, gw, got>>
    BY <1>2 DEF R!Send, R!SendRead, R!SendUnchecked, R!SendHidMore, R!SendChecked,
       R!SendNotQueued, R!rows
  <2>2. \A t \in Sender : sender'[t].at = "forget" => sender[t].at = "forget"
    <3>1. \A t \in Sender : t # s => sender'[t] = sender[t]
      BY <1>0, <1>2 DEF R!Send, R!SendRead, R!SendUnchecked, R!SendHidMore, R!SendChecked,
         R!SendNotQueued
    <3>2. sender'[s].at # "forget"
      <4>1. CASE R!Send(s)
        BY <1>0, <4>1 DEF R!Send
      <4>2. CASE R!SendRead(s)
        BY <1>0, <4>2 DEF R!SendRead
      <4>3. CASE R!SendChecked(s)
        BY <1>0, <4>3 DEF R!SendChecked, R!TypeOK
      <4>4. CASE R!SendUnchecked(s) \/ R!SendHidMore(s) \/ R!SendNotQueued(s)
        BY <1>0, <4>4 DEF R!SendUnchecked, R!SendHidMore, R!SendNotQueued
      <4> QED
        BY <1>2, <4>1, <4>2, <4>3, <4>4
    <3> QED
      BY <3>1, <3>2
  <2>3. draft # R!NoDraft => draft' # R!NoDraft
    <3>1. CASE R!Send(s)
      BY <3>1 DEF R!Send, R!MayEdit, R!Draft, R!NoDraft
    <3>2. CASE R!SendRead(s) \/ R!SendChecked(s)
      BY <3>2 DEF R!SendRead, R!SendChecked
    <3>3. CASE R!SendUnchecked(s) \/ R!SendHidMore(s) \/ R!SendNotQueued(s)
      <4>1. sender[s].read \in R!Draft
        BY <3>3 DEF R!SendUnchecked, R!SendHidMore, R!SendNotQueued
      <4> QED
        BY <3>3, <4>1 DEF R!SendUnchecked, R!SendHidMore, R!SendNotQueued, R!NeedsReview,
           R!Draft, R!NoDraft
    <3> QED
      BY <1>2, <3>1, <3>2, <3>3
  <2>4. accepted' => accepted \/ draft' # R!NoDraft
    <3>1. CASE R!Send(s)
      BY <2>3, <3>1 DEF R!Send, R!MayEdit
    <3>2. CASE ~R!Send(s)
      BY <1>2, <3>2 DEF R!SendRead, R!SendUnchecked, R!SendHidMore, R!SendChecked,
         R!SendNotQueued, R!history
    <3> QED
      BY <3>1, <3>2
  <2>5. RowFirst' /\ OneContent'
    BY <1>1, <2>1, <2>2 DEF RowFirst, Blank, OneContent
  <2> QED
    BY <1>0, <1>1, <2>1, <2>3, <2>4, <2>5 DEF Said
<1>3. CASE R!SendInsert(s)
  <2>1. report' # R!NoRow /\ UNCHANGED <<delivery, poll, gw, got>>
        /\ (report # R!NoRow => report' = report)
    BY <1>3 DEF R!SendInsert, R!NoRow
  <2>2. OneContent'
    BY <1>1, <2>1 DEF OneContent, RowFirst, Blank
  <2> QED
    BY <2>1, <2>2 DEF RowFirst, Said
<1>4. CASE R!SendForget(s)
  <2>1. report # R!NoRow /\ UNCHANGED <<report, poll, gw, got>>
    BY <1>1, <1>4 DEF R!SendForget, RowFirst
  <2>2. PICK k \in Delivery :
            delivery[k] = R!Closed /\ delivery' = [delivery EXCEPT ![k] = [at |-> "read"]]
    BY <1>4 DEF R!SendForget
  <2>3. \A l \in Delivery : delivery'[l] = delivery[l] \/ delivery'[l].at = "read"
    BY <2>2 DEF R!TypeOK
  <2>4. OneContent'
    BY <1>1, <2>1, <2>3 DEF OneContent
  <2> QED
    BY <2>1, <2>4 DEF RowFirst, Said
<1> QED
  BY <1>2, <1>3, <1>4

\* Deliveries and answers are about the content of the row.
LEMMA ContentByDelivery ==
    ASSUME R!TypeOK, Truthful, ~removed',
           \/ \E k \in Delivery : R!TechnicalSupport(k) \/ R!RetryDelivery(k) \/ R!DeliverRead(k)
                 \/ R!DeliverSend(k) \/ R!DeliverAnswer(k) \/ R!DeliverFailed(k)
           \/ R!Review \/ R!PollRead \/ R!PollWrite \/ R!RemoveAtGateway \/ R!RemoveRow \/ R!Restart
    PROVE RowFirst' /\ OneContent' /\ Said'
<1> USE Tags
<1>1. CASE R!Restart
  <2>1. RowFirst /\ OneContent
    BY <1>1 DEF R!Restart, Truthful
  <2>2. OneContent'
    BY <1>1, <2>1 DEF R!Restart, OneContent, R!Closed
  <2>3. RowFirst'
    BY <1>1, <2>1 DEF R!Restart, RowFirst, Blank, R!Closed
  <2>4. Said'
    BY <1>1 DEF R!Restart, Said
  <2> QED
    BY <2>2, <2>3, <2>4
<1>2. ASSUME NEW k \in Delivery, R!TechnicalSupport(k) PROVE RowFirst' /\ OneContent' /\ Said'
  <2>1. Blank
    BY <1>2 DEF R!TechnicalSupport, Truthful, RowFirst
  <2>2. report' # R!NoRow /\ UNCHANGED <<poll, gw, got>>
    BY <1>2 DEF R!TechnicalSupport, R!NoRow
  <2>3. \A l \in Delivery : delivery'[l] = R!Closed \/ delivery'[l].at = "read"
    BY <1>2, <2>1 DEF R!TechnicalSupport, R!TypeOK, Blank
  <2> QED
    BY <2>1, <2>2, <2>3 DEF RowFirst, OneContent, Said, Blank
<1>3. CASE R!RemoveRow
  BY <1>3 DEF R!RemoveRow
<1>4. ASSUME \/ R!Review \/ R!PollRead \/ R!PollWrite \/ R!RemoveAtGateway
             \/ \E k \in Delivery : R!RetryDelivery(k) \/ R!DeliverRead(k) \/ R!DeliverSend(k)
                                    \/ R!DeliverAnswer(k) \/ R!DeliverFailed(k)
      PROVE  RowFirst' /\ OneContent' /\ Said'
  <2>1. UNCHANGED <<draft, sender, accepted, dropped, removed>>
    BY <1>4 DEF R!memory, R!Review, R!PollRead, R!PollWrite, R!RemoveAtGateway, R!RetryDelivery,
       R!DeliverRead, R!DeliverSend,
       R!DeliverAnswer, R!DeliverFailed
  <2>2. ~Blank
    BY <1>4 DEF Blank, R!Review, R!PollRead, R!PollWrite, R!RemoveAtGateway, R!RetryDelivery,
       R!DeliverRead, R!DeliverSend,
       R!DeliverAnswer, R!DeliverFailed, R!NoRow
  <2>3. OneContent /\ report # R!NoRow
    BY <2>1, <2>2 DEF Truthful, RowFirst
  <2>4. report' # R!NoRow
    BY <1>4, <2>3 DEF R!memory, R!Review, R!PollRead, R!PollWrite, R!RemoveAtGateway, R!RetryDelivery,
       R!DeliverRead, R!DeliverSend,
       R!DeliverAnswer, R!DeliverFailed, R!TypeOK, R!Row, R!NoRow
  <2>5. got \subseteq got' /\ report'.content = report.content
    BY <1>4, <2>3 DEF R!memory, R!Review, R!PollRead, R!PollWrite, R!RemoveAtGateway, R!RetryDelivery,
       R!DeliverRead, R!DeliverSend,
       R!DeliverAnswer, R!DeliverFailed, R!TypeOK, R!Row, R!NoRow
  <2>6. OneContent'
    <3>1. CASE R!Review \/ R!PollRead \/ R!PollWrite \/ R!RemoveAtGateway
      BY <2>3, <2>4, <2>5, <3>1 DEF OneContent, R!Review, R!PollRead, R!PollWrite, R!RemoveAtGateway,
         R!NoRow
    <3>2. ASSUME NEW k \in Delivery,
                 R!RetryDelivery(k) \/ R!DeliverRead(k) \/ R!DeliverAnswer(k) \/ R!DeliverFailed(k)
          PROVE  OneContent'
      BY <2>3, <2>4, <2>5, <3>2 DEF OneContent, R!RetryDelivery, R!DeliverRead, R!DeliverAnswer,
         R!DeliverFailed, R!TypeOK
    <3>3. ASSUME NEW k \in Delivery, R!DeliverSend(k) PROVE OneContent'
      BY <2>3, <2>4, <2>5, <3>3 DEF OneContent, R!DeliverSend, R!TypeOK
    <3> QED
      BY <1>4, <3>1, <3>2, <3>3
  <2> QED
    BY <2>4, <2>6 DEF RowFirst, Said
<1> QED
  BY <1>1, <1>2, <1>3, <1>4

(***************************************************************************)
(* The row tells the truth (Kept).                                         *)
(***************************************************************************)
\* Steps of the draft leave the row alone.
LEMMA KeptByDraft ==
    ASSUME R!TypeOK, Fields, Kept,
           R!CreateDraft \/ R!RetryDraft \/ R!Prepared \/ R!PatchRead \/ R!PatchFailed
           \/ R!PatchWrite \/ R!CancelDraft \/ R!ExpireDraft
    PROVE  Kept'
<1>1. /\ UNCHANGED <<report, got, approved, sender>> /\ checked \subseteq checked'
      /\ (stale => stale') /\ removed' = removed
  <2>1. CASE R!PatchWrite
    BY <2>1 DEF R!PatchWrite, R!rows
  <2>2. CASE ~R!PatchWrite
    BY <2>2 DEF R!CreateDraft, R!RetryDraft, R!Prepared, R!PatchRead, R!PatchFailed,
       R!CancelDraft, R!ExpireDraft, R!rows, R!history
  <2> QED
    BY <2>1, <2>2
<1>2. (R!CheckedOnly /\ R!ApprovedOnly /\ R!Delivered)'
  BY <1>1 DEF Kept, R!CheckedOnly, R!ApprovedOnly, R!Delivered
<1>3. draft'.state = "sending" => draft.state = "sending"
  <2>1. CASE R!CreateDraft \/ R!RetryDraft \/ R!PatchWrite
    BY <2>1, Tags DEF R!CreateDraft, R!RetryDraft, R!PatchWrite, R!Draft
  <2>2. CASE R!Prepared
    BY <2>2, Tags DEF R!Prepared, R!Draft, R!NoDraft
  <2>3. CASE R!PatchRead \/ R!PatchFailed
    BY <2>3 DEF R!PatchRead, R!PatchFailed
  <2>4. CASE R!CancelDraft \/ R!ExpireDraft
    BY <2>4 DEF R!CancelDraft, R!ExpireDraft, R!NoDraft
  <2> QED
    BY <2>1, <2>2, <2>3, <2>4
<1> QED
  BY <1>1, <1>2, <1>3 DEF Kept, Manned

\* A sender stores only what was checked and confirmed.
LEMMA KeptBySender ==
    ASSUME R!TypeOK, Valid, Truthful, Kept, NEW s \in Sender,
           R!Send(s) \/ R!SendRead(s) \/ R!SendUnchecked(s) \/ R!SendHidMore(s)
           \/ R!SendChecked(s) \/ R!SendInsert(s) \/ R!SendNotQueued(s) \/ R!SendForget(s)
    PROVE  Kept'
<1>0. sender \in [Sender -> {sender[t] : t \in Sender}]
  BY DEF R!TypeOK
<1>1. Manned'
  <2>1. CASE R!Send(s)
    BY <1>0, <2>1, Tags DEF R!Send, Manned
  <2>2. CASE R!SendRead(s)
    BY <1>0, <2>2, Tags DEF R!SendRead, Manned, Kept
  <2>3. CASE R!SendUnchecked(s) \/ R!SendHidMore(s) \/ R!SendNotQueued(s)
    <3>1. sender[s].read \in R!Draft
      BY <2>3, Tags DEF R!SendUnchecked, R!SendHidMore, R!SendNotQueued
    <3>2. draft'.state # "sending"
      BY <2>3, <3>1 DEF R!SendUnchecked, R!SendHidMore, R!SendNotQueued, R!NeedsReview, R!Draft
    <3> QED
      BY <3>2 DEF Manned
  <2>4. CASE R!SendChecked(s) \/ R!SendInsert(s)
    <3>1. sender[s].at \in {"check", "insert"}
          /\ \E a \in {"insert", "forget"} : sender' = [sender EXCEPT ![s].at = a]
      BY <2>4 DEF R!SendChecked, R!SendInsert
    <3>2. sender[s] \in [at : {"check", "insert", "forget"}, read : R!Draft, content : R!Content]
      BY <3>1 DEF R!TypeOK, R!Closed
    <3>3. sender'[s].at \in {"insert", "forget"}
      BY <1>0, <3>1, <3>2
    <3> QED
      BY <3>3, Tags DEF Manned
  <2>5. CASE R!SendForget(s)
    BY <2>5, Tags DEF R!SendForget, Manned
  <2> QED
    BY <2>1, <2>2, <2>3, <2>4, <2>5
<1>2. CASE R!SendInsert(s)
  <2>1. UNCHANGED <<got, approved, checked, stale, removed>> /\ sender[s].at = "insert"
        /\ report' = (IF report = R!NoRow
                     THEN [state |-> "queued", content |-> sender[s].content] ELSE report)
    BY <1>2 DEF R!SendInsert, R!history
  <2>2. sender[s].content \in checked \cup {R!Plain(0)}
    BY <2>1 DEF Valid, Good
  <2>3. ~stale => sender[s].content \in approved
    BY <2>1 DEF Truthful, Asked
  <2> QED
    BY <1>1, <2>1, <2>2, <2>3 DEF Kept, R!CheckedOnly, R!ApprovedOnly, R!Delivered
<1>3. CASE ~R!SendInsert(s)
  <2>1. UNCHANGED <<report, got, stale, removed>>
        /\ checked \subseteq checked' /\ approved \subseteq approved'
    BY <1>3 DEF R!Send, R!SendRead, R!SendUnchecked, R!SendHidMore, R!SendChecked,
       R!SendNotQueued,
       R!SendForget, R!rows, R!history
  <2> QED
    BY <1>1, <2>1 DEF Kept, R!CheckedOnly, R!ApprovedOnly, R!Delivered
<1> QED
  BY <1>2, <1>3

\* A state is written only when the gateway has the content.
LEMMA KeptByDelivery ==
    ASSUME R!TypeOK, Truthful, Kept,
           \/ \E k \in Delivery : R!TechnicalSupport(k) \/ R!RetryDelivery(k) \/ R!DeliverRead(k)
                 \/ R!DeliverSend(k) \/ R!DeliverAnswer(k) \/ R!DeliverFailed(k)
           \/ R!Review \/ R!PollRead \/ R!PollWrite \/ R!RemoveAtGateway \/ R!RemoveRow \/ R!Restart
    PROVE  Kept'
<1>1. CASE R!Restart
  BY <1>1, Tags DEF R!Restart, Kept, Manned, R!CheckedOnly, R!ApprovedOnly, R!Delivered
<1>2. CASE R!RemoveRow
  BY <1>2 DEF R!RemoveRow, Kept, Manned, R!CheckedOnly, R!ApprovedOnly, R!Delivered
<1>3. CASE \E k \in Delivery : R!TechnicalSupport(k)
  BY <1>3 DEF R!TechnicalSupport, Kept, Manned, R!CheckedOnly, R!ApprovedOnly, R!Delivered
<1>4. ASSUME \/ R!PollWrite
             \/ \E k \in Delivery : R!DeliverAnswer(k)
      PROVE  Kept'
  <2>1. UNCHANGED <<draft, sender, checked, approved, stale, removed, got>>
    BY <1>4 DEF R!PollWrite, R!DeliverAnswer, R!memory
  <2>2. report' # R!NoRow => report # R!NoRow /\ report'.content = report.content
    BY <1>4 DEF R!PollWrite, R!DeliverAnswer, R!TypeOK, R!Row, R!NoRow
  <2>3. report' # R!NoRow /\ ~removed => report.content \in got
    BY <1>4, <2>2 DEF R!PollWrite, R!DeliverAnswer, Truthful, OneContent
  <2> QED
    BY <2>1, <2>2, <2>3 DEF Kept, Manned, R!CheckedOnly, R!ApprovedOnly, R!Delivered
<1>5. ASSUME \/ R!Review \/ R!PollRead \/ R!RemoveAtGateway
             \/ \E k \in Delivery : R!RetryDelivery(k) \/ R!DeliverRead(k) \/ R!DeliverSend(k)
                                    \/ R!DeliverFailed(k)
      PROVE  Kept'
  <2>1. UNCHANGED <<draft, sender, checked, approved, stale, removed, report>> /\ got \subseteq got'
    BY <1>5 DEF R!Review, R!PollRead, R!RemoveAtGateway, R!RetryDelivery, R!DeliverRead,
       R!DeliverSend, R!DeliverFailed, R!memory
  <2> QED
    BY <2>1 DEF Kept, Manned, R!CheckedOnly, R!ApprovedOnly, R!Delivered
<1> QED
  BY <1>1, <1>2, <1>3, <1>4, <1>5

(***************************************************************************)
(* Types of the rules; a review of the rules keeps texts and revisions.    *)
(***************************************************************************)
\* Nothing idle is open.
LEMMA ClosedNow == C!NoCall.open = FALSE /\ C!NoApply.open = FALSE
BY DEF C!NoCall, C!NoApply

\* Sets of rules are finite.
LEMMA RuleFinite == IsFiniteSet(Rule) /\ \A S \in SUBSET Rule : IsFiniteSet(S)
BY SupportAssumption, FS_Subset

\* correctionTransition gives a status and a reason, and spares what is off.
LEMMA Transition ==
    ASSUME NEW w \in C!Rows, NEW p, NEW fix
    PROVE  LET v == C!correctionTransition(w, p, fix) IN
           /\ v.status \in C!Status /\ v.reason \in C!Reason
           /\ w.status \in {"none", "manual_disabled"} => v = w
BY DEF C!correctionTransition, C!Put, C!Rows, C!Status, C!Reason

\* A changed status leaves text and revision.
LEMMA PutRow ==
    ASSUME NEW w \in C!Rows, NEW t \in C!Status, NEW why \in C!Reason
    PROVE  /\ C!Put(w, t, why) \in C!Rows /\ C!Put(w, t, why).rev = w.rev
           /\ C!Put(w, t, why).text = w.text /\ C!Put(w, t, why).status = t
BY DEF C!Put, C!Rows

\* A review changes neither text nor revision, and nothing the user switched off.
LEMMA ReviewKeeps ==
    ASSUME NEW seen \in [Rule -> C!Rows], NEW now \in [Rule -> C!Rows], NEW p, NEW fix
    PROVE  LET w == C!Reviewed(seen, now, p, fix) IN
           /\ w \in [Rule -> C!Rows]
           /\ \A r \in Rule :
                 /\ w[r].rev = now[r].rev /\ w[r].text = now[r].text
                 /\ now[r].status = "manual_disabled" => w[r].status = "manual_disabled"
<1> DEFINE w == C!Reviewed(seen, now, p, fix)
<1>1. ASSUME NEW r \in Rule
      PROVE  /\ w[r] \in C!Rows /\ w[r].rev = now[r].rev /\ w[r].text = now[r].text
             /\ now[r].status = "manual_disabled" => w[r].status = "manual_disabled"
  <2> DEFINE v == C!correctionTransition(seen[r], p, fix)
  <2>1. w[r] = IF v # seen[r] /\ now[r].status = seen[r].status
               THEN C!Put(now[r], v.status, v.reason) ELSE now[r]
    BY DEF C!Reviewed
  <2>2. v.status \in C!Status /\ v.reason \in C!Reason
        /\ (seen[r].status \in {"none", "manual_disabled"} => v = seen[r])
    BY Transition
  <2> HIDE DEF v, w
  <2> QED
    BY <2>1, <2>2, PutRow
<1>2. w = [r \in Rule |-> w[r]]
  BY DEF C!Reviewed
<1> HIDE DEF w
<1>3. w \in [Rule -> C!Rows]
  BY <1>1, <1>2
<1> QED
  BY <1>1, <1>3 DEF w

\* Setting several active rules aside spares text, revision and what is off.
LEMMA SetAsideKeeps ==
    ASSUME NEW now \in [Rule -> C!Rows]
    PROVE  LET w == C!SetAside(now) IN
           /\ w \in [Rule -> C!Rows]
           /\ \A r \in Rule :
                 /\ w[r].rev = now[r].rev /\ w[r].text = now[r].text
                 /\ now[r].status = "manual_disabled" => w[r].status = "manual_disabled"
<1>1. "needs_review" \in C!Status /\ "several" \in C!Reason
  BY DEF C!Status, C!Reason
<1> QED
  BY <1>1, PutRow DEF C!SetAside, C!Active

\* So does activeTemporaryCorrections as a whole.
LEMMA AllKeep ==
    ASSUME NEW seen \in [Rule -> C!Rows], NEW now \in [Rule -> C!Rows], NEW p, NEW fix
    PROVE  LET w == C!activeTemporaryCorrections(seen, now, p, fix) IN
           /\ w \in [Rule -> C!Rows]
           /\ \A r \in Rule :
                 /\ w[r].rev = now[r].rev /\ w[r].text = now[r].text
                 /\ now[r].status = "manual_disabled" => w[r].status = "manual_disabled"
<1> DEFINE v == C!Reviewed(seen, now, p, fix)
<1>1. /\ v \in [Rule -> C!Rows]
      /\ \A r \in Rule : /\ v[r].rev = now[r].rev /\ v[r].text = now[r].text
                         /\ now[r].status = "manual_disabled" => v[r].status = "manual_disabled"
  BY ReviewKeeps
<1> HIDE DEF v
<1> QED
  BY <1>1, SetAsideKeeps DEF C!activeTemporaryCorrections, v

\* A prompt has one rule or none.
LEMMA PromptType ==
    ASSUME NEW w
    PROVE  C!InPrompt(w) \in Rule \cup {NoRule}
<1>1. C!Active(w) \in SUBSET Rule
  BY DEF C!Active
<1>2. Cardinality(C!Active(w)) = 1 => C!Active(w) # {}
  BY FS_EmptySet
<1> QED
  BY <1>1, <1>2 DEF C!InPrompt

RowSame == \A r \in Rule :
    /\ row'[r].rev = row[r].rev /\ row'[r].text = row[r].text
    /\ row[r].status = "manual_disabled" => row'[r].status = "manual_disabled"

\* Reviews keep types, texts, revisions and what is off.
LEMMA RuleTypesByCall ==
    ASSUME C!TypeOK,
           \/ C!SaveSettings \/ C!Restart \/ \E c \in Call : C!ReadConfig(c) \/ C!llmConfig(c)
    PROVE  C!TypeOK' /\ RowSame
<1>0. row \in [Rule -> C!Rows]
  BY DEF C!TypeOK
<1>1. CASE C!SaveSettings
  <2>1. saves' \in 0 .. MaxEvent /\ personal' \in C!Instructions
    BY <1>1, SupportAssumption DEF C!SaveSettings, C!TypeOK
  <2> QED
    BY <1>1, <2>1, SupportAssumption DEF C!SaveSettings, C!TypeOK, RowSame
<1>2. CASE C!Restart
  <2>1. row' \in [Rule -> C!Rows] /\ RowSame
    BY <1>0, <1>2, AllKeep DEF C!Restart, RowSame
  <2> QED
    BY <1>2, <2>1, SupportAssumption DEF C!Restart, C!TypeOK
<1>3. ASSUME NEW c \in Call, C!ReadConfig(c) PROVE C!TypeOK' /\ RowSame
  BY <1>3, SupportAssumption DEF C!ReadConfig, C!world, C!TypeOK, RowSame
<1>4. ASSUME NEW c \in Call, C!llmConfig(c) PROVE C!TypeOK' /\ RowSame
  <2>1. call[c].seen \in [Rule -> C!Rows]
    <3>1. call[c] \in {C!NoCall} \cup [open : {TRUE}, p : C!Instructions, seen : [Rule -> C!Rows]]
      BY DEF C!TypeOK
    <3>2. call[c].open
      BY <1>4 DEF C!llmConfig
    <3> QED
      BY <3>1, <3>2, ClosedNow
  <2>2. row' \in [Rule -> C!Rows] /\ RowSame
    BY <1>0, <1>4, <2>1, AllKeep DEF C!llmConfig, RowSame
  <2>3. prompt' \in Rule \cup {NoRule}
    BY <1>4, PromptType DEF C!llmConfig
  <2> QED
    BY <1>4, <2>2, <2>3 DEF C!llmConfig, C!world, C!TypeOK
<1> QED
  BY <1>1, <1>2, <1>3, <1>4

OfferTypes == offer \in [Rule -> C!Offers]
RowTypes == row \in [Rule -> C!Rows]
RcvTypes ==
    rcv \in {C!NoReceive} \cup [at : 1..Len(inbox), read : {FALSE}]
                \cup [at : 1..Len(inbox), read : {TRUE}, revised : BOOLEAN, link : BOOLEAN]
ApplyTypes == apply \in [Rule -> {C!NoApply} \cup
           [open : {TRUE}, p : C!Instructions, rev : C!Rev, scope : C!Scope, text : Text]]

\* The parts of C!TypeOK the proofs use.
LEMMA Parts ==
    ASSUME C!TypeOK
    PROVE  /\ OfferTypes /\ RowTypes /\ RcvTypes /\ ApplyTypes /\ inbox \in Seq(C!Replies)
           /\ \A r \in Rule : offer[r] \in C!Offers /\ row[r] \in C!Rows
           /\ C!NoOffer \in C!Offers
<1>1. OfferTypes /\ RowTypes /\ RcvTypes /\ ApplyTypes /\ inbox \in Seq(C!Replies)
  BY DEF C!TypeOK, OfferTypes, RowTypes, RcvTypes, ApplyTypes
<1>2. \A r \in Rule : offer[r] \in C!Offers /\ row[r] \in C!Rows
  BY <1>1 DEF OfferTypes, RowTypes
<1>3. C!NoOffer \in C!Offers
  BY SupportAssumption DEF C!NoOffer, C!Offers, C!Offered, C!Rev, C!Scope
<1> QED
  BY <1>1, <1>2, <1>3

\* The fields of a reply.
LEMMA Replied ==
    ASSUME NEW m \in C!Replies
    PROVE  /\ m.kind \in {"pending", "offer"}
           /\ m.kind = "offer" => /\ m.rule \in Rule /\ m.rev \in 1 .. MaxRev /\ m.rev \in C!Rev
                                  /\ m.scope \in C!Scope /\ m.text \in Text
BY SupportAssumption DEF C!Replies, C!Rev

\* The receiver goes to the next reply or ends.
LEMMA LaterTypes ==
    ASSUME inbox \in Seq(C!Replies), NEW i \in 1 .. Len(inbox)
    PROVE  C!Later(i) \in {C!NoReceive} \cup [at : 1..Len(inbox), read : {FALSE}]
BY DEF C!Later

\* An offer with another status keeps revision and text.
LEMMA Superseded ==
    ASSUME NEW o \in C!Offers, NEW t \in C!Offered
    PROVE  /\ [o EXCEPT !.status = t] \in C!Offers
           /\ [o EXCEPT !.status = t].status = t /\ [o EXCEPT !.status = t].rev = o.rev
           /\ [o EXCEPT !.status = t].text = o.text
BY DEF C!Offers

\* What a busy receiver holds.
LEMMA Receiving ==
    ASSUME C!TypeOK, rcv # C!NoReceive
    PROVE  rcv.at \in 1 .. Len(inbox) /\ inbox[rcv.at] \in C!Replies /\ rcv.read \in BOOLEAN
           /\ (rcv.read => rcv.revised \in BOOLEAN /\ rcv.link \in BOOLEAN)
<1>1. RcvTypes /\ inbox \in Seq(C!Replies)
  BY Parts
<1>2. rcv.at \in 1 .. Len(inbox) /\ rcv.read \in BOOLEAN
      /\ (rcv.read => rcv.revised \in BOOLEAN /\ rcv.link \in BOOLEAN)
  BY <1>1 DEF RcvTypes
<1> QED
  BY <1>1, <1>2

\* Receiving replies keeps the types.
LEMMA RuleTypesByReply ==
    ASSUME C!TypeOK, \/ C!Open \/ C!ReceivePending \/ C!ReceiveRead \/ C!ReceiveWrite
                     \/ \E m \in C!Replies : C!Reply(m)
    PROVE  C!TypeOK'
<1>0. Len(inbox) \in Nat /\ DOMAIN inbox = 1 .. Len(inbox)
      /\ \A i \in 1 .. Len(inbox) : inbox[i] \in C!Replies
  BY DEF C!TypeOK
<1>1. CASE C!Open
  <2>1. rcv' \in [at : 1..Len(inbox), read : {FALSE}]
    BY <1>0, <1>1 DEF C!Open
  <2> QED
    BY <1>1, <2>1, SupportAssumption DEF C!Open, C!world, C!TypeOK
<1>2. CASE C!ReceivePending
  <2>1. row' \in [Rule -> C!Rows]
    <3>1. "needs_review" \in C!Status /\ "support" \in C!Reason
      BY DEF C!Status, C!Reason
    <3> QED
      BY <1>2, <3>1, PutRow, Parts DEF C!ReceivePending
  <2>2. offer' \in [Rule -> C!Offers]
    <3>1. "superseded" \in C!Offered
      BY DEF C!Offered
    <3> QED
      BY <1>2, <3>1, Superseded, Parts DEF C!ReceivePending
  <2>3. rcv' \in {C!NoReceive} \cup [at : 1..Len(inbox), read : {FALSE}]
    BY <1>2, Receiving, Parts, LaterTypes DEF C!ReceivePending
  <2> QED
    BY <1>2, <2>1, <2>2, <2>3, SupportAssumption DEF C!ReceivePending, C!world, C!TypeOK
<1>3. CASE C!ReceiveRead
  BY <1>0, <1>3 DEF C!ReceiveRead, C!world, C!TypeOK
<1>4. CASE C!ReceiveWrite
  <2> DEFINE m == inbox[rcv.at]
             suspended == rcv.revised /\ ~rcv.link /\ row[m.rule].status = "active"
  <2>0. rcv # C!NoReceive /\ m.kind = "offer" /\ m \in C!Replies /\ rcv.at \in 1 .. Len(inbox)
    BY <1>4, Receiving DEF C!ReceiveWrite
  <2>1. row' \in [Rule -> C!Rows]
    <3>1. "needs_review" \in C!Status /\ "support" \in C!Reason
      BY DEF C!Status, C!Reason
    <3>2. [row[m.rule] EXCEPT !.scope = "systemic", !.rev = m.rev] \in C!Rows
      <4>1. row[m.rule] \in C!Rows /\ m.rev \in C!Rev /\ "systemic" \in C!Scope
        BY <2>0, Replied, Parts DEF C!Scope
      <4> HIDE DEF m
      <4> QED
        BY <4>1 DEF C!Rows
    <3> QED
      BY <1>4, <2>0, <3>1, <3>2, PutRow, Parts DEF C!ReceiveWrite
  <2>2. offer' \in [Rule -> C!Offers]
    <3>1. {"superseded", "applied", "offered"} \subseteq C!Offered
      BY DEF C!Offered
    <3>2. \A t \in C!Offered :
             [status |-> t, rev |-> m.rev, scope |-> m.scope, text |-> m.text] \in C!Offers
      BY <2>0, Replied DEF C!Offers
    <3> HIDE DEF m
    <3> QED
      BY <1>4, <2>0, <3>1, <3>2, Superseded, Parts DEF C!ReceiveWrite, m
  <2>3. rcv' \in {C!NoReceive} \cup [at : 1..Len(inbox), read : {FALSE}]
    BY <1>4, <2>0, Parts, LaterTypes DEF C!ReceiveWrite
  <2>4. held' \in SUBSET Rule
    BY <1>4, <2>0, Replied DEF C!ReceiveWrite, C!TypeOK
  <2> QED
    BY <1>4, <2>1, <2>2, <2>3, <2>4, SupportAssumption DEF C!ReceiveWrite, C!world, C!TypeOK
<1>5. ASSUME NEW m \in C!Replies, C!Reply(m) PROVE C!TypeOK'
  <2>1. inbox' \in Seq(C!Replies) /\ Len(inbox') = Len(inbox) + 1
    BY <1>5 DEF C!Reply, C!TypeOK
  <2>2. 1 .. Len(inbox) \subseteq 1 .. Len(inbox')
    BY <1>0, <2>1
  <2>3. RcvTypes'
    BY <1>5, <2>2, Parts DEF C!Reply, RcvTypes
  <2> QED
    BY <1>5, <2>1, <2>3, SupportAssumption DEF C!Reply, C!world, C!TypeOK, RcvTypes
<1> QED
  BY <1>1, <1>2, <1>3, <1>4, <1>5

\* The user's decisions keep the types.
LEMMA RuleTypesByUser ==
    ASSUME C!TypeOK, Behind, NEW r \in Rule, \/ C!ApplyRead(r) \/ C!ApplyWrite(r) \/ C!Decline(r)
                     \/ C!DisableRead(r) \/ C!DisableWrite(r)
    PROVE  C!TypeOK'
<1>1. CASE C!ApplyRead(r)
  <2>1. offer[r] \in C!Offers /\ offer[r].text \in Text
    BY <1>1, Parts DEF C!ApplyRead, Behind
  <2>2. apply' \in [Rule -> {C!NoApply} \cup
           [open : {TRUE}, p : C!Instructions, rev : C!Rev, scope : C!Scope, text : Text]]
    BY <1>1, <2>1, Parts DEF C!ApplyRead, ApplyTypes, C!Offers, C!TypeOK
  <2> QED
    BY <1>1, <2>2, SupportAssumption DEF C!ApplyRead, C!world, C!TypeOK
<1>2. CASE C!ApplyWrite(r)
  <2>1. apply[r] \in [open : {TRUE}, p : C!Instructions, rev : C!Rev, scope : C!Scope, text : Text]
    BY <1>2, Parts, ClosedNow DEF C!ApplyWrite, ApplyTypes
  <2>2. row' \in [Rule -> C!Rows]
    BY <1>2, <2>1, Parts DEF C!ApplyWrite, C!Rows, C!Status, C!Reason, RowTypes
  <2>3. offer' \in [Rule -> C!Offers]
    BY <1>2, Parts DEF C!ApplyWrite, OfferTypes, C!Offers, C!Offered
  <2> QED
    BY <1>2, <2>2, <2>3, SupportAssumption DEF C!ApplyWrite, C!world, C!TypeOK
<1>3. CASE C!Decline(r)
  <2>1. offer' \in [Rule -> C!Offers]
    BY <1>3, Parts DEF C!Decline, OfferTypes, C!Offers, C!Offered
  <2> QED
    BY <1>3, <2>1, SupportAssumption DEF C!Decline, C!world, C!TypeOK
<1>4. CASE C!DisableRead(r)
  BY <1>4, SupportAssumption DEF C!DisableRead, C!world, C!TypeOK, C!Rows
<1>5. CASE C!DisableWrite(r)
  <2>1. row' \in [Rule -> C!Rows]
    <3>1. "manual_disabled" \in C!Status /\ "user" \in C!Reason
      BY DEF C!Status, C!Reason
    <3> QED
      BY <1>5, <3>1, PutRow, Parts DEF C!DisableWrite, RowTypes
  <2> QED
    BY <1>5, <2>1, SupportAssumption DEF C!DisableWrite, C!world, C!TypeOK
<1> QED
  BY <1>1, <1>2, <1>3, <1>4, <1>5

(***************************************************************************)
(* The agreement of offers, rules and open transactions (Consent).         *)
(***************************************************************************)
\* Revisions are numbers and offers have texts.
LEMMA Numbers ==
    ASSUME C!TypeOK
    PROVE  /\ \A r \in Rule : /\ row[r].rev \in Nat /\ offer[r].rev \in Nat
                              /\ apply[r].open => apply[r].rev \in Nat /\ apply[r].text \in Text
                              /\ row[r].text \in Text \cup {NoText}
           /\ C!NoOffer.status = "none" /\ C!NoOffer.rev = 0
           /\ \A i \in DOMAIN inbox : inbox[i] \in C!Replies
           /\ \A i \in DOMAIN inbox :
                 inbox[i].kind = "offer" => inbox[i].rule \in Rule /\ inbox[i].rev \in Nat
<1>1. \A r \in Rule : row[r].rev \in Nat /\ offer[r].rev \in Nat /\ row[r].text \in Text \cup {NoText}
  BY Parts, SupportAssumption DEF C!Rows, C!Offers, C!Rev
<1>2. \A r \in Rule : apply[r].open => apply[r].rev \in Nat /\ apply[r].text \in Text
  <2> TAKE r \in Rule
  <2> HAVE apply[r].open
  <2>1. apply[r] \in {C!NoApply} \cup
           [open : {TRUE}, p : C!Instructions, rev : C!Rev, scope : C!Scope, text : Text]
    BY Parts DEF ApplyTypes
  <2>2. apply[r] # C!NoApply
    BY ClosedNow
  <2>3. apply[r] \in [open : {TRUE}, p : C!Instructions, rev : C!Rev, scope : C!Scope, text : Text]
    BY <2>1, <2>2
  <2>4. apply[r].rev \in C!Rev /\ apply[r].text \in Text
    BY <2>3
  <2> QED
    BY <2>4, SupportAssumption DEF C!Rev
<1>3. C!NoOffer.status = "none" /\ C!NoOffer.rev = 0
  BY DEF C!NoOffer
<1>4. \A i \in DOMAIN inbox : inbox[i] \in C!Replies
  BY Parts
<1>5. \A i \in DOMAIN inbox :
         inbox[i].kind = "offer" => inbox[i].rule \in Rule /\ inbox[i].rev \in Nat
  BY <1>4, Replied
<1> QED
  BY <1>1, <1>2, <1>3, <1>4, <1>5

\* A step that moves no revision and no text keeps what was agreed.
LEMMA QuietConsent ==
    ASSUME C!TypeOK, Consent, RowSame, UNCHANGED <<report, inbox>>,
           apply' = apply \/ apply' = [r \in Rule |-> C!NoApply],
           offer' = offer, rcv' = rcv \/ rcv' = C!NoReceive
    PROVE  Consent'
<1>1. Behind'
  BY Numbers, ClosedNow DEF Consent, Behind, RowSame
<1>2. Reading'
  <2> SUFFICES ASSUME rcv # C!NoReceive, rcv.read, rcv' = rcv PROVE Reading'
    BY DEF Reading
  <2> DEFINE m == inbox[rcv.at]
             r == m.rule
  <2>1. /\ m.kind = "offer"
        /\ rcv.revised => offer[r].rev < m.rev
        /\ rcv.link => /\ rcv.revised /\ row[r].text = m.text /\ offer[r].status # "offered"
                       /\ apply[r].open => apply[r].rev <= row[r].rev
    BY DEF Consent, Reading
  <2>2. r \in Rule
    BY <2>1, Receiving, Replied
  <2>3. row'[r].rev = row[r].rev /\ row'[r].text = row[r].text
    BY <2>2 DEF RowSame
  <2>4. apply'[r] = apply[r] \/ ~apply'[r].open
    BY <2>2, ClosedNow
  <2> HIDE DEF r, m
  <2>5. /\ m.kind = "offer"
        /\ rcv.revised => offer'[r].rev < m.rev
        /\ rcv.link => /\ rcv.revised /\ row'[r].text = m.text /\ offer'[r].status # "offered"
                       /\ apply'[r].open => apply'[r].rev <= row'[r].rev
    BY <2>1, <2>3, <2>4
  <2> QED
    BY <2>5 DEF Reading, r, m
<1>3. C!ConsentMatches'
  BY DEF Consent, RowSame, C!ConsentMatches
<1> QED
  BY <1>1, <1>2, <1>3 DEF Consent

\* Reviews, settings and restarts keep the agreement.
LEMMA ConsentByCall ==
    ASSUME C!TypeOK, Consent, report' = report,
           \/ C!SaveSettings \/ C!Restart \/ \E c \in Call : C!ReadConfig(c) \/ C!llmConfig(c)
    PROVE  Consent' /\ C!OffStays
<1>1. RowSame
  BY RuleTypesByCall
<1>2. inbox' = inbox /\ offer' = offer /\ (apply' = apply \/ apply' = [r \in Rule |-> C!NoApply])
      /\ (rcv' = rcv \/ rcv' = C!NoReceive)
  BY DEF C!SaveSettings, C!Restart, C!ReadConfig, C!llmConfig
<1> QED
  BY <1>1, <1>2, QuietConsent DEF C!OffStays, RowSame

\* A new reply changes nothing yet.
LEMMA ConsentByArrival ==
    ASSUME C!TypeOK, Consent, report' = report,
           \E m \in C!Replies : C!Reply(m)
    PROVE  Consent' /\ C!OffStays
<1> PICK m \in C!Replies : C!Reply(m)
  OBVIOUS
<1>1. inbox' = Append(inbox, m) /\ UNCHANGED <<offer, row, rcv, apply>>
  BY DEF C!Reply
<1>2. rcv # C!NoReceive => inbox'[rcv.at] = inbox[rcv.at]
  BY <1>1, Receiving, Parts
<1> QED
  BY <1>1, <1>2 DEF Consent, Behind, Reading, C!ConsentMatches, C!OffStays

\* The receiver notes only what holds until it writes.
LEMMA ConsentByReading ==
    ASSUME C!TypeOK, Consent, report' = report,
           C!Open \/ C!ReceivePending \/ C!ReceiveRead
    PROVE  Consent' /\ C!OffStays
<1>1. CASE C!Open
  <2>1. ~rcv'.read /\ UNCHANGED <<inbox, offer, row, apply>>
    BY <1>1 DEF C!Open
  <2> QED
    BY <2>1 DEF Consent, Behind, Reading, C!ConsentMatches, C!OffStays
<1>2. CASE C!ReceivePending
  <2>1. \A r \in Rule : row'[r].rev = row[r].rev /\ row'[r].text = row[r].text
                        /\ (row[r].status = "manual_disabled" => row'[r].status = "manual_disabled")
    BY <1>2, Parts DEF C!ReceivePending, C!Individual, C!Put, C!Rows
  <2>2. \A r \in Rule : \/ offer'[r] = offer[r]
                        \/ /\ offer'[r].rev = offer[r].rev /\ offer'[r].text = offer[r].text
                           /\ offer'[r].status = "superseded" /\ offer[r].status # "none"
    BY <1>2, Parts DEF C!ReceivePending, C!Offers
  <2>3. UNCHANGED <<inbox, apply>> /\ (rcv' = C!NoReceive \/ ~rcv'.read)
    BY <1>2 DEF C!ReceivePending, C!Later
  <2> QED
    BY <2>1, <2>2, <2>3, Numbers DEF Consent, Behind, Reading, C!ConsentMatches, C!OffStays
<1>3. CASE C!ReceiveRead
  <2>1. UNCHANGED <<inbox, offer, row, apply>>
    BY <1>3 DEF C!ReceiveRead
  <2>2. Reading'
    <3> DEFINE m == inbox[rcv.at]
               r == m.rule
               revised == offer[r].status = "applied" /\ offer[r].rev < m.rev
    <3>1. /\ m.kind = "offer" /\ rcv # C!NoReceive
          /\ rcv' = [at |-> rcv.at, read |-> TRUE, revised |-> revised,
                     link |-> revised /\ C!Linked(offer[r], m, row[r])]
      BY <1>3 DEF C!ReceiveRead
    <3>2. r \in Rule
      BY <3>1, Receiving, Replied
    <3>3. rcv'.at = rcv.at /\ (rcv'.revised <=> revised)
          /\ (rcv'.link <=> revised /\ C!Linked(offer[r], m, row[r]))
      BY <3>1
    <3>4. row[r].rev \in Nat /\ offer[r].rev \in Nat /\ (apply[r].open => apply[r].rev \in Nat)
      BY <3>2, Numbers
    <3>5. /\ report # R!NoRow /\ apply[r].open => apply[r].rev <= offer[r].rev
          /\ report = R!NoRow => offer[r] = C!NoOffer
      BY <3>2 DEF Consent, Behind
    <3>6. offer[r].status = "applied" => offer[r] # C!NoOffer
      BY Numbers
    <3> HIDE DEF m, r
    <3>7. rcv'.link => /\ row[r].text = m.text /\ row[r].rev = offer[r].rev
                       /\ offer[r].status # "offered"
      BY <3>3 DEF C!Linked
    <3>8. /\ m.kind = "offer"
          /\ rcv'.revised => offer'[r].rev < m.rev
          /\ rcv'.link => /\ rcv'.revised /\ row'[r].text = m.text /\ offer'[r].status # "offered"
                          /\ apply'[r].open => apply'[r].rev <= row'[r].rev
      BY <2>1, <3>1, <3>3, <3>4, <3>5, <3>6, <3>7
    <3> QED
      BY <2>1, <3>3, <3>8 DEF Reading, r, m
  <2> QED
    BY <2>1, <2>2 DEF Consent, Behind, C!ConsentMatches, C!OffStays
<1> QED
  BY <1>1, <1>2, <1>3

\* What the receiver writes agrees with what the user applied.
LEMMA ConsentByReply ==
    ASSUME C!TypeOK, Consent, report' = report, report \in {R!NoRow} \cup R!Row, C!ReceiveWrite
    PROVE  Consent' /\ C!OffStays
<1> DEFINE m == inbox[rcv.at]
           q == m.rule
           suspended == rcv.revised /\ ~rcv.link /\ row[q].status = "active"
<1>0. /\ rcv # C!NoReceive /\ m.kind = "offer" /\ m \in C!Replies
      /\ rcv.at \in DOMAIN inbox /\ rcv.read
      /\ q \in Rule /\ m.rev \in Nat /\ m.text \in Text /\ m.rev > 0
  <2>1. rcv # C!NoReceive /\ m.kind = "offer" /\ rcv.read
        /\ rcv.at \in 1 .. Len(inbox) /\ m \in C!Replies
    BY Receiving DEF C!ReceiveWrite
  <2> QED
    BY <2>1, Replied, Parts
<1>1. /\ rcv.revised => offer[q].rev < m.rev
      /\ rcv.link => rcv.revised /\ row[q].text = m.text /\ offer[q].status # "offered"
                     /\ (apply[q].open => apply[q].rev <= row[q].rev)
  BY <1>0 DEF Consent, Reading
<1>2. \A r \in Rule : r # q => /\ row'[r].rev = row[r].rev /\ row'[r].text = row[r].text
                        /\ (row[r].status = "manual_disabled" => row'[r].status = "manual_disabled")
  BY <1>0, Parts DEF C!ReceiveWrite, C!Individual, C!Put, C!Rows
<1>3. \A r \in Rule : r # q => \/ offer'[r] = offer[r]
                        \/ /\ offer'[r].rev = offer[r].rev /\ offer'[r].text = offer[r].text
                           /\ offer'[r].status = "superseded" /\ offer[r].status # "none"
  BY <1>0, Parts DEF C!ReceiveWrite, C!Offers
<1>4. UNCHANGED <<inbox, apply>> /\ (rcv' = C!NoReceive \/ ~rcv'.read)
  BY DEF C!ReceiveWrite, C!Later
<1>5. /\ row'[q].text = row[q].text
      /\ row[q].status = "manual_disabled" => row'[q].status = "manual_disabled"
      /\ row'[q].rev = row[q].rev \/ (rcv.link /\ row'[q].rev = m.rev)
  <2>1. row'[q] = IF suspended THEN C!Put(row[q], "needs_review", "support")
                  ELSE IF rcv.link /\ q \in C!Individual
                  THEN [row[q] EXCEPT !.scope = "systemic", !.rev = m.rev] ELSE row[q]
    BY <1>0 DEF C!ReceiveWrite
  <2>2. row[q] \in C!Rows
    BY <1>0, Parts
  <2>3. q \in C!Individual => row[q].status = "active"
    BY DEF C!Individual
  <2> HIDE DEF q, m
  <2> QED
    BY <2>1, <2>2, <2>3 DEF C!Put, C!Rows, suspended
<1>6. offer'[q] = IF offer[q].rev < m.rev /\ report # R!NoRow
                  THEN [status |-> IF rcv.link THEN "applied" ELSE "offered",
                        rev |-> m.rev, scope |-> m.scope, text |-> m.text]
                  ELSE offer[q]
  <2>1. (IF report.state \in {"none", "queued"} THEN report.state ELSE "sent") # "none"
        <=> report # R!NoRow
    BY DEF R!NoRow, R!Row, R!Stage
  <2> QED
    BY <1>0, <2>1 DEF C!ReceiveWrite
<1> HIDE DEF q, m
<1>7. ASSUME NEW r \in Rule
      PROVE  /\ report # R!NoRow => row'[r].rev <= offer'[r].rev
             /\ report # R!NoRow /\ apply[r].open => apply[r].rev <= offer'[r].rev
             /\ report = R!NoRow => offer'[r] = C!NoOffer
             /\ offer'[r].status # "none" => offer'[r].text \in Text
             /\ offer'[r].status = "offered" => row'[r].rev < offer'[r].rev
             /\ apply[r].open /\ apply[r].rev = offer'[r].rev => apply[r].text = offer'[r].text
             /\ offer'[r].status = "applied" /\ row'[r].rev = offer'[r].rev
                => row'[r].text = offer'[r].text
  <2>1. CASE r # q
    BY <1>2, <1>3, <2>1, Numbers DEF Consent, Behind, C!ConsentMatches
  <2>2. CASE r = q
    BY <1>0, <1>1, <1>5, <1>6, <2>2, Numbers DEF Consent, Behind, C!ConsentMatches
  <2> QED
    BY <2>1, <2>2
<1>8. C!OffStays
  BY <1>2, <1>5 DEF C!OffStays
<1> QED
  BY <1>4, <1>7, <1>8 DEF Consent, Behind, C!ConsentMatches, Reading

\* So do the decisions of the user, statement by statement.
LEMMA ConsentByUser ==
    ASSUME C!TypeOK, Consent, report' = report, NEW r \in Rule,
           \/ C!ApplyRead(r) \/ C!ApplyWrite(r) \/ C!Decline(r)
           \/ C!DisableRead(r) \/ C!DisableWrite(r)
    PROVE  Consent' /\ C!OffStays
<1>1. CASE C!ApplyRead(r)
  <2>1. UNCHANGED <<inbox, offer, row, rcv>>
        /\ row[r].rev < offer[r].rev /\ offer[r].status = "offered"
    BY <1>1 DEF C!ApplyRead
  <2>2. \A x \in Rule :
           IF x = r THEN apply'[x].open /\ apply'[x].rev = offer[r].rev /\ apply'[x].text = offer[r].text
           ELSE apply'[x] = apply[x]
    BY <1>1, Parts DEF C!ApplyRead, ApplyTypes
  <2>3. Behind'
    BY <2>1, <2>2, Numbers DEF Consent, Behind
  <2>4. Reading'
    BY <2>1, <2>2, Receiving, Numbers DEF Consent, Reading
  <2> QED
    BY <2>1, <2>3, <2>4 DEF Consent, C!ConsentMatches, C!OffStays
<1>2. CASE C!ApplyWrite(r)
  <2>1. UNCHANGED <<inbox, rcv>> /\ apply[r].open
    BY <1>2 DEF C!ApplyWrite
  <2>2. \A x \in Rule : IF x = r THEN ~apply'[x].open ELSE apply'[x] = apply[x]
    BY <1>2, ClosedNow, Parts DEF C!ApplyWrite, ApplyTypes
  <2>3. \A x \in Rule : IF x = r /\ row[r].rev < apply[r].rev
                        THEN row'[x].rev = apply[r].rev /\ row'[x].text = apply[r].text
                        ELSE row'[x] = row[x]
    BY <1>2, Parts DEF C!ApplyWrite, RowTypes
  <2>4. \A x \in Rule : IF x = r /\ offer[r].status = "offered"
                        THEN /\ offer'[x].rev = offer[r].rev /\ offer'[x].text = offer[r].text
                             /\ offer'[x].status = "applied"
                        ELSE offer'[x] = offer[x]
    BY <1>2, Parts DEF C!ApplyWrite, OfferTypes, C!Offers
  <2>5. Behind'
    BY <2>1, <2>2, <2>3, <2>4, Numbers DEF Consent, Behind
  <2>6. C!ConsentMatches'
    BY <2>1, <2>2, <2>3, <2>4, Numbers DEF Consent, Behind, C!ConsentMatches
  <2>7. Reading'
    BY <2>1, <2>2, <2>3, <2>4, Numbers, Receiving DEF Consent, Behind, Reading
  <2>8. C!OffStays
    BY <2>3, Numbers DEF C!OffStays
  <2> QED
    BY <2>5, <2>6, <2>7, <2>8 DEF Consent
<1>3. CASE C!Decline(r)
  <2>1. UNCHANGED <<inbox, rcv, row, apply>> /\ offer[r].status = "offered"
    BY <1>3 DEF C!Decline
  <2>4. \A x \in Rule : IF x = r
                        THEN /\ offer'[x].rev = offer[r].rev /\ offer'[x].text = offer[r].text
                             /\ offer'[x].status = "declined"
                        ELSE offer'[x] = offer[x]
    BY <1>3, Parts DEF C!Decline, OfferTypes, C!Offers
  <2> QED
    BY <2>1, <2>4, Numbers, Receiving DEF Consent, Behind, C!ConsentMatches, Reading, C!OffStays
<1>4. CASE C!DisableRead(r) \/ C!DisableWrite(r)
  <2>1. UNCHANGED <<inbox, offer, rcv, apply>>
    BY <1>4 DEF C!DisableRead, C!DisableWrite
  <2>2. RowSame
    <3>1. CASE C!DisableRead(r)
      BY <3>1 DEF C!DisableRead, RowSame
    <3>2. CASE C!DisableWrite(r)
      <4>1. "manual_disabled" \in C!Status /\ "user" \in C!Reason
        BY DEF C!Status, C!Reason
      <4> QED
        BY <3>2, <4>1, PutRow, Parts DEF C!DisableWrite, RowSame, RowTypes
    <3> QED
      BY <1>4, <3>1, <3>2
  <2> QED
    BY <2>1, <2>2, QuietConsent DEF RowSame, C!OffStays
<1> QED
  BY <1>1, <1>2, <1>3, <1>4

(***************************************************************************)
(* The whole.                                                              *)
(***************************************************************************)
\* Every step of the report keeps its half of the invariant.
LEMMA DeliveringStep ==
    ASSUME R!TypeOK, Delivering, R!Step \/ R!RemoveRow \/ R!Restart
    PROVE  R!TypeOK' /\ Delivering'
<1>1. CASE \/ R!CreateDraft \/ R!RetryDraft \/ R!Prepared \/ R!PatchRead \/ R!PatchFailed
           \/ R!PatchWrite \/ R!CancelDraft \/ R!ExpireDraft
  <2>1. Truthful'
    BY <1>1, AskedByDraft, ContentByDraft DEF Delivering, Truthful
  <2> QED
    BY <1>1, <2>1, DraftTypes, FieldsByDraft, ValidByDraft, KeptByDraft DEF Delivering
<1>2. ASSUME NEW s \in Sender,
             \/ R!Send(s) \/ R!SendRead(s) \/ R!SendUnchecked(s) \/ R!SendHidMore(s)
             \/ R!SendChecked(s) \/ R!SendInsert(s) \/ R!SendNotQueued(s) \/ R!SendForget(s)
      PROVE  R!TypeOK' /\ Delivering'
  <2>1. Truthful'
    BY <1>2, AskedBySender, ContentBySender DEF Delivering, Truthful
  <2> QED
    BY <1>2, <2>1, SenderTypes, FieldsBySender, ValidBySender, KeptBySender DEF Delivering
<1>3. ASSUME \/ \E k \in Delivery : R!TechnicalSupport(k) \/ R!RetryDelivery(k) \/ R!DeliverRead(k)
                 \/ R!DeliverSend(k) \/ R!DeliverAnswer(k) \/ R!DeliverFailed(k)
             \/ R!Review \/ R!PollRead \/ R!PollWrite \/ R!RemoveAtGateway \/ R!RemoveRow \/ R!Restart
      PROVE  R!TypeOK' /\ Delivering'
  <2>1. Truthful'
    BY <1>3, AskedByDelivery, ContentByDelivery DEF Delivering, Truthful
  <2> QED
    BY <1>3, <2>1, DeliveryTypes, GatewayTypes, FieldsByDelivery, ValidByDelivery,
       KeptByDelivery DEF Delivering
<1> QED
  BY <1>1, <1>2, <1>3 DEF R!Step

\* Every step of the rules keeps the other half, and what is off stays off.
LEMMA CorrectionStep ==
    ASSUME R!TypeOK, C!TypeOK, Consent, C!Step \/ C!Restart, report' = report
    PROVE  C!TypeOK' /\ Consent' /\ C!OffStays
<1>0. report \in {R!NoRow} \cup R!Row /\ Behind
  BY DEF R!TypeOK, Consent
<1>1. CASE \/ C!SaveSettings \/ C!Restart \/ \E c \in Call : C!ReadConfig(c) \/ C!llmConfig(c)
  BY <1>1, RuleTypesByCall, ConsentByCall
<1>2. CASE C!Open \/ C!ReceivePending \/ C!ReceiveRead
  BY <1>2, RuleTypesByReply, ConsentByReading
<1>3. CASE C!ReceiveWrite
  BY <1>0, <1>3, RuleTypesByReply, ConsentByReply
<1>4. CASE \E m \in C!Replies : C!Reply(m)
  BY <1>4, RuleTypesByReply, ConsentByArrival
<1>5. ASSUME NEW r \in Rule, \/ C!ApplyRead(r) \/ C!ApplyWrite(r) \/ C!Decline(r)
                             \/ C!DisableRead(r) \/ C!DisableWrite(r)
      PROVE  C!TypeOK' /\ Consent' /\ C!OffStays
  BY <1>0, <1>5, RuleTypesByUser, ConsentByUser
<1> QED
  BY <1>1, <1>2, <1>3, <1>4, <1>5 DEF C!Step

\* A step of the report alone keeps the half of the rules.
LEMMA QuietReport ==
    ASSUME Inv, scene = "report", UNCHANGED rules
    PROVE  C!TypeOK' /\ Consent' /\ C!OffStays
<1>1. C!TypeOK'
  <2>1. (IF report'.state \in {"none", "queued"} THEN report'.state ELSE "sent")
        \in {"none", "queued", "sent"}
    OBVIOUS
  <2> QED
    BY <2>1 DEF Inv, TypeOK, C!TypeOK, rules
<1>2. rcv = C!NoReceive /\ \A r \in Rule : row[r].rev = 0 /\ offer[r] = C!NoOffer /\ ~apply[r].open
  BY DEF Inv, Still
<1>3. C!NoOffer.status = "none" /\ C!NoOffer.rev = 0
  BY DEF C!NoOffer
<1>4. UNCHANGED <<offer, row, rcv, apply, inbox>>
  BY DEF rules
<1>5. Behind'
  BY <1>2, <1>3, <1>4 DEF Behind
<1>6. Reading' /\ C!ConsentMatches'
  BY <1>2, <1>3, <1>4 DEF Reading, C!ConsentMatches
<1> QED
  BY <1>1, <1>4, <1>5, <1>6 DEF Consent, C!OffStays

\* Deleting the row takes the offers and leaves the rules.
LEMMA Removal ==
    ASSUME Inv, RemoveRow
    PROVE  C!TypeOK' /\ Consent' /\ C!OffStays
<1>0. C!TypeOK /\ Consent
  BY DEF Inv, TypeOK
<1>1. /\ UNCHANGED <<personal, fixed, inbox, row, rcv, apply, disable, call, held, saves>>
      /\ offer' = [r \in Rule |-> C!NoOffer] /\ prompt' = NoRule /\ report' = R!NoRow
  BY DEF RemoveRow, R!RemoveRow, C!OffersGo
<1>2. C!TypeOK'
  <2>1. (IF report'.state \in {"none", "queued"} THEN report'.state ELSE "sent")
        \in {"none", "queued", "sent"}
    OBVIOUS
  <2> QED
    BY <1>0, <1>1, <2>1, Parts DEF C!TypeOK
<1>3. C!NoOffer.status = "none" /\ C!NoOffer.rev = 0
  BY DEF C!NoOffer
<1>4. Behind'
  BY <1>0, <1>1, <1>3, Numbers DEF Behind, Consent
<1>5. Reading'
  <2> SUFFICES ASSUME rcv # C!NoReceive, rcv.read PROVE Reading'
    BY <1>1 DEF Reading
  <2> DEFINE m == inbox[rcv.at]
  <2>1. /\ m.kind = "offer"
        /\ rcv.link => /\ rcv.revised /\ row[m.rule].text = m.text
                       /\ apply[m.rule].open => apply[m.rule].rev <= row[m.rule].rev
    BY <1>0 DEF Consent, Reading
  <2>2. m.rule \in Rule /\ m.rev > 0
    BY <1>0, <2>1, Receiving, Replied
  <2>3. offer'[m.rule] = C!NoOffer
    BY <1>1, <2>2
  <2> HIDE DEF m
  <2>4. /\ m.kind = "offer"
        /\ rcv'.revised => offer'[m.rule].rev < m.rev
        /\ rcv'.link => /\ rcv'.revised /\ row'[m.rule].text = m.text
                        /\ offer'[m.rule].status # "offered"
                        /\ apply'[m.rule].open => apply'[m.rule].rev <= row'[m.rule].rev
    BY <1>1, <1>3, <2>1, <2>2, <2>3
  <2> QED
    BY <1>1, <2>4 DEF Reading, m
<1>6. C!ConsentMatches'
  BY <1>1, <1>3 DEF C!ConsentMatches
<1> QED
  BY <1>1, <1>2, <1>4, <1>5, <1>6 DEF Consent, C!OffStays

\* Every step keeps the invariant.
LEMMA InvStep ==
    ASSUME Inv, [Next]_vars
    PROVE  Inv' /\ (C!OffStays \/ UNCHANGED vars)
<1>0. R!TypeOK /\ C!TypeOK /\ scene \in Scene /\ Delivering /\ Consent /\ Still
  BY DEF Inv, TypeOK
<1>1. CASE ReportStep
  <2>1. scene = "report" /\ R!Step /\ UNCHANGED <<rules, scene>>
    BY <1>1 DEF ReportStep
  <2>2. Still'
    BY <1>0, <2>1 DEF Still, rules
  <2> QED
    BY <1>0, <2>1, <2>2, DeliveringStep, QuietReport DEF Inv, TypeOK
<1>2. CASE RulesStep
  <2>1. scene = "replies" /\ C!Step /\ UNCHANGED delivering /\ UNCHANGED scene
    BY <1>2 DEF RulesStep
  <2>2. R!TypeOK'
    BY <1>0, <2>1 DEF delivering, R!TypeOK
  <2>3. Fields' /\ Valid'
    BY <1>0, <2>1 DEF delivering, Delivering, Fields, Valid, Good
  <2>4. Truthful'
    BY <1>0, <2>1 DEF delivering, Delivering, Truthful, OneSender, Asked, RowFirst, Blank,
       OneContent, Said
  <2>5. Kept'
    BY <1>0, <2>1 DEF delivering, Delivering, Kept, Manned, R!CheckedOnly, R!ApprovedOnly,
       R!Delivered
  <2>6. Still'
    BY <2>1 DEF Still
  <2>7. report' = report
    BY <2>1 DEF delivering
  <2> QED
    BY <1>0, <2>1, <2>2, <2>3, <2>4, <2>5, <2>6, <2>7, CorrectionStep DEF Inv, TypeOK, Delivering
<1>3. CASE RemoveRow
  <2>1. R!RemoveRow /\ UNCHANGED <<scene, row, rcv, apply>> /\ offer' = [r \in Rule |-> C!NoOffer]
    BY <1>3 DEF RemoveRow, C!OffersGo
  <2>2. Still'
    BY <1>0, <2>1 DEF Still
  <2> QED
    BY <1>0, <1>3, <2>1, <2>2, DeliveringStep, Removal DEF Inv, TypeOK
<1>4. CASE Restart
  <2>1. R!Restart /\ C!Restart /\ scene' = scene /\ report' = report
    BY <1>4 DEF Restart, R!Restart
  <2>2. RowSame
    BY <1>0, <2>1, RuleTypesByCall
  <2>3. Still'
    BY <1>0, <2>1, <2>2, ClosedNow DEF Still, RowSame, C!Restart
  <2> QED
    BY <1>0, <2>1, <2>3, DeliveringStep, CorrectionStep DEF Inv, TypeOK
<1>5. CASE UNCHANGED vars
  <2>0. UNCHANGED delivering /\ UNCHANGED rules /\ UNCHANGED scene
    BY <1>5 DEF vars
  <2>1. R!TypeOK'
    BY <1>0, <2>0 DEF delivering, R!TypeOK
  <2>2. C!TypeOK'
    BY <1>0, <2>0 DEF delivering, rules, C!TypeOK
  <2>3. Fields' /\ Valid'
    BY <1>0, <2>0 DEF delivering, Delivering, Fields, Valid, Good
  <2>4. Truthful'
    BY <1>0, <2>0 DEF delivering, Delivering, Truthful, OneSender, Asked, RowFirst, Blank,
       OneContent, Said
  <2>5. Kept'
    BY <1>0, <2>0 DEF delivering, Delivering, Kept, Manned, R!CheckedOnly, R!ApprovedOnly,
       R!Delivered
  <2>6. Consent' /\ Still'
    BY <1>0, <2>0 DEF delivering, rules, Consent, Still, Behind, Reading, C!ConsentMatches
  <2> QED
    BY <1>0, <1>5, <2>0, <2>1, <2>2, <2>3, <2>4, <2>5, <2>6 DEF Inv, TypeOK, Delivering
<1> QED
  BY <1>1, <1>2, <1>3, <1>4, <1>5 DEF Next

\* The rules start empty.
LEMMA FirstRules ==
    ASSUME C!InitRules
    PROVE  /\ C!TypeOK /\ Reading /\ C!ConsentMatches /\ Still
           /\ \A r \in Rule : row[r].rev = 0 /\ offer[r] = C!NoOffer /\ ~apply[r].open
           /\ Behind
<1>1. (IF report.state \in {"none", "queued"} THEN report.state ELSE "sent")
         \in {"none", "queued", "sent"}
  OBVIOUS
<1>2. C!NoOffer \in C!Offers /\ C!NoRow \in C!Rows /\ C!NoRow.rev = 0 /\ C!NoOffer.status = "none"
      /\ C!NoOffer.rev = 0
  BY SupportAssumption DEF C!NoOffer, C!Offers, C!Offered, C!Rev, C!Scope, C!NoRow, C!Rows,
     C!Status, C!Reason, C!Instructions
<1>3. <<>> \in Seq(C!Replies)
  OBVIOUS
<1>4. C!TypeOK
  <2>1. inbox \in Seq(C!Replies) /\ offer \in [Rule -> C!Offers] /\ row \in [Rule -> C!Rows]
    BY <1>2, <1>3 DEF C!InitRules
  <2>2. personal \in C!Instructions /\ held \in SUBSET Rule /\ prompt \in Rule \cup {NoRule}
    BY DEF C!InitRules, C!Instructions
  <2>6. fixed \in BOOLEAN
    BY DEF C!InitRules
  <2>7. saves \in 0 .. MaxEvent
    BY SupportAssumption DEF C!InitRules
  <2>3. RcvTypes
    BY DEF C!InitRules, RcvTypes
  <2>4. ApplyTypes
    BY DEF C!InitRules, ApplyTypes
  <2>5. disable \in [Rule -> {C!Idle} \cup C!Status]
        /\ call \in [Call -> {C!NoCall} \cup
                 [open : {TRUE}, p : C!Instructions, seen : [Rule -> C!Rows]]]
    BY DEF C!InitRules
  <2> QED
    BY <1>1, <2>1, <2>2, <2>3, <2>4, <2>5, <2>6, <2>7 DEF C!TypeOK, RcvTypes, ApplyTypes
<1>5. \A r \in Rule : row[r].rev = 0 /\ offer[r] = C!NoOffer /\ ~apply[r].open
  BY <1>2, ClosedNow DEF C!InitRules
<1>6. rcv = C!NoReceive
  BY DEF C!InitRules
<1>7. Behind
  BY <1>2, <1>5 DEF Behind
<1> QED
  BY <1>2, <1>4, <1>5, <1>6, <1>7 DEF Reading, C!ConsentMatches, Still

\* The invariant holds at first, in both scenes.
LEMMA InvInit == Init => Inv
<1> SUFFICES ASSUME Init PROVE Inv
  OBVIOUS
<1>1. C!TypeOK /\ Consent /\ Still /\ scene \in Scene
  BY FirstRules DEF Init, Consent
<1>2. CASE R!Init
  <2>1. R!TypeOK
    BY <1>2, FirstContent DEF R!Init, R!TypeOK
  <2>2. Delivering
    BY <1>2, SupportAssumption DEF R!Init, Delivering, Fields, Valid, Truthful, OneSender, Asked,
       RowFirst, Blank, OneContent, Said, Kept,
       Manned, R!CheckedOnly, R!ApprovedOnly, R!Delivered, R!NoDraft, R!Closed, R!NoRow
  <2> QED
    BY <1>1, <2>1, <2>2 DEF Inv, TypeOK
<1>3. ASSUME  report = Stored /\ gw = R!NoRow
          /\ draft = R!NoDraft /\ preparing = FALSE /\ patch = R!Closed
          /\ sender = [s \in Sender |-> R!Closed] /\ delivery = [k \in Delivery |-> R!Closed]
          /\ poll = R!Closed /\ removal = TRUE /\ accepted = FALSE /\ dropped = FALSE
          /\ removed = FALSE /\ stale = FALSE
          /\ checked = {Stored.content} /\ approved = {Stored.content} /\ got = {Stored.content}
          /\ versions = MaxVersion /\ sends = MaxSend
      PROVE Inv
  <2>1. Stored \in R!Row /\ Stored.content \in R!Content /\ Stored # R!NoRow
    BY FirstContent DEF Stored, R!Row, R!Stage, R!Content, R!Plain, R!NoRow
  <2>2. R!TypeOK
    <3>1. MaxVersion \in R!Version /\ MaxSend \in R!Edit
      BY SupportAssumption DEF R!Version, R!Edit
    <3>2. {Stored.content} \in SUBSET R!Content
      BY <2>1
    <3> HIDE DEF Stored
    <3> QED
      BY <1>3, <2>1, <3>1, <3>2 DEF R!TypeOK
  <2>3. Delivering
    BY <1>3, <2>1, SupportAssumption DEF Delivering, Fields, Valid, Truthful, OneSender, Asked,
       RowFirst, Blank, OneContent, Said, Kept,
       Manned, R!CheckedOnly, R!ApprovedOnly, R!Delivered, R!NoDraft, R!Closed
  <2> QED
    BY <1>1, <2>2, <2>3 DEF Inv, TypeOK
<1> QED
  BY <1>2, <1>3 DEF Init

\* Inv is an invariant of Support.
LEMMA InvAlways == Spec => []Inv
<1>1. Inv /\ [Next]_vars => Inv'
  BY InvStep
<1> QED
  BY <1>1, InvInit, PTL DEF Spec

\* OnlyApproved is an invariant of Support: in every reachable state the row
\* holds a content that was checked and that the user confirmed.
THEOREM OnlyApprovedAlways == Spec => []OnlyApproved
<1>1. Inv => OnlyApproved
  BY DEF Inv, Delivering, Kept, OnlyApproved, CheckedOnly, ApprovedOnly
<1> QED
  BY <1>1, InvAlways, PTL

\* DeliveryKept is an invariant of Support: no interleaving of edits, senders and
\* deliveries loses an accepted report or claims a false receipt, and only a restart
\* before the INSERT, or the user, takes it away.
THEOREM DeliveryKeptAlways == Spec => []DeliveryKept
<1>1. Inv => DeliveryKept
  BY DEF Inv, Delivering, Fields, Truthful, Said, Kept, Manned, DeliveryKept, Served, NotLost,
     Delivered,
     R!Served, R!NotLost
<1> QED
  BY <1>1, InvAlways, PTL

\* ConsentMatches is an invariant of Support: no revision that arrives while the
\* user decides is passed off as the text he applied.
THEOREM ConsentMatchesAlways == Spec => []ConsentMatches
<1>1. Inv => ConsentMatches
  BY DEF Inv, Consent, ConsentMatches
<1> QED
  BY <1>1, InvAlways, PTL

\* ManualStays is a property of every step of Support: what the user switched off
\* comes back only with a newer revision that he applies.
THEOREM ManualStaysAlways == Spec => ManualStays
<1>1. Inv /\ [Next]_vars => [C!OffStays]_vars
  BY InvStep
<1> QED
  BY <1>1, InvAlways, PTL DEF Spec, ManualStays
=====================================================================================
