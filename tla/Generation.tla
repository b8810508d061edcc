----------------------------- MODULE Generation -----------------------------
(***************************************************************************)
(* Calls of the model and the work that waits for them: the questions to   *)
(* the archive (chat_requests, worker.go processChat, llm.go chat/stream), *)
(* the contexts of meetings (meeting_contexts, worker.go processContext,   *)
(* maintenance, archive.go meetingContext), and the transactions that call *)
(* the model for other reasons (tasks from text, analysis of events).      *)
(*                                                                         *)
(* A caller keeps the connection of its own transaction, takes a second    *)
(* one from the same pool and waits there for the advisory lock of the     *)
(* model (llm.go llmAttempt).  Rows change when a transaction commits; a   *)
(* failure is recorded by a statement of its own after the rollback.       *)
(***************************************************************************)
EXTENDS Integers, FiniteSets

CONSTANTS
    Chat,         \* questions, numbered in the order of created_at
    Meeting,      \* meetings, numbered in the order of starts_at
    Event, Task,  \* what the archive holds: events, and tasks or delegations
    ChatLoop, ContextLoop, MaintenanceLoop,  \* loops of the worker
    Stream,       \* requests that call the model outside a transaction
    Author,       \* transactions that call the model and then write tasks
    Visitor,      \* requests for the context of a meeting
    Process,      \* processes, each with its pool
    Home,         \* the process of a caller
    MaxConn,      \* connections of a pool
    Scene,        \* bound: who acts in a behaviour
    Cast,         \* bound: the callers that act and the rows and processes that may change
    MaxVersion,   \* bound: versions of a meeting
    MaxTry,       \* attempts of a call whose answer is cut off
    None

Record == Event \cup Task
Loop == ChatLoop \cup ContextLoop \cup MaintenanceLoop
Caller == Loop \cup Stream \cup Author \cup Visitor

ASSUME GenerationAssumption ==
    /\ Chat \subseteq Nat /\ IsFiniteSet(Chat)
    /\ Meeting \subseteq Nat /\ IsFiniteSet(Meeting)
    /\ IsFiniteSet(Caller)
    /\ ChatLoop \cap (ContextLoop \cup MaintenanceLoop) = {} /\ ContextLoop \cap MaintenanceLoop = {}
    /\ Loop \cap (Stream \cup Author \cup Visitor) = {}
    /\ Stream \cap (Author \cup Visitor) = {} /\ Author \cap Visitor = {}
    /\ Home \in [Caller -> Process]
    /\ MaxConn \in Nat \ {0}
    /\ MaxVersion \in Nat \ {0}
    /\ MaxTry \in Nat \ {0}
    /\ None \notin Chat \cup Meeting /\ Chat \cap Meeting = {}
    /\ \A s \in Scene : Cast[s] \subseteq Caller \cup Chat \cup Meeting \cup Event \cup Process

VARIABLES
    chat,     \* rows of chat_requests, committed
    context,  \* rows of meeting_contexts, committed
    meeting,  \* rows of meetings: which version, and whether it is still to come
    today,    \* the meetings of the present day
    hidden,   \* events that are skipped, ignored or mass mail
    call,     \* what each caller does
    said,     \* what the last answer or notification said of contexts
    asked,    \* meetings whose button was pressed since they were last announced
    scene

generation == <<chat, context, meeting, today, hidden, call, said, asked, scene>>

ChatRow == [status : {"ABSENT", "PENDING", "COMPLETED", "FAILED"}, due : BOOLEAN,
            cites : SUBSET Record, excluded : SUBSET Event]
NoChat == [status |-> "ABSENT", due |-> TRUE, cites |-> {}, excluded |-> {}]

\* about: the version of the meeting the summary was made for; fresh:
\* input_fingerprint is not null; refresh and notify: next_refresh_at and notify_after.
When == {"none", "later", "due"}
Version == 0..MaxVersion
ContextStatus == {"ABSENT", "NOT_REQUESTED", "PENDING", "READY", "EMPTY", "FAILED"}
ContextRow == [status : ContextStatus, fingerprint : Version, about : Version,
               fresh : BOOLEAN, requested : BOOLEAN, refresh : When, notify : When]
NoContext == [status |-> "ABSENT", fingerprint |-> 0, about |-> 0, fresh |-> FALSE,
              requested |-> FALSE, refresh |-> "none", notify |-> "none"]
MeetingRow == [version : 1..MaxVersion, status : {"on", "cancelled", "ended"}]

\* at: begin (wants the second connection), lock (has it, waits for the model),
\* model (holds the lock), wait (holds one connection, waits for rows or for
\* the lock of the plan), failed (rolled back, not yet recorded).
Work == [at : {"idle", "begin", "lock", "model", "wait", "failed"},
         item : Chat \cup Meeting \cup {None}, part : 1..2, try : 1..MaxTry,
         given : SUBSET Record, title : Version,
         why : {"none", "retry", "stop", "unfit", "read", "refresh"}]
Idle == [at |-> "idle", item |-> None, part |-> 1, try |-> 1, given |-> {},
         title |-> 0, why |-> "none"]

Statement == [meeting : Meeting, kind : {"view", "notice"},
              status : ContextStatus \cup {"cancelled", "ended"},
              about : Version, version : Version, stale : BOOLEAN]

InitGeneration ==
    /\ scene \in Scene
    /\ chat = [r \in Chat |-> NoChat]
    /\ context = [m \in Meeting |-> NoContext]
    /\ meeting = [m \in Meeting |-> [version |-> 1, status |-> "on"]]
    /\ today \in SUBSET Meeting
    /\ hidden = {}
    /\ call = [k \in Caller |-> Idle]
    /\ said = {}
    /\ asked = {}

-----------------------------------------------------------------------------
(* Connections and locks. *)

Calling(k) == call[k].at \in {"begin", "lock", "model"}
InTransaction(k) == k \notin Stream /\ (Calling(k) \/ call[k].at = "wait")
Connections(p) ==
      Cardinality({k \in Caller : Home[k] = p /\ InTransaction(k)})
    + Cardinality({k \in Caller : Home[k] = p /\ call[k].at \in {"lock", "model"}})
FreeConnection(k) == Connections(Home[k]) < MaxConn

Plays(k) == k \in Cast[scene]
Starts(k) == Plays(k) /\ call[k].at = "idle" /\ (k \in Stream \/ FreeConnection(k))

\* A question is FOR UPDATE while it is answered, a context while it is generated.
Held(K, item) == \E k \in K : Calling(k) /\ call[k].item = item

-----------------------------------------------------------------------------
(* How a call ends. *)

CompletedChat(r, cites) ==
    [chat EXCEPT ![r].status = "COMPLETED", ![r].cites = cites, ![r].due = TRUE]

\* Mutant: the summary is stored as one of the meeting as it is when it commits,
\* under the fingerprint the meeting has then.
GeneratedLate(m, title, cites) ==
    [context EXCEPT ![m] = [@ EXCEPT
        !.status = IF cites = {} THEN "EMPTY" ELSE "READY",
        !.about = title, !.fresh = TRUE, !.refresh = "later", !.fingerprint = meeting[m].version,
        !.notify = IF context[m].requested THEN "due" ELSE "none"]]
Generated(m, title, cites) ==
    [context EXCEPT ![m] = [@ EXCEPT
        !.status = IF cites = {} THEN "EMPTY" ELSE "READY",
        !.about = title, !.fresh = TRUE, !.refresh = "later",
        !.notify = IF context[m].requested THEN "due" ELSE "none"]]

\* The transaction writes its result and commits; an author first needs the plan.
Finish(k, item, title, cites) ==
    /\ chat' = IF k \in ChatLoop THEN CompletedChat(item, cites) ELSE chat
    /\ context' = IF k \in ContextLoop THEN Generated(item, title, cites) ELSE context
    /\ call' = [call EXCEPT ![k] = IF k \in Author THEN [Idle EXCEPT !.at = "wait"] ELSE Idle]

\* The transaction is rolled back.  A chat loop records every failure, a
\* context loop only a terminal one.
Fail(k, item, why) ==
    /\ call' = [call EXCEPT ![k] =
          IF k \in ChatLoop \/ (k \in ContextLoop /\ why = "stop")
          THEN [Idle EXCEPT !.at = "failed", !.item = item, !.why = why] ELSE Idle]
    /\ UNCHANGED <<chat, context>>

Quiet == UNCHANGED <<meeting, today, hidden, asked, scene>> /\ said' = {}

CallModel(k, item, title, part, given) ==
    /\ call' = [call EXCEPT ![k] = [Idle EXCEPT !.at = "begin", !.item = item,
                    !.title = title, !.part = part, !.given = given]]
    /\ UNCHANGED <<chat, context>>

\* The model is asked about the records that fit into its window (fitRecords).
AskModel(k, item, title, part, offered) ==
    \E given \in SUBSET offered :
       IF given = {} THEN Fail(k, item, "unfit") ELSE CallModel(k, item, title, part, given)

\* retrieveArchive: a context (literal_topic) is made from events alone.
Retrieved(k) == SUBSET ((IF k \in ContextLoop THEN Event ELSE Record) \ hidden)

ArchiveAnswer(k, item, title) ==
    \E found \in Retrieved(k) :
       IF found = {} THEN Finish(k, item, title, {})
       ELSE AskModel(k, item, title, 1, found)

-----------------------------------------------------------------------------
(* One call of the model: llm and llmAttempt. *)

Moves(k, at) ==
    /\ call' = [call EXCEPT ![k].at = at]
    /\ UNCHANGED <<chat, context>> /\ Quiet

Connect(k) == call[k].at = "begin" /\ FreeConnection(k) /\ Moves(k, "lock")

LockModel(k) ==
    /\ call[k].at = "lock"
    /\ \A j \in Caller : call[j].at # "model"
    /\ Moves(k, "model")

\* The answer is cut off: lock and connection are given back, and the call is
\* tried again with twice the tokens, up to MaxTry times (3).
Truncated(k) ==
    /\ call[k].at = "model" /\ Quiet
    /\ IF call[k].try = MaxTry THEN Fail(k, call[k].item, "stop")
       ELSE /\ call' = [call EXCEPT ![k].at = "begin", ![k].try = @ + 1]
            /\ UNCHANGED <<chat, context>>

\* No connection to the model in three tries, or an error status.
Unreachable(k) == call[k].at = "model" /\ Fail(k, call[k].item, "retry") /\ Quiet

\* A broken stream, an empty answer, one that is not JSON or not of the schema.
Malformed(k) == call[k].at = "model" /\ Fail(k, call[k].item, "retry") /\ Quiet

\* request_timeout_seconds of an attempt, counted from before it has a connection.
\* Mutant: from the request on.
TimeoutOfRequest(k) == call[k].at = "model" /\ Fail(k, call[k].item, "retry") /\ Quiet
Timeout(k) == Calling(k) /\ Fail(k, call[k].item, "retry") /\ Quiet

\* The records the model finds relevant are offered once more, for the answer.
Selected(k) ==
    /\ call[k].at = "model" /\ call[k].part = 1 /\ k \notin Author /\ Quiet
    /\ \E chosen \in SUBSET call[k].given :
          IF chosen = {} THEN Finish(k, call[k].item, call[k].title, {})
          ELSE AskModel(k, call[k].item, call[k].title, 2, chosen)

\* The text may name any record; only those the model was given are kept.
Cited(k, named) == named \cap call[k].given

Answered(k) ==
    /\ call[k].at = "model" /\ call[k].part = 2 /\ Quiet
    /\ \E named \in SUBSET Record :
          Finish(k, call[k].item, call[k].title, Cited(k, named))

\* A task from text: its fields first, then the date they name, if they do.
Formalized(k) ==
    /\ call[k].at = "model" /\ call[k].part = 1 /\ k \in Author /\ Quiet
    /\ \/ Finish(k, None, 0, {})
       \/ CallModel(k, None, 0, 2, {})

-----------------------------------------------------------------------------
(* Requests that answer at once, or outside the queue. *)

OpenStream(k) == k \in Stream /\ Starts(k) /\ ArchiveAnswer(k, None, 0) /\ Quiet

StartAuthor(k) ==
    /\ k \in Author /\ Starts(k)
    /\ CallModel(k, None, 0, 1, {}) /\ Quiet

\* insert and rebuildPlan take the lock of the plan, which maintenance holds
\* until it commits.
WriteTask(k) ==
    /\ k \in Author /\ call[k].at = "wait"
    /\ \A j \in MaintenanceLoop : call[j].at # "wait"
    /\ Moves(k, "idle")

-----------------------------------------------------------------------------
(* Questions to the archive. *)

Ask(r) ==
    /\ r \in Cast[scene] /\ chat[r].status = "ABSENT"
    /\ \A s \in Chat \cap Cast[scene] : s < r => chat[s].status # "ABSENT"
    /\ chat' = [chat EXCEPT ![r].status = "PENDING", ![r].excluded = hidden]
    /\ UNCHANGED <<context, call>> /\ Quiet

\* Mutant: what has failed for good is taken again.
UnfinishedChat(r) == chat[r].status \in {"PENDING", "FAILED"} /\ chat[r].due
ReadyChat(r) == chat[r].status = "PENDING" /\ chat[r].due

StartChat(k, r) ==
    /\ k \in ChatLoop /\ Starts(k)
    /\ ReadyChat(r) /\ ~Held(ChatLoop, r)
    /\ \A s \in Chat : s < r /\ ReadyChat(s) => Held(ChatLoop, s)
    /\ ArchiveAnswer(k, r, 0) /\ Quiet

\* After the rollback, by identifier, whatever the row says by then.
RecordChat(k) ==
    /\ k \in ChatLoop /\ call[k].at = "failed" /\ FreeConnection(k)
    /\ ~Held(ChatLoop, call[k].item)
    /\ chat' = [chat EXCEPT ![call[k].item].status =
                    IF call[k].why = "retry" THEN "PENDING" ELSE "FAILED",
                 ![call[k].item].due = call[k].why # "retry"]
    /\ call' = [call EXCEPT ![k] = Idle]
    /\ UNCHANGED context /\ Quiet

\* An error of the statement that records a failure is dropped.
RecordLost(k) ==
    /\ call[k].at = "failed"
    /\ call' = [call EXCEPT ![k] = Idle]
    /\ UNCHANGED <<chat, context>> /\ Quiet

\* next_attempt_at has come.
\* Mutant: a claim takes only rows that have none.
NeverRetried(r) == ~chat[r].due /\ UNCHANGED generation
BackoffEnds(r) ==
    /\ ~chat[r].due
    /\ chat' = [chat EXCEPT ![r].due = TRUE]
    /\ UNCHANGED <<context, call>> /\ Quiet

-----------------------------------------------------------------------------
(* Contexts of meetings. *)

Wanted(m) ==
    /\ meeting[m].status = "on"
    /\ \/ context[m].status = "PENDING"
       \/ context[m].requested /\ context[m].refresh = "due"

\* The title is read with the claim; the row of the meeting stays unlocked.
StartContext(k, m) ==
    /\ k \in ContextLoop /\ Starts(k)
    /\ Wanted(m) /\ ~Held(ContextLoop, m)
    /\ \A n \in Meeting : n < m /\ Wanted(n) => Held(ContextLoop, n)
    /\ ArchiveAnswer(k, m, meeting[m].version) /\ Quiet

RecordContext(k) ==
    /\ k \in ContextLoop /\ call[k].at = "failed" /\ FreeConnection(k)
    /\ context' = [context EXCEPT ![call[k].item].status = "FAILED",
                                  ![call[k].item].refresh = "none"]
    /\ call' = [call EXCEPT ![k] = Idle]
    /\ UNCHANGED chat /\ Quiet

\* meetingContext.
\* Mutant: a context that changed is generated again, and shown until then.
OutdatedShown(c, m) ==
    IF c.fingerprint = meeting[m].version THEN c
    ELSE [c EXCEPT !.fingerprint = meeting[m].version, !.refresh = "due"]
Outdated(c, m) ==
    IF c.fingerprint = meeting[m].version THEN c
    ELSE [c EXCEPT !.fingerprint = meeting[m].version, !.status = "NOT_REQUESTED",
                   !.fresh = FALSE, !.refresh = "none", !.notify = "none"]

Visited(m, press) ==
    LET row == IF context[m].status # "ABSENT" THEN context[m]
               ELSE [NoContext EXCEPT !.status = "NOT_REQUESTED",
                                      !.fingerprint = meeting[m].version]
        c   == Outdated(row, m)
    IN  IF press /\ meeting[m].status = "on"
        THEN [c EXCEPT !.requested = TRUE, !.status = "PENDING", !.fresh = FALSE,
                       !.refresh = "none", !.notify = "none"]
        ELSE c

\* A row is only waited for when a statement changes it.
MayWrite(m, row) == row = context[m] \/ ~Held(ContextLoop, m)

View(m, row) ==
    [meeting |-> m, kind |-> "view",
     status |-> IF meeting[m].status = "on" THEN row.status ELSE meeting[m].status,
     about |-> row.about, version |-> meeting[m].version,
     stale |-> row.about # 0 /\ ~row.fresh]

Visit(v, m, why) ==
    /\ v \in Visitor /\ Starts(v)
    /\ asked' = IF why = "refresh" THEN asked \cup {m} ELSE asked
    /\ call' = [call EXCEPT ![v] = [Idle EXCEPT !.at = "wait", !.item = m, !.why = why]]
    /\ said' = {}
    /\ UNCHANGED <<chat, context, meeting, today, hidden, scene>>

ShowContext(v) ==
    /\ v \in Visitor /\ call[v].at = "wait"
    /\ LET m == call[v].item
           row == Visited(m, call[v].why = "refresh")
       IN  /\ MayWrite(m, row)
           /\ context' = [context EXCEPT ![m] = row]
           /\ said' = {View(m, row)}
    /\ call' = [call EXCEPT ![v] = Idle]
    /\ UNCHANGED <<chat, meeting, today, hidden, asked, scene>>

-----------------------------------------------------------------------------
(* Maintenance: today's meetings and the announcements, in one transaction *)
(* that holds the lock of the plan.                                        *)

StartMaintenance(k) == k \in MaintenanceLoop /\ Starts(k) /\ Moves(k, "wait")

Prepared(m) ==
    LET row == Visited(m, FALSE)
    IN  IF row.status = "NOT_REQUESTED" THEN [row EXCEPT !.status = "PENDING"] ELSE row

\* Contexts ready to be announced, unless the context loop has them.
Announced(m, row) ==
    /\ row.notify = "due" /\ row.status \in {"READY", "EMPTY"}
    /\ ~Held(ContextLoop, m)

Maintain(k, queued) ==
    LET visits == {m \in today : meeting[m].status = "on"}
        row(m) == IF m \in visits THEN Prepared(m) ELSE context[m]
        ready == {m \in Meeting : Announced(m, row(m))}
        told == {m \in ready : meeting[m].status = "on" /\ queued}
    IN  /\ k \in MaintenanceLoop /\ call[k].at = "wait"
        /\ \A m \in visits : MayWrite(m, row(m))
        /\ context' = [m \in Meeting |->
              IF m \notin ready THEN row(m)
              ELSE [row(m) EXCEPT !.notify =
                      IF m \in told \/ meeting[m].status # "on" THEN "none" ELSE "later"]]
        /\ said' = {[View(m, row(m)) EXCEPT !.kind = "notice"] : m \in told}
        /\ asked' = asked \ told
        /\ call' = [call EXCEPT ![k] = Idle]
        /\ UNCHANGED <<chat, meeting, today, hidden, scene>>

-----------------------------------------------------------------------------
(* Time, the calendar, the owner, and processes that die. *)

\* Five minutes, or fifteen, have passed.
NotifyDue(m) ==
    /\ context[m].notify = "later"
    /\ context' = [context EXCEPT ![m].notify = "due"]
    /\ UNCHANGED <<chat, call>> /\ Quiet

RefreshDue(m) ==
    /\ context[m].refresh = "later"
    /\ context' = [context EXCEPT ![m].refresh = "due"]
    /\ UNCHANGED <<chat, call>> /\ Quiet

\* upsertMeeting: a later invitation rewrites the meeting.
Change(m, status) ==
    /\ m \in Cast[scene] /\ meeting[m].version < MaxVersion
    /\ meeting' = [meeting EXCEPT ![m] = [version |-> @.version + 1, status |-> status]]
    /\ said' = {}
    /\ UNCHANGED <<chat, context, today, hidden, call, asked, scene>>

MeetingEnds(m) ==
    /\ m \in Cast[scene] /\ meeting[m].status = "on"
    /\ meeting' = [meeting EXCEPT ![m].status = "ended"]
    /\ said' = {}
    /\ UNCHANGED <<chat, context, today, hidden, call, asked, scene>>

Hide(e) ==
    /\ e \in Cast[scene] \ hidden
    /\ hidden' = hidden \cup {e}
    /\ said' = {}
    /\ UNCHANGED <<chat, context, meeting, today, call, asked, scene>>

Crash(p) ==
    /\ p \in Cast[scene]
    /\ \E k \in Caller : Home[k] = p /\ call[k].at # "idle"
    /\ call' = [k \in Caller |-> IF Home[k] = p THEN Idle ELSE call[k]]
    /\ UNCHANGED <<chat, context>> /\ Quiet

-----------------------------------------------------------------------------
GenerationNext ==
    \/ \E k \in Caller : Connect(k)
    \/ \E k \in Caller : LockModel(k)
    \/ \E k \in Caller : Truncated(k)
    \/ \E k \in Caller : Unreachable(k)
    \/ \E k \in Caller : Malformed(k)
    \/ \E k \in Caller : Timeout(k)
    \/ \E k \in Caller : Selected(k)
    \/ \E k \in Caller : Answered(k)
    \/ \E k \in Author : Formalized(k)
    \/ \E k \in Stream : OpenStream(k)
    \/ \E k \in Author : StartAuthor(k)
    \/ \E k \in Author : WriteTask(k)
    \/ \E r \in Chat : Ask(r)
    \/ \E k \in ChatLoop, r \in Chat : StartChat(k, r)
    \/ \E k \in ChatLoop : RecordChat(k)
    \/ \E k \in Loop : RecordLost(k)
    \/ \E r \in Chat : BackoffEnds(r)
    \/ \E k \in ContextLoop, m \in Meeting : StartContext(k, m)
    \/ \E k \in ContextLoop : RecordContext(k)
    \/ \E v \in Visitor, m \in Meeting, why \in {"read", "refresh"} : Visit(v, m, why)
    \/ \E v \in Visitor : ShowContext(v)
    \/ \E k \in MaintenanceLoop : StartMaintenance(k)
    \/ \E k \in MaintenanceLoop, queued \in BOOLEAN : Maintain(k, queued)
    \/ \E m \in Meeting : NotifyDue(m)
    \/ \E m \in Meeting : RefreshDue(m)
    \/ \E m \in Meeting, status \in {"on", "cancelled"} : Change(m, status)
    \/ \E m \in Meeting : MeetingEnds(m)
    \/ \E e \in Event : Hide(e)
    \/ \E p \in Process : Crash(p)

\* A loop goes on while its process runs, an attempt has a timeout, and
\* PostgreSQL serves those who wait for a lock in turn.
Fairness ==
    /\ \A k \in Caller : WF_generation(Timeout(k))
    /\ \A k \in ChatLoop :
          WF_generation(\E r \in Chat : StartChat(k, r)) /\ WF_generation(RecordChat(k))
    /\ \A k \in ContextLoop :
          WF_generation(\E m \in Meeting : StartContext(k, m)) /\ WF_generation(RecordContext(k))
    /\ \A k \in Author : SF_generation(WriteTask(k))
    /\ \A v \in Visitor : SF_generation(ShowContext(v))
    /\ \A k \in MaintenanceLoop : SF_generation(\E queued \in BOOLEAN : Maintain(k, queued))
    /\ \A r \in Chat : WF_generation(BackoffEnds(r))

GenerationSpec == InitGeneration /\ [][GenerationNext]_generation /\ Fairness

-----------------------------------------------------------------------------
(* Properties. *)

\* Each variable keeps its type.
GenerationOK ==
    /\ chat \in [Chat -> ChatRow]
    /\ context \in [Meeting -> ContextRow]
    /\ meeting \in [Meeting -> MeetingRow]
    /\ today \subseteq Meeting
    /\ hidden \subseteq Event
    /\ call \in [Caller -> Work]
    /\ said \subseteq Statement
    /\ asked \subseteq Meeting
    /\ scene \in Scene
    /\ \A p \in Process : Connections(p) <= MaxConn

\* An event that was excluded when the question was put is not among the
\* references of its answer, whatever keys the model writes.
ExcludedNotCited ==
    \A r \in Chat : chat[r].cites \cap chat[r].excluded = {}

\* A context shown as ready and not stale was generated for the meeting as it
\* is; so was one of today that is announced.
SaidIsCurrent ==
    \A s \in said : /\ s.status \in {"READY", "EMPTY"} /\ ~s.stale
                    /\ s.kind = "view" \/ s.meeting \in today
                    => s.about = s.version

\* What is shown rests on nothing that was hidden or has changed, and no more
\* connections are in use than there are.
Truthful == GenerationOK /\ ExcludedNotCited /\ SaidIsCurrent

\* An answered or a given up question stays so; only a second worker, whose
\* failure is written after the other one's answer, undoes that.
FinalKept ==
    [][\A r \in Chat : chat[r].status \in {"COMPLETED", "FAILED"} /\ chat'[r] # chat[r] =>
          \E k \in ChatLoop : /\ call[k].at = "failed" /\ call[k].item = r /\ call'[k] = Idle
                              /\ \E j \in ChatLoop \ {k} : Plays(j)]_generation

\* Whoever waits for a connection, for the model, for a row or for the plan
\* goes on in the end, even when all connections are held by calls that wait
\* for one more.
EveryCallEnds == \A k \in Caller : (Calling(k) \/ call[k].at = "wait") ~> call[k].at \in {"idle", "failed"}

\* Once the calls of the chat loops no longer fail and the workers no longer die,
\* each question is answered or given up: those that failed before come back, and
\* none is passed over.
Recovers ==
    <>[][/\ \A k \in ChatLoop : ~Timeout(k) /\ ~Unreachable(k) /\ ~RecordLost(k)
         /\ \A p \in Process : ~Crash(p)]_generation
EveryQuestionEnds ==
    Recovers => \A r \in Chat :
       chat[r].status = "PENDING" ~> chat[r].status \in {"COMPLETED", "FAILED"}

\* REQUIREMENTS.md:187, "a repeated check of an unchanged cache creates no
\* notification": a context is announced only when the button was pressed since
\* the last time.  The code does not keep it: README, "Disagreements found".
OneNoticePerRequest ==
    [][\A s \in said' : s.kind = "notice" => s.meeting \in asked]_generation
=============================================================================
