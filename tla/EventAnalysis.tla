----------------------------- MODULE EventAnalysis -----------------------------
(***************************************************************************)
(* The queue of received events (communication_events.analysis_state): the *)
(* workers that claim and analyse them (worker.go processEvent), the       *)
(* loaders that bring them and change them (mail.go, exchange.go,          *)
(* external.go), and the owner who saves filters and identity              *)
(* (admin.go, reconciliation.go).                                          *)
(*                                                                         *)
(* A worker claims in one transaction, commits, and analyses in a second   *)
(* one that keeps the event's row locked while the model answers.  A       *)
(* failure is recorded by a statement of its own, after the second         *)
(* transaction is gone; a worker may die at any point.  SKIPPED stands for *)
(* IGNORED too.                                                            *)
(***************************************************************************)
EXTENDS Integers, FiniteSets

CONSTANTS
    Event,        \* the events that may arrive
    Worker,       \* events loops, one per worker process
    Kind,         \* communication_events.event_type
    History,      \* events dated before their source was added
    Reply,        \* the later incoming letters of an outgoing letter's thread
    Op,           \* what the environment does
    MaxAttempts,  \* bound: attempts are counted up to here
    MaxContent,   \* bound: versions of an event's content
    NoEvent

Kinds == {"invitation", "transcript", "email", "external"}

ASSUME EventAssumption ==
    /\ NoEvent \notin Event
    /\ Kind \in [Event -> Kinds]
    /\ Reply \in [Event -> SUBSET Event]
    /\ History \subseteq Event
    /\ MaxAttempts \in Nat \ {0}
    /\ MaxContent \in Nat \ {0}

VARIABLES
    state,      \* analysis_state, ABSENT when there is no row
    attempts,   \* analysis_attempts
    due,        \* next_analysis_at is null or past
    stale,      \* updated_at is 15 minutes old
    content,    \* which version of the event the row holds
    result,     \* the version the committed analysis_result is about, 0 for none
    analyzed,   \* analyzed_at is not null
    byModel,    \* analysis_model is not null
    announced,  \* analyses of the event that queued notifications
    excluded,   \* the events the saved analysis_filters match
    work        \* what each events loop is doing

rows == <<state, attempts, due, stale, content, result, analyzed, byModel, announced>>
vars == <<state, attempts, due, stale, content, result, analyzed, byModel, announced,
          excluded, work>>

States == {"ABSENT", "PENDING", "PROCESSING", "COMPLETED", "FAILED", "SKIPPED"}

-----------------------------------------------------------------------------
(* Steps of processEvent. *)

Jobs == [step : {"idle", "claimed", "analysing", "failed"},
         event : Event \union {NoEvent}, tries : 0..MaxAttempts,
         seen : 0..MaxContent, skip : BOOLEAN, silent : BOOLEAN]
Idle == [step |-> "idle", event |-> NoEvent, tries |-> 0,
         seen |-> 0, skip |-> FALSE, silent |-> FALSE]
Claimed(e, n) == [Idle EXCEPT !.step = "claimed", !.event = e, !.tries = n]
Analysing(x, version, filtered, historical) ==
    [x EXCEPT !.step = "analysing", !.seen = version, !.skip = filtered, !.silent = historical]
Failed(x) == [x EXCEPT !.step = "failed"]

Works(w, e) == work[w].step = "analysing" /\ work[w].event = e

\* Mutant: the second transaction selects its event without a lock.
NeverLocked(e) == e \notin Event

\* The second transaction holds its event FOR NO KEY UPDATE.
RowLocked(e) == \E w \in Worker : Works(w, e)

\* filtered: invitations are handled before the filters are read.
\* Mutant: they are not.
FilteredAny(e, X) == e \in X
Filtered(e, X) == e \in X /\ Kind[e] # "invitation"

\* Mutant: a later analysis notifies as the first does.
OnlyHistory(e) == e \in History
Historical(e) == e \in History \/ analyzed[e]

Init ==
    /\ \E old \in SUBSET {e \in Event : Kind[e] \in {"email", "transcript"}} :
          \* archive analysed by an earlier release: semantic_version < 2
          /\ old = {} \/ "upgrade" \in Op
          /\ state = [e \in Event |-> IF e \in old THEN "COMPLETED" ELSE "ABSENT"]
          /\ analyzed = [e \in Event |-> e \in old]
          /\ byModel = [e \in Event |-> e \in old]
    /\ attempts = [e \in Event |-> 0]
    /\ due = [e \in Event |-> TRUE]
    /\ stale = [e \in Event |-> FALSE]
    /\ content = [e \in Event |-> 1]
    /\ result = [e \in Event |-> 0]
    /\ announced = [e \in Event |-> 0]
    /\ excluded = {}
    /\ work = [w \in Worker |-> Idle]

-----------------------------------------------------------------------------
(* Claiming. *)

\* Mutant: a claim is never taken over.
OnlyPending(e) == state[e] = "PENDING" /\ due[e]
Queued(e) ==
    \/ state[e] = "PENDING" /\ due[e]
    \/ state[e] = "PROCESSING" /\ stale[e]

\* The archive of an earlier release, when nothing is queued.
Outdated(e) ==
    /\ state[e] = "COMPLETED" /\ due[e]
    /\ Kind[e] # "invitation" /\ result[e] = 0

Turn(e) == CASE Kind[e] = "invitation" -> 0 [] Kind[e] = "transcript" -> 1 [] OTHER -> 2

\* Mutant: the attempts do not count in the order.
SoonerKind(d, e) == Turn(d) < Turn(e)

\* ORDER BY event type, analysis_model IS NOT NULL, analysis_attempts.
Sooner(d, e) ==
    \/ Turn(d) < Turn(e)
    \/ Turn(d) = Turn(e) /\ ~byModel[d] /\ byModel[e]
    \/ Turn(d) = Turn(e) /\ byModel[d] = byModel[e] /\ attempts[d] < attempts[e]

Candidates == {e \in Event : Queued(e) /\ ~RowLocked(e)}
Chosen(e) ==
    IF Candidates # {}
    THEN e \in Candidates /\ \A d \in Candidates : ~Sooner(d, e)
    ELSE Outdated(e) /\ ~RowLocked(e)

OneMore(n) == IF n < MaxAttempts THEN n + 1 ELSE n

Claim(w, e) ==
    /\ work[w] = Idle
    /\ Chosen(e)
    /\ work' = [work EXCEPT ![w] = Claimed(e, OneMore(attempts[e]))]
    /\ state' = [state EXCEPT ![e] = "PROCESSING"]
    /\ attempts' = [attempts EXCEPT ![e] = OneMore(attempts[e])]
    /\ due' = [due EXCEPT ![e] = TRUE]
    /\ stale' = [stale EXCEPT ![e] = FALSE]
    /\ UNCHANGED <<content, result, analyzed, byModel, announced, excluded>>

\* The second transaction: SELECT ... AND analysis_state='PROCESSING' FOR NO KEY
\* UPDATE SKIP LOCKED, then the filters of the settings committed by now.
Open(w) ==
    LET e == work[w].event IN
    /\ work[w].step = "claimed"
    /\ state[e] = "PROCESSING" /\ ~RowLocked(e)
    /\ work' = [work EXCEPT ![w] =
          Analysing(work[w], content[e], Filtered(e, excluded), Historical(e))]
    /\ UNCHANGED <<rows, excluded>>

\* Somebody else has the event, or it was settled or changed meanwhile.
LetGo(w) ==
    LET e == work[w].event IN
    /\ work[w].step = "claimed"
    /\ state[e] # "PROCESSING" \/ RowLocked(e)
    /\ work' = [work EXCEPT ![w] = Idle]
    /\ UNCHANGED <<rows, excluded>>

-----------------------------------------------------------------------------
(* The end of an analysis. *)

\* analyzeEvent for a filtered event.
Skip(w) ==
    LET e == work[w].event IN
    /\ work[w].step = "analysing" /\ work[w].skip
    /\ work' = [work EXCEPT ![w] = Idle]
    /\ state' = [state EXCEPT ![e] = "SKIPPED"]
    /\ due' = [due EXCEPT ![e] = TRUE]
    /\ stale' = [stale EXCEPT ![e] = FALSE]
    /\ result' = [result EXCEPT ![e] = work[w].seen]
    /\ analyzed' = [analyzed EXCEPT ![e] = TRUE]
    /\ UNCHANGED <<attempts, content, byModel, announced, excluded>>

\* analyzeDelegations: replies analysed before their assignment was discovered
\* go back to the queue.
Requeueable(e) == {r \in Reply[e] : Kind[r] = "email" /\ state[r] = "COMPLETED" /\ r # e}

\* analyzeEvent for an event no filter excludes; R are the replies requeued.
Commit(w, R) ==
    LET e == work[w].event IN
    /\ work[w].step = "analysing" /\ ~work[w].skip
    /\ R = {} \/ (Kind[e] = "email" /\ R \subseteq Requeueable(e))
    /\ work' = [work EXCEPT ![w] = Idle]
    /\ state' = [d \in Event |-> IF d = e THEN "COMPLETED"
                                 ELSE IF d \in R THEN "PENDING" ELSE state[d]]
    /\ due' = [d \in Event |-> IF d \in R \union {e} THEN TRUE ELSE due[d]]
    /\ stale' = [stale EXCEPT ![e] = FALSE]
    /\ result' = [result EXCEPT ![e] = work[w].seen]
    /\ analyzed' = [analyzed EXCEPT ![e] = TRUE]
    /\ byModel' = [byModel EXCEPT ![e] = byModel[e] \/ Kind[e] # "invitation"]
    /\ announced' = [announced EXCEPT ![e] = IF work[w].silent THEN @ ELSE @ + 1]
    /\ UNCHANGED <<attempts, content, excluded>>

\* The model, the parser or the database failed: the transaction is rolled back.
Fail(w) ==
    /\ work[w].step = "analysing"
    /\ work' = [work EXCEPT ![w] = Failed(work[w])]
    /\ UNCHANGED <<rows, excluded>>

\* Schedule a retry, WHERE analysis_state IN ('PENDING','PROCESSING','COMPLETED').
ScheduleRetry(w) ==
    LET e == work[w].event IN
    /\ work[w].step = "failed"
    /\ state[e] \in {"PENDING", "PROCESSING", "COMPLETED"} /\ ~RowLocked(e)
    /\ work' = [work EXCEPT ![w] = Idle]
    /\ state' = [state EXCEPT ![e] = "PENDING"]
    /\ attempts' = [attempts EXCEPT ![e] = work[w].tries]
    /\ due' = [due EXCEPT ![e] = FALSE]
    /\ stale' = [stale EXCEPT ![e] = FALSE]
    /\ UNCHANGED <<content, result, analyzed, byModel, announced, excluded>>

\* A terminal failure, WHERE analysis_state='PROCESSING'.
GiveUp(w) ==
    LET e == work[w].event IN
    /\ work[w].step = "failed" /\ Kind[e] # "invitation"
    /\ state[e] = "PROCESSING" /\ ~RowLocked(e)
    /\ work' = [work EXCEPT ![w] = Idle]
    /\ state' = [state EXCEPT ![e] = "FAILED"]
    /\ due' = [due EXCEPT ![e] = TRUE]
    /\ stale' = [stale EXCEPT ![e] = FALSE]
    /\ UNCHANGED <<attempts, content, result, analyzed, byModel, announced, excluded>>

\* The statement matches no row, or waits for a lock until its five seconds end.
CannotSchedule(w) ==
    LET e == work[w].event IN
    /\ work[w].step = "failed"
    /\ state[e] # "PROCESSING" \/ RowLocked(e)
    /\ work' = [work EXCEPT ![w] = Idle]
    /\ UNCHANGED <<rows, excluded>>

\* The process dies: an open transaction is rolled back, a claim stays.
Crash(w) ==
    /\ "crash" \in Op
    /\ work[w] # Idle
    /\ work' = [work EXCEPT ![w] = Idle]
    /\ UNCHANGED <<rows, excluded>>

-----------------------------------------------------------------------------
(* The clock. *)

BackoffEnds(e) ==
    /\ ~due[e]
    /\ due' = [due EXCEPT ![e] = TRUE]
    /\ UNCHANGED <<state, attempts, stale, content, result, analyzed, byModel, announced,
                   excluded, work>>

ClaimAges(e) ==
    /\ state[e] = "PROCESSING" /\ ~stale[e]
    /\ stale' = [stale EXCEPT ![e] = TRUE]
    /\ UNCHANGED <<state, attempts, due, content, result, analyzed, byModel, announced,
                   excluded, work>>

-----------------------------------------------------------------------------
(* The environment. *)

\* A loader inserts an event; tasks of an external source are never queued.
Arrive(e) ==
    /\ state[e] = "ABSENT"
    /\ state' = [state EXCEPT ![e] = IF Kind[e] = "external" THEN "SKIPPED" ELSE "PENDING"]
    /\ UNCHANGED <<attempts, due, stale, content, result, analyzed, byModel, announced,
                   excluded, work>>

Requeued(e) == IF Kind[e] \in Kinds THEN "PENDING" ELSE "ABSENT"

\* A letter or an appointment is loaded again with other headers: UPDATE waits
\* for the row.  Only a cancelled appointment forgets the time of the next attempt.
Change(e) ==
    /\ "change" \in Op
    /\ Kind[e] \in {"email", "invitation"}
    /\ state[e] # "ABSENT" /\ ~RowLocked(e)
    /\ content[e] < MaxContent
    /\ state' = [state EXCEPT ![e] = Requeued(e)]
    /\ content' = [content EXCEPT ![e] = @ + 1]
    /\ stale' = [stale EXCEPT ![e] = FALSE]
    /\ \/ UNCHANGED due
       \/ Kind[e] = "invitation" /\ due' = [due EXCEPT ![e] = TRUE]
    /\ UNCHANGED <<attempts, result, analyzed, byModel, announced, excluded, work>>

\* POST of an external task that is newer than the stored one.
ExternalChange(e) ==
    /\ "change" \in Op
    /\ Kind[e] = "external"
    /\ state[e] # "ABSENT" /\ ~RowLocked(e)
    /\ content[e] < MaxContent
    /\ state' = [state EXCEPT ![e] = "SKIPPED"]
    /\ content' = [content EXCEPT ![e] = @ + 1]
    /\ attempts' = [attempts EXCEPT ![e] = 0]
    /\ due' = [due EXCEPT ![e] = TRUE]
    /\ stale' = [stale EXCEPT ![e] = FALSE]
    /\ UNCHANGED <<result, analyzed, byModel, announced, excluded, work>>

\* reconcileFilters: every event that is not being processed, invitations aside.
Examined == {e \in Event : state[e] \notin {"ABSENT", "PROCESSING"} /\ Kind[e] # "invitation"}
Matching(X) == {e \in Examined : Filtered(e, X)}
Unmatched(X) == {e \in Examined : ~Filtered(e, X) /\ state[e] = "SKIPPED"}

SaveFilters(X) ==
    /\ "filters" \in Op
    /\ X # excluded
    /\ excluded' = X
    /\ state' = [e \in Event |-> IF e \in Matching(X) THEN "SKIPPED"
                                 ELSE IF e \in Unmatched(X) THEN "PENDING" ELSE state[e]]
    /\ attempts' = [e \in Event |-> IF e \in Unmatched(X) THEN 0 ELSE attempts[e]]
    /\ due' = [e \in Event |-> IF e \in Matching(X) \union Unmatched(X) THEN TRUE ELSE due[e]]
    /\ analyzed' = [e \in Event |-> e \in Matching(X) \/ analyzed[e]]
    /\ byModel' = [e \in Event |-> e \notin Matching(X) \union Unmatched(X) /\ byModel[e]]
    /\ UNCHANGED <<stale, content, result, announced, work>>

\* requeueIdentity: analysed events that became the owner's with the new names.
SaveIdentity(R) ==
    /\ "identity" \in Op
    /\ R # {} /\ \A e \in R : state[e] = "COMPLETED" /\ byModel[e] /\ ~RowLocked(e)
    /\ state' = [e \in Event |-> IF e \in R THEN "PENDING" ELSE state[e]]
    /\ attempts' = [e \in Event |-> IF e \in R THEN 0 ELSE attempts[e]]
    /\ due' = [e \in Event |-> IF e \in R THEN TRUE ELSE due[e]]
    /\ UNCHANGED <<stale, content, result, analyzed, byModel, announced, excluded, work>>

-----------------------------------------------------------------------------
Finish(w) == Skip(w) \/ \E R \in SUBSET Event : Commit(w, R)
Report(w) == ScheduleRetry(w) \/ GiveUp(w) \/ CannotSchedule(w)
EventsLoop(w) ==
    \/ \E e \in Event : Claim(w, e)
    \/ Open(w) \/ LetGo(w)
    \/ Finish(w) \/ Fail(w)
    \/ Report(w)
Clock == \E e \in Event : BackoffEnds(e) \/ ClaimAges(e)
Load == \E e \in Event : Arrive(e) \/ Change(e) \/ ExternalChange(e)
Save == \E S \in SUBSET Event : SaveFilters(S) \/ SaveIdentity(S)

Next ==
    \/ \E w \in Worker : EventsLoop(w) \/ Crash(w)
    \/ Clock \/ Load \/ Save

Spec == Init /\ [][Next]_vars

\* The loop of a running worker always takes its next step, and time passes.
FairSpec ==
    /\ Spec
    /\ \A w \in Worker : WF_vars(EventsLoop(w))
    /\ \A e \in Event : WF_vars(BackoffEnds(e)) /\ WF_vars(ClaimAges(e))

-----------------------------------------------------------------------------
(* Properties *)

\* Each row of the queue and the state of each worker has its shape.
TypeOK ==
    /\ state \in [Event -> States]
    /\ attempts \in [Event -> 0..MaxAttempts]
    /\ due \in [Event -> BOOLEAN]
    /\ stale \in [Event -> BOOLEAN]
    /\ content \in [Event -> 1..MaxContent]
    /\ result \in [Event -> 0..MaxContent]
    /\ analyzed \in [Event -> BOOLEAN]
    /\ byModel \in [Event -> BOOLEAN]
    /\ announced \in [Event -> Nat]
    /\ excluded \subseteq Event
    /\ work \in [Worker -> Jobs]
    /\ \A w \in Worker : work[w].step # "idle" => work[w].event \in Event

\* However claims are taken over, one worker at a time analyses an event: the row
\* lock of the second transaction protects what the 15 minutes do not.
OneAnalyst ==
    \A v, w \in Worker : \A e \in Event : Works(v, e) /\ Works(w, e) => v = w

\* A completed event was analysed as it is now: a change that the loader stores
\* between the claim and the analysis, or after it, is never lost.
FreshResult ==
    \A e \in Event : state[e] = "COMPLETED" /\ result[e] # 0 => result[e] = content[e]

\* Repeated analysis creates no notifications (README.md:1005): whatever is
\* retried, requeued, changed or taken over, one analysis of an event notifies.
AnnouncedOnce == \A e \in Event : announced[e] <= 1

\* An appointment reaches the calendar whatever the filters match: an invitation
\* is never excluded nor given up.
InvitationKept ==
    \A e \in Event : Kind[e] = "invitation" => state[e] \notin {"SKIPPED", "FAILED"}

\* Workers do not die after every claim of an event, nor does the model fail at
\* every question about it: what is tried again and again succeeds.  Attempts are
\* counted without a bound in the code, so that two events at the bound here take
\* turns.
Taken(e) == \E w \in Worker : Claim(w, e)
Reached(e) == \E w \in Worker : work[w].event = e /\ Open(w)
Settled(e) == \E w \in Worker : work[w].event = e /\ Finish(w)
Recovered ==
    \A e \in Event : SF_vars(Taken(e)) /\ SF_vars(Reached(e)) /\ SF_vars(Settled(e))

\* No event stays claimed by a worker that died: once the model and the workers
\* recover, the claim is taken over.
ClaimEnds ==
    Recovered => \A e \in Event : state[e] = "PROCESSING" ~> state[e] # "PROCESSING"

\* Each queued message gets a turn before the same failed mail is retried
\* (worker.go:101): a message never tried is reached even if others always fail.
FirstTurn ==
    \A e \in Event : state[e] = "PENDING" /\ attempts[e] = 0 ~> state[e] # "PENDING"

\* EXTERNAL_TASK_API.md:5: the model is not called for external tasks.
\* The code does not keep it: README, "Disagreements found".
ExternalNeverAsked ==
    \A w \in Worker : \A e \in Event : Works(w, e) /\ Kind[e] = "external" => work[w].skip
=============================================================================
