----------------------------- MODULE TaskLifecycle -----------------------------
(***************************************************************************)
(* Tasks, their reminders and today's plan: the HTTP handlers              *)
(* (backend/internal/server/tasks.go), the analysis of a message and the   *)
(* maintenance job (worker.go) as concurrent READ COMMITTED transactions.  *)
(*                                                                         *)
(* A handler reads committed rows first and writes later.  From its first  *)
(* write to a task until it ends a transaction holds the advisory lock     *)
(* 726941831, so the writes, the ranking and the plan of one lock holder   *)
(* are one unit; what a transaction read before it took the lock may be    *)
(* out of date by then, and that is where the interleavings are.  The      *)
(* analysis holds the lock while it asks the model about delegations.      *)
(***************************************************************************)
EXTENDS Integers, FiniteSets

CONSTANTS
    MailTask,     \* tasks the analysis may find in one thread of a source
    ManualTask,   \* tasks the owner may create
    Request,      \* HTTP requests being served at once
    Analyzer,     \* the worker's events loop
    Maintainer,   \* the worker's maintenance loop
    Op,           \* the operations the environment uses
    NoPlan        \* there is no daily_plans row for today

Task == MailTask \union ManualTask
Actor == Request \union {Analyzer, Maintainer}

Absent == "ABSENT"      \* no such row
Active == {"NEW", "IN_PROGRESS", "POSSIBLY_COMPLETED"}
Closed == {"COMPLETED", "CANCELLED"}
Status == Active \union Closed \union {"NEEDS_CONFIRMATION"}
Same == "SAME"          \* a transaction does not write this row
NoTx == [none |-> TRUE]

ASSUME ActorAssumption ==
    /\ MailTask \intersect ManualTask = {}
    /\ Analyzer \notin Request /\ Maintainer \notin Request /\ Analyzer # Maintainer
    /\ \A S \in SUBSET Task : NoPlan # S

VARIABLES
    status,     \* tasks.status, Absent when there is no row
    reminder,   \* one reminder per task: "none", "armed", "due", "off", "sent"
    plan,       \* the items of today's daily_plans row
    planTime,   \* the clock has passed daily_plan_time today
    tx          \* the open transaction of each actor

vars == <<status, reminder, plan, planTime, tx>>

-----------------------------------------------------------------------------
(* Transactions *)

Nothing == [t \in Task |-> Same]
Only(t, s) == [Nothing EXCEPT ![t] = s]
Written(x) == {t \in Task : x.writes[t] # Same}

\* A transaction that has read what it needs and written nothing yet.
Opened(op, writes, seen) ==
    [op |-> op, step |-> "read", writes |-> writes, seen |-> seen,
     plan |-> NoPlan, silences |-> {}, rings |-> {}]

Steps == {"read", "silenced", "locked", "ready"}
Locked(a) == tx[a] # NoTx /\ tx[a].step \in {"locked", "ready"}

\* Mutant: the hooks of insert and update do not take the advisory lock.
Unlocked == TRUE
LockFree == \A a \in Actor : ~Locked(a)

\* What an open transaction becomes.
Silencing(x, S) == [x EXCEPT !.step = "silenced", !.silences = S]
Writing(x, writes) == [x EXCEPT !.step = "locked", !.writes = writes]
Ready(x, items) == [x EXCEPT !.step = "ready", !.plan = items]
Ringing(x, S) == [x EXCEPT !.step = "ready", !.rings = S]
Outdated(x) == [x EXCEPT !.plan = NoPlan]

\* The tasks a transaction sees: committed rows under its own writes.
Seen(writes) == [t \in Task |-> IF writes[t] = Same THEN status[t] ELSE writes[t]]

\* rebuildPlan: every active task, whatever it was called for.
ActiveIn(st) == {t \in Task : st[t] \in Active}
Rebuilt(writes) == ActiveIn(Seen(writes))

\* Reminder rows an open transaction has locked.
Reminded(x) == x.silences \union x.rings
RowLocked(t) == \E a \in Actor : tx[a] # NoTx /\ t \in Reminded(tx[a])

-----------------------------------------------------------------------------
Init ==
    /\ status = [t \in Task |-> Absent]
    /\ reminder = [t \in Task |-> "none"]
    /\ plan = NoPlan /\ planTime = FALSE
    /\ tx = [a \in Actor |-> NoTx]

Begin(a, x) ==
    /\ tx[a] = NoTx
    /\ tx' = [tx EXCEPT ![a] = x]
    /\ UNCHANGED <<status, reminder, plan, planTime>>

(* The handlers up to their first write. *)

\* POST /tasks; POST /tasks/from-text asks the model first, and reads nothing.
CreateTask(r, t) ==
    /\ "create" \in Op
    /\ t \in ManualTask /\ status[t] = Absent
    /\ \A a \in Actor : tx[a] # NoTx => t \notin Written(tx[a])
    /\ Begin(r, Opened("create", Only(t, "NEW"), {}))

PatchTask(r, t, s) ==
    /\ "patch" \in Op
    /\ status[t] # Absent
    /\ Begin(r, Opened("patch", Only(t, s), {}))

CompleteTask(r, t) ==
    /\ "complete" \in Op
    /\ status[t] # Absent
    /\ Begin(r, Opened("complete", Only(t, "COMPLETED"), {}))

ConfirmTask(r, t) ==
    /\ "confirm" \in Op
    /\ status[t] = "NEEDS_CONFIRMATION"
    /\ Begin(r, Opened("confirm", Only(t, "NEW"), {}))

RejectTask(r, t) ==
    /\ "reject" \in Op
    /\ status[t] \notin {Absent, "COMPLETED"}
    /\ Begin(r, Opened("reject", Only(t, "CANCELLED"), {}))

\* GET /tasks ranks the active tasks under the lock and changes no status.
ListTasks(r) == "list" \in Op /\ Begin(r, Opened("list", Nothing, {}))

\* GET /plans/today builds the plan when there is none or on demand; a PATCH
\* that leaves the status alone has the same effect here.
TodayPlan(r) == "plan" \in Op /\ Begin(r, Opened("plan", Nothing, {}))

-----------------------------------------------------------------------------
(* The writes. *)

\* Reject switches the reminders of its task off before it takes the lock.
RejectReminders(r) ==
    /\ tx[r] # NoTx /\ tx[r].op = "reject" /\ tx[r].step = "read"
    /\ \A t \in Written(tx[r]) : ~RowLocked(t)
    /\ tx' = [tx EXCEPT ![r] =
          Silencing(tx[r], {t \in Written(tx[r]) : reminder[t] # "none"})]
    /\ UNCHANGED <<status, reminder, plan, planTime>>

\* The row an update addresses was deleted meanwhile: 404.
Gone(x) == x.op # "create" /\ \E t \in Written(x) : status[t] = Absent

\* Every handler but the list rebuilds the plan after its write.
Replanned(x) == IF x.op = "list" THEN NoPlan ELSE Rebuilt(x.writes)

Waiting(r) ==
    /\ tx[r] # NoTx
    /\ tx[r].step = IF tx[r].op = "reject" THEN "silenced" ELSE "read"

RequestWrite(r) ==
    /\ Waiting(r) /\ LockFree /\ ~Gone(tx[r])
    /\ tx' = [tx EXCEPT ![r] = Ready(tx[r], Replanned(tx[r]))]
    /\ UNCHANGED <<status, reminder, plan, planTime>>

RequestGone(r) ==
    /\ Waiting(r) /\ LockFree /\ Gone(tx[r])
    /\ tx' = [tx EXCEPT ![r] = NoTx]
    /\ UNCHANGED <<status, reminder, plan, planTime>>

\* Reminder rows after a commit.
Settled(x) == [t \in Task |->
    IF t \in x.rings THEN "sent"
    ELSE IF t \in x.silences /\ reminder[t] \in {"armed", "due"} THEN "off"
    ELSE reminder[t]]

Commit(a) ==
    /\ tx[a] # NoTx /\ tx[a].step = "ready"
    /\ status' = Seen(tx[a].writes)
    /\ reminder' = Settled(tx[a])
    /\ plan' = IF tx[a].plan = NoPlan THEN plan ELSE tx[a].plan
    /\ tx' = [tx EXCEPT ![a] = NoTx]
    /\ UNCHANGED planTime

\* A client goes away, the model or the database fails, a process stops.
Abort(a) ==
    /\ tx[a] # NoTx
    /\ tx' = [tx EXCEPT ![a] = NoTx]
    /\ UNCHANGED <<status, reminder, plan, planTime>>

\* POST and DELETE of a reminder touch no task row and take no lock.
AddReminder(t, due) ==
    /\ "remind" \in Op
    /\ status[t] # Absent /\ reminder[t] = "none"
    /\ reminder' = [reminder EXCEPT ![t] = IF due THEN "due" ELSE "armed"]
    /\ UNCHANGED <<status, plan, planTime, tx>>

DeleteReminder(t) ==
    /\ "remind" \in Op
    /\ reminder[t] # "none" /\ ~RowLocked(t)
    /\ reminder' = [reminder EXCEPT ![t] = "none"]
    /\ UNCHANGED <<status, plan, planTime, tx>>

-----------------------------------------------------------------------------
(* The analysis of one message *)

\* The open tasks of its thread, as the model will be told.
ThreadTasks == {t \in MailTask : status[t] \in Status \ Closed}

AnalysisRead == Begin(Analyzer, Opened("analyze", Nothing, ThreadTasks))

\* What the model's answers may lead to: tasks that were open when it was
\* asked are marked, tasks it found are added.
Finding(seen, writes) == \A t \in Task :
    \/ writes[t] = Same
    \/ t \in seen /\ writes[t] = "POSSIBLY_COMPLETED"
    \/ t \in MailTask /\ status[t] = Absent /\ writes[t] \in {"NEW", "NEEDS_CONFIRMATION"}

\* The messages of a thread cannot be deleted under the analysis, so neither
\* can the tasks it marks.
AnalysisWrite ==
    /\ tx[Analyzer] # NoTx /\ tx[Analyzer].step = "read" /\ LockFree
    /\ \E writes \in [Task -> {Same, "POSSIBLY_COMPLETED", "NEW", "NEEDS_CONFIRMATION"}] :
          /\ Finding(tx[Analyzer].seen, writes)
          /\ tx' = [tx EXCEPT ![Analyzer] = Writing(tx[Analyzer], writes)]
    /\ UNCHANGED <<status, reminder, plan, planTime>>

\* After the delegations are known the plan is rebuilt, with or without tasks.
AnalysisRebuild ==
    /\ tx[Analyzer] # NoTx
    /\ tx[Analyzer].step = "locked" \/ (tx[Analyzer].step = "read" /\ LockFree)
    /\ tx' = [tx EXCEPT ![Analyzer] =
          Ready(tx[Analyzer], Rebuilt(tx[Analyzer].writes))]
    /\ UNCHANGED <<status, reminder, plan, planTime>>

-----------------------------------------------------------------------------
(* Maintenance *)

\* Mutant: a plan is refreshed but never created.
RefreshOnly(fresh) == plan # NoPlan /\ ~fresh

\* The first plan of the day waits for daily_plan_time, a stale one is redone.
PlanIsDue(fresh) == IF plan = NoPlan THEN planTime ELSE ~fresh

MaintenanceBegin ==
    /\ LockFree
    /\ \E fresh \in BOOLEAN : Begin(Maintainer,
          [Opened("maintain", Nothing, {}) EXCEPT !.step = "locked",
              !.plan = IF PlanIsDue(fresh) THEN Rebuilt(Nothing) ELSE NoPlan])

\* Mutant: the status of the task is not looked at.
RingsWhatever(t) == reminder[t] = "due" /\ ~RowLocked(t)

\* A reminder is due, its task is open and, by SKIP LOCKED, nobody else is at it.
MayRing(t) == reminder[t] = "due" /\ status[t] \in Status \ Closed /\ ~RowLocked(t)

Ring(S) ==
    /\ tx[Maintainer] # NoTx /\ tx[Maintainer].step = "locked"
    /\ tx' = [tx EXCEPT ![Maintainer] = Ringing(tx[Maintainer], S)]
    /\ UNCHANGED <<status, reminder, plan, planTime>>

\* Mutant: the job waits for locked reminders.
RingInTurn ==
    /\ \A t \in Task : reminder[t] = "due" /\ status[t] \in Status \ Closed => ~RowLocked(t)
    /\ Ring({t \in Task : MayRing(t)})

MaintenanceRing == Ring({t \in Task : MayRing(t)})

-----------------------------------------------------------------------------
(* The owner deletes the source, and time passes. *)

\* Rows of mail tasks other transactions have locked: a lock holder has ranked
\* every active task.
Touched(a) == IF tx[a] = NoTx THEN {} ELSE Reminded(tx[a]) \union
    (IF Locked(a) THEN Written(tx[a]) \union ActiveIn(status) ELSE {})

\* The cascade from the source takes the tasks and their reminders along, and
\* all plans are dropped; a preconfigured source is only hidden.  It takes no
\* advisory lock, but waits for the row locks it meets.
DeleteSource(gone) ==
    /\ "source" \in Op
    /\ gone \in {{}, MailTask}
    /\ gone # {} => /\ tx[Analyzer] = NoTx
                    /\ \A a \in Actor : Touched(a) \intersect gone = {}
    /\ plan # NoPlan => \A a \in Actor : tx[a] # NoTx => tx[a].plan = NoPlan
    /\ status' = [t \in Task |-> IF t \in gone THEN Absent ELSE status[t]]
    /\ reminder' = [t \in Task |-> IF t \in gone THEN "none" ELSE reminder[t]]
    /\ plan' = NoPlan
    /\ UNCHANGED <<planTime, tx>>

\* At midnight there is no plan for the new date; one that is being written
\* is yesterday's.
NewDay ==
    /\ planTime
    /\ plan' = NoPlan /\ planTime' = FALSE
    /\ tx' = [a \in Actor |-> IF tx[a] = NoTx THEN NoTx ELSE Outdated(tx[a])]
    /\ UNCHANGED <<status, reminder>>

PlanTimeComes ==
    /\ ~planTime /\ planTime' = TRUE
    /\ UNCHANGED <<status, reminder, plan, tx>>

ReminderComesDue(t) ==
    /\ reminder[t] = "armed"
    /\ reminder' = [reminder EXCEPT ![t] = "due"]
    /\ UNCHANGED <<status, plan, planTime, tx>>

-----------------------------------------------------------------------------
Serve(r) ==
    \/ \E t \in Task : CreateTask(r, t) \/ CompleteTask(r, t) \/ ConfirmTask(r, t)
    \/ \E t \in Task : RejectTask(r, t) \/ \E s \in Status : PatchTask(r, t, s)
    \/ ListTasks(r) \/ TodayPlan(r)
    \/ RejectReminders(r) \/ RequestWrite(r) \/ RequestGone(r)

Worker == AnalysisRead \/ AnalysisWrite \/ AnalysisRebuild \/ MaintenanceBegin \/ MaintenanceRing

Environment ==
    \/ \E t \in Task : DeleteReminder(t) \/ ReminderComesDue(t)
    \/ \E t \in Task, due \in BOOLEAN : AddReminder(t, due)
    \/ \E gone \in SUBSET Task : DeleteSource(gone)
    \/ NewDay \/ PlanTimeComes

Next ==
    \/ \E r \in Request : Serve(r)
    \/ \E a \in Actor : Commit(a) \/ Abort(a)
    \/ Worker \/ Environment

Spec == Init /\ [][Next]_vars

Proceed(r) == RejectReminders(r) \/ RequestWrite(r) \/ RequestGone(r) \/ Commit(r)

\* PostgreSQL grants a lock to its waiters in turn, so a transaction that waits
\* for one gets it (SF); every call of the model has a timeout, so the analysis
\* goes on; the maintenance job comes back every half minute and does not fail
\* for ever (SF on each of its steps).
Fairness ==
    /\ \A r \in Request : SF_vars(Proceed(r))
    /\ SF_vars(AnalysisRebuild \/ Commit(Analyzer))
    /\ SF_vars(MaintenanceBegin) /\ SF_vars(MaintenanceRing) /\ SF_vars(Commit(Maintainer))

FairSpec == Spec /\ Fairness

-----------------------------------------------------------------------------
(* Properties *)

Tx == [op : {"create", "patch", "complete", "confirm", "reject", "list", "plan",
             "analyze", "maintain"},
       step : Steps, writes : [Task -> Status \union {Same}], seen : SUBSET Task,
       plan : {NoPlan} \union SUBSET Task, silences : SUBSET Task, rings : SUBSET Task]

\* Every variable holds rows of its table's shape.
TypeOK ==
    /\ status \in [Task -> Status \union {Absent}]
    /\ reminder \in [Task -> {"none", "armed", "due", "off", "sent"}]
    /\ plan \in {NoPlan} \union SUBSET Task /\ planTime \in BOOLEAN
    /\ tx \in [Actor -> Tx \union {NoTx}]

\* The committed plan of today lists exactly the active tasks, whoever wrote
\* last and whatever ran at the same time (rebuildPlan: "Serialize rebuilding
\* today's shared plan across concurrent API and worker writes").
PlanMatches == plan # NoPlan => plan = ActiveIn(status)

\* No reminder goes off for a task that is closed or deleted by the time the
\* intent commits, although the maintenance job looked before (maintenance).
RingsOpenTask ==
    [][\A t \in Task : reminder[t] # "sent" /\ reminder'[t] = "sent" =>
        status'[t] \in Status \ Closed]_vars

\* Every request ends: the locks of rejections, lists, the analysis and the
\* maintenance job never wait for each other in a circle.
EveryRequestEnds == \A r \in Request : tx[r] # NoTx ~> tx[r] = NoTx

\* After daily_plan_time a plan appears, unless the day ends first.
PlanReady == planTime ~> plan # NoPlan \/ ~planTime

\* Only the owner takes a task out of COMPLETED (README.md: the final decision
\* stays with the user); deleting its source is the owner's act as well.
\* The code does not keep it: README, "Disagreements found".
UserDecides ==
    [][\A t \in Task : status[t] = "COMPLETED" /\ status'[t] \in Status \ {"COMPLETED"} =>
        \E r \in Request : tx[r] # NoTx /\ tx'[r] = NoTx]_vars

\* A rejection never replaces a completion (README.md: 409 for a completed task).
\* The code does not keep it: README, "Disagreements found".
RejectKeepsCompleted ==
    [][\A r \in Request, t \in Task :
        tx[r] # NoTx /\ tx'[r] = NoTx /\ tx[r].op = "reject" /\ status'[t] = "CANCELLED"
            => status[t] # "COMPLETED"]_vars
=============================================================================
