-------------------------- MODULE TaskLifecycle_proofs --------------------------
(***************************************************************************)
(* Theorems about TaskLifecycle for every set of tasks and of concurrent   *)
(* requests.                                                               *)
(*                                                                         *)
(* PlanMatches is about committed rows, but the plan that a commit writes  *)
(* was computed earlier.  The proof needs that it still fits: the advisory *)
(* lock has one holder (OneHolder), and what an open transaction will      *)
(* write agrees with the rows as they are now (Fit), which only a lock     *)
(* holder, or a deletion that waits for the holder's rows, can change.     *)
(***************************************************************************)
EXTENDS TaskLifecycle, TLAPS

Holding == {"locked", "ready"}

OneHolder == \A a, b \in Actor : Locked(a) /\ Locked(b) => a = b

\* An open transaction fits the committed rows.
Fit(x) == x # NoTx =>
    /\ x.plan # NoPlan => x.step \in Holding /\ x.plan = Rebuilt(x.writes)
    /\ x.step = "ready" /\ x.plan = NoPlan => plan = NoPlan \/ Written(x) = {}
    /\ x.op \in {"list", "maintain"} => Written(x) = {}
    /\ x.rings # {} => x.step = "ready" /\ x.op = "maintain"
    /\ \A t \in x.rings : status[t] \in Status \ Closed

\* What the two worker loops run.
WorkerFit ==
    /\ tx[Maintainer] # NoTx => tx[Maintainer].op = "maintain"
    /\ tx[Analyzer] # NoTx => tx[Analyzer].op = "analyze"

LockInv ==
    /\ TypeOK /\ OneHolder
    /\ \A a \in Actor : Fit(tx[a])
    /\ WorkerFit /\ PlanMatches

-----------------------------------------------------------------------------
(* The shape of a transaction *)

LEMMA OpenedType ==
    ASSUME NEW op \in {"create", "patch", "complete", "confirm", "reject", "list", "plan",
                       "analyze", "maintain"},
           NEW writes \in [Task -> Status \union {Same}], NEW seen \in SUBSET Task
    PROVE  /\ Opened(op, writes, seen) \in Tx
           /\ Opened(op, writes, seen).op = op /\ Opened(op, writes, seen).step = "read"
           /\ Opened(op, writes, seen).writes = writes
           /\ Opened(op, writes, seen).plan = NoPlan /\ Opened(op, writes, seen).rings = {}
BY DEF Opened, Tx, Steps

LEMMA OnlyType ==
    ASSUME NEW t \in Task, NEW s \in Status
    PROVE  Only(t, s) \in [Task -> Status \union {Same}]
BY DEF Only, Nothing

LEMMA NothingWritten ==
    /\ Nothing \in [Task -> Status \union {Same}]
    /\ \A t \in Task : Nothing[t] = Same
BY DEF Nothing

LEMMA RebuiltType == \A writes : Rebuilt(writes) \in SUBSET Task
BY DEF Rebuilt, ActiveIn

LEMMA StepTypes ==
    ASSUME NEW x \in Tx
    PROVE  /\ \A S \in SUBSET Task :
                /\ Silencing(x, S) \in Tx
                /\ Silencing(x, S).step = "silenced" /\ Silencing(x, S).op = x.op
                /\ Silencing(x, S).writes = x.writes /\ Silencing(x, S).plan = x.plan
                /\ Silencing(x, S).rings = x.rings
           /\ \A S \in SUBSET Task :
                /\ Ringing(x, S) \in Tx
                /\ Ringing(x, S).step = "ready" /\ Ringing(x, S).op = x.op
                /\ Ringing(x, S).writes = x.writes /\ Ringing(x, S).plan = x.plan
                /\ Ringing(x, S).rings = S
           /\ \A w \in [Task -> Status \union {Same}] :
                /\ Writing(x, w) \in Tx
                /\ Writing(x, w).step = "locked" /\ Writing(x, w).op = x.op
                /\ Writing(x, w).writes = w /\ Writing(x, w).plan = x.plan
                /\ Writing(x, w).rings = x.rings
           /\ \A p \in {NoPlan} \union SUBSET Task :
                /\ Ready(x, p) \in Tx
                /\ Ready(x, p).step = "ready" /\ Ready(x, p).op = x.op
                /\ Ready(x, p).writes = x.writes /\ Ready(x, p).plan = p
                /\ Ready(x, p).rings = x.rings
           /\ Outdated(x) \in Tx
           /\ Outdated(x).step = x.step /\ Outdated(x).op = x.op
           /\ Outdated(x).writes = x.writes /\ Outdated(x).plan = NoPlan
           /\ Outdated(x).rings = x.rings
<1>1. \A S \in SUBSET Task :
        /\ Silencing(x, S) \in Tx
        /\ Silencing(x, S).step = "silenced" /\ Silencing(x, S).op = x.op
        /\ Silencing(x, S).writes = x.writes /\ Silencing(x, S).plan = x.plan
        /\ Silencing(x, S).rings = x.rings
  BY DEF Silencing, Tx, Steps
<1>2. \A S \in SUBSET Task :
        /\ Ringing(x, S) \in Tx
        /\ Ringing(x, S).step = "ready" /\ Ringing(x, S).op = x.op
        /\ Ringing(x, S).writes = x.writes /\ Ringing(x, S).plan = x.plan
        /\ Ringing(x, S).rings = S
  BY DEF Ringing, Tx, Steps
<1>3. \A w \in [Task -> Status \union {Same}] :
        /\ Writing(x, w) \in Tx
        /\ Writing(x, w).step = "locked" /\ Writing(x, w).op = x.op
        /\ Writing(x, w).writes = w /\ Writing(x, w).plan = x.plan
        /\ Writing(x, w).rings = x.rings
  BY DEF Writing, Tx, Steps
<1>4. \A p \in {NoPlan} \union SUBSET Task :
        /\ Ready(x, p) \in Tx
        /\ Ready(x, p).step = "ready" /\ Ready(x, p).op = x.op
        /\ Ready(x, p).writes = x.writes /\ Ready(x, p).plan = p
        /\ Ready(x, p).rings = x.rings
  BY DEF Ready, Tx, Steps
<1>5. /\ Outdated(x) \in Tx
      /\ Outdated(x).step = x.step /\ Outdated(x).op = x.op
      /\ Outdated(x).writes = x.writes /\ Outdated(x).plan = NoPlan
      /\ Outdated(x).rings = x.rings
  BY DEF Outdated, Tx
<1> QED
  BY <1>1, <1>2, <1>3, <1>4, <1>5

-----------------------------------------------------------------------------
(* One transaction moves, the rows stay. *)

\* The obligations of actor a whose transaction becomes x.
Allowed(a, x) ==
    /\ x \in Tx \union {NoTx}
    /\ Fit(x)
    /\ x # NoTx /\ x.step \in Holding => \A b \in Actor \ {a} : ~Locked(b)
    /\ a = Maintainer /\ x # NoTx => x.op = "maintain"
    /\ a = Analyzer /\ x # NoTx => x.op = "analyze"

LEMMA Moves ==
    ASSUME LockInv, NEW a \in Actor, NEW x, Allowed(a, x),
           tx' = [tx EXCEPT ![a] = x],
           UNCHANGED <<status, reminder, plan, planTime>>
    PROVE  LockInv'
<1>1. TypeOK'
  BY DEF LockInv, TypeOK, Allowed
<1>2. tx'[a] = x /\ \A b \in Actor \ {a} : tx'[b] = tx[b]
  BY DEF LockInv, TypeOK
<1>3. OneHolder'
  BY <1>2 DEF LockInv, OneHolder, Locked, Allowed, Holding
<1>4. \A b \in Actor : Fit(tx[b])'
  BY <1>2 DEF LockInv, Fit, Allowed, Rebuilt, ActiveIn, Seen, Written
<1>5. WorkerFit'
  BY <1>2, ActorAssumption DEF LockInv, WorkerFit, Allowed, Actor
<1>6. PlanMatches'
  BY DEF LockInv, PlanMatches, ActiveIn
<1> QED
  BY <1>1, <1>3, <1>4, <1>5, <1>6 DEF LockInv

LEMMA Ends ==
    ASSUME LockInv, NEW a \in Actor, tx' = [tx EXCEPT ![a] = NoTx],
           UNCHANGED <<status, reminder, plan, planTime>>
    PROVE  LockInv'
<1>1. Allowed(a, NoTx)
  BY DEF Allowed, Fit
<1> QED
  BY <1>1, Moves

LEMMA Begins ==
    ASSUME LockInv, NEW r \in Request,
           NEW op \in {"create", "patch", "complete", "confirm", "reject"},
           NEW writes \in [Task -> Status \union {Same}],
           Begin(r, Opened(op, writes, {}))
    PROVE  LockInv'
<1> DEFINE x == Opened(op, writes, {})
<1>1. Allowed(r, x)
  BY OpenedType, ActorAssumption DEF Allowed, Fit, Holding
<1> QED
  BY <1>1, Moves DEF Begin, Actor

LEMMA BeginsIdle ==
    ASSUME LockInv, NEW r \in Request, NEW op \in {"list", "plan"},
           Begin(r, Opened(op, Nothing, {}))
    PROVE  LockInv'
<1> DEFINE x == Opened(op, Nothing, {})
<1>1. Allowed(r, x)
  BY OpenedType, NothingWritten, ActorAssumption DEF Allowed, Fit, Holding, Written
<1> QED
  BY <1>1, Moves DEF Begin, Actor

-----------------------------------------------------------------------------
(* The requests *)

LEMMA TxType == ASSUME LockInv, NEW a \in Actor, tx[a] # NoTx PROVE tx[a] \in Tx
BY DEF LockInv, TypeOK

LEMMA RejectRemindersKeeps ==
    ASSUME LockInv, NEW r \in Request, RejectReminders(r) PROVE LockInv'
<1> DEFINE S == {t \in Written(tx[r]) : reminder[t] # "none"}
           x == Silencing(tx[r], S)
<1>1. r \in Actor /\ r # Maintainer /\ r # Analyzer
  BY ActorAssumption DEF Actor
<1>2. tx[r] \in Tx /\ tx[r].step = "read" /\ tx[r].op = "reject"
  BY <1>1, TxType DEF RejectReminders
<1>3. S \in SUBSET Task
  BY DEF Written
<1>4. /\ x \in Tx /\ x.step = "silenced" /\ x.op = "reject"
      /\ x.plan = tx[r].plan /\ x.rings = tx[r].rings
  BY <1>2, <1>3, StepTypes
<1>5. Fit(tx[r]) /\ tx[r] # NoTx
  BY <1>1 DEF LockInv, RejectReminders
<1>6. Fit(x)
  BY <1>2, <1>4, <1>5 DEF Fit, Holding
<1>7. Allowed(r, x)
  BY <1>1, <1>4, <1>6 DEF Allowed, Holding
<1> QED
  BY <1>1, <1>7, Moves DEF RejectReminders

LEMMA RequestWriteKeeps ==
    ASSUME LockInv, NEW r \in Request, RequestWrite(r) PROVE LockInv'
<1> DEFINE x == Ready(tx[r], Replanned(tx[r]))
<1>1. r \in Actor /\ r # Maintainer /\ r # Analyzer
  BY ActorAssumption DEF Actor
<1>2. tx[r] \in Tx /\ tx[r].step \in {"read", "silenced"} /\ tx[r] # NoTx
  BY <1>1, TxType DEF RequestWrite, Waiting
<1>3. Replanned(tx[r]) \in {NoPlan} \union SUBSET Task
  BY RebuiltType DEF Replanned
<1>4. /\ x \in Tx /\ x.step = "ready" /\ x.op = tx[r].op
      /\ x.writes = tx[r].writes /\ x.plan = Replanned(tx[r]) /\ x.rings = tx[r].rings
  BY <1>2, <1>3, StepTypes
<1>5. Fit(tx[r])
  BY <1>1 DEF LockInv
<1>6. tx[r].rings = {}
  BY <1>2, <1>5 DEF Fit
<1>7. x.plan = NoPlan => x.op = "list"
  BY <1>4, RebuiltType, ActorAssumption DEF Replanned
<1>8. x.plan # NoPlan => x.plan = Rebuilt(x.writes)
  BY <1>4 DEF Replanned
<1>9. Fit(x)
  BY <1>2, <1>4, <1>5, <1>6, <1>7, <1>8 DEF Fit, Holding, Written
<1>10. Allowed(r, x)
  BY <1>1, <1>4, <1>9 DEF Allowed, Holding, RequestWrite, LockFree
<1> QED
  BY <1>1, <1>10, Moves DEF RequestWrite

LEMMA ServeKeeps ==
    ASSUME LockInv, NEW r \in Request, Serve(r) PROVE LockInv'
<1>1. ASSUME NEW t \in Task, CreateTask(r, t) PROVE LockInv'
  BY <1>1, Begins, OnlyType DEF CreateTask, Status, Active
<1>2. ASSUME NEW t \in Task, NEW s \in Status, PatchTask(r, t, s) PROVE LockInv'
  BY <1>2, Begins, OnlyType DEF PatchTask
<1>3. ASSUME NEW t \in Task, CompleteTask(r, t) PROVE LockInv'
  BY <1>3, Begins, OnlyType DEF CompleteTask, Status, Closed
<1>4. ASSUME NEW t \in Task, ConfirmTask(r, t) PROVE LockInv'
  BY <1>4, Begins, OnlyType DEF ConfirmTask, Status, Active
<1>5. ASSUME NEW t \in Task, RejectTask(r, t) PROVE LockInv'
  BY <1>5, Begins, OnlyType DEF RejectTask, Status, Closed
<1>6. ASSUME ListTasks(r) \/ TodayPlan(r) PROVE LockInv'
  BY <1>6, BeginsIdle DEF ListTasks, TodayPlan
<1>7. CASE RejectReminders(r)
  BY <1>7, RejectRemindersKeeps
<1>8. CASE RequestWrite(r)
  BY <1>8, RequestWriteKeeps
<1>9. CASE RequestGone(r)
  BY <1>9, Ends DEF RequestGone, Actor
<1> QED
  BY <1>1, <1>2, <1>3, <1>4, <1>5, <1>6, <1>7, <1>8, <1>9 DEF Serve

-----------------------------------------------------------------------------
(* The worker *)

LEMMA AnalysisReadKeeps == ASSUME LockInv, AnalysisRead PROVE LockInv'
<1> DEFINE x == Opened("analyze", Nothing, ThreadTasks)
<1>1. ThreadTasks \in SUBSET Task
  BY DEF ThreadTasks, Task
<1>2. /\ x \in Tx /\ x.op = "analyze" /\ x.step = "read" /\ x.writes = Nothing
      /\ x.plan = NoPlan /\ x.rings = {}
  BY <1>1, NothingWritten, OpenedType
<1>3. Fit(x)
  BY <1>2, NothingWritten DEF Fit, Written
<1>4. Allowed(Analyzer, x)
  BY <1>2, <1>3, ActorAssumption DEF Allowed, Holding
<1> QED
  BY <1>4, Moves DEF AnalysisRead, Begin, Actor

LEMMA AnalysisWriteKeeps == ASSUME LockInv, AnalysisWrite PROVE LockInv'
<1>1. PICK writes \in [Task -> {Same, "POSSIBLY_COMPLETED", "NEW", "NEEDS_CONFIRMATION"}] :
        /\ Finding(tx[Analyzer].seen, writes)
        /\ tx' = [tx EXCEPT ![Analyzer] = Writing(tx[Analyzer], writes)]
  BY DEF AnalysisWrite
<1> DEFINE x == Writing(tx[Analyzer], writes)
<1>2. Analyzer \in Actor /\ tx[Analyzer] # NoTx /\ tx[Analyzer].step = "read"
  BY DEF AnalysisWrite, Actor
<1>3. tx[Analyzer] \in Tx /\ Fit(tx[Analyzer])
  BY <1>2, TxType DEF LockInv
<1>4. writes \in [Task -> Status \union {Same}]
  BY DEF Status, Active
<1>5. /\ x \in Tx /\ x.step = "locked" /\ x.writes = writes /\ x.op = tx[Analyzer].op
      /\ x.plan = tx[Analyzer].plan /\ x.rings = tx[Analyzer].rings
  BY <1>3, <1>4 DEF Writing, Tx, Steps
<1>6. x.plan = NoPlan /\ x.rings = {}
  BY <1>2, <1>3, <1>5 DEF Fit, Holding
<1>7. WorkerFit
  BY DEF LockInv
<1>8. x.op = "analyze"
  BY <1>2, <1>5, <1>7 DEF WorkerFit
<1>9. Fit(x)
  BY <1>5, <1>6, <1>8 DEF Fit
<1>10. Allowed(Analyzer, x)
  BY <1>5, <1>8, <1>9, ActorAssumption DEF Allowed, AnalysisWrite, LockFree
<1> QED
  BY <1>1, <1>2, <1>10, Moves DEF AnalysisWrite

LEMMA AnalysisRebuildKeeps == ASSUME LockInv, AnalysisRebuild PROVE LockInv'
<1> DEFINE items == Rebuilt(tx[Analyzer].writes)
           x == Ready(tx[Analyzer], items)
<1>1. Analyzer \in Actor /\ tx[Analyzer] # NoTx /\ tx[Analyzer].step \in {"read", "locked"}
  BY DEF AnalysisRebuild, Actor
<1>2. tx[Analyzer] \in Tx /\ Fit(tx[Analyzer]) /\ WorkerFit /\ OneHolder
  BY <1>1, TxType DEF LockInv
<1>3. items \in SUBSET Task
  BY RebuiltType
<1> HIDE DEF items
<1>4. /\ x \in Tx /\ x.step = "ready" /\ x.op = tx[Analyzer].op
      /\ x.writes = tx[Analyzer].writes /\ x.plan = items /\ x.rings = tx[Analyzer].rings
  BY <1>2, <1>3, StepTypes
<1>5. x.rings = {} /\ x.op = "analyze" /\ x.plan # NoPlan
  BY <1>1, <1>2, <1>3, <1>4, ActorAssumption DEF Fit, WorkerFit
<1>6. Fit(x)
  BY <1>4, <1>5 DEF Fit, Holding, items
<1>7. \A b \in Actor \ {Analyzer} : ~Locked(b)
  BY <1>1, <1>2 DEF AnalysisRebuild, LockFree, OneHolder, Locked
<1>8. Allowed(Analyzer, x)
  BY <1>1, <1>2, <1>4, <1>5, <1>6, <1>7, ActorAssumption DEF Allowed, WorkerFit
<1> QED
  BY <1>1, <1>8, Moves DEF AnalysisRebuild, items

LEMMA MaintenanceBeginKeeps == ASSUME LockInv, MaintenanceBegin PROVE LockInv'
<1>1. PICK fresh \in BOOLEAN : Begin(Maintainer,
        [Opened("maintain", Nothing, {}) EXCEPT !.step = "locked",
            !.plan = IF PlanIsDue(fresh) THEN Rebuilt(Nothing) ELSE NoPlan])
  BY DEF MaintenanceBegin
<1> DEFINE o == Opened("maintain", Nothing, {})
           p == IF PlanIsDue(fresh) THEN Rebuilt(Nothing) ELSE NoPlan
           x == [o EXCEPT !.step = "locked", !.plan = p]
<1>2. p \in {NoPlan} \union SUBSET Task /\ (p # NoPlan => p = Rebuilt(Nothing))
  BY RebuiltType
<1>3. o \in Tx /\ o.op = "maintain" /\ o.writes = Nothing /\ o.rings = {}
  BY NothingWritten, OpenedType
<1>4. /\ x \in Tx /\ x.op = "maintain" /\ x.step = "locked" /\ x.writes = Nothing
      /\ x.plan = p /\ x.rings = {}
  <2> HIDE DEF o, p
  <2> QED
    BY <1>2, <1>3 DEF Tx, Steps
<1> HIDE DEF x, p
<1>5. Fit(x)
  BY <1>2, <1>4, NothingWritten DEF Fit, Holding, Written
<1>6. Allowed(Maintainer, x)
  BY <1>4, <1>5, ActorAssumption DEF Allowed, MaintenanceBegin, LockFree
<1>7. tx' = [tx EXCEPT ![Maintainer] = x] /\ UNCHANGED <<status, reminder, plan, planTime>>
  BY <1>1 DEF Begin, x, p
<1> QED
  BY <1>6, <1>7, Moves DEF Actor

LEMMA MaintenanceRingKeeps == ASSUME LockInv, MaintenanceRing PROVE LockInv'
<1> DEFINE S == {t \in Task : MayRing(t)}
           x == Ringing(tx[Maintainer], S)
<1>1. /\ Maintainer \in Actor /\ tx[Maintainer] # NoTx /\ tx[Maintainer].step = "locked"
      /\ tx' = [tx EXCEPT ![Maintainer] = x] /\ UNCHANGED <<status, reminder, plan, planTime>>
  BY DEF MaintenanceRing, Ring, Actor
<1>2. tx[Maintainer] \in Tx /\ Fit(tx[Maintainer]) /\ WorkerFit /\ OneHolder
  BY <1>1, TxType DEF LockInv
<1>3. S \in SUBSET Task /\ \A t \in S : status[t] \in Status \ Closed
  BY DEF MayRing
<1>4. /\ x \in Tx /\ x.step = "ready" /\ x.op = tx[Maintainer].op
      /\ x.writes = tx[Maintainer].writes /\ x.plan = tx[Maintainer].plan /\ x.rings = S
  BY <1>2, <1>3, StepTypes
<1> HIDE DEF x, S
<1>5. x.op = "maintain"
  BY <1>1, <1>2, <1>4 DEF WorkerFit
<1>6. Fit(x)
  BY <1>1, <1>2, <1>3, <1>4, <1>5 DEF Fit, Holding, Written
<1>7. \A b \in Actor \ {Maintainer} : ~Locked(b)
  BY <1>1, <1>2 DEF OneHolder, Locked
<1>8. Allowed(Maintainer, x)
  BY <1>4, <1>5, <1>6, <1>7, ActorAssumption DEF Allowed
<1> QED
  BY <1>1, <1>8, Moves

-----------------------------------------------------------------------------
(* Commits, deletions and midnight *)

LEMMA CommitKeeps == ASSUME LockInv, NEW a \in Actor, Commit(a) PROVE LockInv'
<1> DEFINE w == tx[a].writes
<1>1. tx[a] \in Tx /\ tx[a] # NoTx /\ tx[a].step = "ready" /\ Fit(tx[a]) /\ Locked(a)
  BY TxType DEF Commit, LockInv, Locked
<1>2. tx'[a] = NoTx /\ \A b \in Actor \ {a} : tx'[b] = tx[b] /\ ~Locked(b)
  BY <1>1 DEF LockInv, TypeOK, Commit, OneHolder
<1>3. status' = Seen(w) /\ w \in [Task -> Status \union {Same}]
  BY <1>1 DEF Commit, Tx
<1>4. TypeOK'
  <2>1. status' \in [Task -> Status \union {Absent}]
    BY <1>3 DEF Seen, LockInv, TypeOK
  <2>2. reminder' \in [Task -> {"none", "armed", "due", "off", "sent"}]
    BY DEF Commit, Settled, LockInv, TypeOK
  <2>3. plan' \in {NoPlan} \union SUBSET Task
    BY <1>1 DEF Commit, Tx, LockInv, TypeOK
  <2>4. tx' \in [Actor -> Tx \union {NoTx}] /\ planTime' \in BOOLEAN
    BY DEF Commit, LockInv, TypeOK
  <2> QED
    BY <2>1, <2>2, <2>3, <2>4 DEF TypeOK
<1>5. OneHolder'
  BY <1>2 DEF LockInv, OneHolder, Locked
<1>6. ASSUME NEW b \in Actor PROVE Fit(tx[b])'
  <2>1. CASE b = a
    BY <1>2, <2>1 DEF Fit
  <2>2. CASE b # a
    <3>1. tx'[b] = tx[b] /\ ~Locked(b) /\ Fit(tx[b])
      BY <1>2, <2>2 DEF LockInv
    <3>2. tx[b] # NoTx => tx[b].step \notin Holding
      BY <3>1 DEF Locked, Holding
    <3>3. tx[b] # NoTx => tx[b].plan = NoPlan /\ tx[b].rings = {}
      BY <3>1, <3>2 DEF Fit, Holding
    <3>4. tx[b] # NoTx => (tx[b].op \in {"list", "maintain"} => Written(tx[b]) = {})
      BY <3>1 DEF Fit
    <3> QED
      BY <3>1, <3>2, <3>3, <3>4 DEF Fit, Holding, Written
  <2> QED
    BY <2>1, <2>2
<1>7. WorkerFit'
  BY <1>2, ActorAssumption DEF LockInv, WorkerFit, Actor
<1>8. PlanMatches'
  <2>1. CASE tx[a].plan # NoPlan
    <3>1. plan' = Rebuilt(w)
      BY <1>1, <2>1 DEF Commit, Fit
    <3> QED
      BY <1>3, <3>1 DEF PlanMatches, Rebuilt, ActiveIn
  <2>2. CASE tx[a].plan = NoPlan
    <3>1. plan' = plan
      BY <2>2 DEF Commit
    <3>2. plan = NoPlan \/ \A t \in Task : w[t] = Same
      BY <1>1, <2>2 DEF Fit, Written
    <3>3. plan = NoPlan \/ \A t \in Task : status'[t] = status[t]
      BY <1>3, <3>2 DEF Seen
    <3> QED
      BY <3>1, <3>3 DEF LockInv, PlanMatches, ActiveIn
  <2> QED
    BY <2>1, <2>2
<1> QED
  BY <1>4, <1>5, <1>6, <1>7, <1>8 DEF LockInv

LEMMA DeleteSourceKeeps ==
    ASSUME LockInv, NEW gone \in SUBSET Task, DeleteSource(gone) PROVE LockInv'
<1>1. /\ status' = [t \in Task |-> IF t \in gone THEN Absent ELSE status[t]]
      /\ plan' = NoPlan /\ tx' = tx /\ planTime' = planTime
  BY DEF DeleteSource
<1>2. TypeOK'
  BY <1>1 DEF DeleteSource, LockInv, TypeOK
<1>3. OneHolder' /\ WorkerFit' /\ PlanMatches'
  BY <1>1 DEF LockInv, OneHolder, Locked, WorkerFit, PlanMatches
<1>4. ASSUME NEW a \in Actor, tx[a] # NoTx PROVE Fit(tx[a])'
  <2>1. Fit(tx[a]) /\ Touched(a) \intersect gone = {}
    BY <1>4 DEF LockInv, DeleteSource
  <2>2. ASSUME tx[a].step \in Holding PROVE Rebuilt(tx[a].writes)' = Rebuilt(tx[a].writes)
    <3>1. \A t \in gone : tx[a].writes[t] = Same /\ status[t] \notin Active
      BY <1>4, <2>1, <2>2 DEF Touched, Locked, Holding, Written, ActiveIn
    <3>2. \A t \in Task : Seen(tx[a].writes)'[t] \in Active <=> Seen(tx[a].writes)[t] \in Active
      BY <1>1, <3>1 DEF Seen, Absent, Active
    <3> QED
      BY <3>2 DEF Rebuilt, ActiveIn
  <2>3. \A t \in tx[a].rings : t \in Task /\ t \notin gone
    BY <1>4, <2>1, TxType DEF Touched, Reminded, Tx
  <2> QED
    BY <1>1, <2>1, <2>2, <2>3 DEF Fit, Written
<1>5. \A a \in Actor : Fit(tx[a])'
  BY <1>1, <1>4 DEF Fit
<1> QED
  BY <1>2, <1>3, <1>5 DEF LockInv

LEMMA NewDayKeeps == ASSUME LockInv, NewDay PROVE LockInv'
<1>1. ASSUME NEW a \in Actor
      PROVE  /\ tx[a] = NoTx => tx'[a] = NoTx
             /\ tx[a] # NoTx => tx[a] \in Tx /\ tx'[a] = Outdated(tx[a])
  BY TxType DEF NewDay
<1>2. plan' = NoPlan /\ planTime' = FALSE /\ status' = status /\ reminder' = reminder
  BY DEF NewDay
<1>3. tx' \in [Actor -> Tx \union {NoTx}]
  BY <1>1, StepTypes DEF NewDay
<1>4. TypeOK'
  BY <1>2, <1>3 DEF LockInv, TypeOK
<1>5. \A a \in Actor : Locked(a)' => Locked(a)
  BY <1>1, StepTypes DEF Locked
<1>6. OneHolder' /\ PlanMatches'
  BY <1>2, <1>5 DEF LockInv, OneHolder, PlanMatches
<1>7. ASSUME NEW a \in Actor PROVE Fit(tx[a])'
  BY <1>1, <1>2, StepTypes DEF LockInv, Fit, Written
<1>8. WorkerFit'
  BY <1>1, StepTypes DEF LockInv, WorkerFit, Actor
<1> QED
  BY <1>4, <1>6, <1>7, <1>8 DEF LockInv

LEMMA RowsOnlyKeeps ==
    ASSUME LockInv, UNCHANGED <<status, plan, tx>>, planTime' \in BOOLEAN,
           reminder' \in [Task -> {"none", "armed", "due", "off", "sent"}]
    PROVE  LockInv'
<1>1. TypeOK' /\ OneHolder' /\ WorkerFit' /\ PlanMatches'
  BY DEF LockInv, TypeOK, OneHolder, Locked, WorkerFit, PlanMatches, ActiveIn
<1>2. \A a \in Actor : Fit(tx[a])'
  BY DEF LockInv, Fit, Rebuilt, ActiveIn, Seen, Written
<1> QED
  BY <1>1, <1>2 DEF LockInv

LEMMA EnvironmentKeeps == ASSUME LockInv, Environment PROVE LockInv'
<1>1. ASSUME NEW t \in Task, DeleteReminder(t) \/ ReminderComesDue(t) PROVE LockInv'
  BY <1>1, RowsOnlyKeeps DEF DeleteReminder, ReminderComesDue, LockInv, TypeOK
<1>2. ASSUME NEW t \in Task, NEW due \in BOOLEAN, AddReminder(t, due) PROVE LockInv'
  BY <1>2, RowsOnlyKeeps DEF AddReminder, LockInv, TypeOK
<1>3. ASSUME NEW gone \in SUBSET Task, DeleteSource(gone) PROVE LockInv'
  BY <1>3, DeleteSourceKeeps
<1>4. CASE NewDay
  BY <1>4, NewDayKeeps
<1>5. CASE PlanTimeComes
  BY <1>5, RowsOnlyKeeps DEF PlanTimeComes, LockInv, TypeOK
<1> QED
  BY <1>1, <1>2, <1>3, <1>4, <1>5 DEF Environment

-----------------------------------------------------------------------------
(* The theorems *)

LEMMA InitLockInv == ASSUME Init PROVE LockInv
<1>1. TypeOK
  BY DEF Init, TypeOK
<1>2. OneHolder /\ WorkerFit /\ PlanMatches
  BY DEF Init, OneHolder, Locked, WorkerFit, PlanMatches, Actor
<1>3. \A a \in Actor : Fit(tx[a])
  BY DEF Init, Fit
<1> QED
  BY <1>1, <1>2, <1>3 DEF LockInv

LEMMA NextLockInv == ASSUME LockInv, [Next]_vars PROVE LockInv'
<1>1. ASSUME NEW r \in Request, Serve(r) PROVE LockInv'
  BY <1>1, ServeKeeps
<1>2. ASSUME NEW a \in Actor, Commit(a) PROVE LockInv'
  BY <1>2, CommitKeeps
<1>3. ASSUME NEW a \in Actor, Abort(a) PROVE LockInv'
  BY <1>3, Ends DEF Abort
<1>4. CASE Worker
  BY <1>4, AnalysisReadKeeps, AnalysisWriteKeeps, AnalysisRebuildKeeps,
     MaintenanceBeginKeeps, MaintenanceRingKeeps DEF Worker
<1>5. CASE Environment
  BY <1>5, EnvironmentKeeps
<1>6. CASE UNCHANGED vars
  BY <1>6, RowsOnlyKeeps DEF vars, LockInv, TypeOK
<1> QED
  BY <1>1, <1>2, <1>3, <1>4, <1>5, <1>6 DEF Next

LEMMA LockInvAlways == Spec => []LockInv
BY InitLockInv, NextLockInv, PTL DEF Spec

\* Every row of every table has the shape of its table.
THEOREM TypeCorrect == Spec => []TypeOK
<1>1. LockInv => TypeOK
  BY DEF LockInv
<1> QED
  BY <1>1, LockInvAlways, PTL

\* Whatever requests, analyses, jobs and deletions overlap, the plan of today
\* that readers can see lists exactly the active tasks they can see.
THEOREM PlanMatchesAlways == Spec => []PlanMatches
<1>1. LockInv => PlanMatches
  BY DEF LockInv
<1> QED
  BY <1>1, LockInvAlways, PTL

\* Only a commit marks a reminder as sent.
LEMMA OnlyCommits ==
    ASSUME LockInv, Next, \A a \in Actor : ~Commit(a)
    PROVE  \A t \in Task : reminder'[t] = "sent" => reminder[t] = "sent"
<1> DEFINE G == \A t \in Task : reminder'[t] = "sent" => reminder[t] = "sent"
<1>1. UNCHANGED reminder => G
  OBVIOUS
<1>2. ASSUME NEW r \in Request, Serve(r) PROVE G
  BY <1>1, <1>2 DEF Serve, CreateTask, CompleteTask, ConfirmTask, RejectTask, PatchTask,
     ListTasks, TodayPlan, Begin, RejectReminders, RequestWrite, RequestGone
<1>3. ASSUME NEW a \in Actor, Abort(a) PROVE G
  BY <1>1, <1>3 DEF Abort
<1>4. CASE Worker
  BY <1>1, <1>4 DEF Worker, AnalysisRead, AnalysisWrite, AnalysisRebuild, MaintenanceBegin,
     MaintenanceRing, Ring, Begin
<1>5. CASE Environment
  <2>1. ASSUME NEW t \in Task, DeleteReminder(t) \/ ReminderComesDue(t) PROVE G
    BY <2>1 DEF DeleteReminder, ReminderComesDue, LockInv, TypeOK
  <2>2. ASSUME NEW t \in Task, NEW due \in BOOLEAN, AddReminder(t, due) PROVE G
    BY <2>2 DEF AddReminder, LockInv, TypeOK
  <2>3. ASSUME NEW gone \in SUBSET Task, DeleteSource(gone) PROVE G
    BY <2>3 DEF DeleteSource
  <2>4. CASE NewDay \/ PlanTimeComes
    BY <1>1, <2>4 DEF NewDay, PlanTimeComes
  <2> QED
    BY <1>5, <2>1, <2>2, <2>3, <2>4 DEF Environment
<1> QED
  BY <1>2, <1>3, <1>4, <1>5 DEF Next

\* A reminder of a task that is closed or deleted does not go off.
THEOREM RingsOpenTaskAlways == Spec => RingsOpenTask
<1> DEFINE Good == \A t \in Task :
        reminder[t] # "sent" /\ reminder'[t] = "sent" => status'[t] \in Status \ Closed
<1>1. ASSUME LockInv, Next PROVE Good
  <2>1. CASE \A a \in Actor : ~Commit(a)
    BY <1>1, <2>1, OnlyCommits
  <2>2. ASSUME NEW a \in Actor, Commit(a), NEW t \in Task,
               reminder[t] # "sent", reminder'[t] = "sent"
        PROVE  status'[t] \in Status \ Closed
    <3>1. tx[a] \in Tx /\ tx[a] # NoTx /\ Fit(tx[a])
      BY <1>1, <2>2, TxType DEF Commit, LockInv
    <3>2. t \in tx[a].rings
      BY <2>2 DEF Commit, Settled
    <3>3. status[t] \in Status \ Closed /\ tx[a].writes[t] = Same
      BY <3>1, <3>2 DEF Fit, Written
    <3> QED
      BY <2>2, <3>3 DEF Commit, Seen
  <2> QED
    BY <2>1, <2>2
<1>2. LockInv /\ [Next]_vars => [Good]_vars
  BY <1>1
<1> QED
  BY <1>2, LockInvAlways, PTL DEF Spec, RingsOpenTask
=============================================================================
