-------------------------- MODULE EventAnalysis_proofs --------------------------
(***************************************************************************)
(* For any number of events and workers: the queue keeps its shape, one    *)
(* worker at a time analyses an event, no stored change is lost, and an    *)
(* event notifies once.                                                    *)
(***************************************************************************)
EXTENDS EventAnalysis, TLAPS

\* A worker that analyses an event works on its committed version: everybody else
\* who could change the row is stopped by the row lock or by its state.
Held ==
    \A w \in Worker : \A e \in Event : Works(w, e) =>
        /\ state[e] = "PROCESSING"
        /\ work[w].seen = content[e]
        /\ ~work[w].silent => ~analyzed[e]

\* Only an analysis that is recorded has notified, and once.
Told == \A e \in Event : announced[e] <= 1 /\ (announced[e] = 1 => analyzed[e])

EInv == TypeOK /\ OneAnalyst /\ Held /\ FreshResult /\ Told

-----------------------------------------------------------------------------
(* The jobs of a worker. *)

LEMMA IdleJob == Idle \in Jobs /\ Idle.step = "idle"
  BY EventAssumption DEF Idle, Jobs

LEMMA ClaimedJob ==
  ASSUME NEW e \in Event, NEW n \in 0..MaxAttempts
  PROVE  Claimed(e, n) \in Jobs /\ Claimed(e, n).step = "claimed" /\ Claimed(e, n).event = e
<1>1. ASSUME NEW x \in Jobs
      PROVE  LET y == [x EXCEPT !.step = "claimed", !.event = e, !.tries = n] IN
             y \in Jobs /\ y.step = "claimed" /\ y.event = e
  BY DEF Jobs
<1> QED
  BY <1>1, IdleJob DEF Claimed

LEMMA AnalysingJob ==
  ASSUME NEW x \in Jobs, NEW v \in 0..MaxContent, NEW f \in BOOLEAN, NEW h \in BOOLEAN
  PROVE  LET y == Analysing(x, v, f, h) IN
         /\ y \in Jobs /\ y.step = "analysing" /\ y.event = x.event
         /\ y.seen = v /\ y.skip = f /\ y.silent = h
  BY DEF Analysing, Jobs

LEMMA FailedJob ==
  ASSUME NEW x \in Jobs
  PROVE  Failed(x) \in Jobs /\ Failed(x).step = "failed" /\ Failed(x).event = x.event
  BY DEF Failed, Jobs

\* Counting stops at the bound.
LEMMA OneMoreBounded ==
  ASSUME NEW n \in 0..MaxAttempts
  PROVE  OneMore(n) \in 0..MaxAttempts
  BY EventAssumption DEF OneMore

\* Every event a working worker has is an event of the queue.
LEMMA WorkerEvent ==
  ASSUME TypeOK, NEW w \in Worker, work[w].step # "idle"
  PROVE  work[w].event \in Event /\ work[w] \in Jobs
  BY DEF TypeOK

-----------------------------------------------------------------------------
LEMMA InitInv == Init => EInv
<1> SUFFICES ASSUME Init PROVE EInv
  OBVIOUS
<1>1. \A w \in Worker : work[w] = Idle /\ work[w].step = "idle"
  BY IdleJob DEF Init
<1>2. TypeOK
  BY <1>1, IdleJob, EventAssumption DEF Init, TypeOK, States
<1>3. OneAnalyst /\ Held
  BY <1>1 DEF OneAnalyst, Held, Works
<1>4. FreshResult /\ Told
  BY DEF Init, FreshResult, Told
<1> QED
  BY <1>2, <1>3, <1>4 DEF EInv

\* A claim takes a row nobody has locked and begins no analysis yet.
LEMMA ClaimInv ==
  ASSUME EInv, NEW w \in Worker, NEW e \in Event, Claim(w, e)
  PROVE  EInv'
<1> DEFINE n == OneMore(attempts[e])
<1>1. n \in 0..MaxAttempts
  BY OneMoreBounded DEF EInv, TypeOK
<1>2. Claimed(e, n) \in Jobs /\ Claimed(e, n).step = "claimed" /\ Claimed(e, n).event = e
  BY <1>1, ClaimedJob
<1> HIDE DEF n
<1>3. work' = [work EXCEPT ![w] = Claimed(e, n)] /\ attempts' = [attempts EXCEPT ![e] = n]
  BY DEF Claim, n
<1>4. ~RowLocked(e)
  BY DEF Claim, Chosen, Candidates
<1>5. TypeOK'
  BY <1>1, <1>2, <1>3 DEF EInv, TypeOK, Claim, States
<1>6. \A v \in Worker, d \in Event : Works(v, d)' <=> v # w /\ Works(v, d)
  BY <1>2, <1>3, IdleJob DEF Works, Claim, EInv, TypeOK
<1>7. OneAnalyst'
  BY <1>6 DEF OneAnalyst, EInv
<1>8. Held'
  BY <1>3, <1>4, <1>6 DEF Held, EInv, TypeOK, RowLocked, Claim
<1>9. FreshResult' /\ Told'
  BY DEF FreshResult, Told, EInv, TypeOK, Claim
<1> QED
  BY <1>5, <1>7, <1>8, <1>9 DEF EInv

\* The second transaction begins on a row that nobody else has locked.
LEMMA OpenInv ==
  ASSUME EInv, NEW w \in Worker, Open(w)
  PROVE  EInv'
<1> DEFINE e == work[w].event
           f == Filtered(e, excluded)
           h == Historical(e)
<1>1. e \in Event /\ work[w] \in Jobs
  BY WorkerEvent DEF EInv, Open
<1>2. f \in BOOLEAN /\ h \in BOOLEAN /\ (~h => ~analyzed[e]) /\ content[e] \in 0..MaxContent
  BY <1>1, EventAssumption DEF Filtered, Historical, EInv, TypeOK
<1>3. state[e] = "PROCESSING" /\ ~RowLocked(e)
  BY DEF Open
<1>4. work' = [work EXCEPT ![w] = Analysing(work[w], content[e], f, h)]
  BY DEF Open
<1>5. UNCHANGED <<rows, excluded>>
  BY DEF Open
<1> HIDE DEF f, h
<1> DEFINE y == Analysing(work[w], content[e], f, h)
<1>6. /\ y \in Jobs /\ y.step = "analysing" /\ y.event = e
      /\ y.seen = content[e] /\ y.silent = h
  BY <1>1, <1>2, AnalysingJob
<1>7. work' = [work EXCEPT ![w] = y]
  BY <1>4
<1> HIDE DEF y, e
<1>8. TypeOK'
  BY <1>1, <1>5, <1>6, <1>7 DEF EInv, TypeOK, rows
<1>9. \A v \in Worker, d \in Event : Works(v, d)' <=> (v = w /\ d = e) \/ (v # w /\ Works(v, d))
  BY <1>6, <1>7 DEF Works, EInv, TypeOK
<1>10. OneAnalyst'
  BY <1>3, <1>9 DEF OneAnalyst, EInv, RowLocked
<1>11. ASSUME NEW v \in Worker, NEW d \in Event, Works(v, d)'
       PROVE  /\ state'[d] = "PROCESSING"
              /\ work'[v].seen = content'[d]
              /\ ~work'[v].silent => ~analyzed'[d]
  <2>1. CASE v = w /\ d = e
    BY <1>2, <1>3, <1>5, <1>6, <1>7, <2>1 DEF rows, EInv, TypeOK
  <2>2. CASE v # w /\ Works(v, d)
    BY <1>5, <1>7, <2>2 DEF rows, EInv, TypeOK, Held
  <2> QED
    BY <1>9, <1>11, <2>1, <2>2
<1>12. Held'
  BY <1>11 DEF Held
<1>13. FreshResult' /\ Told'
  BY <1>5 DEF FreshResult, Told, EInv, rows
<1> QED
  BY <1>8, <1>10, <1>12, <1>13 DEF EInv

\* A worker that leaves its event without a word changes nothing of the queue.
LEMMA LeaveInv ==
  ASSUME EInv, NEW w \in Worker, NEW y \in Jobs,
         y.step = "idle" \/ (y.step = "failed" /\ y.event \in Event),
         work' = [work EXCEPT ![w] = y], UNCHANGED <<rows, excluded>>
  PROVE  EInv'
<1>1. TypeOK'
  BY DEF EInv, TypeOK, rows
<1>2. \A v \in Worker, d \in Event : Works(v, d)' <=> v # w /\ Works(v, d)
  BY DEF Works, EInv, TypeOK
<1>3. OneAnalyst'
  BY <1>2 DEF OneAnalyst, EInv
<1>4. Held' /\ FreshResult' /\ Told'
  BY <1>2 DEF Held, FreshResult, Told, EInv, TypeOK, rows
<1> QED
  BY <1>1, <1>3, <1>4 DEF EInv

\* The end of an analysis: nobody else is at the event, so the version it read
\* is the one the row still holds.
LEMMA SkipInv ==
  ASSUME EInv, NEW w \in Worker, Skip(w)
  PROVE  EInv'
<1> DEFINE e == work[w].event
<1>1. e \in Event /\ work[w] \in Jobs /\ Works(w, e)
  BY WorkerEvent DEF EInv, Skip, Works
<1>2. work' = [work EXCEPT ![w] = Idle]
  BY DEF Skip
<1>3. work[w].seen \in 0..MaxContent
  BY <1>1 DEF Jobs
<1>4. TypeOK'
  BY <1>1, <1>2, <1>3, IdleJob DEF EInv, TypeOK, Skip, States
<1>5. \A v \in Worker, d \in Event : Works(v, d)' <=> v # w /\ Works(v, d)
  BY <1>2, IdleJob DEF Works, EInv, TypeOK
<1>6. OneAnalyst'
  BY <1>5 DEF OneAnalyst, EInv
<1>7. \A v \in Worker, d \in Event : v # w /\ Works(v, d) => d # e
  BY <1>1 DEF OneAnalyst, EInv
<1>8. Held'
  BY <1>1, <1>2, <1>5, <1>7 DEF Held, EInv, TypeOK, Skip
<1>9. FreshResult' /\ Told'
  BY <1>1 DEF FreshResult, Told, EInv, TypeOK, Skip
<1> QED
  BY <1>4, <1>6, <1>8, <1>9 DEF EInv

LEMMA CommitInv ==
  ASSUME EInv, NEW w \in Worker, NEW R \in SUBSET Event, Commit(w, R)
  PROVE  EInv'
<1> DEFINE e == work[w].event
<1>1. e \in Event /\ work[w] \in Jobs /\ Works(w, e)
  BY WorkerEvent DEF EInv, Commit, Works
<1>2. work' = [work EXCEPT ![w] = Idle]
  BY DEF Commit
<1>3. work[w].seen \in 0..MaxContent /\ work[w].silent \in BOOLEAN
  BY <1>1 DEF Jobs
<1>4. /\ state[e] = "PROCESSING" /\ work[w].seen = content[e]
      /\ ~work[w].silent => ~analyzed[e] /\ announced[e] = 0
  BY <1>1 DEF Held, Told, EInv, TypeOK
<1>5. \A d \in R : state[d] = "COMPLETED" /\ d # e
  BY <1>1 DEF Commit, Requeueable
<1>6. TypeOK'
  <2>1. state' \in [Event -> States] /\ due' \in [Event -> BOOLEAN]
    BY DEF EInv, TypeOK, Commit, States
  <2>2. byModel' \in [Event -> BOOLEAN]
    BY DEF EInv, TypeOK, Commit
  <2>3. announced' \in [Event -> Nat]
    BY <1>1 DEF EInv, TypeOK, Commit
  <2>4. work' \in [Worker -> Jobs] /\ \A v \in Worker : work'[v].step # "idle" => work'[v].event \in Event
    BY <1>2, IdleJob DEF EInv, TypeOK
  <2> QED
    BY <1>3, <2>1, <2>2, <2>3, <2>4 DEF EInv, TypeOK, Commit
<1>7. \A v \in Worker, d \in Event : Works(v, d)' <=> v # w /\ Works(v, d)
  BY <1>2, IdleJob DEF Works, EInv, TypeOK
<1>8. OneAnalyst'
  BY <1>7 DEF OneAnalyst, EInv
<1>9. \A v \in Worker, d \in Event : v # w /\ Works(v, d) => d # e
  BY <1>1 DEF OneAnalyst, EInv
<1>10. Held'
  BY <1>1, <1>2, <1>5, <1>7, <1>9 DEF Held, EInv, TypeOK, Commit
<1>11. FreshResult'
  BY <1>1, <1>4, <1>5 DEF FreshResult, EInv, TypeOK, Commit
<1>12. Told'
  BY <1>1, <1>4 DEF Told, EInv, TypeOK, Commit
<1> QED
  BY <1>6, <1>8, <1>10, <1>11, <1>12 DEF EInv

\* The failure is recorded when nobody has the row locked, whoever claimed it.
LEMMA ReportInv ==
  ASSUME EInv, NEW w \in Worker, ScheduleRetry(w) \/ GiveUp(w)
  PROVE  EInv'
<1> DEFINE e == work[w].event
<1>1. e \in Event /\ work[w] \in Jobs /\ work[w].step = "failed"
  BY WorkerEvent DEF EInv, ScheduleRetry, GiveUp
<1>2. work' = [work EXCEPT ![w] = Idle] /\ ~RowLocked(e)
  BY DEF ScheduleRetry, GiveUp
<1>3. work[w].tries \in 0..MaxAttempts
  BY <1>1 DEF Jobs
<1>4. TypeOK'
  BY <1>1, <1>2, <1>3, IdleJob DEF EInv, TypeOK, ScheduleRetry, GiveUp, States
<1>5. \A v \in Worker, d \in Event : Works(v, d)' <=> v # w /\ Works(v, d)
  BY <1>2, IdleJob DEF Works, EInv, TypeOK
<1>6. OneAnalyst'
  BY <1>5 DEF OneAnalyst, EInv
<1>7. Held'
  BY <1>1, <1>2, <1>5 DEF Held, EInv, TypeOK, ScheduleRetry, GiveUp, RowLocked
<1>8. FreshResult' /\ Told'
  BY <1>1 DEF FreshResult, Told, EInv, TypeOK, ScheduleRetry, GiveUp
<1> QED
  BY <1>4, <1>6, <1>7, <1>8 DEF EInv

-----------------------------------------------------------------------------
(* The clock and the environment change no row that is being analysed. *)

LEMMA ClockInv ==
  ASSUME EInv, NEW e \in Event, BackoffEnds(e) \/ ClaimAges(e)
  PROVE  EInv'
<1>1. TypeOK'
  BY DEF EInv, TypeOK, BackoffEnds, ClaimAges
<1>2. UNCHANGED <<state, content, result, analyzed, announced, work>>
  BY DEF BackoffEnds, ClaimAges
<1>3. OneAnalyst' /\ Held' /\ FreshResult' /\ Told'
  BY <1>2 DEF OneAnalyst, Held, FreshResult, Told, Works, EInv
<1> QED
  BY <1>1, <1>3 DEF EInv

LEMMA LoadInv ==
  ASSUME EInv, NEW e \in Event, Arrive(e) \/ Change(e) \/ ExternalChange(e)
  PROVE  EInv'
<1>1. Requeued(e) = "PENDING"
  BY EventAssumption DEF Requeued
<1>2. TypeOK'
  <2>1. CASE Arrive(e)
    BY <2>1 DEF EInv, TypeOK, Arrive, States
  <2>2. CASE Change(e)
    <3>1. state' \in [Event -> States]
      BY <1>1, <2>2 DEF EInv, TypeOK, Change, States
    <3>2. content' \in [Event -> 1..MaxContent]
      BY <2>2, EventAssumption DEF EInv, TypeOK, Change
    <3>3. due' \in [Event -> BOOLEAN] /\ stale' \in [Event -> BOOLEAN]
      BY <2>2 DEF EInv, TypeOK, Change
    <3> QED
      BY <2>2, <3>1, <3>2, <3>3 DEF EInv, TypeOK, Change
  <2>3. CASE ExternalChange(e)
    BY <2>3, EventAssumption DEF EInv, TypeOK, ExternalChange, States
  <2> QED
    BY <2>1, <2>2, <2>3
<1>3. UNCHANGED work /\ \A v \in Worker, d \in Event : Works(v, d)' <=> Works(v, d)
  BY DEF Works, Arrive, Change, ExternalChange
<1>4. OneAnalyst'
  BY <1>3 DEF OneAnalyst, EInv
<1>5. ~RowLocked(e)
  BY DEF Arrive, Change, ExternalChange, RowLocked, Held, EInv
<1>6. Held'
  BY <1>3, <1>5 DEF Held, RowLocked, EInv, TypeOK, Arrive, Change, ExternalChange
<1>7. FreshResult' /\ Told'
  BY <1>1 DEF FreshResult, Told, EInv, TypeOK, Arrive, Change, ExternalChange
<1> QED
  BY <1>2, <1>4, <1>6, <1>7 DEF EInv

LEMMA SaveInv ==
  ASSUME EInv, NEW S \in SUBSET Event, SaveFilters(S) \/ SaveIdentity(S)
  PROVE  EInv'
<1>1. TypeOK'
  <2>1. CASE SaveFilters(S)
    <3>1. state' \in [Event -> States]
      BY <2>1 DEF EInv, TypeOK, SaveFilters, States
    <3>2. attempts' \in [Event -> 0..MaxAttempts]
      BY <2>1, EventAssumption DEF EInv, TypeOK, SaveFilters
    <3>3. due' \in [Event -> BOOLEAN]
      BY <2>1 DEF EInv, TypeOK, SaveFilters
    <3>4. analyzed' \in [Event -> BOOLEAN] /\ byModel' \in [Event -> BOOLEAN]
      BY <2>1 DEF EInv, TypeOK, SaveFilters
    <3> QED
      BY <2>1, <3>1, <3>2, <3>3, <3>4 DEF EInv, TypeOK, SaveFilters
  <2>2. CASE SaveIdentity(S)
    <3>1. state' \in [Event -> States]
      BY <2>2 DEF EInv, TypeOK, SaveIdentity, States
    <3>2. attempts' \in [Event -> 0..MaxAttempts]
      BY <2>2, EventAssumption DEF EInv, TypeOK, SaveIdentity
    <3>3. due' \in [Event -> BOOLEAN]
      BY <2>2 DEF EInv, TypeOK, SaveIdentity
    <3> QED
      BY <2>2, <3>1, <3>2, <3>3 DEF EInv, TypeOK, SaveIdentity
  <2> QED
    BY <2>1, <2>2
<1>2. UNCHANGED <<content, result, announced, work>>
  BY DEF SaveFilters, SaveIdentity
<1>3. \A d \in Event : /\ state[d] = "PROCESSING" => state'[d] = "PROCESSING" /\ analyzed'[d] = analyzed[d]
                       /\ state'[d] = "COMPLETED" => state[d] = "COMPLETED"
                       /\ analyzed[d] => analyzed'[d]
  <2>1. CASE SaveFilters(S)
    BY <2>1 DEF EInv, TypeOK, SaveFilters, Matching, Unmatched, Examined
  <2>2. CASE SaveIdentity(S)
    BY <2>2 DEF EInv, TypeOK, SaveIdentity
  <2> QED
    BY <2>1, <2>2
<1>4. OneAnalyst' /\ Held'
  BY <1>2, <1>3 DEF OneAnalyst, Held, Works, EInv
<1>5. FreshResult' /\ Told'
  BY <1>2, <1>3 DEF FreshResult, Told, EInv
<1> QED
  BY <1>1, <1>4, <1>5 DEF EInv

-----------------------------------------------------------------------------
LEMMA NextInv == EInv /\ [Next]_vars => EInv'
<1> SUFFICES ASSUME EInv, [Next]_vars PROVE EInv'
  OBVIOUS
<1>1. ASSUME NEW w \in Worker, EventsLoop(w) PROVE EInv'
  <2>1. ASSUME LetGo(w) \/ CannotSchedule(w) PROVE EInv'
    <3>1. work' = [work EXCEPT ![w] = Idle] /\ UNCHANGED <<rows, excluded>>
      BY <2>1 DEF LetGo, CannotSchedule
    <3> QED
      BY <3>1, IdleJob, LeaveInv
  <2>2. ASSUME Fail(w) PROVE EInv'
    <3>1. work[w] \in Jobs /\ work[w].event \in Event
      BY <2>2, WorkerEvent DEF EInv, Fail
    <3>2. work' = [work EXCEPT ![w] = Failed(work[w])] /\ UNCHANGED <<rows, excluded>>
      BY <2>2 DEF Fail
    <3>3. Failed(work[w]) \in Jobs /\ Failed(work[w]).step = "failed" /\ Failed(work[w]).event \in Event
      BY <3>1, FailedJob
    <3> QED
      BY <3>2, <3>3, LeaveInv
  <2> QED
    BY <1>1, <2>1, <2>2, ClaimInv, OpenInv, SkipInv, CommitInv, ReportInv
       DEF EventsLoop, Finish, Report
<1>2. ASSUME NEW w \in Worker, Crash(w) PROVE EInv'
  <2>1. work' = [work EXCEPT ![w] = Idle] /\ UNCHANGED <<rows, excluded>>
    BY <1>2 DEF Crash
  <2> QED
    BY <2>1, IdleJob, LeaveInv
<1>3. CASE Clock
  BY <1>3, ClockInv DEF Clock
<1>4. CASE Load
  BY <1>4, LoadInv DEF Load
<1>5. CASE Save
  BY <1>5, SaveInv DEF Save
<1>6. CASE UNCHANGED vars
  BY <1>6 DEF EInv, TypeOK, OneAnalyst, Held, FreshResult, Told, Works, vars
<1> QED
  BY <1>1, <1>2, <1>3, <1>4, <1>5, <1>6 DEF Next

LEMMA InvAlways == Spec => []EInv
  BY InitInv, NextInv, PTL DEF Spec

\* Whatever the workers, the loaders and the owner do (worker.go:99-152,
\* reconciliation.go, mail.go:326), the queue keeps its shape.
THEOREM TypeCorrect == Spec => []TypeOK
<1>1. EInv => TypeOK
  BY DEF EInv
<1> QED
  BY <1>1, InvAlways, PTL

\* For any number of workers, one at a time analyses an event (worker.go:119-120).
THEOREM OneAnalystAlways == Spec => []OneAnalyst
<1>1. EInv => OneAnalyst
  BY DEF EInv
<1> QED
  BY <1>1, InvAlways, PTL

\* A change of an event that the loaders stored is never covered by the result of
\* an analysis that did not see it (mail.go:327, worker.go:120, 369).
THEOREM FreshResultAlways == Spec => []FreshResult
<1>1. EInv => FreshResult
  BY DEF EInv
<1> QED
  BY <1>1, InvAlways, PTL

\* Repeated analysis creates no notifications (README.md:1005, worker.go:280).
THEOREM AnnouncedOnceAlways == Spec => []AnnouncedOnce
<1>1. EInv => AnnouncedOnce
  BY DEF EInv, Told, AnnouncedOnce
<1> QED
  BY <1>1, InvAlways, PTL

-----------------------------------------------------------------------------
(* Invitations. *)

\* Nobody is about to exclude an invitation.
Spared == \A w \in Worker : work[w].step = "analysing" /\ work[w].skip
                               => Kind[work[w].event] # "invitation"
KeptInv == InvitationKept /\ Spared

LEMMA KeptInit == Init => KeptInv
  BY DEF Init, KeptInv, InvitationKept, Spared, Idle

LEMMA KeptNext == EInv /\ KeptInv /\ [Next]_vars => KeptInv'
<1> SUFFICES ASSUME TypeOK, InvitationKept, Spared, [Next]_vars PROVE KeptInv'
  BY DEF EInv, KeptInv
\* A worker that leaves its event, or never had one to skip.
<1>1. ASSUME NEW w \in Worker, NEW x, work' = [work EXCEPT ![w] = x],
             x.step = "analysing" /\ x.skip => Kind[x.event] # "invitation"
      PROVE  Spared'
  <2> SUFFICES ASSUME NEW v \in Worker, work'[v].step = "analysing", work'[v].skip
               PROVE  Kind[work'[v].event] # "invitation"
    BY DEF Spared
  <2>1. CASE v = w
    BY <1>1, <2>1 DEF TypeOK
  <2>2. CASE v # w
    BY <1>1, <2>2 DEF TypeOK, Spared
  <2> QED
    BY <2>1, <2>2
<1>2. Idle.step = "idle"
  BY IdleJob
<1>3. ASSUME NEW w \in Worker, EventsLoop(w) PROVE KeptInv'
  <2>1. ASSUME NEW e \in Event, Claim(w, e) PROVE KeptInv'
    <3>1. Claimed(e, OneMore(attempts[e])).step = "claimed"
      BY ClaimedJob, OneMoreBounded DEF TypeOK
    <3>2. Spared'
      BY <1>1, <2>1, <3>1 DEF Claim
    <3>3. InvitationKept'
      BY <2>1 DEF Claim, InvitationKept, TypeOK
    <3> QED
      BY <3>2, <3>3 DEF KeptInv
  <2>2. CASE Open(w)
    <3> DEFINE e == work[w].event
               y == Analysing(work[w], content[e], Filtered(e, excluded), Historical(e))
    <3>1. e \in Event /\ work[w] \in Jobs
      BY <2>2, WorkerEvent DEF Open
    <3>2. content[e] \in 0..MaxContent /\ Filtered(e, excluded) \in BOOLEAN
          /\ Historical(e) \in BOOLEAN
      BY <3>1 DEF TypeOK, Filtered, Historical
    <3>3. y.event = e /\ y.skip = Filtered(e, excluded)
      BY <3>1, <3>2, AnalysingJob
    <3>4. y.skip => Kind[y.event] # "invitation"
      BY <3>3 DEF Filtered
    <3>5. work' = [work EXCEPT ![w] = y] /\ UNCHANGED <<rows, excluded>>
      BY <2>2 DEF Open
    <3>6. Spared'
      BY <1>1, <3>4, <3>5
    <3> QED
      BY <3>5, <3>6 DEF KeptInv, InvitationKept, rows
  <2>3. CASE LetGo(w)
    BY <1>1, <1>2, <2>3 DEF LetGo, KeptInv, InvitationKept, rows
  <2>4. CASE Skip(w)
    <3>1. work[w].event \in Event /\ Kind[work[w].event] # "invitation"
      BY <2>4, WorkerEvent DEF Skip, Spared
    <3>2. InvitationKept'
      BY <2>4, <3>1 DEF Skip, InvitationKept, TypeOK
    <3> QED
      BY <1>1, <1>2, <2>4, <3>2 DEF Skip, KeptInv
  <2>5. ASSUME NEW R \in SUBSET Event, Commit(w, R) PROVE KeptInv'
    <3>1. InvitationKept'
      BY <2>5 DEF Commit, InvitationKept, TypeOK
    <3> QED
      BY <1>1, <1>2, <2>5, <3>1 DEF Commit, KeptInv
  <2>6. CASE Fail(w)
    <3>1. Failed(work[w]).step = "failed"
      BY <2>6, WorkerEvent, FailedJob DEF Fail
    <3> QED
      BY <1>1, <2>6, <3>1 DEF Fail, KeptInv, InvitationKept, rows
  <2>7. CASE ScheduleRetry(w)
    <3>1. InvitationKept'
      BY <2>7 DEF ScheduleRetry, InvitationKept, TypeOK
    <3> QED
      BY <1>1, <1>2, <2>7, <3>1 DEF ScheduleRetry, KeptInv
  <2>8. CASE GiveUp(w)
    <3>1. InvitationKept'
      BY <2>8 DEF GiveUp, InvitationKept, TypeOK
    <3> QED
      BY <1>1, <1>2, <2>8, <3>1 DEF GiveUp, KeptInv
  <2>9. CASE CannotSchedule(w)
    BY <1>1, <1>2, <2>9 DEF CannotSchedule, KeptInv, InvitationKept, rows
  <2> QED
    BY <1>3, <2>1, <2>2, <2>3, <2>4, <2>5, <2>6, <2>7, <2>8, <2>9
       DEF EventsLoop, Finish, Report
<1>4. ASSUME NEW w \in Worker, Crash(w) PROVE KeptInv'
  BY <1>1, <1>2, <1>4 DEF Crash, KeptInv, InvitationKept, rows
<1>5. ASSUME NEW e \in Event, BackoffEnds(e) \/ ClaimAges(e) PROVE KeptInv'
  BY <1>5 DEF BackoffEnds, ClaimAges, KeptInv, InvitationKept, Spared
<1>6. ASSUME NEW e \in Event, Arrive(e) \/ Change(e) \/ ExternalChange(e) PROVE KeptInv'
  <2>1. work' = work
    BY <1>6 DEF Arrive, Change, ExternalChange
  <2>2. CASE Arrive(e)
    BY <2>1, <2>2 DEF Arrive, KeptInv, InvitationKept, Spared, TypeOK
  <2>3. CASE Change(e)
    BY <2>1, <2>3 DEF Change, Requeued, KeptInv, InvitationKept, Spared, TypeOK
  <2>4. CASE ExternalChange(e)
    BY <2>1, <2>4 DEF ExternalChange, KeptInv, InvitationKept, Spared, TypeOK
  <2> QED
    BY <1>6, <2>2, <2>3, <2>4
<1>7. ASSUME NEW S \in SUBSET Event, SaveFilters(S) \/ SaveIdentity(S) PROVE KeptInv'
  <2>1. CASE SaveFilters(S)
    <3>1. \A e \in Event : Kind[e] = "invitation" => state'[e] = state[e]
      BY <2>1 DEF SaveFilters, Matching, Unmatched, Examined, TypeOK
    <3> QED
      BY <2>1, <3>1 DEF SaveFilters, KeptInv, InvitationKept, Spared
  <2>2. CASE SaveIdentity(S)
    BY <2>2 DEF SaveIdentity, KeptInv, InvitationKept, Spared, TypeOK
  <2> QED
    BY <1>7, <2>1, <2>2
<1>8. CASE UNCHANGED vars
  BY <1>8 DEF KeptInv, InvitationKept, Spared, vars
<1> QED
  BY <1>3, <1>4, <1>5, <1>6, <1>7, <1>8 DEF Next, Clock, Load, Save

\* An invitation is neither excluded nor given up, whatever filters are saved while
\* it is claimed, analysed or loaded again (worker.go:208-230, reconciliation.go:7-33).
THEOREM InvitationKeptAlways == Spec => []InvitationKept
<1>1. KeptInv => InvitationKept
  BY DEF KeptInv
<1> QED
  BY <1>1, KeptInit, KeptNext, InvAlways, PTL DEF Spec
=============================================================================
