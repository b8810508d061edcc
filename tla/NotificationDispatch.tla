------------------------- MODULE NotificationDispatch -------------------------
(***************************************************************************)
(* The outbox of mobile notifications and the worker job that empties it   *)
(* (backend/internal/server/notification_policy.go).                       *)
(*                                                                         *)
(* Business transactions put one row per object into notification_queue.   *)
(* dispatchNotifications runs two transactions, both under the row lock of *)
(* notification_policy_state taken with SKIP LOCKED: the first moves the   *)
(* queue into a batch with one delivery per device, the second hands the   *)
(* undelivered ones to the push provider.  The second one talks to the     *)
(* provider while its transaction is open, so it is split here into the    *)
(* steps between which time passes, devices and settings change, and the   *)
(* process may die.  The first one has no outside effect and is atomic.    *)
(***************************************************************************)
EXTENDS Integers, FiniteSets

CONSTANTS
    Object,       \* tasks, meetings, chat requests and plans a notice is about
    Endpoint,     \* devices, "direct:<id>" or "gateway:<id>"
    Worker,       \* worker processes; a restart may briefly overlap two
    ImportantKind, OtherKind, \* the kinds importantNotification tells apart
    Mode,         \* notification modes the owner can choose
    Window,       \* notificationWindow of each mode
    Interval,     \* notificationInterval of each mode
    TTL,          \* a notice lives five minutes at the provider
    RetryDelay,   \* next_attempt_at after an attempt
    Fresh,        \* age below which a lone notice keeps its own kind
    Retention,    \* completed batches are deleted after it
    Day, QuietStart, QuietEnd, \* the clock and the quiet hours on it
    Churn,        \* what changes meanwhile: "settings", "devices", "objects"
    MaxTime, MaxSerial         \* bounds of the model

Kind == ImportantKind \union OtherKind
Sync == "SYNC"
DailyPlan == "DAILY_PLAN_READY"
NoObject == "sync-object"   \* the fresh UUID a summary carries
None == -1                  \* SQL NULL in a timestamp column
NoRow == [none |-> TRUE]    \* no row under this key
BatchId == 1..MaxSerial

ASSUME KindAssumption ==
    /\ Sync \notin Kind
    /\ NoObject \notin Object
ASSUME TimeAssumption ==
    /\ Window \in [Mode -> Nat] /\ Interval \in [Mode -> Nat]
    /\ TTL \in Nat \ {0} /\ RetryDelay \in Nat /\ Fresh \in Nat /\ Retention \in Nat
    /\ Day \in Nat \ {0} /\ QuietStart \in 0..(Day - 1) /\ QuietEnd \in 0..(Day - 1)
    /\ QuietStart # QuietEnd
    /\ MaxTime \in Nat /\ MaxSerial \in Nat

VARIABLES
    now,        \* the clock
    mode, quietOn,  \* the notification settings
    relevant,   \* objects notificationRelevant accepts
    targets,    \* devices the transport lists now
    queue,      \* notification_queue, by object
    batch,      \* notification_batches with their items and deliveries, by id
    nextSend,   \* notification_policy_state.next_send_at
    serial,     \* UUIDs drawn so far: one per prepared batch or summary
    tx,         \* the open delivery transaction of each worker
    sent,       \* history: notices the provider took
    receipts,   \* history: notice ids whose acceptance was committed
    lastPush    \* history: when each device last had an acceptance committed

envVars == <<now, mode, quietOn, relevant, targets>>
dbVars == <<queue, batch, nextSend, serial>>
historyVars == <<sent, receipts, lastPush>>
vars == <<envVars, dbVars, tx, historyVars>>

-----------------------------------------------------------------------------
(* Time and quiet hours *)

QuietAt(t) == LET clock == t % Day IN
    IF QuietStart < QuietEnd
      THEN QuietStart <= clock /\ clock < QuietEnd
      ELSE QuietStart <= clock \/ clock < QuietEnd

notificationQuiet == quietOn /\ QuietAt(now)

\* The next start of quiet hours strictly after t.
QuietBoundary(t) == LET today == t - (t % Day) + QuietStart IN
    IF today > t THEN today ELSE today + Day

\* Mutant: the quiet hours do not shorten a notice's life.
ExpiryUnclipped == now + TTL

notificationExpiry == LET expires == now + TTL IN
    IF quietOn /\ QuietBoundary(now) < expires THEN QuietBoundary(now) ELSE expires

-----------------------------------------------------------------------------
(* Rows *)

\* A table is a function of its keys to rows or NoRow.
Table(K, R) == [K -> R \union {NoRow}]
Rows(f) == {k \in DOMAIN f : f[k] # NoRow}
RestrictTo(f, S) == [k \in DOMAIN f |-> IF k \in S THEN f[k] ELSE NoRow]

QueueRow == [kind : Kind, important : BOOLEAN, created : Nat]
Item == [kind : Kind, important : BOOLEAN]
Delivery == [id : Endpoint \X BatchId, accepted : Nat \union {None}]

Open == {b \in Rows(batch) : batch[b].completed = None}
Pending(b) == {e \in Rows(batch[b].deliveries) : batch[b].deliveries[e].accepted = None}

\* A row or an item survives the mode and the relevance check.
Admitted(o, row) ==
    /\ o \in relevant
    /\ mode # "important" \/ row.important \/ row.kind = DailyPlan

Eligible == {o \in Rows(queue) : Admitted(o, queue[o])}
Ready == \E o \in Eligible : now - queue[o].created >= Window[mode]
Chosen == IF Ready THEN Eligible ELSE {}

Kept == {b \in Rows(batch) : batch[b].completed = None \/ batch[b].completed >= now - Retention}
LockFree == \A w \in Worker : tx[w] = NoRow

NoticeOf(b, e) ==
    [to |-> e, id |-> batch[b].deliveries[e].id, kind |-> batch[b].kind,
     object |-> batch[b].object, expires |-> batch[b].expires]

-----------------------------------------------------------------------------
Init ==
    /\ now = 0 /\ mode \in Mode /\ quietOn \in BOOLEAN
    /\ relevant = Object /\ targets \in SUBSET Endpoint
    /\ queue = [o \in Object |-> NoRow]
    /\ batch = [b \in BatchId |-> NoRow] /\ nextSend = 0 /\ serial = 0
    /\ tx = [w \in Worker |-> NoRow]
    /\ sent = {} /\ receipts = {} /\ lastPush = [e \in Endpoint |-> None]

(* The environment: business transactions, devices, the owner, the clock. *)

\* A business transaction commits a notification; a second one for the same
\* object coalesces with the first and keeps its place in the queue.
Coalesced(o, k) ==
    [kind |-> k,
     important |-> k \in ImportantKind \/ (o \in Rows(queue) /\ queue[o].important),
     created |-> IF o \in Rows(queue) THEN queue[o].created ELSE now]

queueNotification(o, k) ==
    /\ queue' = [queue EXCEPT ![o] = Coalesced(o, k)]
    /\ UNCHANGED <<envVars, batch, nextSend, serial, tx, historyVars>>

\* A task is closed or reopened, a meeting cancelled, a plan superseded.
ObjectChanges(o) ==
    /\ "objects" \in Churn
    /\ relevant' = IF o \in relevant THEN relevant \ {o} ELSE relevant \union {o}
    /\ UNCHANGED <<now, mode, quietOn, targets, dbVars, tx, historyVars>>

\* A device is registered or removed, or the gateway is switched on or off.
DevicesChange(T) ==
    /\ "devices" \in Churn
    /\ targets' = T
    /\ UNCHANGED <<now, mode, quietOn, relevant, dbVars, tx, historyVars>>

SaveSettings(m, q) ==
    /\ "settings" \in Churn
    /\ mode' = m /\ quietOn' = q
    /\ UNCHANGED <<now, relevant, targets, dbVars, tx, historyVars>>

Tick ==
    /\ now < MaxTime
    /\ now' = now + 1
    /\ UNCHANGED <<mode, quietOn, relevant, targets, dbVars, tx, historyVars>>

-----------------------------------------------------------------------------
(* First transaction: from the queue to a batch. *)

\* It proceeds only outside quiet hours, with no unexpired batch in flight
\* and not before next_send_at.
\* Mutant: the state row is read without FOR UPDATE.
MayPrepareUnlocked(w) ==
    tx[w] = NoRow /\ ~notificationQuiet /\ (\A b \in Open : batch[b].expires <= now)
    /\ now >= nextSend

MayPrepare(w) ==
    /\ tx[w] = NoRow /\ LockFree
    /\ ~notificationQuiet
    /\ \A b \in Open : batch[b].expires <= now
    /\ now >= nextSend

\* Whatever stops it before, old completed batches have been deleted already.
PreparePostponed(w) ==
    /\ tx[w] = NoRow /\ LockFree
    /\ batch' = RestrictTo(batch, Kept)
    /\ UNCHANGED <<envVars, queue, nextSend, serial, tx, historyVars>>

\* Nothing to send, no device, or (at any time) a transport that cannot be
\* asked: the rows that failed the check are gone all the same, because the
\* transaction commits.
PrepareNothing(w) ==
    /\ MayPrepare(w)
    /\ queue' = RestrictTo(queue, Eligible)
    /\ batch' = RestrictTo(batch, Kept)
    /\ UNCHANGED <<envVars, nextSend, serial, tx, historyVars>>

\* What a new batch announces: a lone fresh object by name, otherwise a sync.
Announced == IF \E o \in Chosen : Chosen = {o} /\ now - queue[o].created < Fresh
    THEN LET o == CHOOSE o \in Chosen : TRUE IN [kind |-> queue[o].kind, object |-> o]
    ELSE [kind |-> Sync, object |-> NoObject]

ItemOf(o) == [kind |-> queue[o].kind, important |-> queue[o].important]
NewDelivery(e) == [id |-> <<e, serial + 1>>, accepted |-> None]

TakeChosen ==
    /\ queue' = RestrictTo(queue, Eligible \ Chosen)
    /\ nextSend' = now + Interval[mode]
    /\ serial < MaxSerial /\ serial' = serial + 1

NewBatch ==
    [kind |-> Announced.kind, object |-> Announced.object,
     expires |-> notificationExpiry, nextTry |-> now, completed |-> None,
     items |-> [o \in Object |-> IF o \in Chosen THEN ItemOf(o) ELSE NoRow],
     deliveries |-> [e \in Endpoint |-> IF e \in targets THEN NewDelivery(e) ELSE NoRow]]

PrepareBatch(w) ==
    /\ MayPrepare(w)
    /\ Open = {} /\ Chosen # {} /\ targets # {}
    /\ TakeChosen
    /\ batch' = [RestrictTo(batch, Kept) EXCEPT ![serial + 1] = NewBatch]
    /\ UNCHANGED <<envVars, tx, historyVars>>

\* Mutants: a summary keeps the old ids; it reopens accepted deliveries under them.
RenewedSameId(old) == [e \in Endpoint |->
    IF e \in Rows(old) THEN old[e] ELSE IF e \in targets THEN NewDelivery(e) ELSE NoRow]
RenewedReopened(old) == [e \in Endpoint |->
    IF e \in Rows(old) /\ (old[e].accepted # None)
      THEN IF Chosen = {} THEN old[e] ELSE [old[e] EXCEPT !.accepted = None]
      ELSE IF e \in Rows(old) \union targets THEN NewDelivery(e) ELSE NoRow]

\* Deliveries of an expired batch as a current summary: every undelivered one
\* gets a new id, the delivered ones only when there is something new to tell.
Renewed(old) == [e \in Endpoint |->
    IF e \in Rows(old) /\ old[e].accepted # None /\ Chosen = {} THEN old[e]
    ELSE IF e \in Rows(old) \union targets THEN NewDelivery(e) ELSE NoRow]

\* Mutant: a summary tells only what is new.
SummaryOfNew(old) ==
    [kind |-> Sync, object |-> NoObject,
     expires |-> notificationExpiry, nextTry |-> now, completed |-> old.completed,
     items |-> [o \in Object |-> IF o \in Chosen THEN ItemOf(o) ELSE NoRow],
     deliveries |-> Renewed(old.deliveries)]

Summary(old) ==
    [kind |-> Sync, object |-> NoObject,
     expires |-> notificationExpiry, nextTry |-> now, completed |-> old.completed,
     items |-> [o \in Object |-> IF o \in Chosen THEN ItemOf(o) ELSE old.items[o]],
     deliveries |-> Renewed(old.deliveries)]

PrepareSummary(w) ==
    /\ MayPrepare(w)
    /\ targets # {}
    /\ TakeChosen
    /\ \E active \in Open :
          /\ \A b \in Open : active <= b
          /\ batch' = [RestrictTo(batch, Kept) EXCEPT ![active] = Summary(@)]
    /\ UNCHANGED <<envVars, tx, historyVars>>

-----------------------------------------------------------------------------
(* Second transaction: from a batch to the provider. *)

Due(b) ==
    /\ b \in Open /\ batch[b].nextTry <= now /\ batch[b].expires > now
    /\ \A c \in Open : batch[c].nextTry <= now /\ batch[c].expires > now => b <= c

MayDeliver(w) == tx[w] = NoRow /\ LockFree /\ ~notificationQuiet

Current(b) == {o \in Rows(batch[b].items) : Admitted(o, batch[b].items[o])}
Pruned(b) == [batch[b] EXCEPT !.items = RestrictTo(@, Current(b))]
Moot(b) == Current(b) = {} \/ (batch[b].kind # Sync /\ batch[b].object \notin relevant)

\* Nothing in the batch matters any more: it is completed without a push.
DeliverMoot(w) ==
    /\ MayDeliver(w)
    /\ \E b \in BatchId :
          /\ Due(b) /\ Moot(b)
          /\ batch' = [batch EXCEPT ![b] = [Pruned(b) EXCEPT !.completed = now]]
    /\ UNCHANGED <<envVars, queue, nextSend, serial, tx, historyVars>>

\* The transport cannot be asked: only the pruning of the items commits.
DeliverWithoutTransport(w) ==
    /\ MayDeliver(w)
    /\ \E b \in BatchId :
          /\ Due(b) /\ ~Moot(b)
          /\ batch' = [batch EXCEPT ![b] = Pruned(b)]
    /\ UNCHANGED <<envVars, queue, nextSend, serial, tx, historyVars>>

OpenAttempt(b) ==
    [batch |-> b, start |-> now, interval |-> Interval[mode], items |-> Current(b),
     available |-> targets, left |-> Pending(b) \intersect targets,
     took |-> [e \in Endpoint |-> None], next |-> nextSend]

DeliverBegin(w) ==
    /\ MayDeliver(w)
    /\ \E b \in BatchId : Due(b) /\ ~Moot(b) /\ tx' = [tx EXCEPT ![w] = OpenAttempt(b)]
    /\ UNCHANGED <<envVars, dbVars, historyVars>>

\* Mutant: an acceptance does not push next_send_at further.
LaterIgnored(s, t) == s
Later(s, t) == IF s < t THEN t ELSE s

Called(t, e, answered) ==
    [t EXCEPT !.left = @ \ {e},
              !.took[e] = IF answered THEN now ELSE None,
              !.next = IF answered THEN Later(@, now + t.interval) ELSE @]

\* One call of the provider.  It may take the notice and the answer still get
\* lost; only an answered call counts as accepted.
Send(w, e) ==
    /\ tx[w] # NoRow /\ e \in tx[w].left
    /\ \E heard, answered \in BOOLEAN :
          /\ answered => heard
          /\ sent' = IF heard THEN sent \union {NoticeOf(tx[w].batch, e)} ELSE sent
          /\ tx' = [tx EXCEPT ![w] = Called(@, e, answered)]
    /\ UNCHANGED <<envVars, dbVars, receipts, lastPush>>

\* The deliveries a committing attempt leaves: devices gone from the transport
\* are dropped, answered calls are marked accepted.
Settled(t) == LET old == batch[t.batch].deliveries IN
    [e \in Endpoint |->
        IF e \in Pending(t.batch) \ t.available THEN NoRow
        ELSE IF t.took[e] # None THEN [old[e] EXCEPT !.accepted = t.start]
        ELSE old[e]]

Finished(t) == \A e \in Rows(Settled(t)) : Settled(t)[e].accepted # None
Attempted(t) ==
    [batch[t.batch] EXCEPT
        !.items = RestrictTo(@, t.items), !.deliveries = Settled(t),
        !.nextTry = t.start + RetryDelay,
        !.completed = IF Finished(t) THEN t.start ELSE None]
Took(t) == {e \in Endpoint : t.took[e] # None}

DeliverCommit(w) ==
    /\ tx[w] # NoRow /\ tx[w].left = {}
    /\ LET t == tx[w] IN
        /\ batch' = [batch EXCEPT ![t.batch] = Attempted(t)]
        /\ nextSend' = t.next
        /\ receipts' = receipts \union {batch[t.batch].deliveries[e].id : e \in Took(t)}
        /\ lastPush' = [e \in Endpoint |-> IF e \in Took(t) THEN t.took[e] ELSE lastPush[e]]
    /\ tx' = [tx EXCEPT ![w] = NoRow]
    /\ UNCHANGED <<envVars, queue, serial, sent>>

\* The process dies or is stopped: the database rolls back, the provider not.
DeliverAbort(w) ==
    /\ tx[w] # NoRow
    /\ tx' = [tx EXCEPT ![w] = NoRow]
    /\ UNCHANGED <<envVars, dbVars, historyVars>>

-----------------------------------------------------------------------------
Environment ==
    \/ \E o \in Object, k \in Kind : queueNotification(o, k)
    \/ \E o \in Object : ObjectChanges(o)
    \/ \E T \in SUBSET Endpoint : DevicesChange(T)
    \/ \E m \in Mode, q \in BOOLEAN : SaveSettings(m, q)
    \/ Tick

dispatchNotifications(w) ==
    \/ PreparePostponed(w) \/ PrepareNothing(w)
    \/ PrepareBatch(w) \/ PrepareSummary(w)
    \/ DeliverMoot(w) \/ DeliverWithoutTransport(w) \/ DeliverBegin(w)
    \/ \E e \in Endpoint : Send(w, e)
    \/ DeliverCommit(w) \/ DeliverAbort(w)

Next == Environment \/ \E w \in Worker : dispatchNotifications(w)

Spec == Init /\ [][Next]_vars

-----------------------------------------------------------------------------
(* Properties *)

Notice == [to : Endpoint, id : Endpoint \X BatchId, kind : Kind \union {Sync},
           object : Object \union {NoObject}, expires : Nat]
Batch == [kind : Kind \union {Sync}, object : Object \union {NoObject},
          expires : Nat, nextTry : Nat, completed : Nat \union {None},
          items : Table(Object, Item), deliveries : Table(Endpoint, Delivery)]
OpenTx == [batch : BatchId, start : Nat, interval : Nat, items : SUBSET Object,
           available : SUBSET Endpoint, left : SUBSET Endpoint,
           took : [Endpoint -> Nat \union {None}], next : Nat]

\* Every variable holds rows of its table's shape.
TypeOK ==
    /\ now \in Nat /\ mode \in Mode /\ quietOn \in BOOLEAN
    /\ relevant \in SUBSET Object /\ targets \in SUBSET Endpoint
    /\ queue \in Table(Object, QueueRow) /\ batch \in Table(BatchId, Batch)
    /\ nextSend \in Nat /\ serial \in 0..MaxSerial
    /\ tx \in Table(Worker, OpenTx)
    /\ sent \in SUBSET Notice /\ receipts \in SUBSET (Endpoint \X BatchId)
    /\ lastPush \in [Endpoint -> Nat \union {None}]

\* At most one batch is undelivered, and while a worker is talking to the
\* provider it is the batch it works on: dispatchNotifications never starts a
\* second batch over an active one (notification_policy.go, first query).
OneOpenBatch ==
    /\ \A b, c \in Open : b = c
    /\ \A w \in Worker : tx[w] # NoRow => tx[w].batch \in Open

\* One notification id always means one device, one content and one expiry, so
\* a provider or the gateway may discard a repeated id ("IDs and expiry must
\* remain stable across retries", gatewaylink/notifications.go).
StableNotice == \A m, n \in sent : m.id = n.id => m = n

\* What the database records as accepted, the provider took: the answer of one
\* transaction never marks a delivery another transaction has replaced.
AcceptedWasSent ==
    \A b \in Rows(batch) : \A e \in Rows(batch[b].deliveries) \ Pending(b) :
        \E n \in sent : n.id = batch[b].deliveries[e].id /\ n.to = e

\* A committed acceptance is final: a failing device never makes a successful
\* one receive the same notice again.
NoResend ==
    \A b \in Rows(batch) : \A e \in Pending(b) :
        batch[b].deliveries[e].id \notin receipts

\* Two accepted pushes of one device are at least the shortest interval of the
\* modes apart, whatever retries, summaries and mode changes lie between.
Spacing ==
    [][\A e \in Endpoint : lastPush[e] # None /\ lastPush'[e] # lastPush[e] =>
        \E m \in Mode : lastPush'[e] - lastPush[e] >= Interval[m]]_vars

\* A notice handed to the provider expires before quiet hours start: no minute
\* of its remaining life is quiet.
QuietAtProvider ==
    [][\A n \in sent' \ sent : \A t \in now..(n.expires - 1) :
        ~(quietOn /\ QuietAt(t))]_vars

-----------------------------------------------------------------------------
(* What the outbox promises *)

InFlight(b) == IF Rows(batch[b].deliveries) = Pending(b) THEN Rows(batch[b].items) ELSE {}

\* Every device that waits for the batch was gone when the attempt began.
Deserted(t) == Pending(t.batch) \intersect t.available = {}

\* Rows that fail the check now, or failed it when the open attempt began, and rows
\* nobody is left to be told of: the attempt drops the deliveries of devices that are
\* gone and completes a batch without deliveries.
Worthless == {o \in Object :
    \/ o \in Rows(queue) /\ ~Admitted(o, queue[o])
    \/ \E b \in Open : o \in Rows(batch[b].items) \ Current(b)
    \/ \E w \in Worker : tx[w] # NoRow /\ (o \notin tx[w].items \/ Deserted(tx[w]))}

Outbox == INSTANCE AlertOutbox WITH
    Alert <- Object,
    queued <- Rows(queue),
    outgoing <- UNION {InFlight(b) : b \in Open},
    worthless <- Worthless,
    answered <- Cardinality(receipts)

\* No alert is lost: it stays in the queue or in the open batch until a device
\* accepts a notice of its batch, unless its object stops being worth a push or
\* every device its batch was for is gone.
AlertKept == Outbox!Spec
=============================================================================
